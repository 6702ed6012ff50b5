SPECIFICATION Spec
CONSTANTS
    Paths = {1, 2, 3, 4, 5, 6, 7}
    Systems <- MCSystems
    Coming <- MCComing
    Requests <- MCRequests
    MaxChanges = 3
INVARIANTS PrefixRight TotalsRight Complete
CHECK_DEADLOCK FALSE
