CONSTANTS
    Tids = {1, 2, 3}
    First = 1
    MaxLines = 3
    MaxExits = 2
SPECIFICATION Spec
INVARIANTS ProcessesRight GraphShowsAll
CHECK_DEADLOCK FALSE
