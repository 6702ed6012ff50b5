CONSTANTS
    Menu <- MCMenu
    Paths = {"a", "b", "gone"}
    Missing = "gone"
    Root = TRUE
    Workers = 2
    LeakRate = 2
    LeakMax = 3
    LeakDuration = 3
SPECIFICATION Spec
INVARIANTS
    DoneMeansThere
    Repeatable
PROPERTIES EveryJobEnds
CHECK_DEADLOCK FALSE
