SPECIFICATION Spec
CONSTANTS
    Pids = {1, 2, 3, 4}
    Self = 2
    Names = {1, 2}
    Filters = {0, 1}
    Worlds <- MCWorlds
    Busy = {3}
    MaxChanges = 2
    Body = 3
    TreeBody = 3
    PageSize = 3
    ChainMax = 4
    Panels = 2
INVARIANTS KillsWhatIsShown ScreenRight
PROPERTIES TreeCursorStays Appears
CHECK_DEADLOCK FALSE
