CONSTANTS
    n1 = n1
    n2 = n2
    t1 = t1
    t2 = t2
    Names = {n1, n2}
    Threads = {t1, t2}
    Kinds <- MCKinds
    Lines = {l1, l2}
    NoLine = NoLine
    MaxEvents = 2
    MaxFrames = 2
    MaxKeys = 4
SPECIFICATION Spec
INVARIANTS SelectionShown OverrideOfSelected
PROPERTIES PopupKeepsEvent
