CONSTANTS
    NoFile = NoFile
    OldFile <- MCOldFile
    FileEvents = 4
    FileFrames = 2
    Scripts <- MCScripts
    PipeSize = 3
    MaxLines = 5
SPECIFICATION Spec
INVARIANTS NothingLost SourcesFresh SaveIsAtomic
PROPERTIES LogIsParse EveryLineShown
CHECK_DEADLOCK FALSE
