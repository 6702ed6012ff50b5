CONSTANTS
    DiskFull = DiskFull
    Disk_full = Disk_full
    Reboot = Reboot
    Titles <- MCTitles
    Name <- MCName
    Hits <- MCHits
    NoFilter = "all"
    Dirs = {"d"}
    MaxCases = 2
    MaxTexts = 2
    MaxFaults = 1
    MaxForeign = 1
SPECIFICATION Spec
SYMMETRY Symmetry
CONSTRAINT NothingHidden
INVARIANTS InStep ForeignSafe
PROPERTIES TextKept
