CONSTANTS
    DiskFull = DiskFull
    Disk_full = Disk_full
    Reboot = Reboot
    Titles <- MCTitles
    Name <- MCName
    Hits <- MCHits
    NoFilter = "all"
    Dirs = {"d"}
    MaxCases = 2
    MaxTexts = 2
    MaxFaults = 0
    MaxForeign = 1
SPECIFICATION Spec
INVARIANT CreatesItsTest
