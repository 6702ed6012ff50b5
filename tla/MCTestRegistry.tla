--------------------------- MODULE MCTestRegistry ---------------------------
EXTENDS TestRegistry

\* Two titles with one file name, which may change places, and a third.
CONSTANTS DiskFull, Disk_full, Reboot
MCTitles == {DiskFull, Disk_full, Reboot}
MCName == DiskFull :> "disk_full" @@ Disk_full :> "disk_full" @@ Reboot :> "reboot"
MCHits == [all |-> MCTitles, disk |-> {DiskFull, Disk_full}]
Symmetry == Permutations({DiskFull, Disk_full})

\* MCTestRegistry does not follow what comes after a test was added that the filter hides,
\* of which InStep and TextKept say nothing; MCTestRegistryCreate does.
NothingHidden == ~hidden
=============================================================================
