------------------------------ MODULE MCLTree ------------------------------
EXTENDS LTree

File(up, size, ino, time) ==
    [up |-> up, kind |-> "file", size |-> size, dev |-> 1, ino |-> ino, hidden |-> FALSE, time |-> time,
     readable |-> TRUE]
Dir(up, dev, ino) ==
    [up |-> up, kind |-> "dir", size |-> 1, dev |-> dev, ino |-> ino, hidden |-> FALSE, time |-> 1,
     readable |-> TRUE]

\* 1 has the directories 2 and 5; 2 has 3, an empty directory, and the file 4, to which
\* 6 in 5 is a hard link.  In the second, 3 may not be read and has the file 4, and 5 is a
\* file system whose root has the inode number of 2 and has a hidden file.
MCSystems == {<<Dir(0, 1, 2), Dir(1, 1, 3), Dir(2, 1, 4), File(2, 2, 7, 2), Dir(1, 1, 5), File(5, 2, 7, 2), None>>,
              <<Dir(0, 1, 2), Dir(1, 1, 3), [Dir(2, 1, 4) EXCEPT !.readable = FALSE], File(3, 2, 7, 3),
                Dir(1, 2, 3), [File(5, 4, 7, 2) EXCEPT !.dev = 2, !.hidden = TRUE], None>>}

\* A directory may be made in 2, or something moved there.
MCComing == {[path |-> 7, file |-> [Dir(2, 1, 9) EXCEPT !.size = 4]]}

Default == [operands |-> <<1>>, all |-> FALSE, dirsOnly |-> FALSE, asFile |-> FALSE, oneFs |-> FALSE,
            dirsFirst |-> FALSE, reverse |-> FALSE, du |-> FALSE, depth |-> 1, key |-> "name"]
Full == [Default EXCEPT !.all = TRUE, !.du = TRUE, !.depth = 0]

MCRequests == {Default, Full,
               [Full EXCEPT !.operands = <<2, 1>>], [Full EXCEPT !.operands = <<5, 1>>, !.oneFs = TRUE],
               [Full EXCEPT !.dirsOnly = TRUE], [Full EXCEPT !.key = "none"], [Full EXCEPT !.asFile = TRUE],
               [Full EXCEPT !.depth = 2, !.key = "size", !.dirsFirst = TRUE],
               [Full EXCEPT !.key = "time", !.reverse = TRUE, !.all = FALSE]}
=============================================================================
