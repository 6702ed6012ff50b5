------------------------------- MODULE LTree -------------------------------
(***************************************************************************)
(* ltree: the walk over the operands, the totals of --du with their cache, *)
(* and the branches drawn before each name, while the files change.        *)
(*                                                                         *)
(* The members of Paths are the paths of the tree, in the order of the     *)
(* locale; files of the same device and inode are one (hard links), and a  *)
(* directory has one path.  Permissions stay as they are, and no inode     *)
(* number is used again.  Colours, columns and suffixes are left out; the  *)
(* level of a line is its depth, 0 for an operand.                         *)
(***************************************************************************)
EXTENDS Naturals, Sequences, SequencesExt, FiniteSets, FiniteSetsExt

CONSTANTS Paths,       \* paths, positive numbers
          Systems,     \* the trees there may be, with a file at every path or None
          Coming,      \* what may be made meanwhile, and where: [path, file]
          Requests,    \* [operands, all, dirsOnly, asFile, oneFs, dirsFirst, reverse, du, depth, key]
          MaxChanges   \* bounds the changes of the files meanwhile

ASSUME LTreeAssumption == Paths \subseteq Nat \ {0} /\ MaxChanges \in Nat

VARIABLES
    fs,          \* per path: [up, kind, size, dev, ino, hidden, time, readable], or None
    changes,
    made         \* the paths that something was made at, or moved to
world == <<fs, changes, made>>

VARIABLES
    options,     \* the request
    at,          \* operands done, counting the one being walked
    stack,       \* walk_directory's frames: [dir, entries, next]
    lastAt,      \* last_at_depth, which the frames share
    operand,     \* the operand's st, until its line is printed
    sums,        \* directory_total's frames: [place in the cache, todo, size]
    answer,      \* what it returned, <<>> when it was not called
    cache,       \* size_cache: <<dev, ino>> to size
    out,         \* the lines printed
    totals,
    ended

total == <<sums, answer, cache>>
walk  == <<options, at, stack, lastAt, operand, out, totals, ended>>
vars  == <<world, total, walk>>

None == [kind |-> "none"]
There(p) == fs[p].kind # "none"
IsDir(p) == fs[p].kind = "dir"
CanOpen(p) == IsDir(p) /\ fs[p].readable
Children(p) == {c \in Paths : There(c) /\ fs[c].up = p}
Unread == <<[path |-> 0]>>

-----------------------------------------------------------------------------
(* The entries of a directory.                                             *)

\* entry_compare: what could not be looked at goes last, -r leaves that and
\* --dirs-first alone, and with -f any order will do.
Precedes(a, b) ==
    LET dirs  == a.kind = "dir" /\ b.kind # "dir"
        dirs2 == b.kind = "dir" /\ a.kind # "dir"
        known == a.kind # "none" /\ b.kind # "none"
        first == IF known /\ options.key = "time" /\ a.time # b.time THEN a.time > b.time
                 ELSE IF known /\ options.key = "size" /\ a.size # b.size THEN a.size > b.size
                 ELSE a.path < b.path
        none  == options.key = "none"
    IN IF none /\ ~options.dirsFirst THEN TRUE
       ELSE IF options.dirsFirst /\ (dirs \/ dirs2) THEN dirs
       ELSE IF (a.kind = "none") # (b.kind = "none") THEN b.kind = "none"
       ELSE none \/ (first # options.reverse)

Entry(p) == [path |-> p, kind |-> fs[p].kind, size |-> fs[p].size, dev |-> fs[p].dev, time |-> fs[p].time]
Lost(p) == [path |-> p, kind |-> "none", size |-> 0, dev |-> 0, time |-> 0]
Nobody == Lost(0)

Orders(S) == {s \in [1 .. Cardinality(S) -> S] :
                 \A i, j \in 1 .. Cardinality(S) : i < j => s[i] # s[j] /\ Precedes(s[i], s[j])}

Wanted(p) == {c \in Children(p) : options.all \/ ~fs[c].hidden}
Looked(S, gone) == {e \in {IF c \in gone THEN Lost(c) ELSE Entry(c) : c \in S} :
                       options.dirsOnly => e.kind = "dir"}

\* Mutant: the first entry that cannot be looked at ends the reading.
BreakingReadEntries(p, gone) == Looked({c \in Wanted(p) : \A g \in gone : c <= g}, gone)

\* read_entries, with gone removed between readdir and lstat.
ReadEntries(p, gone) == Looked(Wanted(p), gone)

-----------------------------------------------------------------------------
(* The walk.                                                               *)

Top == stack[Len(stack)]
Level == Len(stack)

\* print_metadata, print_prefix, print_name: one line, for the entry e.
Line(e, n, level, size, isLast) ==
    [path |-> e.path, level |-> level, size |-> size, dir |-> e.kind = "dir", dev |-> e.dev, operand |-> n,
     last |-> [l \in 1 .. level |-> IF l = level THEN isLast ELSE lastAt[l]]]

\* The device of the operand that is walked.
Root == IF stack = <<>> THEN operand.dev ELSE stack[1].dev

Frame(p, d) == [dir |-> p, dev |-> d, entries |-> Unread, next |-> 1]

\* The line that is printed next, and whether its total is asked for before.
NextLine == IF stack = <<>> THEN operand
           ELSE IF Top.entries # Unread /\ Top.next <= Len(Top.entries) THEN Top.entries[Top.next]
           ELSE Nobody
Totalled(e) == options.du /\ e.kind = "dir"
Ready(e) == e # Nobody /\ (Totalled(e) => answer # <<>>)
Size(e) == IF Totalled(e) THEN answer[1] ELSE e.size

\* lstat of the next operand.
NextOperand ==
    /\ stack = <<>> /\ operand = Nobody /\ at < Len(options.operands)
    /\ at' = at + 1
    /\ LET p == options.operands[at + 1] IN
       IF There(p) THEN operand' = Entry(p) /\ UNCHANGED totals
       ELSE totals' = [totals EXCEPT !.errors = @ + 1] /\ UNCHANGED operand
    /\ UNCHANGED <<world, total, options, stack, lastAt, out, ended>>

ShowOperand ==
    /\ stack = <<>> /\ Ready(operand)
    /\ out' = Append(out, Line(operand, at, 0, Size(operand), TRUE))
    /\ IF operand.kind = "dir" /\ ~options.asFile
       THEN stack' = <<Frame(operand.path, operand.dev)>> /\ UNCHANGED totals
       ELSE /\ totals' = [totals EXCEPT !.files = @ + IF options.dirsOnly THEN 0 ELSE 1]
            /\ UNCHANGED stack
    /\ operand' = Nobody /\ answer' = <<>>
    /\ UNCHANGED <<world, options, at, lastAt, sums, cache, ended>>

\* opendir fails for a directory that was removed or may not be read.  With --dirs-only errno
\* is left as the lstat of an entry passed over has set it, and taken for an error of readdir
\* when that entry is the last.
ReadDirectory ==
    /\ stack # <<>> /\ Top.entries = Unread
    /\ IF ~CanOpen(Top.dir)
       THEN /\ stack' = [stack EXCEPT ![Level].entries = <<>>]
            /\ totals' = [totals EXCEPT !.errors = @ + 1] /\ UNCHANGED world
       ELSE \E gone \in SUBSET {c \in Children(Top.dir) : Children(c) = {}} :
            /\ changes + Cardinality(gone) <= MaxChanges
            /\ changes' = changes + Cardinality(gone)
            /\ fs' = [p \in Paths |-> IF p \in gone THEN None ELSE fs[p]] /\ UNCHANGED made
            /\ \E s \in Orders(ReadEntries(Top.dir, gone)) : stack' = [stack EXCEPT ![Level].entries = s]
            /\ LET lost == Cardinality(gone \cap Wanted(Top.dir)) IN
               \E again \in IF options.dirsOnly /\ lost > 0 THEN {0, 1} ELSE {0} :
                   totals' = [totals EXCEPT !.errors = @ + lost + again]
    /\ UNCHANGED <<total, options, at, lastAt, operand, out, ended>>

\* Whether the walk goes into an entry.
Enters(e) ==
    /\ e.kind = "dir"
    /\ options.depth = 0 \/ Level < options.depth
    /\ options.oneFs => e.dev = Root

\* Mutant: the branch of a directory that is the last of its own is drawn on below it.
UnmarkedLast(isLast) == lastAt
\* last_at_depth[depth] = is_last
MarkLast(isLast) == [lastAt EXCEPT ![Level] = isLast]

PrintEntry ==
    /\ stack # <<>> /\ NextLine # Nobody /\ Ready(NextLine)
    /\ LET e      == NextLine
           isLast == Top.next = Len(Top.entries)
           moved  == [stack EXCEPT ![Level].next = @ + 1]
       IN /\ out' = Append(out, Line(e, at, Level, Size(e), isLast))
          /\ totals' = IF e.kind = "dir" THEN [totals EXCEPT !.directories = @ + 1]
                       ELSE [totals EXCEPT !.files = @ + 1]
          /\ IF Enters(e)
             THEN lastAt' = MarkLast(isLast) /\ stack' = Append(moved, Frame(e.path, e.dev))
             ELSE stack' = moved /\ UNCHANGED lastAt
    /\ answer' = <<>>
    /\ UNCHANGED <<world, options, at, operand, sums, cache, ended>>

LeaveDirectory ==
    /\ stack # <<>> /\ Top.entries # Unread /\ Top.next > Len(Top.entries)
    /\ stack' = SubSeq(stack, 1, Level - 1)
    /\ UNCHANGED <<world, total, options, at, lastAt, operand, out, totals, ended>>

\* The report, and the exit status.
Report ==
    /\ stack = <<>> /\ operand = Nobody /\ at = Len(options.operands) /\ ended = "no"
    /\ ended' = IF totals.errors > 0 THEN "1" ELSE "0"
    /\ UNCHANGED <<world, total, options, at, stack, lastAt, operand, out, totals>>

-----------------------------------------------------------------------------
(* --du                                                                    *)

\* Mutant: an inode number is taken to be unique.
BlindCacheFind(p) == SelectInSeq(cache, LAMBDA i : i.ino = fs[p].ino)
CacheFind(p) == SelectInSeq(cache, LAMBDA i : i.dev = fs[p].dev /\ i.ino = fs[p].ino)

Sum == sums[Len(sums)]

\* A call returns to the frames that wait for it, or to the walk.
Return(size, waiting) ==
    IF waiting = <<>> THEN sums' = <<>> /\ answer' = <<size>>
    ELSE sums' = [waiting EXCEPT ![Len(waiting)].size = @ + size] /\ UNCHANGED answer

\* directory_total up to its loop.  The own size is stored before the directory is read, and
\* stays when it cannot be.  (What vanishes between lstat and opendir has nothing below it.)
Enter(p, waiting) ==
    IF ~There(p) THEN Return(0, waiting) /\ UNCHANGED cache
    ELSE IF CacheFind(p) # 0 THEN Return(cache[CacheFind(p)].size, waiting) /\ UNCHANGED cache
    ELSE /\ cache' = Append(cache, [dev |-> fs[p].dev, ino |-> fs[p].ino, size |-> fs[p].size])
         /\ IF ~CanOpen(p) THEN Return(fs[p].size, waiting)
            ELSE /\ sums' = Append(waiting, [place |-> Len(cache) + 1, todo |-> Children(p), size |-> fs[p].size])
                 /\ UNCHANGED answer

AskTotal ==
    /\ sums = <<>> /\ answer = <<>> /\ Totalled(NextLine)
    /\ Enter(NextLine.path, <<>>)
    /\ UNCHANGED <<world, walk>>

\* A round of the loop.
AddChild ==
    /\ sums # <<>>
    /\ \E c \in Sum.todo :
          LET waiting == [sums EXCEPT ![Len(sums)].todo = @ \ {c}] IN
          IF IsDir(c) /\ (options.oneFs => fs[c].dev = Root) THEN Enter(c, waiting)
          ELSE Return(IF There(c) THEN fs[c].size ELSE 0, waiting) /\ UNCHANGED cache
    /\ UNCHANGED <<world, walk>>

EndTotal ==
    /\ sums # <<>> /\ Sum.todo = {}
    /\ cache' = [cache EXCEPT ![Sum.place].size = Sum.size]
    /\ Return(Sum.size, Front(sums))
    /\ UNCHANGED <<world, walk>>

-----------------------------------------------------------------------------
(* Others: they remove files and empty directories, write to files, and     *)
(* make or move some.                                                      *)

Changed == changes < MaxChanges /\ ended = "no" /\ changes' = changes + 1
Loose(p) == There(p) /\ Children(p) = {}
Unlink(p) == Changed /\ Loose(p) /\ fs' = [fs EXCEPT ![p] = None] /\ UNCHANGED made
Grow(p) ==
    /\ Changed /\ There(p) /\ ~IsDir(p)
    /\ fs' = [q \in Paths |-> IF There(q) /\ fs[q].dev = fs[p].dev /\ fs[q].ino = fs[p].ino
                              THEN [fs[q] EXCEPT !.size = @ + 1] ELSE fs[q]]
    /\ UNCHANGED made

\* Each comes once: an inode number is not used again.
Free(c) == Changed /\ IsDir(c.file.up) /\ ~There(c.path) /\ c.path \notin made /\ made' = made \cup {c.path}
Make(c) == Free(c) /\ fs' = [fs EXCEPT ![c.path] = c.file]
Move(p, c) ==
    /\ Free(c) /\ Loose(p) /\ p # c.file.up /\ fs[p].dev = c.file.dev
    /\ fs' = [fs EXCEPT ![p] = None, ![c.path] = [fs[p] EXCEPT !.up = c.file.up]]

World ==
    /\ \/ \E p \in Paths : Unlink(p) \/ Grow(p)
       \/ \E c \in Coming : Make(c) \/ \E p \in Paths : Move(p, c)
    /\ UNCHANGED <<total, walk>>

-----------------------------------------------------------------------------
Init ==
    /\ fs \in Systems /\ changes = 0 /\ made = {} /\ options \in Requests
    /\ at = 0 /\ stack = <<>> /\ lastAt = [l \in 1 .. Cardinality(Paths) |-> FALSE]
    /\ operand = Nobody /\ sums = <<>> /\ answer = <<>>
    /\ cache = <<>> /\ out = <<>> /\ ended = "no"
    /\ totals = [directories |-> 0, files |-> 0, errors |-> 0]

Next ==
    \/ NextOperand \/ ShowOperand \/ ReadDirectory \/ PrintEntry \/ LeaveDirectory \/ Report
    \/ AskTotal \/ AddChild \/ EndTotal
    \/ World

Spec == Init /\ [][Next]_vars

-----------------------------------------------------------------------------
(* Properties.                                                             *)

TypeOK ==
    /\ at \in 0 .. Len(options.operands)
    /\ \A l \in 1 .. Level : /\ stack[l].dir \in Paths
                             /\ stack[l].next \in 1 .. Len(stack[l].entries) + 1
    /\ lastAt \in [1 .. Cardinality(Paths) -> BOOLEAN]
    /\ \A i \in DOMAIN cache : cache[i].size \in Nat
    /\ \A i \in DOMAIN out : out[i].path \in Paths /\ out[i].size \in Nat
    /\ totals \in [directories : Nat, files : Nat, errors : Nat]
    /\ ended \in {"no", "0", "1"}

\* Line m is of an entry of the directory on line k.
Beneath(k, m) == /\ k < m /\ out[m].level = out[k].level + 1
                 /\ \A x \in k + 1 .. m : out[x].level > out[k].level

\* The branches drawn are those of the tree: in every column a line marks the last
\* branch exactly when no line follows at that level of the same directory, although
\* all levels share one array that is never cleared.
BranchesRight ==
    ended # "no" =>
        \A k \in DOMAIN out : \A l \in DOMAIN out[k].last :
            out[k].last[l] <=> ~\E m \in k + 1 .. Len(out) :
                                   /\ out[m].level = l
                                   /\ \A x \in k + 1 .. m : out[x].level >= l

RECURSIVE TreeSize(_)
TreeSize(p) == fs[p].size + IF CanOpen(p) THEN MapThenSumSet(TreeSize, Children(p)) ELSE 0

\* With --one-file-system the total of a directory another device is mounted on
\* depends on the operand it is first asked for under.
Comparable == ended # "no" /\ options.du /\ ~options.oneFs

\* If nothing changes, a directory is shown with the sizes of all below it that may be read,
\* whichever of the operands and entries its total was first asked for.
SumsRight ==
    (Comparable /\ changes = 0) => \A i \in DOMAIN out : out[i].dir => out[i].size = TreeSize(out[i].path)

\* Whatever changes meanwhile, the directories listed in a directory do not add up to more
\* than it has, but for those that were made or moved to their place during the walk (its
\* total may have been taken before they came).
SumsAdd ==
    Comparable =>
        \A k \in DOMAIN out :
            LET below == {m \in DOMAIN out : Beneath(k, m) /\ out[m].dir /\ out[m].path \notin made}
            IN out[k].dir => MapThenSumSet(LAMBDA m : out[m].size, below) <= out[k].size

\* --one-file-system: what is listed is in a directory of the operand's own device.
StaysOnFilesystem ==
    options.oneFs => \A o, k, m \in DOMAIN out :
        (out[o].level = 0 /\ out[o].operand = out[k].operand /\ Beneath(k, m)) => out[k].dev = out[o].dev

\* The branches are those of the tree that was asked for.
PrefixRight == TypeOK /\ BranchesRight /\ StaysOnFilesystem

\* The sizes shown are those of what is below, and agree with each other.
TotalsRight == SumsRight /\ SumsAdd

\* What the options ask for in a directory that stays, down from a level, under an operand of
\* the device dev: each path with its level.  What came during the walk may be missed.
Asked(d) == {c \in Children(d) \ made : (options.all \/ ~fs[c].hidden) /\ (options.dirsOnly => IsDir(c))}

RECURSIVE Expected(_, _, _)
Expected(d, level, dev) ==
    IF ~CanOpen(d) \/ (options.depth # 0 /\ level > options.depth) \/ (options.oneFs /\ fs[d].dev # dev)
    THEN {}
    ELSE UNION {{<<c, level>>} \cup Expected(c, level + 1, dev) : c \in Asked(d)}

\* All that is there from the beginning to the end and was asked for is listed, at every
\* level, whatever vanishes, comes or cannot be read beside it; and nothing is listed twice
\* under one operand.
Complete ==
    ended # "no" =>
        \A n \in DOMAIN options.operands :
            LET o     == options.operands[n]
                below == IF options.asFile THEN {} ELSE Expected(o, 1, fs[o].dev)
                lines == {i \in DOMAIN out : out[i].operand = n}
            IN /\ There(o) /\ o \notin made =>
                     \A x \in {<<o, 0>>} \cup below : \E i \in lines : <<out[i].path, out[i].level>> = x
               /\ \A i, j \in lines : out[i].path = out[j].path => i = j

=============================================================================
