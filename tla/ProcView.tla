------------------------------ MODULE ProcView ------------------------------
(***************************************************************************)
(* procview: the list of processes, the tree of the selected one, and the  *)
(* keys, while the processes come and go.  A snapshot of /proc is taken    *)
(* pid by pid, so that it is never a picture of one moment; everything the *)
(* user sees and kills comes from the last one.                            *)
(*                                                                         *)
(* The ids are numbers, 1 being init and Self procview.  A name is its     *)
(* place in the alphabet.  What the panels of one process print            *)
(* (its files, its environment) is left out, and so is memory, the second  *)
(* key of the order by load.  Positions count from 1.                      *)
(***************************************************************************)
EXTENDS Naturals, Sequences, SequencesExt, FiniteSets

CONSTANTS Pids,        \* the process ids
          Self,        \* procview
          Names,       \* the names, in alphabetical order
          Filters,     \* what may be typed at the filter, 0 being nothing
          Worlds,      \* the processes there may be at the start
          Busy,        \* the ids whose processes use time
          MaxChanges,  \* bounds the changes of the system
          Body,        \* rows of the panel of processes
          TreeBody,    \* rows of the panel of the tree, 0 when there is no room
          PageSize,    \* how far PgDn moves
          ChainMax,    \* ancestors shown at most
          Panels       \* panels: the first is the list, the last the tree

ASSUME ProcViewAssumption ==
    /\ Pids \subseteq Nat \ {0} /\ {1, Self} \cup Busy \subseteq Pids
    /\ Names \subseteq Nat \ {0} /\ 0 \in Filters
    /\ Body \in Nat \ {0} /\ TreeBody \in Nat /\ PageSize \in Nat \ {0}
    /\ ChainMax \in Nat \ {0} /\ MaxChanges \in Nat /\ Panels \in Nat \ {0, 1}

VARIABLES
    world,       \* per id, the process that has it
    changes,     \* changes of the system so far, and births
    reused,      \* an id has been given to a second process
    procs,       \* App.processes
    rows,        \* App.rows: places in procs
    tree,        \* App.tree_rows: places in procs, and which is the base
    filter, treeMode, focus,
    selected, cursor,        \* App.selected, App.tree_selected
    scroll, treeScroll,
    at,          \* where the loop is
    next,        \* the list a snapshot is building
    from,        \* the directory of /proc has been read up to here
    reset,       \* the snapshot starts the loads anew
    shown        \* the process the panels showed when the key came

system == <<world, changes, reused>>
places == <<rows, tree, selected, cursor, scroll, treeScroll>>
modes  == <<filter, treeMode, focus>>
scan   == <<next, from, reset>>
vars   == <<system, procs, places, modes, at, scan, shown>>

Tree == Panels - 1

None == [born |-> 0]
Alive == {p \in Pids : world[p] # None}
Processes == [parent : Pids \cup {0}, name : Names, born : Nat, ticks : Nat]
Items == [pid : Pids, ppid : Pids \cup {0}, name : Names, born : Nat, ticks : Nat, delta : Nat]

-----------------------------------------------------------------------------
(* The system: processes start, work and end.                              *)

Changed == changes < MaxChanges /\ changes' = changes + 1

\* The ids the list has, and the one that is being built.
Known == UNION {{i.pid, i.ppid} : i \in Range(procs) \cup Range(next)}

\* An id is free again as soon as its process has been waited for.
Fork(p, q) ==
    /\ Changed /\ p \in Alive \ {Self} /\ q \notin Alive
    /\ world' = [world EXCEPT ![q] = [parent |-> p, name |-> world[p].name, born |-> changes + 1, ticks |-> 0]]
    /\ reused' = (reused \/ q \in Known)

Ended(p) == [q \in Pids |-> IF q = p THEN None
                            ELSE IF world[q] # None /\ world[q].parent = p
                                 THEN [world[q] EXCEPT !.parent = 1] ELSE world[q]]

Exit(p) == Changed /\ p \in Alive \ {1, Self} /\ world' = Ended(p) /\ UNCHANGED reused

Work(p) == /\ Changed /\ p \in Alive \cap Busy /\ world' = [world EXCEPT ![p].ticks = @ + 1]
           /\ UNCHANGED reused

\* Nothing else looks at the system: a change at another moment of the loop is
\* seen as one at the next look.
World == /\ at \in {"scan", "ask"}
         /\ \/ \E p, q \in Pids : Fork(p, q)
            \/ \E p \in Pids : Exit(p) \/ Work(p)
         /\ UNCHANGED <<procs, places, modes, at, scan, shown>>

-----------------------------------------------------------------------------
(* The list and the tree, from a list of processes.                        *)

\* find_process_index: the place of an id, 0 for none.
Find(ps, pid) == SelectInSeq(ps, LAMBDA i : i.pid = pid)

Matches(p, f) == f = 0 \/ p.name = f

Before(ps, trees, i, j) ==
    \/ ~trees /\ ps[i].delta > ps[j].delta
    \/ (trees \/ ps[i].delta = ps[j].delta) /\ ps[i].pid < ps[j].pid

\* qsort_r: no two processes are equal in the order.
InOrder(S, Less(_, _)) ==
    [k \in 1 .. Cardinality(S) |-> CHOOSE i \in S : Cardinality({j \in S : Less(j, i)}) = k - 1]

\* build_rows
RowsOf(ps, f, trees) ==
    InOrder({i \in DOMAIN ps : Matches(ps[i], f)}, LAMBDA i, j : Before(ps, trees, i, j))

\* sort_children
Children(ps, i) ==
    InOrder({j \in DOMAIN ps : ps[j].ppid = ps[i].pid},
            LAMBDA j, k : \/ ps[j].name < ps[k].name
                          \/ ps[j].name = ps[k].name /\ ps[j].pid < ps[k].pid)

RECURSIVE Descendants(_, _)
Descendants(ps, i) ==
    FoldLeft(LAMBDA s, j : s \o <<j>> \o Descendants(ps, j), <<>>, Children(ps, i))

\* The first of the chain is the oldest ancestor found.
RECURSIVE Chain(_, _, _)
Chain(ps, i, n) ==
    IF i = 0 \/ n = 0 THEN <<>> ELSE Append(Chain(ps, Find(ps, ps[i].ppid), n - 1), i)

\* The parents of a process lead back to it: its descendants have no end.
Loops(ps, i) == i # 0 /\ i \in Range(Chain(ps, Find(ps, ps[i].ppid), Len(ps)))

TreeOf(ps, base) ==
    LET chain == Chain(ps, base, ChainMax)
        below == Descendants(ps, base)
    IN IF base = 0 THEN <<>>
       ELSE [k \in DOMAIN chain |-> [index |-> chain[k], base |-> chain[k] = base]]
            \o [k \in DOMAIN below |-> [index |-> below[k], base |-> FALSE]]

SelectedIndex(rs, s) == IF rs = <<>> THEN 0 ELSE rs[s]

\* Mutant: the cursor goes back to the selected process.
ForgetfulWanted(ps, base) == {IF base = 0 THEN 0 ELSE ps[base].pid}

\* The rows of the tree are still those of the list before: after a snapshot the place of
\* the cursor may be another's, or past the new end.
FromTree == focus = Tree /\ cursor \in DOMAIN tree
ReadsBeyond(ps) == FromTree /\ tree[cursor].index \notin DOMAIN ps

\* The id to put the cursor back on; past the end, whatever is in the memory there.
Wanted(ps, base) ==
    IF ReadsBeyond(ps) THEN Pids \cup {0}
    ELSE IF FromTree THEN {ps[tree[cursor].index].pid}
    ELSE {IF base = 0 THEN 0 ELSE ps[base].pid}

CursorAt(ps, t, pid) ==
    LET asked == SelectInSeq(t, LAMBDA r : ps[r.index].pid = pid)
        base  == SelectInSeq(t, LAMBDA r : r.base)
    IN IF asked # 0 THEN asked ELSE IF base # 0 THEN base ELSE 1

\* Mutant: only the list is built anew.
BuildListOnly(ps, rs, s, a) ==
    rows' = rs /\ selected' = s /\ at' = a /\ UNCHANGED <<tree, cursor, treeScroll>>

\* build_tree_rows, for the row s of rs; the loop goes on at a, unless there is no memory
\* past the end of the list.
BuildTree(ps, rs, s, a) ==
    LET base == SelectedIndex(rs, s) IN
    /\ rows' = rs /\ selected' = s
    /\ \/ ReadsBeyond(ps) /\ at' = "faulted" /\ UNCHANGED <<tree, cursor, treeScroll>>
       \/ Loops(ps, base) /\ at' = "crashed" /\ UNCHANGED <<tree, cursor, treeScroll>>
       \/ /\ ~Loops(ps, base)
          /\ at' = a /\ treeScroll' = 1 /\ tree' = TreeOf(ps, base)
          /\ \E pid \in Wanted(ps, base) : cursor' = CursorAt(ps, TreeOf(ps, base), pid)

\* selected_process_index and active_process_index
ActiveIndex == IF focus = Tree /\ tree # <<>> THEN tree[cursor].index ELSE SelectedIndex(rows, selected)

Same(ps, qs) == /\ Len(ps) = Len(qs)
                /\ \A i \in DOMAIN ps : \A k \in {"pid", "ppid", "born"} : ps[i][k] = qs[i][k]

NoProcess == [pid |-> 0, born |-> 0]
Item(i) == IF i = 0 THEN NoProcess ELSE [pid |-> procs[i].pid, born |-> procs[i].born]

-----------------------------------------------------------------------------
(* The snapshot.                                                           *)

StartScan(r) == at' = "scan" /\ next' = <<>> /\ from' = 1 /\ reset' = r

\* read_process.  The load is what was used since the last snapshot.
ItemOf(p) ==
    LET w    == world[p]
        last == Find(procs, p)
        old  == IF last = 0 THEN w.ticks ELSE procs[last].ticks
    IN [pid |-> p, ppid |-> w.parent, name |-> w.name, born |-> w.born, ticks |-> w.ticks,
        delta |-> IF reset \/ w.ticks < old THEN 0 ELSE w.ticks - old]

\* Mutant: the first id that cannot be read ends the snapshot.
BreakingLeft == {p \in Alive : p = from}

Left == {p \in Alive : p >= from}


\* /proc lists the ids in order; one that ends before it is opened is passed over.
ReadProcess ==
    /\ at = "scan" /\ Left # {}
    /\ LET p == CHOOSE q \in Left : \A r \in Left : q <= r
       IN next' = Append(next, ItemOf(p)) /\ from' = p + 1
    /\ UNCHANGED <<system, procs, places, modes, at, reset, shown>>

\* The selection keeps its place in the list, whoever is there now.
Clamp(s, rs) == IF s > Len(rs) THEN (IF rs = <<>> THEN 1 ELSE Len(rs)) ELSE s

FinishScan ==
    /\ at = "scan" /\ Left = {}
    /\ procs' = next
    /\ LET rs == RowsOf(next, filter, treeMode) IN BuildTree(next, rs, Clamp(selected, rs), "top")
    /\ next' = <<>> /\ from' = 1 /\ reset' = FALSE
    /\ UNCHANGED <<system, modes, scroll, shown>>

-----------------------------------------------------------------------------
(* The loop: a snapshot when the last is a second old, the screen, a key.  *)

Refresh == /\ at = "top" /\ StartScan(FALSE)
           /\ UNCHANGED <<system, procs, places, modes, shown>>

\* adjust_scroll and adjust_tree_scroll
Scrolled(s, top, len, body) ==
    LET moved == IF s < top THEN s ELSE IF s >= top + body THEN s - body + 1 ELSE top
        last  == IF len > body THEN len - body + 1 ELSE 1
    IN IF moved > last THEN last ELSE moved

Draw ==
    /\ at = "top"
    /\ at' = "key" /\ shown' = Item(ActiveIndex)
    /\ scroll' = Scrolled(selected, scroll, Len(rows), Body)
    /\ treeScroll' = IF TreeBody = 0 \/ ActiveIndex = 0 THEN treeScroll
                     ELSE Scrolled(cursor, treeScroll, Len(tree), TreeBody)
    /\ UNCHANGED <<system, procs, rows, tree, selected, cursor, modes, scan>>

\* Where a key may move to from place i of a list.
Steps == {1, PageSize}

Places(i, len) == {1, len} \cup {IF i + d > len THEN len ELSE i + d : d \in Steps}
                           \cup {IF i > d THEN i - d ELSE 1 : d \in Steps}

\* j, Up, g, G, PgDn and PgUp on the list; nothing moves on an empty one.
MoveRow ==
    /\ at = "key" /\ focus = 0 /\ rows # <<>>
    /\ \E s \in Places(selected, Len(rows)) : BuildTree(procs, rows, s, "top")
    /\ UNCHANGED <<system, procs, scroll, modes, scan>> /\ shown' = NoProcess

MoveCursor ==
    /\ at = "key" /\ focus = Tree /\ tree # <<>>
    /\ cursor' \in Places(cursor, Len(tree))
    /\ at' = "top"
    /\ UNCHANGED <<system, procs, rows, tree, selected, scroll, treeScroll, modes, scan>> /\ shown' = NoProcess

\* No key, a key without a meaning, or one that finds nothing to move or to end.
Idle == /\ at = "key" /\ at' = "top"
        /\ UNCHANGED <<system, procs, places, modes, scan>> /\ shown' = NoProcess

Tab == /\ at = "key" /\ at' = "top"
       /\ focus' \in {(focus + 1) % Panels, (focus + Tree) % Panels}
       /\ UNCHANGED <<system, procs, places, filter, treeMode, scan>> /\ shown' = NoProcess

Rebuild(f, trees) ==
    /\ filter' = f /\ treeMode' = trees /\ scroll' = 1
    /\ BuildTree(procs, RowsOf(procs, f, trees), 1, "top")
    /\ UNCHANGED <<system, procs, focus, scan>> /\ shown' = NoProcess

ToggleMode == at = "key" /\ Rebuild(filter, ~treeMode)
Escape     == at = "key" /\ Rebuild(0, treeMode)

\* The loop waits for the line; there is no snapshot meanwhile.
AskFilter  == /\ at = "key" /\ at' = "filter"
              /\ UNCHANGED <<system, procs, places, modes, scan>> /\ shown' = NoProcess
EditFilter == at = "filter" /\ \E f \in Filters : Rebuild(f, treeMode)

RefreshKey == /\ at = "key" /\ StartScan(TRUE)
              /\ UNCHANGED <<system, procs, places, modes>> /\ shown' = NoProcess

\* Mutant: the panel in use does not matter.
ListTarget == Item(SelectedIndex(rows, selected))

Target == Item(ActiveIndex)

\* kill_selected: k, K, Del and Enter, in the list and in the tree.
AskKill ==
    /\ at = "key" /\ focus \in {0, Tree} /\ Target.pid \notin {0, Self}
    /\ at' = "ask"
    /\ UNCHANGED <<system, procs, places, modes, scan, shown>>

Cancel == /\ at = "ask" /\ at' = "top"
          /\ UNCHANGED <<system, procs, places, modes, scan>> /\ shown' = NoProcess

\* The signal goes to whoever has the id now; it may be withstood, or not allowed.
Kill ==
    /\ at = "ask"
    /\ \/ /\ Target.pid \in Alive /\ StartScan(TRUE)
          /\ world' \in {world} \cup {Ended(p) : p \in {Target.pid} \ {1}}
       \/ at' = "top" /\ UNCHANGED <<world, scan>>
    /\ UNCHANGED <<changes, reused, procs, places, modes>> /\ shown' = NoProcess

Quit == /\ at = "key" /\ at' = "gone"
        /\ UNCHANGED <<system, procs, places, modes, scan>> /\ shown' = NoProcess

-----------------------------------------------------------------------------
Init ==
    /\ world \in Worlds /\ changes = 0 /\ reused = FALSE
    /\ procs = <<>> /\ rows = <<>> /\ tree = <<>>
    /\ filter = 0 /\ treeMode = TRUE /\ focus = 0
    /\ selected = 1 /\ cursor = 1 /\ scroll = 1 /\ treeScroll = 1
    /\ at = "scan"
    /\ next = <<>> /\ from = 1 /\ reset = TRUE
    /\ shown = NoProcess

Keys == MoveRow \/ MoveCursor \/ Idle \/ Tab \/ ToggleMode \/ Escape \/ AskFilter
          \/ RefreshKey \/ AskKill \/ Quit
Loop == ReadProcess \/ FinishScan \/ Refresh \/ Draw \/ Keys \/ EditFilter \/ Cancel \/ Kill

Next == World \/ Loop

\* A step of the loop that ends its stay at a.
Stages == {"scan", "top", "key", "filter", "ask"}
Over == {"gone", "crashed", "faulted"}
Leave(a) == at = a /\ at' \in (Stages \cup Over) \ {a}

\* The loop stays nowhere for ever (a snapshot reads finitely many ids, getch does not wait)
\* but at a prompt, which nobody has to answer; and one of its rounds finds a second gone.
Spec == /\ Init /\ [][Next]_vars
        /\ \A a \in {"scan", "top", "key"} : WF_at(Leave(a))
        /\ SF_vars(Refresh)

-----------------------------------------------------------------------------
(* Properties.                                                             *)

\* Wherever the loop is, every place that is kept is within its list.  (A place that is used
\* within one step after its list has been replaced is not seen here: that is ReadsBeyond.)
TypeOK ==
    /\ \A p \in Pids : world[p] = None \/ world[p] \in Processes
    /\ \A i \in DOMAIN procs : procs[i] \in Items
    /\ \A i \in DOMAIN rows : rows[i] \in DOMAIN procs
    /\ at \in Stages => \A i \in DOMAIN tree : tree[i].index \in DOMAIN procs
    /\ selected \in 1 .. (IF rows = <<>> THEN 1 ELSE Len(rows))
    /\ cursor \in 1 .. (IF tree = <<>> THEN 1 ELSE Len(tree))
    /\ filter \in Filters /\ treeMode \in BOOLEAN /\ focus \in 0 .. Tree
    /\ scroll \in Nat \ {0} /\ treeScroll \in Nat \ {0}
    /\ at \in Stages \cup Over
    /\ shown.pid \in Pids \cup {0}

\* The prompt names no process.  What it asks about is the one the panels show,
\* never procview itself; and unless an id was given out again behind the back of
\* the list, a process that is ended is the one that was looked at.
KillsWhatIsShown ==
    at = "ask" =>
        /\ Target = shown /\ shown.pid \notin {0, Self}
        /\ ~reused /\ shown.pid \in Alive => world[shown.pid].born = shown.born

\* Whatever changes the list, the filter, the order or the selection builds the
\* rows and the tree anew: both always belong to the processes on the screen.
DerivedFresh ==
    at \notin {"crashed", "faulted"} =>
        /\ rows = RowsOf(procs, filter, treeMode)
        /\ tree = TreeOf(procs, SelectedIndex(rows, selected))

\* A snapshot that finds the same processes and parents, in the order of ids, leaves the
\* cursor of the tree on the process it was on.
TreeCursorStays ==
    [][(/\ at = "scan" /\ at' = "top" /\ treeMode /\ focus = Tree /\ tree # <<>>
        /\ Same(procs, procs'))
       => procs'[tree'[cursor'].index].pid = procs[tree[cursor].index].pid]_vars

\* The parents in the list never go round in a circle, so that the tree has an
\* end, although they are read at different moments; only an id that is given out
\* again during a snapshot makes them.
EndsUnlessReused == at = "crashed" => reused

\* After the screen is drawn the selected row is on it, and so is the cursor.
SelectionVisible ==
    at = "key" =>
        /\ rows # <<>> => selected \in scroll .. scroll + Body - 1
        /\ (tree # <<>> /\ TreeBody > 0) => cursor \in treeScroll .. treeScroll + TreeBody - 1

\* Whatever the user does and the processes do, the panels show the list that was read, the
\* tree has an end, and what is selected is on the screen: also after the old rows of the tree
\* were looked up in the new list, even past its end, if that does not end the program.
ScreenRight == TypeOK /\ DerivedFresh /\ EndsUnlessReused /\ SelectionVisible

\* A process that lives on is listed at last, whatever the user does, unless the program ends
\* or a prompt is left open for ever (prompt_char and edit_filter wait without a limit).
Appears ==
    \A p \in Pids :
        p \in Alive ~> \/ p \notin Alive \/ at \in Over \/ Find(procs, p) # 0
                        \/ [](at \in {"ask", "filter"})

=============================================================================
