----------------------------- MODULE FdTracker -----------------------------
(***************************************************************************)
(* The file-descriptor analysis of strace-src (fd_tracker.c).              *)
(*                                                                         *)
(* fd_analysis_build walks the captured events from the first to the last  *)
(* and keeps, for every process, the table of descriptors it knows about.  *)
(* Here one step is one iteration of that loop, on an arbitrary event.     *)
(*                                                                         *)
(* Only collect_parents reads ahead: it maps every child returned by a     *)
(* fork/clone anywhere in the trace to its parent before the loop starts.  *)
(* The variable parents is that map.  It is chosen in the initial state,   *)
(* and a clone result may then only be met where the map says it is.       *)
(*                                                                         *)
(* Events and objects are numbered from 1; 0 stands for the -1 of the C    *)
(* code.  Text is abstracted to what the parsing helpers extract from it.  *)
(***************************************************************************)
EXTENDS Naturals, Sequences

CONSTANTS
    Pid,        \* process ids that occur in the trace
    Fd,         \* descriptor numbers that occur in the trace
    NoPid,      \* parent_of found nothing
    NoFd,       \* argument_fd found nothing
    Unbound,    \* find_binding returned NULL
    MaxEvents   \* bound on the length of the trace

ASSUME NoPidAssumption == NoPid \notin Pid
ASSUME NoFdAssumption == NoFd \notin Fd
ASSUME MaxEventsAssumption == MaxEvents \in Nat

VARIABLES
    parents,    \* ParentMap: child -> parent, from collect_parents
    hasTable,   \* pids for which get_table has made a table
    tables,     \* FdTable of each pid: fd -> binding
    objects,    \* FdObject array: object id -> origin event
    infos       \* FdEventInfo array: one entry per event already processed

trackerVars == <<parents, hasTable, tables, objects, infos>>

Bindings == [object : Nat, creator : Nat, cloexec : BOOLEAN]
Tables == [Fd -> Bindings \cup {Unbound}]
EmptyTable == [fd \in Fd |-> Unbound]

FdRefs == [fd : Fd, object : Nat]
FdEventInfos == [pid : Pid, refs : Seq(FdRefs), primary : Nat,
                 jump : Nat, creator : Nat, open : BOOLEAN]

ASSUME UnboundAssumption == Unbound \notin Bindings

\* Number of the event the loop is about to process.
ThisEvent == Len(infos) + 1

----------------------------------------------------------------------------
(* Helpers *)

SetBinding(table, fd, object, creator, cloexec) ==
    [table EXCEPT ![fd] = [object |-> object, creator |-> creator, cloexec |-> cloexec]]

\* Mutant: close forgets to remove the binding.
KeepBinding(table, fd) == table

RemoveBinding(table, fd) == [table EXCEPT ![fd] = Unbound]

\* Mutant: a process does not inherit its parent's table.
BlankGetTable(pid) == IF pid \in hasTable THEN tables[pid] ELSE EmptyTable

\* A pid met for the first time starts with a copy of its parent's table,
\* provided the parent already has one.
GetTable(pid) ==
    IF pid \in hasTable THEN tables[pid]
    ELSE IF parents[pid] \in hasTable THEN tables[parents[pid]]
    ELSE EmptyTable

ObjectOf(table, fd) == IF table[fd] = Unbound THEN 0 ELSE table[fd].object

Ref(fd, object) == [fd |-> fd, object |-> object]

EventInfo(pid, refs, primary, jump, creator, open) ==
    [pid |-> pid, refs |-> refs, primary |-> primary,
     jump |-> jump, creator |-> creator, open |-> open]

\* An event's info as the loop finds it: no jump, no creator, not open.
RefsInfo(pid, refs, primary) == EventInfo(pid, refs, primary, 0, 0, FALSE)

\* Mutant: jump is read after set_binding has overwritten the source's creator.
SelfCreatorInfo(pid, refs, primary, jump) ==
    EventInfo(pid, refs, primary, IF jump = 0 THEN 0 ELSE ThisEvent, ThisEvent, TRUE)

\* An event that created a binding; jump is the creator of what it duplicates, or 0.
CreatorInfo(pid, refs, primary, jump) ==
    EventInfo(pid, refs, primary, jump, ThisEvent, TRUE)

\* An event that names a descriptor the analysis may know.
UseInfo(pid, table, fd, open) ==
    LET refs == <<Ref(fd, ObjectOf(table, fd))>> IN
    IF table[fd] = Unbound THEN RefsInfo(pid, refs, 1)
    ELSE EventInfo(pid, refs, 1, table[fd].creator, table[fd].creator, open)

\* The end of an iteration: the event's table and info are stored.
Store(pid, table, info) ==
    /\ hasTable' = hasTable \cup {pid}
    /\ tables' = [tables EXCEPT ![pid] = table]
    /\ infos' = Append(infos, info)
    /\ UNCHANGED parents

----------------------------------------------------------------------------
(* One action per branch of the loop.                                      *)

\* open, openat, openat2, creat and socket with a descriptor as the result.
Open(pid, fd, cloexec) ==
    LET object == Len(objects) + 1 IN
    /\ objects' = Append(objects, ThisEvent)
    /\ Store(pid, SetBinding(GetTable(pid), fd, object, ThisEvent, cloexec),
             CreatorInfo(pid, <<Ref(fd, object)>>, 1, 0))

\* accept and accept4; listener is NoFd when the argument cannot be parsed.
Accept(pid, listener, fd, cloexec) ==
    LET object == Len(objects) + 1
        table == GetTable(pid)
        refs == IF listener = NoFd THEN <<>>
                ELSE <<Ref(listener, ObjectOf(table, listener))>>
    IN  /\ objects' = Append(objects, ThisEvent)
        /\ Store(pid, SetBinding(table, fd, object, ThisEvent, cloexec),
                 CreatorInfo(pid, Append(refs, Ref(fd, object)), Len(refs) + 1, 0))

\* pipe and pipe2: both ends are bound to one object.
Pipe(pid, left, right, cloexec) ==
    LET object == Len(objects) + 1
        table == SetBinding(GetTable(pid), left, object, ThisEvent, cloexec)
    IN  /\ objects' = Append(objects, ThisEvent)
        /\ Store(pid, SetBinding(table, right, object, ThisEvent, cloexec),
                 CreatorInfo(pid, <<Ref(left, object), Ref(right, object)>>, 1, 0))

\* dup, dup2, dup3: named lists the descriptors in the arguments.
Dup(pid, named, fd, cloexec) ==
    LET table == GetTable(pid)
        source == table[named[1]]
        refs == [i \in 1..Len(named) |-> Ref(named[i], ObjectOf(table, named[1]))]
    IN  /\ Store(pid,
                 IF source = Unbound THEN table
                 ELSE SetBinding(table, fd, source.object, ThisEvent, cloexec),
                 IF source = Unbound THEN RefsInfo(pid, refs, 0)
                 ELSE CreatorInfo(pid, Append(refs, Ref(fd, source.object)),
                                  Len(refs) + 1, source.creator))
        /\ UNCHANGED objects

\* fcntl F_DUPFD and F_DUPFD_CLOEXEC that returned a descriptor.
FcntlDup(pid, old, fd, cloexec) ==
    LET table == GetTable(pid)
        source == table[old]
        refs == <<Ref(old, ObjectOf(table, old))>>
    IN  /\ Store(pid,
                 IF source = Unbound THEN table
                 ELSE SetBinding(table, fd, source.object, ThisEvent, cloexec),
                 IF source = Unbound THEN RefsInfo(pid, refs, 1)
                 ELSE CreatorInfo(pid, Append(refs, Ref(fd, source.object)),
                                  2, source.creator))
        /\ UNCHANGED objects

\* fcntl F_SETFD that returned 0.
FcntlSetFd(pid, fd, cloexec) ==
    LET table == GetTable(pid) IN
    /\ Store(pid,
             IF table[fd] = Unbound THEN table
             ELSE [table EXCEPT ![fd].cloexec = cloexec],
             UseInfo(pid, table, fd, TRUE))
    /\ UNCHANGED objects

\* Every other fcntl: the descriptor is referenced and nothing else is recorded.
FcntlOther(pid, fd) ==
    LET table == GetTable(pid) IN
    /\ Store(pid, table, RefsInfo(pid, <<Ref(fd, ObjectOf(table, fd))>>, 1))
    /\ UNCHANGED objects

\* fd_first_syscall: read, write, ioctl, ... and a close without the result 0.
Use(pid, fd) ==
    LET table == GetTable(pid) IN
    /\ Store(pid, table, UseInfo(pid, table, fd, TRUE))
    /\ UNCHANGED objects

\* Mutant: a closed descriptor is still reported open.
OpenClose(pid, fd) ==
    LET table == GetTable(pid) IN
    /\ Store(pid, RemoveBinding(table, fd), UseInfo(pid, table, fd, TRUE))
    /\ UNCHANGED objects

\* close that returned 0.
Close(pid, fd) ==
    LET table == GetTable(pid) IN
    /\ Store(pid, RemoveBinding(table, fd), UseInfo(pid, table, fd, FALSE))
    /\ UNCHANGED objects

\* execve and execveat that returned 0.
Execve(pid) ==
    LET table == GetTable(pid) IN
    /\ Store(pid,
             [fd \in Fd |-> IF table[fd] # Unbound /\ table[fd].cloexec
                            THEN Unbound ELSE table[fd]],
             RefsInfo(pid, <<>>, 0))
    /\ UNCHANGED objects

\* fork, vfork, clone or clone3 of a process, at its result: both tables exist after it.
\* The map holds the first clone that returned child; where a pid is reused, a later
\* one finds that child has a table.
Clone(pid, child) ==
    LET own == GetTable(pid)
        copy == IF child \in hasTable THEN tables[child] ELSE own
    IN  /\ parents[child] = pid \/ (parents[child] \in Pid /\ child \in hasTable)
        /\ hasTable' = hasTable \cup {pid, child}
        /\ tables' = [tables EXCEPT ![pid] = own, ![child] = copy]
        /\ infos' = Append(infos, RefsInfo(pid, <<>>, 0))
        /\ UNCHANGED <<parents, objects>>

\* An event no branch handles: another system call, a failed one, or the half
\* of an interrupted call that lacks what the branch would parse.
Other(pid) ==
    /\ Store(pid, GetTable(pid), RefsInfo(pid, <<>>, 0))
    /\ UNCHANGED objects

----------------------------------------------------------------------------
\* Where the loop starts; collect_parents has run.
TrackerInit ==
    /\ parents \in [Pid -> Pid \cup {NoPid}]
    /\ \A p \in Pid : parents[p] # p
    /\ hasTable = {}
    /\ tables = [p \in Pid |-> EmptyTable]
    /\ objects = <<>>
    /\ infos = <<>>

\* The descriptors named in the arguments of dup (one) or of dup2 and dup3 (two).
NamedFds(fd) == { <<old>> : old \in Fd } \cup { <<old, fd>> : old \in Fd }

OnEvent(pid) ==
    \/ \E fd \in Fd, c \in BOOLEAN : Open(pid, fd, c)
    \/ \E listener \in Fd \cup {NoFd}, fd \in Fd, c \in BOOLEAN : Accept(pid, listener, fd, c)
    \/ \E left, right \in Fd, c \in BOOLEAN : Pipe(pid, left, right, c)
    \/ \E fd \in Fd : \E named \in NamedFds(fd) : Dup(pid, named, fd, FALSE)
    \/ \E old, fd \in Fd : Dup(pid, <<old, fd>>, fd, TRUE)
    \/ \E old, fd \in Fd, c \in BOOLEAN : FcntlDup(pid, old, fd, c)
    \/ \E fd \in Fd, c \in BOOLEAN : FcntlSetFd(pid, fd, c)
    \/ \E fd \in Fd : FcntlOther(pid, fd)
    \/ \E fd \in Fd : Use(pid, fd)
    \/ \E fd \in Fd : Close(pid, fd)
    \/ Execve(pid)
    \/ \E child \in Pid : Clone(pid, child)
    \/ Other(pid)

TrackerNext == Len(infos) < MaxEvents /\ \E pid \in Pid : OnEvent(pid)

TrackerSpec == TrackerInit /\ [][TrackerNext]_trackerVars

----------------------------------------------------------------------------
(* Properties *)

\* Type invariant of the analysis state.
TypeOK ==
    /\ parents \in [Pid -> Pid \cup {NoPid}]
    /\ hasTable \subseteq Pid
    /\ tables \in [Pid -> Tables]
    /\ objects \in Seq(Nat)
    /\ infos \in Seq(FdEventInfos)

\* Object the FD commands of the viewer show for an event.
PrimaryObject(info) == IF info.primary = 0 THEN 0 ELSE info.refs[info.primary].object

\* Among the events seen, event c created a descriptor of the object, and it lacks a
\* link to an earlier event only if it is the object's origin.
CreatorOf(seen, origins, object, c) ==
    /\ object \in 1..Len(origins)
    /\ c \in 1..Len(seen)
    /\ seen[c].creator = c
    /\ PrimaryObject(seen[c]) = object
    /\ origins[object] <= c
    /\ seen[c].jump = 0 <=> origins[object] = c

\* Event i names no creator, or a sound one, and links only to an earlier event.
LinksOf(seen, origins, i) ==
    /\ seen[i].jump # 0 =>
          /\ seen[i].jump < i
          /\ CreatorOf(seen, origins, PrimaryObject(seen[i]), seen[i].jump)
    /\ seen[i].creator # 0 =>
          CreatorOf(seen, origins, PrimaryObject(seen[i]), seen[i].creator)

\* Jumping with 'o' (jump_fd_origin) and the History list of the FD popup follow
\* jump and creator from event to event.  Every link leads to an earlier event that
\* created a descriptor of the same object, and only the object's origin has no link,
\* so the walk ends, and it ends at the origin, whatever the trace contains.
ChainReachesOrigin == \A i \in 1..Len(infos) : LinksOf(infos, objects, i)

\* The bindings in a table can only hand sound links to later events.
TableSound(seen, origins, table) ==
    \A fd \in Fd : table[fd] # Unbound =>
        CreatorOf(seen, origins, table[fd].object, table[fd].creator)

\* The strengthening that makes ChainReachesOrigin inductive.
BindingsCreated == \A p \in Pid : TableSound(infos, objects, tables[p])
============================================================================
