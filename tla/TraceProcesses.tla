--------------------------- MODULE TraceProcesses ---------------------------
(***************************************************************************)
(* Which process a line of the trace belongs to, and who is whose parent   *)
(* (main.c of strace-src).  A line names a thread; its process *)
(* is looked up in /proc when the line is read, which may be after the     *)
(* thread has ended, and what is known from the clone lines read before    *)
(* helps out.  The clone line of a parent is printed when the call         *)
(* returns, so the child's first lines may come before it, and if they do  *)
(* it is printed in two halves, the second of which has no flags.          *)
(*                                                                         *)
(* The kernel and strace are external.  Numbers are used again.            *)
(***************************************************************************)
EXTENDS Integers, Sequences, FiniteSetsExt

CONSTANTS
    Tids,       \* numbers of threads, positive
    First,      \* the first process
    MaxLines,   \* bound on the lines of the trace
    MaxExits    \* bound on the threads that end

ASSUME TidsAssumption == Tids \subseteq Nat \ {0} /\ First \in Tids
ASSUME BoundsAssumption == MaxLines \in Nat /\ MaxExits \in Nat

VARIABLES
    task,       \* the process of every thread, 0 for a number not in use
    spawning,   \* the call a thread is in: what it has made
    born,       \* the numbers used so far: process and parent of the thread
    reused,     \* a number was used again
    exits,      \* the threads that have ended
    trace,      \* the lines printed
    events,     \* the lines read
    identities  \* the process of the threads heard of, or 0

kernel == <<task, spawning, born, reused, exits>>
vars == <<kernel, trace, events, identities>>

NoSpawn == [child |-> 0, thread |-> FALSE, split |-> FALSE]
Spawns == [child : Tids, thread : BOOLEAN, split : BOOLEAN] \cup {NoSpawn}

Threads(p) == { t \in Tids : task[t] = p }

----------------------------------------------------------------------------
(* Kernel and strace *)

Prints(t, spawn) ==
    /\ Len(trace) < MaxLines
    /\ trace' = Append(trace, [tid |-> t, process |-> task[t], spawn |-> spawn])

Call(t) ==
    /\ task[t] # 0 /\ spawning[t] = NoSpawn
    /\ Prints(t, NoSpawn)
    /\ UNCHANGED <<kernel, events, identities>>

Spawn(t, c) ==
    /\ Len(trace) < MaxLines /\ task[t] # 0 /\ spawning[t] = NoSpawn /\ task[c] = 0
    /\ \E thread, split \in BOOLEAN :
          /\ spawning' = [spawning EXCEPT ![t] = [child |-> c, thread |-> thread, split |-> split]]
          /\ task' = [task EXCEPT ![c] = IF thread THEN task[t] ELSE c]
    /\ reused' = (reused \/ born[c] # [process |-> 0, parent |-> 0])
    /\ born' = [born EXCEPT ![c] = [process |-> task'[c], parent |-> task[t]]]
    /\ UNCHANGED <<exits, trace, events, identities>>

SpawnReturns(t) ==
    /\ task[t] # 0 /\ spawning[t] # NoSpawn
    /\ Prints(t, spawning[t])
    /\ spawning' = [spawning EXCEPT ![t] = NoSpawn]
    /\ UNCHANGED <<task, born, reused, exits, events, identities>>

\* The first thread of a process stays until the others have gone.
Exit(t) ==
    /\ exits < MaxExits /\ task[t] # 0 /\ spawning[t] = NoSpawn
    /\ task[t] = t => Threads(t) = {t}
    /\ task' = [task EXCEPT ![t] = 0]
    /\ exits' = exits + 1
    /\ UNCHANGED <<spawning, born, reused, trace, events, identities>>

----------------------------------------------------------------------------
(* feed_line *)

\* Mutant: what is known from the trace is not asked.
BlindProcessOf(t) == IF task[t] # 0 THEN task[t] ELSE t

\* process_tgid, or what find_identity knows.
ProcessOf(t) ==
    IF task[t] # 0 THEN task[t] ELSE IF identities[t] # 0 THEN identities[t] ELSE t

\* spawned_id: the flags are looked for in the line that has the result.
IsThread(spawn) == spawn.thread /\ ~spawn.split

\* remember_identity, of the thread and of its child.
Remember(known, t, p, spawn) ==
    [u \in Tids |->
        IF u = spawn.child THEN (IF IsThread(spawn) THEN p ELSE u)
        ELSE IF u = t THEN p ELSE known[u]]

Feed ==
    /\ Len(events) < Len(trace)
    /\ LET line == trace[Len(events) + 1]
           p == ProcessOf(line.tid)
       IN  /\ events' = Append(events, [tid |-> line.tid, pid |-> p, spawn |-> line.spawn])
           /\ identities' = Remember(identities, line.tid, p, line.spawn)
    /\ UNCHANGED <<kernel, trace>>

----------------------------------------------------------------------------
(* build_process_graph *)

Spawning == { i \in DOMAIN events : events[i].spawn # NoSpawn }
Forks == { i \in Spawning : ~IsThread(events[i].spawn) }

Processes == { events[i].pid : i \in DOMAIN events } \cup { events[i].spawn.child : i \in Forks }

\* Mutant: the thread that forked is the parent.
ThreadParentOf(p) ==
    LET forks == { i \in Forks : events[i].spawn.child = p /\ events[i].pid # p }
    IN  IF forks = {} THEN 0 ELSE events[Max(forks)].tid

\* The last line that forked the process says who its parent is; 0 if there is none.
ParentOf(p) ==
    LET forks == { i \in Forks : events[i].spawn.child = p /\ events[i].pid # p }
    IN  IF forks = {} THEN 0 ELSE events[Max(forks)].pid

TidsOf(p) ==
    ({ events[i].tid : i \in { j \in DOMAIN events : events[j].pid = p } } \cup
     { events[i].spawn.child : i \in { j \in Spawning \ Forks : events[j].pid = p } }) \ {p}

----------------------------------------------------------------------------
Init ==
    /\ task = [t \in Tids |-> IF t = First THEN t ELSE 0]
    /\ spawning = [t \in Tids |-> NoSpawn]
    /\ born = [t \in Tids |-> [process |-> IF t = First THEN t ELSE 0, parent |-> 0]]
    /\ reused = FALSE /\ exits = 0
    /\ trace = <<>> /\ events = <<>>
    /\ identities = [t \in Tids |-> 0]

Next ==
    \/ \E t \in Tids : Call(t) \/ SpawnReturns(t) \/ Exit(t)
    \/ \E t, c \in Tids : Spawn(t, c)
    \/ Feed

Spec == Init /\ [][Next]_vars

----------------------------------------------------------------------------
(* Properties *)

Births == [process : Tids \cup {0}, parent : Tids \cup {0}]

TypeOK ==
    /\ task \in [Tids -> Tids \cup {0}] /\ spawning \in [Tids -> Spawns]
    /\ born \in [Tids -> Births] /\ reused \in BOOLEAN /\ exits \in 0..MaxExits
    /\ trace \in Seq([tid : Tids, process : Tids, spawn : Spawns])
    /\ events \in Seq([tid : Tids, pid : Tids, spawn : Spawns])
    /\ Len(events) <= Len(trace)
    /\ identities \in [Tids -> Tids \cup {0}]

\* The line that made the thread of line i, with its flags, comes before it, and it was read
\* under the right process: what is wrong once is handed down.
Announced(i) ==
    \/ trace[i].tid = trace[i].process
    \/ \E j \in 1..i - 1 :
          /\ trace[j].spawn.child = trace[i].tid /\ IsThread(trace[j].spawn)
          /\ events[j].pid = trace[j].process

\* However late the lines are read, each is shown under the process that printed it: unless a
\* number was used again, or the line that made the thread comes later or in halves.
PidRight ==
    ~reused => \A i \in DOMAIN events : Announced(i) => events[i].pid = trace[i].process

\* If the lines have all been read under the right process and no clone of a thread was split,
\* the processes of the graph are processes, under their parents, with their threads.
GraphTells ==
    (/\ ~reused
     /\ \A i \in DOMAIN events : events[i].pid = trace[i].process
     /\ \A i \in Spawning : ~(events[i].spawn.thread /\ events[i].spawn.split)) =>
        \A p \in Processes :
            /\ born[p].process = p
            /\ ParentOf(p) \in {0, born[p].parent}
            /\ \A t \in TidsOf(p) : born[t].process = p

\* However late the lines are read and however numbers and lines are mixed, what a line, the
\* processes and the graph say of who is whose is so: "The P popup reconstructs process and
\* thread relationships", src/strace-src/README.md.
ProcessesRight == TypeOK /\ PidRight /\ GraphTells
=============================================================================
