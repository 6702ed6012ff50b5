------------------------ MODULE TraceProcessesProofs ------------------------
(***************************************************************************)
(* That strace-src shows every line under the process that printed it, and *)
(* that the parents and threads it gives a process are the kernel's: for   *)
(* any number of threads and lines, however late the lines are read.       *)
(***************************************************************************)
EXTENDS TraceProcesses, SequenceTheorems, WellFoundedInduction, TLAPS

Lines == [tid : Tids, process : Tids, spawn : Spawns]
Reads == [tid : Tids, pid : Tids, spawn : Spawns]

\* A thread that is in a process has a first thread, which does not leave before it.
Leaders ==
    /\ \A t \in Tids : task[t] # 0 => task[task[t]] = task[t] /\ born[t].process = task[t]
    /\ \A t \in Tids : spawning[t] # NoSpawn => task[t] # 0

ReadInOrder ==
    \A i \in 1..Len(events) : events[i].tid = trace[i].tid /\ events[i].spawn = trace[i].spawn

\* What a thread of process p has made is what the kernel made.
Made(spawn, p) ==
    spawn # NoSpawn =>
        /\ born[spawn.child] = [process |-> IF spawn.thread THEN p ELSE spawn.child, parent |-> p]
        /\ spawn.thread => spawn.child # p

\* What was printed is what the kernel did; a first thread is its own process.
History ==
    /\ \A t \in Tids : born[t].process # 0 => born[born[t].process].process = born[t].process
    /\ \A t \in Tids : Made(spawning[t], task[t])
    /\ \A i \in 1..Len(trace) :
          born[trace[i].tid].process = trace[i].process /\ Made(trace[i].spawn, trace[i].process)

\* A thread is made in one call, which is printed once.
MadeOnce ==
    /\ \A i, j \in 1..Len(trace) :
          trace[i].spawn # NoSpawn /\ trace[i].spawn.child = trace[j].spawn.child => i = j
    /\ \A t \in Tids, i \in 1..Len(trace) :
          spawning[t] # NoSpawn => spawning[t].child # trace[i].spawn.child
    /\ \A t, u \in Tids :
          spawning[t] # NoSpawn /\ spawning[t].child = spawning[u].child => t = u

\* What is known of the threads: nothing of one not born, and no other of a first thread; of
\* one whose clone was read under the right process, its process.
KnownRight ==
    /\ \A t \in Tids : identities[t] # 0 => born[t].process # 0
    /\ \A t \in Tids : born[t].process = t => identities[t] \in {0, t}
    /\ \A i \in 1..Len(events) :
          IsThread(trace[i].spawn) /\ events[i].pid = trace[i].process =>
              identities[trace[i].spawn.child] = trace[i].process

EventsRight ==
    \A i \in 1..Len(events) : Announced(i) => events[i].pid = trace[i].process

IInv ==
    /\ TypeOK /\ Leaders /\ ReadInOrder
    /\ ~reused => History /\ MadeOnce /\ KnownRight /\ EventsRight

----------------------------------------------------------------------------
(* Types *)

LEMMA NoSpawnIs == /\ NoSpawn \in Spawns /\ NoSpawn.child = 0 /\ NoSpawn.thread = FALSE /\ NoSpawn.split = FALSE
                   /\ \A s \in Spawns : /\ s.child \in Tids \cup {0} /\ s.thread \in BOOLEAN /\ s.split \in BOOLEAN
                                        /\ s # NoSpawn <=> s.child \in Tids
                                        /\ s.child = 0 <=> s = NoSpawn
                                        /\ IsThread(s) => s.thread /\ s # NoSpawn
<1>1. 0 \notin Tids
  BY TidsAssumption
<1>2. NoSpawn \in Spawns /\ NoSpawn.child = 0 /\ NoSpawn.thread = FALSE /\ NoSpawn.split = FALSE
  BY DEF NoSpawn, Spawns
<1>3. ASSUME NEW s \in Spawns
      PROVE /\ s.child \in Tids \cup {0} /\ s.thread \in BOOLEAN /\ s.split \in BOOLEAN
            /\ s # NoSpawn <=> s.child \in Tids
            /\ s.child = 0 <=> s = NoSpawn
            /\ IsThread(s) => s.thread /\ s # NoSpawn
  <2>1. CASE s = NoSpawn
    BY <1>1, <1>2, <2>1 DEF IsThread
  <2>2. CASE s \in [child : Tids, thread : BOOLEAN, split : BOOLEAN]
    <3>1. s.child \in Tids /\ s.thread \in BOOLEAN /\ s.split \in BOOLEAN
      BY <2>2
    <3> QED
      BY <1>1, <1>2, <3>1 DEF IsThread
  <2> QED
    BY <2>1, <2>2 DEF Spawns
<1> QED
  BY <1>2, <1>3

LEMMA Typed ==
  ASSUME TypeOK
  PROVE  /\ DOMAIN task = Tids /\ DOMAIN spawning = Tids /\ DOMAIN born = Tids /\ DOMAIN identities = Tids
         /\ \A t \in Tids : /\ task[t] \in Tids \cup {0} /\ spawning[t] \in Spawns
                            /\ born[t] \in Births /\ identities[t] \in Tids \cup {0}
                            /\ born[t].process \in Tids \cup {0} /\ born[t].parent \in Tids \cup {0}
         /\ Len(trace) \in Nat /\ DOMAIN trace = 1..Len(trace)
         /\ Len(events) \in Nat /\ DOMAIN events = 1..Len(events)
         /\ Len(events) <= Len(trace) /\ 1..Len(events) \subseteq 1..Len(trace)
         /\ \A i \in 1..Len(trace) : /\ trace[i] \in Lines /\ trace[i].tid \in Tids
                                     /\ trace[i].process \in Tids /\ trace[i].spawn \in Spawns
         /\ \A i \in 1..Len(events) : /\ events[i] \in Reads /\ events[i].tid \in Tids
                                      /\ events[i].pid \in Tids /\ events[i].spawn \in Spawns
<1>1. /\ DOMAIN task = Tids /\ DOMAIN spawning = Tids /\ DOMAIN born = Tids /\ DOMAIN identities = Tids
      /\ \A t \in Tids : /\ task[t] \in Tids \cup {0} /\ spawning[t] \in Spawns
                         /\ born[t] \in Births /\ identities[t] \in Tids \cup {0}
  BY DEF TypeOK
<1>2. \A b \in Births : b.process \in Tids \cup {0} /\ b.parent \in Tids \cup {0}
  BY DEF Births
<1>3. trace \in Seq(Lines) /\ events \in Seq(Reads) /\ Len(events) <= Len(trace)
  BY DEF TypeOK, Lines, Reads
<1>4. /\ Len(trace) \in Nat /\ DOMAIN trace = 1..Len(trace)
      /\ Len(events) \in Nat /\ DOMAIN events = 1..Len(events)
  BY <1>3, LenProperties
<1>5. 1..Len(events) \subseteq 1..Len(trace)
  BY <1>3, <1>4
<1>6. /\ \A i \in 1..Len(trace) : trace[i] \in Lines
      /\ \A i \in 1..Len(events) : events[i] \in Reads
  BY <1>3
<1>7. /\ \A l \in Lines : l.tid \in Tids /\ l.process \in Tids /\ l.spawn \in Spawns
      /\ \A l \in Reads : l.tid \in Tids /\ l.pid \in Tids /\ l.spawn \in Spawns
  BY DEF Lines, Reads
<1> QED
  BY <1>1, <1>2, <1>3, <1>4, <1>5, <1>6, <1>7

LEMMA InitRight == Init => IInv
<1> SUFFICES ASSUME Init PROVE IInv
  OBVIOUS
<1>1. First \in Tids /\ 0 \notin Tids /\ NoSpawn \in Spawns /\ 0 \in 0..MaxExits
  BY TidsAssumption, NoSpawnIs, BoundsAssumption
<1>2. trace = <<>> /\ events = <<>> /\ Len(trace) = 0 /\ Len(events) = 0
      /\ reused = FALSE /\ exits = 0 /\ identities = [t \in Tids |-> 0]
      /\ spawning = [t \in Tids |-> NoSpawn]
      /\ task = [t \in Tids |-> IF t = First THEN t ELSE 0]
  BY DEF Init
<1>3. \A t \in Tids : born[t] = [process |-> IF t = First THEN t ELSE 0, parent |-> 0]
  BY DEF Init
<1>4. \A t \in Tids : born[t].process = (IF t = First THEN t ELSE 0)
  <2>1. \A x, y : [process |-> x, parent |-> y].process = x
    OBVIOUS
  <2> QED
    BY <1>3, <2>1
<1>5. TypeOK
  <2>1. \A t \in Tids : [process |-> IF t = First THEN t ELSE 0, parent |-> 0] \in Births
    BY DEF Births
  <2>2. born \in [Tids -> Births]
    BY <2>1 DEF Init
  <2>3. task \in [Tids -> Tids \cup {0}] /\ spawning \in [Tids -> Spawns] /\ identities \in [Tids -> Tids \cup {0}]
    BY <1>1, <1>2
  <2>4. /\ trace \in Seq([tid : Tids, process : Tids, spawn : Spawns])
        /\ events \in Seq([tid : Tids, pid : Tids, spawn : Spawns])
    BY <1>2
  <2>5. reused \in BOOLEAN /\ exits \in 0..MaxExits
    BY <1>1, <1>2, Zenon
  <2>6. Len(events) <= Len(trace)
    BY <1>2
  <2> QED
    BY <2>2, <2>3, <2>4, <2>5, <2>6, Zenon DEF TypeOK
<1>6. Leaders
  BY <1>1, <1>2, <1>4 DEF Leaders
<1>7. ReadInOrder /\ EventsRight /\ KnownRight
  BY <1>2, <1>4 DEF ReadInOrder, EventsRight, KnownRight
<1>8. History
  BY <1>1, <1>2, <1>4 DEF History, Made
<1>9. MadeOnce
  BY <1>2 DEF MadeOnce
<1> QED
  BY <1>5, <1>6, <1>7, <1>8, <1>9 DEF IInv

----------------------------------------------------------------------------
(* Kernel and strace *)

LEMMA StaysRead ==
  ASSUME TypeOK, EventsRight, events' = events, \A i \in 1..Len(events) : trace'[i] = trace[i]
  PROVE  EventsRight'
<1> SUFFICES ASSUME NEW i \in 1..Len(events), Announced(i)' PROVE events[i].pid = trace'[i].process
  BY DEF EventsRight
<1>1. Len(events) \in Nat /\ trace'[i] = trace[i]
  BY Typed
<1>2. \A j \in 1..i - 1 : trace'[j] = trace[j]
  BY <1>1
<1>3. Announced(i)
  BY <1>1, <1>2 DEF Announced
<1> QED
  BY <1>1, <1>3 DEF EventsRight

\* Call and SpawnReturns: a thread prints the call it is in, and is in none.
LEMMA PrintKeeps ==
  ASSUME IInv, NEW t \in Tids, task[t] # 0, Prints(t, spawning[t]),
         spawning' = [spawning EXCEPT ![t] = NoSpawn],
         UNCHANGED <<task, born, reused, exits, events, identities>>
  PROVE  IInv'
<1> DEFINE line == [tid |-> t, process |-> task[t], spawn |-> spawning[t]]
           last == Len(trace) + 1
<1>1. TypeOK /\ Leaders /\ ReadInOrder
  BY DEF IInv
<1>2. line \in Lines /\ line.tid = t /\ line.process = task[t] /\ line.spawn = spawning[t]
  BY <1>1, Typed DEF Lines
<1>3. trace' = Append(trace, line) /\ trace \in Seq(Lines)
  BY <1>1 DEF Prints, TypeOK, Lines
<1> HIDE DEF line
<1>4. /\ trace' \in Seq(Lines) /\ Len(trace') = last /\ trace'[last] = line
      /\ \A i \in 1..Len(trace) : trace'[i] = trace[i]
  BY <1>2, <1>3, AppendProperties
<1>5. /\ spawning' \in [Tids -> Spawns] /\ spawning'[t] = NoSpawn
      /\ \A u \in Tids : u # t => spawning'[u] = spawning[u]
  BY <1>1, NoSpawnIs DEF TypeOK
<1>6. Len(trace) \in Nat /\ Len(events) \in Nat /\ Len(events) <= Len(trace)
  BY <1>1, Typed
<1>7. \A i \in 1..last : i \in 1..Len(trace) \/ i = last
  BY <1>6
<1>8. TypeOK'
  <2>1. Len(events') <= Len(trace')
    BY <1>4, <1>6
  <2> QED
    BY <1>1, <1>4, <1>5, <2>1 DEF TypeOK, Lines
<1>9. Leaders'
  BY <1>1, <1>5 DEF Leaders
<1>10. ReadInOrder'
  BY <1>1, <1>4, <1>6 DEF ReadInOrder
<1>11. ASSUME ~reused' PROVE (History /\ MadeOnce /\ KnownRight /\ EventsRight)'
  <2>1. History /\ MadeOnce /\ KnownRight /\ EventsRight
    BY <1>11 DEF IInv
  <2>2. /\ \A s, p : Made(s, p)' <=> Made(s, p)
    BY DEF Made
  <2>3. Made(spawning[t], task[t]) /\ born[t].process = task[t]
    BY <1>1, <2>1 DEF History, Leaders
  <2>4. History'
    <3>1. \A u \in Tids : born'[u].process # 0 => born'[born'[u].process].process = born'[u].process
      BY <2>1 DEF History
    <3>2. \A u \in Tids : Made(spawning'[u], task'[u])
      BY <1>5, <2>1 DEF History, Made
    <3>3. \A i \in 1..last : born'[trace'[i].tid].process = trace'[i].process
                             /\ Made(trace'[i].spawn, trace'[i].process)
      BY <1>2, <1>4, <1>7, <2>1, <2>3 DEF History
    <3> QED
      BY <1>4, <3>1, <3>2, <3>3 DEF History, Made
  <2>5. MadeOnce'
    <3>1. ASSUME NEW i \in 1..last, NEW j \in 1..last, trace'[i].spawn # NoSpawn,
                 trace'[i].spawn.child = trace'[j].spawn.child
          PROVE  i = j
      <4>1. CASE i \in 1..Len(trace) /\ j \in 1..Len(trace)
        BY <1>4, <2>1, <3>1, <4>1 DEF MadeOnce
      <4>2. CASE i = last /\ j \in 1..Len(trace)
        BY <1>2, <1>4, <2>1, <3>1, <4>2 DEF MadeOnce
      <4>3. CASE j = last /\ i \in 1..Len(trace)
        <5>1. trace[i].spawn # NoSpawn /\ trace[i].spawn.child = spawning[t].child
          BY <1>2, <1>4, <3>1, <4>3
        <5>2. trace[i].spawn \in Spawns /\ spawning[t] \in Spawns
          BY <1>1, <4>3, Typed
        <5>3. spawning[t] # NoSpawn
          BY <5>1, <5>2, NoSpawnIs
        <5> QED
          BY <2>1, <4>3, <5>1, <5>3 DEF MadeOnce
      <4> QED
        BY <1>7, <4>1, <4>2, <4>3
    <3>2. ASSUME NEW u \in Tids, NEW i \in 1..last, spawning'[u] # NoSpawn
          PROVE  spawning'[u].child # trace'[i].spawn.child
      <4>1. u # t /\ spawning'[u] = spawning[u]
        BY <1>5, <3>2
      <4>2. CASE i \in 1..Len(trace)
        BY <1>4, <2>1, <3>2, <4>1, <4>2 DEF MadeOnce
      <4>3. CASE i = last
        BY <1>2, <1>4, <2>1, <3>2, <4>1, <4>3 DEF MadeOnce
      <4> QED
        BY <1>7, <4>2, <4>3
    <3>3. ASSUME NEW u \in Tids, NEW v \in Tids, spawning'[u] # NoSpawn,
                 spawning'[u].child = spawning'[v].child
          PROVE  u = v
      <4>1. spawning'[u] \in Spawns /\ spawning'[v] \in Spawns
        BY <1>5
      <4>2. spawning'[v] # NoSpawn
        BY <3>3, <4>1, NoSpawnIs
      <4>3. u # t /\ v # t /\ spawning'[u] = spawning[u] /\ spawning'[v] = spawning[v]
        BY <1>5, <3>3, <4>2
      <4> QED
        BY <2>1, <3>3, <4>3 DEF MadeOnce
    <3> QED
      BY <1>4, <3>1, <3>2, <3>3 DEF MadeOnce
  <2>6. KnownRight'
    <3>1. \A i \in 1..Len(events) : trace'[i] = trace[i]
      BY <1>4, <1>6
    <3> QED
      BY <2>1, <3>1 DEF KnownRight, IsThread
  <2>7. EventsRight'
    <3>1. \A i \in 1..Len(events) : trace'[i] = trace[i]
      BY <1>4, <1>6
    <3> QED
      BY <1>1, <2>1, <3>1, StaysRead
  <2> QED
    BY <2>4, <2>5, <2>6, <2>7
<1> QED
  BY <1>8, <1>9, <1>10, <1>11 DEF IInv

LEMMA CallKeeps == ASSUME IInv, NEW t \in Tids, Call(t) PROVE IInv'
<1>1. /\ task[t] # 0 /\ Prints(t, spawning[t])
      /\ UNCHANGED <<task, born, reused, exits, events, identities>>
  BY DEF Call, kernel
<1>2. spawning' = [spawning EXCEPT ![t] = NoSpawn]
  <2>1. spawning \in [Tids -> Spawns]
    BY DEF IInv, TypeOK
  <2>2. spawning' = spawning /\ spawning[t] = NoSpawn
    BY DEF Call, kernel
  <2> QED
    BY <2>1, <2>2
<1> QED
  BY <1>1, <1>2, PrintKeeps

LEMMA SpawnReturnsKeeps == ASSUME IInv, NEW t \in Tids, SpawnReturns(t) PROVE IInv'
  BY PrintKeeps DEF SpawnReturns

LEMMA ExitKeeps == ASSUME IInv, NEW t \in Tids, Exit(t) PROVE IInv'
<1>1. TypeOK /\ Leaders /\ ReadInOrder
  BY DEF IInv
<1>2. /\ task[t] # 0 /\ spawning[t] = NoSpawn
      /\ task[t] = t => \A u \in Tids : task[u] = t => u = t
      /\ task' = [task EXCEPT ![t] = 0] /\ exits' = exits + 1 /\ exits < MaxExits
      /\ UNCHANGED <<spawning, born, reused, trace, events, identities>>
  BY DEF Exit, Threads
<1>3. /\ task' \in [Tids -> Tids \cup {0}] /\ task'[t] = 0
      /\ \A u \in Tids : u # t => task'[u] = task[u]
  BY <1>1, <1>2 DEF TypeOK
<1>4. exits' \in 0..MaxExits
  BY <1>1, <1>2, BoundsAssumption DEF TypeOK
<1>5. TypeOK'
  BY <1>1, <1>2, <1>3, <1>4 DEF TypeOK
<1>6. Leaders'
  <2>1. ASSUME NEW u \in Tids, task'[u] # 0
        PROVE  task'[task'[u]] = task'[u] /\ born'[u].process = task'[u]
    <3>1. u # t /\ task'[u] = task[u] /\ task[task[u]] = task[u] /\ born[u].process = task[u] /\ task[u] \in Tids
      BY <1>1, <1>3, <2>1, Typed DEF Leaders
    <3>2. task[u] # t
      BY <1>2, <3>1
    <3> QED
      BY <1>2, <1>3, <3>1, <3>2
  <2>2. \A u \in Tids : spawning'[u] # NoSpawn => task'[u] # 0
    BY <1>1, <1>2, <1>3 DEF Leaders
  <2> QED
    BY <2>1, <2>2 DEF Leaders
<1>7. ReadInOrder'
  BY <1>1, <1>2 DEF ReadInOrder
<1>8. ASSUME ~reused' PROVE (History /\ MadeOnce /\ KnownRight /\ EventsRight)'
  <2>1. History /\ MadeOnce /\ KnownRight /\ EventsRight
    BY <1>2, <1>8 DEF IInv
  <2>2. History'
    BY <1>2, <1>3, <2>1 DEF History, Made
  <2>3. MadeOnce' /\ KnownRight'
    BY <1>2, <2>1 DEF MadeOnce, KnownRight
  <2>4. EventsRight'
    BY <1>1, <1>2, <2>1, StaysRead
  <2> QED
    BY <2>2, <2>3, <2>4
<1> QED
  BY <1>5, <1>6, <1>7, <1>8 DEF IInv

LEMMA SpawnKeeps == ASSUME IInv, NEW t \in Tids, NEW c \in Tids, Spawn(t, c) PROVE IInv'
<1>1. TypeOK /\ Leaders /\ ReadInOrder
  BY DEF IInv
<1>2. PICK thread \in BOOLEAN, split \in BOOLEAN :
        /\ spawning' = [spawning EXCEPT ![t] = [child |-> c, thread |-> thread, split |-> split]]
        /\ task' = [task EXCEPT ![c] = IF thread THEN task[t] ELSE c]
  BY DEF Spawn
<1> DEFINE spawn == [child |-> c, thread |-> thread, split |-> split]
           p == task[t]
           birth == [process |-> IF thread THEN p ELSE c, parent |-> p]
<1>3. /\ p # 0 /\ p \in Tids /\ spawning[t] = NoSpawn /\ task[c] = 0 /\ c # t /\ c # 0
      /\ reused' = (reused \/ born[c] # [process |-> 0, parent |-> 0])
      /\ UNCHANGED <<exits, trace, events, identities>>
  BY <1>1, TidsAssumption, Typed DEF Spawn
<1>4. spawn \in Spawns /\ spawn # NoSpawn /\ spawn.child = c /\ spawn.thread = thread
  <2>1. spawn \in Spawns /\ spawn.child = c /\ spawn.thread = thread
    BY DEF Spawns
  <2> QED
    BY <1>3, <2>1, NoSpawnIs
<1>5. birth \in Births /\ birth.process = (IF thread THEN p ELSE c) /\ birth.parent = p
      /\ birth.process # 0
  BY <1>3 DEF Births
<1>6. /\ task' \in [Tids -> Tids \cup {0}] /\ task'[c] = birth.process
      /\ \A u \in Tids : u # c => task'[u] = task[u]
  BY <1>1, <1>2, <1>3, <1>5 DEF TypeOK
<1>7. born' = [born EXCEPT ![c] = birth]
  <2>1. born' = [born EXCEPT ![c] = [process |-> task'[c], parent |-> task[t]]]
    BY DEF Spawn
  <2> QED
    BY <1>5, <1>6, <2>1
<1> HIDE DEF spawn, birth
<1>8. born' \in [Tids -> Births] /\ born'[c] = birth /\ \A u \in Tids : u # c => born'[u] = born[u]
  BY <1>1, <1>5, <1>7 DEF TypeOK
<1>9. /\ spawning' \in [Tids -> Spawns] /\ spawning'[t] = spawn
      /\ \A u \in Tids : u # t => spawning'[u] = spawning[u]
  <2>1. spawning' = [spawning EXCEPT ![t] = spawn]
    BY <1>2 DEF spawn
  <2> QED
    BY <1>1, <1>4, <2>1 DEF TypeOK
<1>10. TypeOK'
  <2>1. reused' \in BOOLEAN
    BY <1>3
  <2> QED
    BY <1>1, <1>3, <1>6, <1>8, <1>9, <2>1 DEF TypeOK
<1>11. Leaders'
  <2>1. ASSUME NEW u \in Tids, task'[u] # 0
        PROVE  task'[task'[u]] = task'[u] /\ born'[u].process = task'[u]
    <3>1. CASE u # c
      <4>1. task'[u] = task[u] /\ task[task[u]] = task[u] /\ born[u].process = task[u] /\ task[u] \in Tids
        BY <1>1, <1>6, <2>1, <3>1, Typed DEF Leaders
      <4>2. task[u] # c
        BY <1>3, <2>1, <4>1
      <4> QED
        BY <1>6, <1>8, <3>1, <4>1, <4>2
    <3>2. CASE u = c /\ thread
      <4>1. task[p] = p /\ p # c
        BY <1>1, <1>3 DEF Leaders
      <4> QED
        BY <1>3, <1>5, <1>6, <1>8, <3>2, <4>1
    <3>3. CASE u = c /\ ~thread
      BY <1>5, <1>6, <1>8, <3>3
    <3> QED
      BY <3>1, <3>2, <3>3
  <2>2. \A u \in Tids : spawning'[u] # NoSpawn => task'[u] # 0
    BY <1>1, <1>3, <1>5, <1>6, <1>9 DEF Leaders
  <2> QED
    BY <2>1, <2>2 DEF Leaders
<1>12. ReadInOrder'
  BY <1>1, <1>3 DEF ReadInOrder
<1>13. ASSUME ~reused' PROVE (History /\ MadeOnce /\ KnownRight /\ EventsRight)'
  <2>1. History /\ MadeOnce /\ KnownRight /\ EventsRight
    BY <1>3, <1>13 DEF IInv
  <2>2. born[c].process = 0
    <3>1. born[c] = [process |-> 0, parent |-> 0]
      BY <1>3, <1>13
    <3> QED
      BY <3>1
  \* What has been made before is not c.
  <2>3. ASSUME NEW s \in Spawns, NEW q \in Tids, Made(s, q), s # NoSpawn PROVE s.child # c
    <3>1. born[s.child] = [process |-> IF s.thread THEN q ELSE s.child, parent |-> q] /\ s.child \in Tids
      BY <2>3, NoSpawnIs DEF Made
    <3>2. born[s.child].process # 0
      BY <3>1, TidsAssumption
    <3> QED
      BY <2>2, <3>2
  <2>4. ASSUME NEW s \in Spawns, NEW q \in Tids, Made(s, q) PROVE Made(s, q)'
    <3>1. s # NoSpawn => s.child # c /\ s.child \in Tids
      BY <2>3, <2>4, NoSpawnIs
    <3> QED
      BY <1>8, <2>4, <3>1 DEF Made
  <2>5. \A u \in Tids : spawning[u] # NoSpawn => task[u] \in Tids /\ Made(spawning[u], task[u])
    BY <1>1, <2>1, Typed DEF Leaders, History
  <2>6. \A i \in 1..Len(trace) :
           /\ trace[i].tid # c /\ trace[i].tid \in Tids /\ trace[i].spawn \in Spawns
           /\ trace[i].process \in Tids /\ born[trace[i].tid].process = trace[i].process
           /\ Made(trace[i].spawn, trace[i].process)
    BY <1>1, <2>1, <2>2, Typed, TidsAssumption DEF History
  <2>7. \A i \in 1..Len(trace) : trace[i].spawn.child # c
    <3> SUFFICES ASSUME NEW i \in 1..Len(trace), trace[i].spawn.child = c PROVE FALSE
      OBVIOUS
    <3>1. trace[i].spawn # NoSpawn
      BY <1>3, <2>6, NoSpawnIs
    <3> QED
      BY <2>3, <2>6, <3>1
  <2>8. \A u \in Tids : spawning[u].child # c
    <3> SUFFICES ASSUME NEW u \in Tids, spawning[u].child = c PROVE FALSE
      OBVIOUS
    <3>1. spawning[u] # NoSpawn /\ spawning[u] \in Spawns
      BY <1>1, <1>3, NoSpawnIs, Typed
    <3> QED
      BY <2>3, <2>5, <3>1
  <2>9. History'
    <3>1. ASSUME NEW u \in Tids, born'[u].process # 0
          PROVE  born'[born'[u].process].process = born'[u].process
      <4>1. CASE u # c
        <5>1. born'[u].process = born[u].process /\ born[born[u].process].process = born[u].process
              /\ born[u].process \in Tids
          BY <1>1, <1>8, <2>1, <3>1, <4>1, Typed DEF History
        <5>2. born[u].process # c
          BY <1>3, <2>2, <5>1
        <5> QED
          BY <1>8, <5>1, <5>2
      <4>2. CASE u = c /\ thread
        <5>1. born[p].process = p /\ p # c
          <6>1. task[p] = p
            BY <1>1, <1>3 DEF Leaders
          <6> QED
            BY <1>1, <1>3, <6>1 DEF Leaders
        <5> QED
          BY <1>3, <1>5, <1>8, <4>2, <5>1
      <4>3. CASE u = c /\ ~thread
        BY <1>5, <1>8, <4>3
      <4> QED
        BY <4>1, <4>2, <4>3
    <3>2. ASSUME NEW u \in Tids PROVE Made(spawning[u], task[u])' 
      <4>1. CASE u = t
        <5>1. thread => c # p
          BY <1>1, <1>3 DEF Leaders
        <5>2. birth = [process |-> IF spawn.thread THEN p ELSE spawn.child, parent |-> p]
          BY <1>4 DEF birth
        <5>3. task'[t] = p
          BY <1>3, <1>6
        <5> QED
          BY <1>4, <1>8, <1>9, <4>1, <5>1, <5>2, <5>3 DEF Made
      <4>2. CASE u # t /\ spawning[u] = NoSpawn
        BY <1>9, <4>2 DEF Made
      <4>3. CASE u # t /\ spawning[u] # NoSpawn
        <5>1. spawning'[u] = spawning[u] /\ u # c /\ task'[u] = task[u]
          BY <1>1, <1>3, <1>6, <1>9, <4>3 DEF Leaders
        <5>2. born[spawning[u].child] = born'[spawning[u].child]
          <6>1. spawning[u].child \in Tids
            BY <1>1, <4>3, Typed, NoSpawnIs
          <6> QED
            BY <1>8, <2>8, <6>1
        <5> QED
          BY <2>5, <4>3, <5>1, <5>2 DEF Made
      <4> QED
        BY <4>1, <4>2, <4>3
    <3>3. ASSUME NEW i \in 1..Len(trace)
          PROVE  born'[trace[i].tid].process = trace[i].process /\ Made(trace[i].spawn, trace[i].process)'
      <4>1. Made(trace[i].spawn, trace[i].process) /\ trace[i].spawn \in Spawns /\ trace[i].process \in Tids
        BY <2>6
      <4>2. trace[i].spawn # NoSpawn => trace[i].spawn.child \in Tids /\ trace[i].spawn.child # c
        BY <2>7, <4>1, NoSpawnIs
      <4>3. Made(trace[i].spawn, trace[i].process)'
        BY <1>3, <1>8, <4>1, <4>2 DEF Made
      <4> QED
        BY <1>8, <2>6, <4>3
    <3> QED
      BY <1>3, <3>1, <3>2, <3>3 DEF History
  <2>10. MadeOnce'
    <3>1. \A u \in Tids, i \in 1..Len(trace) : spawning'[u] # NoSpawn => spawning'[u].child # trace[i].spawn.child
      BY <1>4, <1>9, <2>1, <2>7 DEF MadeOnce
    <3>2. ASSUME NEW u \in Tids, NEW v \in Tids, spawning'[u] # NoSpawn,
                 spawning'[u].child = spawning'[v].child
          PROVE  u = v
      BY <1>4, <1>9, <2>1, <2>8, <3>2 DEF MadeOnce
    <3> QED
      BY <1>3, <2>1, <3>1, <3>2 DEF MadeOnce
  <2>11. KnownRight'
    <3>1. identities[c] = 0
      BY <2>1, <2>2 DEF KnownRight
    <3>2. \A u \in Tids : identities[u] # 0 => born'[u].process # 0
      BY <1>8, <2>1, <3>1 DEF KnownRight
    <3>3. \A u \in Tids : born'[u].process = u => identities[u] \in {0, u}
      BY <1>8, <2>1, <3>1 DEF KnownRight
    <3> QED
      BY <1>3, <2>1, <3>2, <3>3 DEF KnownRight
  <2>12. EventsRight'
    BY <1>1, <1>3, <2>1, StaysRead
  <2> QED
    BY <2>9, <2>10, <2>11, <2>12
<1> QED
  BY <1>10, <1>11, <1>12, <1>13 DEF IInv

----------------------------------------------------------------------------
(* feed_line *)

LEMMA FeedKeeps == ASSUME IInv, Feed PROVE IInv'
<1> DEFINE last == Len(events) + 1
           line == trace[last]
           t == line.tid
           p == ProcessOf(t)
           read == [tid |-> t, pid |-> p, spawn |-> line.spawn]
           child == line.spawn.child
<1>1. TypeOK /\ Leaders /\ ReadInOrder
  BY DEF IInv
<1>2. Len(events) \in Nat /\ Len(trace) \in Nat /\ last \in 1..Len(trace) /\ last \in Nat
  BY <1>1, Typed DEF Feed
<1>3. /\ t \in Tids /\ line.process \in Tids /\ line.spawn \in Spawns
      /\ task[t] \in Tids \cup {0} /\ identities[t] \in Tids \cup {0} /\ 0 \notin Tids
      /\ child \in Tids \cup {0} /\ line.spawn.thread \in BOOLEAN
  BY <1>1, <1>2, Typed, NoSpawnIs, TidsAssumption
<1>4. p \in Tids
  BY <1>3 DEF ProcessOf
<1>5. /\ events' = Append(events, read)
      /\ identities' = Remember(identities, t, p, line.spawn)
      /\ UNCHANGED <<task, spawning, born, reused, exits, trace>>
  BY DEF Feed, kernel
<1>6. /\ identities' \in [Tids -> Tids \cup {0}]
      /\ \A u \in Tids : identities'[u] =
            IF u = child THEN (IF IsThread(line.spawn) THEN p ELSE u) ELSE IF u = t THEN p ELSE identities[u]
  <2>1. \A u \in Tids : identities[u] \in Tids \cup {0}
    BY <1>1, Typed
  <2> QED
    BY <1>4, <1>5, <2>1 DEF Remember
<1>7. read \in Reads /\ read.tid = t /\ read.pid = p /\ read.spawn = line.spawn
  BY <1>3, <1>4 DEF Reads
<1> HIDE DEF read, p
<1>8. /\ events' \in Seq(Reads) /\ Len(events') = last /\ events'[last] = read
      /\ \A i \in 1..Len(events) : events'[i] = events[i]
  BY <1>1, <1>5, <1>7, AppendProperties DEF TypeOK, Reads
<1>9. \A i \in 1..last : i \in 1..Len(events) \/ i = last
  BY <1>2
<1>10. TypeOK'
  <2>1. Len(events') <= Len(trace')
    BY <1>2, <1>5, <1>8
  <2> QED
    BY <1>1, <1>5, <1>6, <1>8, <2>1 DEF TypeOK, Reads
<1>11. Leaders'
  BY <1>1, <1>5 DEF Leaders
<1>12. ReadInOrder'
  BY <1>1, <1>5, <1>7, <1>8, <1>9 DEF ReadInOrder
<1>13. ASSUME ~reused' PROVE (History /\ MadeOnce /\ KnownRight /\ EventsRight)'
  <2>1. History /\ MadeOnce /\ KnownRight /\ EventsRight
    BY <1>5, <1>13 DEF IInv
  <2>2. History' /\ MadeOnce'
    BY <1>5, <2>1 DEF History, MadeOnce, Made
  <2>3. born[t].process = line.process /\ Made(line.spawn, line.process)
    BY <1>2, <2>1 DEF History
  <2>4. task[t] # 0 => p = line.process
    BY <1>1, <1>3, <2>3 DEF p, ProcessOf, Leaders
  <2>5. task[t] = 0 /\ identities[t] # 0 => p = identities[t]
    BY DEF p, ProcessOf
  <2>6. task[t] = 0 /\ identities[t] = 0 => p = t
    BY DEF p, ProcessOf
  <2>7. child # 0 => /\ born[child].process = IF line.spawn.thread THEN line.process ELSE child
                     /\ line.spawn.thread => child # line.process
    <3>1. child # 0 => line.spawn # NoSpawn
      BY <1>3, NoSpawnIs
    <3>2. \A x, y : [process |-> x, parent |-> y].process = x
      OBVIOUS
    <3> QED
      BY <2>3, <3>1, <3>2 DEF Made
  <2>8. IsThread(line.spawn) => line.spawn.thread /\ child # 0 /\ child \in Tids
    BY <1>3, NoSpawnIs
  \* Of a first thread nothing wrong is learnt.
  <2>9. born[t].process = t => p = t
    BY <1>3, <2>1, <2>3, <2>4, <2>5, <2>6 DEF KnownRight
  <2>10. \A u \in Tids : identities'[u] # 0 => born[u].process # 0
    BY <1>3, <1>6, <2>1, <2>3, <2>7 DEF KnownRight
  <2>11. \A u \in Tids : born[u].process = u => identities'[u] \in {0, u}
    BY <1>3, <1>6, <2>1, <2>7, <2>8, <2>9 DEF KnownRight
  <2>12. ASSUME NEW i \in 1..last, IsThread(trace[i].spawn), events'[i].pid = trace[i].process
         PROVE  identities'[trace[i].spawn.child] = trace[i].process
    <3> DEFINE u == trace[i].spawn.child
    <3>1. i \in 1..Len(trace)
      BY <1>2
    <3>2. trace[i].spawn \in Spawns /\ trace[i].spawn # NoSpawn /\ u \in Tids /\ trace[i].process \in Tids
      BY <1>1, <2>12, <3>1, Typed, NoSpawnIs
    <3>3. CASE i = last
      BY <1>6, <1>7, <1>8, <2>8, <2>12, <3>3
    <3>4. CASE i \in 1..Len(events)
      <4>1. identities[u] = trace[i].process
        BY <1>8, <2>1, <2>12, <3>4 DEF KnownRight
      <4>2. u # child
        <5>1. i # last
          BY <1>2, <3>4
        <5> QED
          BY <1>2, <2>1, <3>1, <3>2, <5>1 DEF MadeOnce
      <4>3. born[u].process = trace[i].process
        <5>1. Made(trace[i].spawn, trace[i].process) /\ trace[i].spawn.thread
          BY <2>1, <2>12, <3>1 DEF History, IsThread
        <5>2. \A x, y : [process |-> x, parent |-> y].process = x
          OBVIOUS
        <5> QED
          BY <3>2, <5>1, <5>2 DEF Made
      <4>4. u = t => p = trace[i].process
        BY <1>3, <2>3, <2>4, <2>5, <3>2, <4>1, <4>3
      <4> QED
        BY <1>6, <3>2, <4>1, <4>2, <4>4
    <3> QED
      BY <1>9, <3>3, <3>4
  <2>13. KnownRight'
    BY <1>5, <1>8, <2>10, <2>11, <2>12 DEF KnownRight, IsThread
  <2>14. EventsRight'
    <3>1. ASSUME NEW i \in 1..last, Announced(i)' PROVE events'[i].pid = trace[i].process
      <4>1. \A j \in 1..i - 1 : j \in 1..Len(events) /\ events'[j] = events[j]
        BY <1>2, <1>8
      <4>2. Announced(i)
        BY <1>5, <3>1, <4>1 DEF Announced, IsThread
      <4>3. CASE i \in 1..Len(events)
        BY <1>8, <2>1, <4>2, <4>3 DEF EventsRight
      <4>4. CASE i = last
        <5>1. CASE t = line.process
          BY <1>7, <1>8, <2>3, <2>9, <4>4, <5>1
        <5>2. ASSUME NEW j \in 1..i - 1, trace[j].spawn.child = t, IsThread(trace[j].spawn),
                     events[j].pid = trace[j].process
              PROVE  events'[i].pid = line.process
          <6>1. j \in 1..Len(events) /\ j \in 1..Len(trace)
            BY <1>2, <4>1, <5>2
          <6>2. identities[t] = trace[j].process
            BY <2>1, <5>2, <6>1 DEF KnownRight
          <6>3. trace[j].process = line.process
            <7>1. Made(trace[j].spawn, trace[j].process) /\ trace[j].spawn.thread /\ trace[j].spawn # NoSpawn
              <8>1. trace[j].spawn \in Spawns
                BY <1>1, <6>1, Typed
              <8> QED
                BY <2>1, <5>2, <6>1, <8>1, NoSpawnIs DEF History
            <7>2. born[t].process = trace[j].process
              BY <5>2, <7>1 DEF Made
            <7> QED
              BY <2>3, <7>2
          <6>4. p = line.process
            BY <1>3, <2>4, <2>5, <6>2, <6>3
          <6> QED
            BY <1>7, <1>8, <4>4, <6>4
        <5> QED
          BY <4>2, <4>4, <5>1, <5>2 DEF Announced
      <4> QED
        BY <1>9, <4>3, <4>4
    <3> QED
      BY <1>5, <1>8, <3>1 DEF EventsRight
  <2> QED
    BY <2>2, <2>13, <2>14
<1> QED
  BY <1>10, <1>11, <1>12, <1>13 DEF IInv

LEMMA NextKeeps == IInv /\ [Next]_vars => IInv'
<1> SUFFICES ASSUME IInv, [Next]_vars PROVE IInv'
  OBVIOUS
<1>1. ASSUME NEW t \in Tids, Call(t) \/ SpawnReturns(t) \/ Exit(t) PROVE IInv'
  BY <1>1, CallKeeps, SpawnReturnsKeeps, ExitKeeps
<1>2. ASSUME NEW t \in Tids, NEW c \in Tids, Spawn(t, c) PROVE IInv'
  BY <1>2, SpawnKeeps
<1>3. CASE Feed
  BY <1>3, FeedKeeps
<1>4. CASE UNCHANGED vars
  <2>1. UNCHANGED <<task, spawning, born, reused, exits, trace, events, identities>>
    BY <1>4 DEF vars, kernel
  <2>2. TypeOK' /\ Leaders' /\ ReadInOrder'
    BY <2>1 DEF IInv, TypeOK, Leaders, ReadInOrder
  <2>3. (~reused => History /\ MadeOnce /\ KnownRight /\ EventsRight)'
    BY <2>1 DEF IInv, History, MadeOnce, Made, KnownRight, EventsRight, Announced
  <2> QED
    BY <2>2, <2>3 DEF IInv
<1> QED
  BY <1>1, <1>2, <1>3, <1>4 DEF Next

----------------------------------------------------------------------------
(* build_process_graph *)

LEMMA Least == \A T \in SUBSET Nat : T # {} => \E x \in T : \A y \in T : x <= y
<1> SUFFICES ASSUME NEW T \in SUBSET Nat, T # {} PROVE \E x \in T : \A y \in T : x <= y
  OBVIOUS
<1> DEFINE Below == {pair \in Nat \X Nat : pair[1] < pair[2]}
<1>1. IsWellFoundedOn(Below, Nat)
  BY NatLessThanWellFounded, Zenon DEF OpToRel
<1> HIDE DEF Below
<1>2. PICK x \in T : \A y \in T : <<y, x>> \notin Below
  BY <1>1, WFMin
<1>3. ASSUME NEW y \in T PROVE x <= y
  <2>1. y \in Nat /\ x \in Nat /\ <<y, x>> \notin Below
    BY <1>2
  <2> QED
    BY <2>1 DEF Below
<1> QED
  BY <1>3

LEMMA MaxIsThere ==
  ASSUME NEW n \in Nat, NEW S \in SUBSET (1..n), S # {}
  PROVE  Max(S) \in S
<1> DEFINE short == {d \in Nat : n - d \in S}
<1>1. short # {}
  <2>1. PICK i \in S : TRUE
    OBVIOUS
  <2>2. n - i \in short
    BY <2>1
  <2> QED
    BY <2>2
<1>2. PICK x \in short : \A y \in short : x <= y
  BY <1>1, Least
<1>3. \A j \in S : n - j \in short
  OBVIOUS
<1>4. n - x \in S /\ \A j \in S : n - x >= j
  BY <1>2, <1>3
<1> QED
  BY <1>4 DEF Max

LEMMA GraphIsTold == ASSUME IInv PROVE GraphTells
<1>1. TypeOK /\ ReadInOrder
  BY DEF IInv
<1> SUFFICES ASSUME ~reused, \A i \in DOMAIN events : events[i].pid = trace[i].process,
                    \A i \in Spawning : ~(events[i].spawn.thread /\ events[i].spawn.split),
                    NEW p \in Processes
    PROVE  /\ born[p].process = p
           /\ ParentOf(p) \in {0, born[p].parent}
           /\ \A t \in TidsOf(p) : born[t].process = p
  BY DEF GraphTells
<1>2. History
  BY DEF IInv
<1>3. DOMAIN events = 1..Len(events) /\ Len(events) \in Nat
  BY <1>1, Typed
<1>4. ASSUME NEW i \in 1..Len(events)
      PROVE  /\ i \in 1..Len(trace) /\ events[i].tid = trace[i].tid /\ events[i].spawn = trace[i].spawn
             /\ events[i].pid = trace[i].process /\ events[i].pid \in Tids /\ events[i].tid \in Tids
             /\ born[events[i].tid].process = events[i].pid
             /\ events[i].spawn \in Spawns /\ Made(events[i].spawn, events[i].pid)
  BY <1>1, <1>2, <1>3, Typed DEF ReadInOrder, History
<1>5. ASSUME NEW i \in Spawning
      PROVE  LET spawn == events[i].spawn IN
             /\ i \in 1..Len(events) /\ spawn.child \in Tids /\ spawn.child # 0
             /\ born[spawn.child].process = IF spawn.thread THEN events[i].pid ELSE spawn.child
             /\ born[spawn.child].parent = events[i].pid
             /\ IsThread(spawn) <=> spawn.thread
  <2> DEFINE spawn == events[i].spawn
             made == IF spawn.thread THEN events[i].pid ELSE spawn.child
  <2>1. i \in 1..Len(events) /\ spawn # NoSpawn /\ ~(spawn.thread /\ spawn.split)
    BY <1>3 DEF Spawning
  <2>2. spawn.child \in Tids /\ spawn.child # 0
    BY <1>4, <2>1, NoSpawnIs, TidsAssumption
  <2>3. born[spawn.child] = [process |-> made, parent |-> events[i].pid]
    BY <1>4, <2>1 DEF Made
  <2> HIDE DEF made
  <2>4. born[spawn.child].process = made /\ born[spawn.child].parent = events[i].pid
    BY <2>3
  <2> QED
    BY <2>1, <2>2, <2>4 DEF IsThread, made
<1>6. born[p].process = p
  <2>1. ASSUME NEW i \in 1..Len(events), p = events[i].pid PROVE born[p].process = p
    <3>1. born[events[i].tid].process = p /\ p # 0 /\ events[i].tid \in Tids
      BY <1>4, <2>1, TidsAssumption
    <3> QED
      BY <1>2, <3>1 DEF History
  <2>2. ASSUME NEW i \in Forks, p = events[i].spawn.child PROVE born[p].process = p
    BY <1>5, <2>2 DEF Forks
  <2> QED
    BY <1>3, <2>1, <2>2 DEF Processes
<1>7. ParentOf(p) \in {0, born[p].parent}
  <2> DEFINE forks == { i \in Forks : events[i].spawn.child = p /\ events[i].pid # p }
  <2>1. ASSUME forks # {} PROVE events[Max(forks)].pid = born[p].parent
    <3>1. forks \in SUBSET (1..Len(events))
      BY <1>5 DEF Forks
    <3>2. Max(forks) \in forks
      BY <1>3, <2>1, <3>1, MaxIsThere
    <3> QED
      BY <1>5, <3>2 DEF Forks
  <2> QED
    BY <2>1 DEF ParentOf
<1>8. ASSUME NEW t \in TidsOf(p) PROVE born[t].process = p
  <2>1. ASSUME NEW i \in 1..Len(events), events[i].pid = p, t = events[i].tid PROVE born[t].process = p
    BY <1>4, <2>1
  <2>2. ASSUME NEW i \in Spawning \ Forks, events[i].pid = p, t = events[i].spawn.child
        PROVE  born[t].process = p
    <3>1. events[i].spawn.thread
      BY <1>5, <2>2 DEF Forks
    <3> QED
      BY <1>5, <2>2, <3>1
  <2> QED
    BY <1>3, <2>1, <2>2 DEF TidsOf
<1> QED
  BY <1>6, <1>7, <1>8

----------------------------------------------------------------------------
(* The theorem *)

\* For any number of threads, lines and exits and any delay of the reader: a line is shown under
\* the process that printed it, if no number was used again and the line that made the thread
\* came before with its flags, read under the right process; and then the parents and threads
\* of a process are the kernel's (feed_line, process_tgid, remember_identity, build_process_graph).
THEOREM ProcessesAreRight == Spec => []ProcessesRight
<1>1. ASSUME IInv PROVE ProcessesRight
  <2>1. TypeOK /\ GraphTells
    BY <1>1, GraphIsTold DEF IInv
  <2>2. PidRight
    <3>1. DOMAIN events = 1..Len(events)
      BY <2>1, Typed
    <3> QED
      BY <1>1, <3>1 DEF IInv, PidRight, EventsRight
  <2> QED
    BY <2>1, <2>2 DEF ProcessesRight
<1>2. IInv => ProcessesRight
  BY <1>1
<1>3. Spec => []IInv
  BY InitRight, NextKeeps, PTL DEF Spec
<1> QED
  BY <1>2, <1>3, PTL
=============================================================================
