------------------------- MODULE TraceSessionProofs -------------------------
(***************************************************************************)
(* That a save of strace-src leaves the old file or all of the new one at  *)
(* the path, whatever step fails and whenever the program is killed or the *)
(* power fails; and that a session reads, parses, resolves and saves all   *)
(* that strace has written and nothing else, wherever the reads cut it,    *)
(* however strace ends.  For every trace and every size of the pipe.       *)
(***************************************************************************)
EXTENDS TraceSession, SequenceTheorems, WellFoundedInduction, TLAPS

\* All of the new file.
Whole == [count |-> Len(saved), events |-> saved]

FileTypes ==
    /\ events \in Seq(Events) /\ saved \in Seq(Events)
    /\ temp \in Files \cup {NoFile} /\ synced \in BOOLEAN
    /\ step \in Steps

\* Until the renaming the path is not touched.
Untouched ==
    step \in Running \cup {"idle", "failed"} => file = OldFile /\ stable = OldFile

\* The new file is the first events of the trace, as they are.
Written ==
    step \in {"write", "close", "rename"} =>
        /\ temp \in Files
        /\ temp.count = Len(events) /\ Len(temp.events) <= Len(events)
        /\ \A k \in 1..Len(temp.events) : temp.events[k] = events[k]

\* It is renamed only when it is complete and on the disk.
Ready == step \in {"close", "rename"} => synced /\ Len(temp.events) = Len(events)

\* What is at the path will not be cut off any more.
Placed == \A f \in {file, stable} : f = OldFile \/ (synced /\ f = Whole)

FileInv ==
    FileTypes /\ Untouched /\ Written /\ Ready /\ Placed /\ TempRemoved /\ Reopens

----------------------------------------------------------------------------
(* What an event resolves to is an event *)

LEMMA Least ==
    \A T \in SUBSET Nat : T # {} => \E x \in T : \A y \in T : x <= y
<1> SUFFICES ASSUME NEW T \in SUBSET Nat, T # {}
    PROVE \E x \in T : \A y \in T : x <= y
  OBVIOUS
<1> DEFINE R == {ss \in Nat \X Nat : ss[1] < ss[2]}
<1>1. IsWellFoundedOn(R, Nat)
  BY NatLessThanWellFounded, Zenon DEF OpToRel
<1> HIDE DEF R
<1>2. PICK x \in T : \A y \in T : <<y, x>> \notin R
  BY <1>1, WFMin
<1>3. \A y \in T : x <= y
  <2> TAKE y \in T
  <2>1. y \in Nat /\ x \in Nat
    OBVIOUS
  <2>2. <<y, x>> \notin R
    BY <1>2
  <2> QED
    BY <2>1, <2>2 DEF R
<1> QED
  BY <1>3

LEMMA SourceFrameType ==
    \A e \in Events : SourceFrame(e) \in Nat
<1> SUFFICES ASSUME NEW e \in Events
    PROVE SourceFrame(e) \in Nat
  OBVIOUS
<1>1. Sourced(e) \in SUBSET Nat
  BY DEF Sourced, Events
<1>2. CASE Sourced(e) = {}
  BY <1>2 DEF SourceFrame
<1>3. CASE Sourced(e) # {}
  <2>1. \E i \in Sourced(e) : \A j \in Sourced(e) : i <= j
    BY <1>1, <1>3, Least
  <2>2. SourceFrame(e) \in Sourced(e)
    BY <1>3, <2>1 DEF SourceFrame
  <2> QED
    BY <1>1, <2>2
<1> QED
  BY <1>2, <1>3

LEMMA ResolveType ==
    \A e \in Events : Resolve(e) \in Events
<1> SUFFICES ASSUME NEW e \in Events
    PROVE Resolve(e) \in Events
  OBVIOUS
<1>1. SourceFrame(e) \in Nat
  BY SourceFrameType
<1>2. CASE e.resolved # 0
  BY <1>2 DEF Resolve
<1>3. CASE e.resolved = 0
  <2> DEFINE r == IF Sourced(e) = {} THEN 2 ELSE 1
  <2>1. Resolve(e) = [e EXCEPT !.resolved = r, !.source = SourceFrame(e)]
    BY <1>3 DEF Resolve
  <2>2. r \in 0..2
    OBVIOUS
  <2> HIDE DEF r
  <2> QED
    BY <1>1, <2>1, <2>2 DEF Events
<1> QED
  BY <1>2, <1>3

----------------------------------------------------------------------------
(* The invariant *)

LEMMA InitEstablishes == FileInit => FileInv
<1> SUFFICES ASSUME FileInit PROVE FileInv
  OBVIOUS
<1>1. FileTypes
  <2>1. /\ events = <<>> /\ saved = <<>> /\ temp = NoFile /\ synced = FALSE /\ step = "idle"
    BY DEF FileInit
  <2>2. events \in Seq(Events) /\ saved \in Seq(Events)
    BY <2>1
  <2> QED
    BY <2>1, <2>2, Zenon DEF FileTypes, Steps
<1>2. Untouched /\ Written /\ Ready /\ Placed /\ TempRemoved /\ Reopens
  BY DEF FileInit, Untouched, Written, Ready, Placed, TempRemoved, Reopens, Running
<1> QED
  BY <1>1, <1>2 DEF FileInv

LEMMA CaptureKeeps == FileInv /\ Capture => FileInv'
  BY DEF Capture, FileInv, FileTypes, Untouched, Written, Ready, Placed, TempRemoved, Reopens, Whole, Steps, Running

LEMMA CreateKeeps == FileInv /\ Create => FileInv'
<1> SUFFICES ASSUME FileInv, Create PROVE FileInv'
  OBVIOUS
<1> USE DEF Create, FileInv, FileTypes
<1>1. FileTypes'
  <2>1. Header \in Files
    BY DEF Header, Files
  <2> QED
    BY <2>1 DEF Steps, Running
<1>2. Untouched'
  BY DEF Untouched, Running
<1>3. Written'
  BY DEF Written, Header, Files
<1>4. Ready' /\ TempRemoved' /\ Reopens'
  BY DEF Ready, TempRemoved, Reopens
<1>5. Placed'
  BY DEF Untouched, Placed, Running
<1> QED
  BY <1>1, <1>2, <1>3, <1>4, <1>5

LEMMA WriteEventKeeps == FileInv /\ WriteEvent => FileInv'
<1> SUFFICES ASSUME FileInv, WriteEvent PROVE FileInv'
  OBVIOUS
<1> DEFINE i == Len(temp.events) + 1
<1>1. /\ step = "write" /\ step' = "write" /\ Len(temp.events) < temp.count
      /\ events' = [events EXCEPT ![i] = Resolve(@)]
      /\ temp' = [temp EXCEPT !.events = Append(@, events'[i])]
      /\ UNCHANGED <<file, stable, synced, saved, replayed>>
  BY DEF WriteEvent
<1>2. /\ events \in Seq(Events) /\ temp \in Files /\ temp.count = Len(events)
      /\ temp.events \in Seq(Events) /\ Len(temp.events) \in Nat /\ Len(events) \in Nat
      /\ \A k \in 1..Len(temp.events) : temp.events[k] = events[k]
  BY <1>1 DEF FileInv, FileTypes, Written, Files
<1>3. i \in 1..Len(events) /\ events[i] \in Events
  BY <1>1, <1>2
<1>4. Resolve(events[i]) \in Events
  BY <1>3, ResolveType
<1>5. /\ events' \in Seq(Events) /\ Len(events') = Len(events) /\ events'[i] \in Events
      /\ \A k \in 1..Len(temp.events) : events'[k] = events[k]
  BY <1>1, <1>2, <1>3, <1>4
<1>6. /\ temp' \in Files /\ temp'.count = temp.count
      /\ temp'.events = Append(temp.events, events'[i])
  <2> DEFINE longer == Append(temp.events, events'[i])
  <2>1. longer \in Seq(Events)
    BY <1>2, <1>5
  <2>2. temp' = [temp EXCEPT !.events = longer]
    BY <1>1
  <2> HIDE DEF longer
  <2>3. temp' \in Files /\ temp'.count = temp.count /\ temp'.events = longer
    BY <1>2, <2>1, <2>2 DEF Files
  <2> QED
    BY <2>3 DEF longer
<1>7. Written'
  BY <1>1, <1>2, <1>3, <1>5, <1>6 DEF Written
<1>8. FileTypes' /\ Untouched' /\ Ready' /\ Placed' /\ TempRemoved' /\ Reopens'
  BY <1>1, <1>5, <1>6 DEF FileInv, FileTypes, Untouched, Ready, Placed, Whole, TempRemoved, Reopens, Running
<1> QED
  BY <1>7, <1>8 DEF FileInv

LEMMA SyncKeeps == FileInv /\ Sync => FileInv'
  BY DEF Sync, FileInv, FileTypes, Untouched, Written, Ready, Placed, Whole, TempRemoved, Reopens, Steps, Running

LEMMA CloseFileKeeps == FileInv /\ CloseFile => FileInv'
  BY DEF CloseFile, FileInv, FileTypes, Untouched, Written, Ready, Placed, Whole, TempRemoved, Reopens, Steps, Running

LEMMA RenameKeeps == FileInv /\ Rename => FileInv'
<1> SUFFICES ASSUME FileInv, Rename PROVE FileInv'
  OBVIOUS
<1>1. /\ step = "rename" /\ step' = "saved" /\ file' = temp /\ temp' = NoFile /\ saved' = events
      /\ UNCHANGED <<events, stable, synced>>
  BY DEF Rename
<1>2. /\ events \in Seq(Events) /\ temp \in Files /\ temp.count = Len(events)
      /\ temp.events \in Seq(Events) /\ Len(temp.events) = Len(events)
      /\ \A k \in 1..Len(temp.events) : temp.events[k] = events[k]
      /\ synced /\ stable = OldFile
  BY <1>1 DEF FileInv, FileTypes, Written, Ready, Untouched, Files, Running
<1>3. temp.events = events
  BY <1>2
<1>4. temp = [count |-> Len(events), events |-> events]
  BY <1>2, <1>3 DEF Files
<1>5. Placed'
  BY <1>1, <1>2, <1>4 DEF Placed, Whole
<1>6. FileTypes' /\ Untouched' /\ Written' /\ Ready' /\ TempRemoved' /\ Reopens'
  BY <1>1, <1>2 DEF FileTypes, Untouched, Written, Ready, TempRemoved, Reopens, Steps, Running
<1> QED
  BY <1>5, <1>6 DEF FileInv

LEMMA SaveFailsKeeps == FileInv /\ SaveFails => FileInv'
  BY DEF SaveFails, FileInv, FileTypes, Untouched, Written, Ready, Placed, Whole, TempRemoved, Reopens, Steps, Running

LEMMA WriteBackKeeps == FileInv /\ WriteBack => FileInv'
<1> SUFFICES ASSUME FileInv, WriteBack PROVE FileInv'
  OBVIOUS
<1>1. /\ UNCHANGED <<script, events, file, temp, synced, step, saved, replayed>>
      /\ stable # file
      /\ IF file = OldFile THEN stable' = file ELSE stable' \in Remains(file)
  BY DEF WriteBack
<1>2. stable' = file
  <2>1. CASE file = OldFile
    BY <1>1, <2>1
  <2>2. CASE file # OldFile
    <3>1. synced
      BY <2>2 DEF FileInv, Placed
    <3> QED
      BY <1>1, <2>2, <3>1 DEF Remains
  <2> QED
    BY <2>1, <2>2
<1> QED
  BY <1>1, <1>2 DEF FileInv, FileTypes, Untouched, Written, Ready, Placed, Whole, TempRemoved, Reopens

LEMMA SaverKilledKeeps == FileInv /\ SaverKilled => FileInv'
  BY DEF SaverKilled, FileInv, FileTypes, Untouched, Written, Ready, Placed, Whole, TempRemoved, Reopens, Steps, Running

LEMMA PowerFailsKeeps == FileInv /\ PowerFails => FileInv'
  BY DEF PowerFails, FileInv, FileTypes, Untouched, Written, Ready, Placed, Whole, TempRemoved, Reopens, Steps, Running

LEMMA OpenKeeps == FileInv /\ Open => FileInv'
<1> SUFFICES ASSUME FileInv, Open PROVE FileInv'
  OBVIOUS
<1>1. /\ UNCHANGED <<events, file, stable, temp, synced, saved>>
      /\ step' \in {"opened", "refused"}
      /\ Loads(file) => step' = "opened" /\ replayed' = file.events
      /\ ~Loads(file) => step' = "refused" /\ replayed' = <<>>
  BY DEF Open
<1>2. Reopens'
  <2> SUFFICES ASSUME file # OldFile
      PROVE /\ replayed' = IF step' = "opened" THEN saved ELSE <<>>
            /\ step' = "opened" <=>
                  Len(saved) <= FileEvents /\ \A e \in ToSet(saved) : Len(e.frames) <= FileFrames
    BY <1>1 DEF Reopens
  <2>1. file = Whole /\ saved \in Seq(Events) /\ Len(saved) \in Nat
    BY DEF FileInv, FileTypes, Placed
  <2>2. file \in Files /\ file.count = Len(saved) /\ file.events = saved
    BY <2>1 DEF Whole, Files
  <2>3. file # NoFile
    BY <2>2, NoFileAssumption
  <2>4. Loads(file) <=>
            Len(saved) <= FileEvents /\ \A e \in ToSet(saved) : Len(e.frames) <= FileFrames
    BY <2>2, <2>3 DEF Loads
  <2> QED
    BY <1>1, <2>2, <2>4
<1>3. FileTypes' /\ Untouched' /\ Written' /\ Ready' /\ Placed' /\ TempRemoved'
  BY <1>1 DEF FileInv, FileTypes, Untouched, Written, Ready, Placed, Whole, TempRemoved, Steps, Running
<1> QED
  BY <1>2, <1>3 DEF FileInv

LEMMA StutterKeeps == FileInv /\ UNCHANGED fileVars => FileInv'
  BY DEF fileVars, FileInv, FileTypes, Untouched, Written, Ready, Placed, Whole, TempRemoved, Reopens

LEMMA InvImplies == FileInv => SaveIsAtomic
<1> SUFFICES ASSUME FileInv PROVE OldOrNew
  BY DEF FileInv, SaveIsAtomic
<1>1. saved \in Seq(Events) /\ \A f \in {file, stable} : f = OldFile \/ f = Whole
  BY DEF FileInv, FileTypes, Placed
<1>2. Whole.count = Len(Whole.events) /\ Whole.events = saved
  BY DEF Whole
<1> QED
  BY <1>1, <1>2 DEF OldOrNew

\* At any moment of a save, whatever fails in it and whenever the program is killed or the power
\* fails (trace_model_save), the path has the old file or all of the new one, a save that has
\* ended leaves nothing else behind, and what was saved opens again (trace_model_load): for any
\* number of events and frames.
THEOREM SavesAreAtomic == FileSpec => []SaveIsAtomic
<1>1. FileInit => FileInv
  BY InitEstablishes
<1>2. FileInv /\ [Capture \/ FileNext]_fileVars => FileInv'
  <2> SUFFICES ASSUME FileInv, [Capture \/ FileNext]_fileVars PROVE FileInv'
    OBVIOUS
  <2>1. CASE Capture
    BY <2>1, CaptureKeeps
  <2>2. CASE Create
    BY <2>2, CreateKeeps
  <2>3. CASE WriteEvent
    BY <2>3, WriteEventKeeps
  <2>4. CASE Sync
    BY <2>4, SyncKeeps
  <2>5. CASE CloseFile
    BY <2>5, CloseFileKeeps
  <2>6. CASE Rename
    BY <2>6, RenameKeeps
  <2>7. CASE SaveFails
    BY <2>7, SaveFailsKeeps
  <2>8. CASE WriteBack
    BY <2>8, WriteBackKeeps
  <2>9. CASE SaverKilled
    BY <2>9, SaverKilledKeeps
  <2>10. CASE PowerFails
    BY <2>10, PowerFailsKeeps
  <2>11. CASE Open
    BY <2>11, OpenKeeps
  <2>12. CASE UNCHANGED fileVars
    BY <2>12, StutterKeeps
  <2> QED
    BY <2>1, <2>2, <2>3, <2>4, <2>5, <2>6, <2>7, <2>8, <2>9, <2>10, <2>11, <2>12
       DEF FileNext, SaveStep, DiskStep
<1>3. FileInv => SaveIsAtomic
  BY InvImplies
<1> QED
  BY <1>1, <1>2, <1>3, PTL DEF FileSpec

----------------------------------------------------------------------------
(* What the parser makes of lines *)

Parsed(log, lines) ==
    /\ log \in Seq(Events)
    /\ \A j, k \in 1..Len(log) : j < k => log[j].line < log[k].line
    /\ \A k \in 1..Len(log) : log[k].line \in Log!Calls(lines)
    /\ \A c \in Log!Calls(lines) : \E k \in 1..Len(log) : log[k].line = c
    /\ \A k \in 1..Len(log) :
          /\ Log!Ascends(log[k].frames)
          /\ ToSet(log[k].frames) = Log!FramesBelow(lines, log[k].line)

\* What an event resolves to does not matter to what it says.
LEMMA ParsedIsLogOf ==
  ASSUME NEW log, NEW lines, Parsed(log, lines)
  PROVE  Log!IsLogOf(Plain(log), lines)
<1> DEFINE plain == Plain(log)
           line == [k \in DOMAIN plain |-> plain[k].line]
           Entries == [line : Nat, frames : Seq(Nat)]
<1>1. log \in Seq(Events) /\ DOMAIN log = 1..Len(log) /\ Len(log) \in Nat
      /\ \A k \in 1..Len(log) : log[k] \in Events
  BY DEF Parsed
<1>2. \A k \in 1..Len(log) : log[k].line \in Nat /\ log[k].frames \in Seq(Nat)
  BY <1>1 DEF Events
<1>3. plain = [k \in 1..Len(log) |-> [line |-> log[k].line, frames |-> log[k].frames]]
  BY <1>1 DEF Plain
<1>4. /\ DOMAIN plain = 1..Len(log)
      /\ \A k \in 1..Len(log) : plain[k].line = log[k].line /\ plain[k].frames = log[k].frames
  BY <1>3
<1>5. plain \in Seq(Entries)
  <2>1. \A k \in 1..Len(log) : [line |-> log[k].line, frames |-> log[k].frames] \in Entries
    BY <1>2
  <2> HIDE DEF Entries
  <2> QED
    BY <1>1, <1>3, <2>1
<1> HIDE DEF plain, Entries
<1>6. DOMAIN line = 1..Len(log) /\ \A k \in 1..Len(log) : line[k] = log[k].line
  BY <1>4
<1> HIDE DEF line
<1>7. Log!Ascends(line)
  BY <1>6 DEF Parsed, Log!Ascends
<1>8. { plain[k].line : k \in DOMAIN plain } = Log!Calls(lines)
  BY <1>4 DEF Parsed
<1>9. \A k \in DOMAIN plain :
         Log!Ascends(plain[k].frames) /\ ToSet(plain[k].frames) = Log!FramesBelow(lines, plain[k].line)
  BY <1>4 DEF Parsed
<1>10. Log!Ascends([k \in DOMAIN plain |-> plain[k].line])
  BY <1>7 DEF line
<1>11. \A q : Log!ToSet(q) = ToSet(q)
  BY DEF ToSet, Log!ToSet
<1>12. \A k \in DOMAIN plain :
         Log!Ascends(plain[k].frames) /\ Log!ToSet(plain[k].frames) = Log!FramesBelow(lines, plain[k].line)
  BY <1>9, <1>11
<1>13. Log!IsLogOf(plain, lines)
  BY <1>5, <1>8, <1>10, <1>12 DEF Log!IsLogOf, Entries
<1> QED
  BY <1>13 DEF plain

\* The frames below a call, when a line has been added.
LEMMA FramesBelowNext ==
  ASSUME NEW lines \in Seq(Log!LineKinds), NEW kind \in Log!LineKinds, NEW c \in 1..Len(lines)
  PROVE  LET longer == Append(lines, kind)
             n == Len(lines) + 1
             below == kind \in Log!Frames /\ \A d \in Log!Calls(lines) : d <= c
         IN  Log!FramesBelow(longer, c) = Log!FramesBelow(lines, c) \cup IF below THEN {n} ELSE {}
<1> DEFINE longer == Append(lines, kind)
           n == Len(lines) + 1
           below == kind \in Log!Frames /\ \A d \in Log!Calls(lines) : d <= c
<1>1. /\ n \in Nat /\ Len(lines) \in Nat /\ DOMAIN lines = 1..Len(lines) /\ DOMAIN longer = 1..n
      /\ longer[n] = kind /\ \A i \in 1..Len(lines) : longer[i] = lines[i]
  OBVIOUS
<1> HIDE DEF longer
<1>2. Log!Calls(lines) = { i \in 1..Len(lines) : lines[i] = "call" }
  BY <1>1 DEF Log!Calls
<1>3. ASSUME NEW i \in 1..Len(lines)
      PROVE i \in Log!FramesBelow(longer, c) <=> i \in Log!FramesBelow(lines, c)
  <2>1. \A d \in c + 1..i : longer[d] = lines[d]
    BY <1>1
  <2>2. longer[i] = lines[i] /\ i \in 1..n
    BY <1>1
  <2> QED
    BY <1>1, <2>1, <2>2 DEF Log!FramesBelow
<1>4. n \in Log!FramesBelow(longer, c) <=> below
  <2>1. n \in Log!FramesBelow(longer, c) <=> kind \in Log!Frames /\ \A d \in c + 1..n : longer[d] # "call"
    BY <1>1 DEF Log!FramesBelow
  <2>2. kind \in Log!Frames => kind # "call"
    BY DEF Log!Frames
  <2>3. ASSUME kind # "call"
        PROVE (\A d \in c + 1..n : longer[d] # "call") <=> \A d \in Log!Calls(lines) : d <= c
    <3>1. ASSUME \A d \in c + 1..n : longer[d] # "call", NEW d \in Log!Calls(lines) PROVE d <= c
      BY <1>1, <1>2, <3>1
    <3>2. ASSUME \A d \in Log!Calls(lines) : d <= c, NEW d \in c + 1..n PROVE longer[d] # "call"
      BY <1>1, <1>2, <2>3, <3>2
    <3> QED
      BY <3>1, <3>2
  <2> QED
    BY <2>1, <2>2, <2>3
<1>5. Log!FramesBelow(longer, c) \subseteq 1..n /\ Log!FramesBelow(lines, c) \subseteq 1..Len(lines)
  BY <1>1 DEF Log!FramesBelow
<1>6. 1..n = 1..Len(lines) \cup {n} /\ n \notin 1..Len(lines)
  BY <1>1
<1>7. Log!FramesBelow(longer, c) = Log!FramesBelow(lines, c) \cup IF below THEN {n} ELSE {}
  <2> HIDE DEF n, below
  <2> QED
    BY <1>3, <1>4, <1>5, <1>6
<1> QED
  BY <1>7 DEF longer

LEMMA CallsNext ==
  ASSUME NEW lines \in Seq(Log!LineKinds), NEW kind \in Log!LineKinds
  PROVE  LET longer == Append(lines, kind)
             n == Len(lines) + 1
         IN  Log!Calls(longer) = Log!Calls(lines) \cup IF kind = "call" THEN {n} ELSE {}
<1> DEFINE longer == Append(lines, kind)
           n == Len(lines) + 1
<1>1. /\ n \in Nat /\ Len(lines) \in Nat /\ DOMAIN lines = 1..Len(lines) /\ DOMAIN longer = 1..n
      /\ longer[n] = kind /\ \A i \in 1..Len(lines) : longer[i] = lines[i]
  OBVIOUS
<1> HIDE DEF longer
<1>2. 1..n = 1..Len(lines) \cup {n} /\ n \notin 1..Len(lines)
  BY <1>1
<1>3. Log!Calls(longer) = Log!Calls(lines) \cup IF kind = "call" THEN {n} ELSE {}
  <2> HIDE DEF n
  <2> QED
    BY <1>1, <1>2 DEF Log!Calls
<1> QED
  BY <1>3 DEF longer

LEMMA AscendsNext ==
  ASSUME NEW q \in Seq(Nat), Log!Ascends(q), NEW n \in Nat, \A i \in ToSet(q) : i < n
  PROVE  Log!Ascends(Append(q, n)) /\ ToSet(Append(q, n)) = ToSet(q) \cup {n}
<1> DEFINE longer == Append(q, n)
<1>1. /\ Len(q) \in Nat /\ DOMAIN q = 1..Len(q) /\ DOMAIN longer = 1..Len(q) + 1
      /\ longer[Len(q) + 1] = n /\ \A i \in 1..Len(q) : longer[i] = q[i] /\ q[i] \in Nat
  OBVIOUS
<1> HIDE DEF longer
<1>2. \A i \in 1..Len(q) : q[i] < n
  BY <1>1 DEF ToSet
<1>3. Log!Ascends(longer)
  <2> SUFFICES ASSUME NEW i \in DOMAIN longer, NEW j \in DOMAIN longer, i < j
      PROVE longer[i] < longer[j]
    BY DEF Log!Ascends
  <2>1. CASE j = Len(q) + 1
    BY <1>1, <1>2, <2>1
  <2>2. CASE j # Len(q) + 1
    <3>1. i \in 1..Len(q) /\ j \in 1..Len(q)
      BY <1>1, <2>2
    <3>2. q[i] < q[j]
      BY <1>1, <3>1 DEF Log!Ascends
    <3> QED
      BY <1>1, <3>1, <3>2
  <2> QED
    BY <2>1, <2>2
<1>4. ToSet(longer) = ToSet(q) \cup {n}
  <2>1. 1..Len(q) + 1 = 1..Len(q) \cup {Len(q) + 1}
    BY <1>1
  <2> QED
    BY <1>1, <2>1 DEF ToSet
<1> QED
  BY <1>3, <1>4 DEF longer

\* Fresh, of a given trace.
FreshIn(s, e) ==
    LET sourced == { i \in DOMAIN e.frames : s[e.frames[i]] = "src" }
    IN  e.resolved # 0 =>
           /\ e.source = IF sourced = {} THEN 0 ELSE CHOOSE i \in sourced : \A j \in sourced : i <= j
           /\ e.resolved = 1 <=> sourced # {}

AllFresh(s, log) == \A k \in 1..Len(log) : FreshIn(s, log[k])

LEMMA UnresolvedIsFresh == \A s, e : e.resolved = 0 => FreshIn(s, e)
  BY DEF FreshIn

LEMMA FreshIs == \A e : Fresh(e) <=> FreshIn(script, e)
  BY DEF Fresh, FreshIn, SourceFrame, Sourced

LEMMA AddFrameType ==
  ASSUME NEW e \in Events, NEW i \in Nat
  PROVE  /\ AddFrame(e, i) \in Events
         /\ AddFrame(e, i).line = e.line /\ AddFrame(e, i).frames = Append(e.frames, i)
         /\ AddFrame(e, i).resolved = 0
<1> DEFINE frames == Append(e.frames, i)
<1>1. frames \in Seq(Nat)
  BY DEF Events
<1>2. AddFrame(e, i) = [e EXCEPT !.frames = frames, !.resolved = 0, !.source = 0]
  BY DEF AddFrame
<1> HIDE DEF frames
<1>3. e = [line |-> e.line, frames |-> e.frames, resolved |-> e.resolved, source |-> e.source]
      /\ e.line \in Nat
  BY DEF Events
<1>4. AddFrame(e, i) = [line |-> e.line, frames |-> frames, resolved |-> 0, source |-> 0]
  BY <1>2, <1>3
<1>5. AddFrame(e, i) \in Events /\ AddFrame(e, i).line = e.line
      /\ AddFrame(e, i).frames = frames /\ AddFrame(e, i).resolved = 0
  BY <1>1, <1>3, <1>4 DEF Events
<1> QED
  BY <1>5 DEF frames

LEMMA NewEventType ==
  ASSUME NEW i \in Nat
  PROVE  /\ NewEvent(i) \in Events
         /\ NewEvent(i).line = i /\ NewEvent(i).frames = <<>> /\ NewEvent(i).resolved = 0
  BY DEF NewEvent, Events

LEMMA FeedCall == \A log, i : FeedLine(log, i, "call") = Append(log, NewEvent(i))
  BY DEF FeedLine, Log!Frames

\* The parser takes one more line for what it is (trace_model_feed_line).
LEMMA FeedLineParses ==
  ASSUME NEW lines \in Seq(Log!LineKinds), NEW kind \in Log!LineKinds,
         NEW log, Parsed(log, lines), AllFresh(script, log)
  PROVE  LET longer == Append(lines, kind)
             fuller == FeedLine(log, Len(lines) + 1, kind)
         IN  Parsed(fuller, longer) /\ AllFresh(script, fuller)
<1> DEFINE longer == Append(lines, kind)
           n == Len(lines) + 1
           fuller == FeedLine(log, n, kind)
           calls == Log!Calls(lines)
<1>1. /\ n \in Nat \ {0} /\ Len(lines) \in Nat /\ log \in Seq(Events) /\ Len(log) \in Nat
      /\ \A k \in 1..Len(log) : log[k] \in Events
  BY DEF Parsed
<1>2. calls \subseteq 1..Len(lines)
  BY DEF Log!Calls
<1>3. Log!Calls(longer) = calls \cup IF kind = "call" THEN {n} ELSE {}
  BY CallsNext
<1>4. \A c \in calls :
         Log!FramesBelow(longer, c) =
            Log!FramesBelow(lines, c)
               \cup IF kind \in Log!Frames /\ \A d \in calls : d <= c THEN {n} ELSE {}
  BY <1>2, FramesBelowNext
<1>5. \A k \in 1..Len(log) : log[k].line \in calls /\ log[k].line \in 1..Len(lines)
  BY <1>2 DEF Parsed
<1>6. \A k \in 1..Len(log) : log[k].frames \in Seq(Nat) /\ \A i \in ToSet(log[k].frames) : i < n
  <2> TAKE k \in 1..Len(log)
  <2>1. log[k].frames \in Seq(Nat)
    BY <1>1 DEF Events
  <2>2. ToSet(log[k].frames) = Log!FramesBelow(lines, log[k].line)
    BY DEF Parsed
  <2>3. Log!FramesBelow(lines, log[k].line) \subseteq 1..Len(lines)
    BY DEF Log!FramesBelow
  <2> QED
    BY <1>1, <2>1, <2>2, <2>3
<1> HIDE DEF longer, calls, n
<1>7. CASE kind = "call"
  <2>1. fuller = Append(log, NewEvent(n))
    BY <1>7, FeedCall
  <2>2. NewEvent(n) \in Events /\ NewEvent(n).line = n /\ NewEvent(n).frames = <<>>
        /\ NewEvent(n).resolved = 0
    BY <1>1, NewEventType
  <2> HIDE DEF fuller
  <2>3. /\ fuller \in Seq(Events) /\ Len(fuller) = Len(log) + 1
        /\ fuller[Len(log) + 1] = NewEvent(n)
        /\ \A k \in 1..Len(log) : fuller[k] = log[k]
    BY <1>1, <2>1, <2>2
  <2>4. kind \notin Log!Frames
    BY <1>7 DEF Log!Frames
  <2>5. Log!Ascends(<<>>) /\ ToSet(<<>>) = {}
    BY DEF Log!Ascends, ToSet
  <2>6. Log!FramesBelow(longer, n) = {}
    BY DEF Log!FramesBelow, longer, n
  <2>7. \A k \in 1..Len(fuller) : k \in 1..Len(log) \/ k = Len(log) + 1
    BY <1>1, <2>3
  <2>8. \A j, k \in 1..Len(fuller) : j < k => fuller[j].line < fuller[k].line
    <3> SUFFICES ASSUME NEW j \in 1..Len(fuller), NEW k \in 1..Len(fuller), j < k
        PROVE fuller[j].line < fuller[k].line
      OBVIOUS
    <3>1. j \in 1..Len(log)
      BY <1>1, <2>3
    <3>2. CASE k \in 1..Len(log)
      BY <2>3, <3>1, <3>2 DEF Parsed
    <3>3. CASE k = Len(log) + 1
      BY <1>1, <1>5, <2>2, <2>3, <3>1, <3>3 DEF n
    <3> QED
      BY <2>7, <3>2, <3>3
  <2>9. \A k \in 1..Len(fuller) : fuller[k].line \in Log!Calls(longer)
    BY <1>3, <1>5, <1>7, <2>2, <2>3, <2>7
  <2>10. \A c \in Log!Calls(longer) : \E k \in 1..Len(fuller) : fuller[k].line = c
    <3> TAKE c \in Log!Calls(longer)
    <3>1. CASE c = n
      BY <1>1, <2>2, <2>3, <3>1
    <3>2. CASE c # n
      <4>1. c \in calls
        BY <1>3, <3>2
      <4>2. PICK k \in 1..Len(log) : log[k].line = c
        BY <4>1 DEF Parsed, calls
      <4>3. k \in 1..Len(fuller) /\ fuller[k].line = c
        BY <1>1, <2>3, <4>2
      <4> QED
        BY <4>3
    <3> QED
      BY <3>1, <3>2
  <2>11. \A k \in 1..Len(fuller) :
           /\ Log!Ascends(fuller[k].frames)
           /\ ToSet(fuller[k].frames) = Log!FramesBelow(longer, fuller[k].line)
    <3> TAKE k \in 1..Len(fuller)
    <3>1. CASE k \in 1..Len(log)
      <4>1. Log!FramesBelow(longer, log[k].line) = Log!FramesBelow(lines, log[k].line)
        BY <1>4, <1>5, <2>4, <3>1
      <4> QED
        BY <2>3, <3>1, <4>1 DEF Parsed
    <3>2. CASE k = Len(log) + 1
      BY <2>2, <2>3, <2>5, <2>6, <3>2
    <3> QED
      BY <2>7, <3>1, <3>2
  <2>12. AllFresh(script, fuller)
    BY <2>2, <2>3, <2>7, UnresolvedIsFresh DEF AllFresh
  <2> QED
    BY <2>3, <2>8, <2>9, <2>10, <2>11, <2>12 DEF Parsed, longer, fuller, n
<1>8. CASE kind \in Log!Frames /\ log # <<>>
  <2> DEFINE m == Len(log)
             e == AddFrame(log[m], n)
  <2>1. m \in 1..Len(log) /\ log[m] \in Events /\ kind # "call"
    BY <1>1, <1>8 DEF Log!Frames
  <2>2. fuller = [log EXCEPT ![m] = e]
    BY <1>8, <2>1 DEF FeedLine
  <2>3. e \in Events /\ e.line = log[m].line /\ e.frames = Append(log[m].frames, n) /\ e.resolved = 0
    BY <1>1, <2>1, AddFrameType
  <2> HIDE DEF fuller, e
  <2>4. /\ fuller \in Seq(Events) /\ Len(fuller) = Len(log) /\ fuller[m] = e
        /\ \A k \in 1..Len(log) : k # m => fuller[k] = log[k]
    BY <1>1, <2>1, <2>2, <2>3
  <2> HIDE DEF m
  <2>5. \A k \in 1..Len(log) : fuller[k].line = log[k].line
    BY <2>3, <2>4
  <2>6. Log!Calls(longer) = calls
    BY <1>3, <2>1
  <2>7. \A d \in calls : d <= log[m].line
    <3> TAKE d \in calls
    <3>1. PICK k \in 1..Len(log) : log[k].line = d
      BY DEF Parsed, calls
    <3>2. k < m \/ k = m
      BY <1>1, <2>1, <3>1 DEF m
    <3>3. k < m => log[k].line < log[m].line
      BY <2>1, <3>1 DEF Parsed
    <3>4. log[k].line \in Nat /\ log[m].line \in Nat
      BY <1>1, <1>5, <2>1, <3>1
    <3> QED
      BY <3>1, <3>2, <3>3, <3>4
  <2>8. \A k \in 1..Len(log) : k # m => log[k].line < log[m].line
    <3> TAKE k \in 1..Len(log)
    <3>1. k # m => k < m
      BY <1>1 DEF m
    <3> QED
      BY <2>1, <3>1 DEF Parsed
  <2>9. Log!FramesBelow(longer, log[m].line) = Log!FramesBelow(lines, log[m].line) \cup {n}
    BY <1>4, <1>5, <1>8, <2>1, <2>7
  <2>10. \A k \in 1..Len(log) : k # m =>
            Log!FramesBelow(longer, log[k].line) = Log!FramesBelow(lines, log[k].line)
    <3> SUFFICES ASSUME NEW k \in 1..Len(log), k # m
        PROVE Log!FramesBelow(longer, log[k].line) = Log!FramesBelow(lines, log[k].line)
      OBVIOUS
    <3>1. ~ (log[m].line <= log[k].line) /\ log[m].line \in calls /\ log[k].line \in calls
      BY <1>5, <2>1, <2>8
    <3> QED
      BY <1>4, <3>1
  <2>11. \A k \in 1..Len(fuller) :
           /\ Log!Ascends(fuller[k].frames)
           /\ ToSet(fuller[k].frames) = Log!FramesBelow(longer, fuller[k].line)
    <3> TAKE k \in 1..Len(fuller)
    <3>1. CASE k # m
      BY <2>4, <2>10, <3>1 DEF Parsed
    <3>2. CASE k = m
      <4>1. Log!Ascends(log[m].frames) /\ ToSet(log[m].frames) = Log!FramesBelow(lines, log[m].line)
        BY <2>1 DEF Parsed
      <4>2. /\ Log!Ascends(Append(log[m].frames, n))
            /\ ToSet(Append(log[m].frames, n)) = ToSet(log[m].frames) \cup {n}
        <5>1. log[m].frames \in Seq(Nat) /\ n \in Nat /\ \A i \in ToSet(log[m].frames) : i < n
          BY <1>1, <1>6, <2>1
        <5> QED
          BY <4>1, <5>1, AscendsNext
      <4> QED
        BY <2>3, <2>4, <2>9, <3>2, <4>1, <4>2
    <3> QED
      BY <3>1, <3>2
  <2>12. AllFresh(script, fuller)
    BY <2>3, <2>4, UnresolvedIsFresh DEF AllFresh
  <2>13. /\ \A j, k \in 1..Len(fuller) : j < k => fuller[j].line < fuller[k].line
         /\ \A k \in 1..Len(fuller) : fuller[k].line \in Log!Calls(longer)
         /\ \A c \in Log!Calls(longer) : \E k \in 1..Len(fuller) : fuller[k].line = c
    BY <2>4, <2>5, <2>6 DEF Parsed, calls
  <2> QED
    BY <2>4, <2>11, <2>12, <2>13 DEF Parsed, longer, fuller, n
<1>9. CASE kind # "call" /\ ~ (kind \in Log!Frames /\ log # <<>>)
  <2>1. fuller = log
    BY <1>9 DEF FeedLine
  <2>2. Log!Calls(longer) = calls
    BY <1>3, <1>9
  <2>3. \A k \in 1..Len(log) :
           Log!FramesBelow(longer, log[k].line) = Log!FramesBelow(lines, log[k].line)
    <3> TAKE k \in 1..Len(log)
    <3>1. log # <<>>
      BY <1>1
    <3> QED
      BY <1>4, <1>5, <1>9, <3>1
  <2> HIDE DEF fuller
  <2> QED
    BY <2>1, <2>2, <2>3 DEF Parsed, longer, fuller, n, calls
<1> QED
  BY <1>7, <1>8, <1>9 DEF longer, fuller, n

\* FeedLines feeds one line after the other.
Feeds(f, log, first, last) ==
    f = [n \in first - 1..last |-> IF n < first THEN log ELSE FeedLine(f[n - 1], n, script[n])]

LEMMA FeedLinesSolved ==
  ASSUME NEW log, NEW first \in Nat \ {0}, NEW last \in Nat, first - 1 <= last
  PROVE  \E f : Feeds(f, log, first, last)
<1> DEFINE Solves(f, m) == Feeds(f, log, first, m)
           Bad == {m \in Nat : first - 1 <= m /\ ~ \E f : Solves(f, m)}
<1>1. Bad = {}
  <2>1. SUFFICES ASSUME Bad # {} PROVE FALSE
    OBVIOUS
  <2>2. PICK m \in Bad : \A n \in Bad : m <= n
    BY <2>1, Least
  <2>3. CASE m = first - 1
    <3>1. Solves([n \in first - 1..first - 1 |-> log], first - 1)
      BY DEF Feeds
    <3> QED
      BY <2>2, <2>3, <3>1
  <2>4. CASE m # first - 1
    <3>1. m \in Nat /\ m - 1 \in Nat /\ first <= m /\ first - 1 <= m - 1 /\ m - 1 \notin Bad
      BY <2>2, <2>4
    <3>2. PICK f : Solves(f, m - 1)
      BY <3>1
    <3> DEFINE g == [n \in first - 1..m |-> IF n < m THEN f[n] ELSE FeedLine(f[m - 1], m, script[m])]
               h == [n \in first - 1..m |->
                        IF n < first THEN log ELSE FeedLine(g[n - 1], n, script[n])]
    <3>3. \A n \in first - 1..(m - 1) :
             f[n] = IF n < first THEN log ELSE FeedLine(f[n - 1], n, script[n])
      BY <3>2 DEF Feeds
    <3>4. ASSUME NEW n \in first - 1..m PROVE g[n] = h[n]
      <4>1. CASE n < first
        BY <3>1, <3>3, <4>1
      <4>2. CASE first <= n /\ n < m
        <5>1. g[n] = f[n] /\ g[n - 1] = f[n - 1] /\ n \in first - 1..(m - 1)
          BY <3>1, <4>2
        <5> QED
          BY <3>3, <4>2, <5>1
      <4>3. CASE n = m
        <5>1. g[n - 1] = f[m - 1]
          BY <3>1, <4>3
        <5> QED
          BY <3>1, <4>3, <5>1
      <4> QED
        BY <4>1, <4>2, <4>3, <3>1
    <3>5. g = h
      BY <3>4, Zenon
    <3> QED
      BY <3>5, <2>2 DEF Feeds
  <2> QED
    BY <2>3, <2>4
<1> QED
  BY <1>1

LEMMA FeedLinesSteps ==
  ASSUME NEW log, NEW first \in Nat \ {0}, NEW last \in Nat, first - 1 <= last
  PROVE  \E f : /\ f[first - 1] = log /\ f[last] = FeedLines(log, first, last)
                /\ \A n \in first..last : f[n] = FeedLine(f[n - 1], n, script[n])
<1> DEFINE up == CHOOSE f : Feeds(f, log, first, last)
<1>1. Feeds(up, log, first, last)
  BY FeedLinesSolved
<1>2. FeedLines(log, first, last) = up[last]
  BY DEF FeedLines, Feeds
<1> HIDE DEF up
<1>3. up[first - 1] = log
  BY <1>1 DEF Feeds
<1>4. \A n \in first..last : up[n] = FeedLine(up[n - 1], n, script[n])
  BY <1>1 DEF Feeds
<1> QED
  BY <1>2, <1>3, <1>4

LEMMA LinesNext ==
  ASSUME NEW s \in Seq(Log!LineKinds), NEW n \in Nat, n <= Len(s)
  PROVE  /\ Log!Lines(s, n, "blank") \in Seq(Log!LineKinds)
         /\ Len(Log!Lines(s, n, "blank")) = n
         /\ n < Len(s) => Log!Lines(s, n + 1, "blank") = Append(Log!Lines(s, n, "blank"), s[n + 1])
         /\ \A t \in Log!LineKinds : Log!Lines(s, n, t) = Append(Log!Lines(s, n, "blank"), t)
<1> DEFINE first(k) == [i \in 1..k |-> s[i]]
<1>1. \A k \in 0..Len(s) : first(k) \in Seq(Log!LineKinds) /\ Len(first(k)) = k
  <2> TAKE k \in 0..Len(s)
  <2>1. \A i \in 1..k : s[i] \in Log!LineKinds
    OBVIOUS
  <2> QED
    BY <2>1
<1>2. \A k \in 0..Len(s) : Log!Lines(s, k, "blank") = first(k)
  <2> TAKE k \in 0..Len(s)
  <2>1. Log!Lines(s, k, "blank") = first(k) \o <<>>
    BY DEF Log!Lines
  <2> HIDE DEF first
  <2> QED
    BY <1>1, <2>1
<1>3. ASSUME n < Len(s) PROVE first(n + 1) = Append(first(n), s[n + 1])
  <2>1. s[n + 1] \in Log!LineKinds /\ n + 1 \in 0..Len(s) /\ n \in 0..Len(s)
    BY <1>3
  <2>2. \A i \in 1..n : first(n)[i] = s[i] /\ first(n + 1)[i] = s[i]
    OBVIOUS
  <2>3. first(n + 1)[n + 1] = s[n + 1]
    OBVIOUS
  <2> HIDE DEF first
  <2>4. first(n) \in Seq(Log!LineKinds) /\ Len(first(n)) = n
        /\ first(n + 1) \in Seq(Log!LineKinds) /\ Len(first(n + 1)) = n + 1
    BY <1>1, <2>1
  <2> DEFINE longer == Append(first(n), s[n + 1])
  <2>5. longer \in Seq(Log!LineKinds) /\ Len(longer) = n + 1
        /\ \A i \in 1..n + 1 : longer[i] = IF i = n + 1 THEN s[n + 1] ELSE first(n)[i]
    BY <2>1, <2>4
  <2>6. \A i \in 1..n + 1 : longer[i] = first(n + 1)[i]
    BY <2>2, <2>3, <2>5
  <2> HIDE DEF longer
  <2>7. longer = first(n + 1)
    BY <2>4, <2>5, <2>6
  <2> QED
    BY <2>7 DEF longer
<1>4. ASSUME NEW t \in Log!LineKinds PROVE Log!Lines(s, n, t) = Append(first(n), t)
  <2>1. t # "blank"
    BY DEF Log!LineKinds, Log!Frames
  <2>2. Log!Lines(s, n, t) = first(n) \o <<t>>
    BY <2>1 DEF Log!Lines
  <2>3. first(n) \in Seq(Log!LineKinds)
    BY <1>1
  <2> HIDE DEF first
  <2> QED
    BY <2>2, <2>3
<1> HIDE DEF first
<1>5. n \in 0..Len(s) /\ (n < Len(s) => n + 1 \in 0..Len(s))
  OBVIOUS
<1> QED
  BY <1>1, <1>2, <1>3, <1>4, <1>5

\* process_complete_lines: the log goes on to say what all of the lines say.
LEMMA FeedLinesParse ==
  ASSUME script \in Seq(Log!LineKinds), NEW n \in Nat, NEW m \in Nat, n <= m, m <= Len(script),
         NEW log, Parsed(log, Log!Lines(script, n, "blank")), AllFresh(script, log)
  PROVE  LET fuller == FeedLines(log, n + 1, m)
         IN  Parsed(fuller, Log!Lines(script, m, "blank")) /\ AllFresh(script, fuller)
<1>1. PICK f : /\ f[n] = log /\ f[m] = FeedLines(log, n + 1, m)
               /\ \A k \in n + 1..m : f[k] = FeedLine(f[k - 1], k, script[k])
  <2>1. n + 1 \in Nat \ {0} /\ (n + 1) - 1 = n /\ (n + 1) - 1 <= m
    OBVIOUS
  <2>2. \E f : /\ f[(n + 1) - 1] = log /\ f[m] = FeedLines(log, n + 1, m)
               /\ \A k \in n + 1..m : f[k] = FeedLine(f[k - 1], k, script[k])
    BY <2>1, FeedLinesSteps
  <2> QED
    BY <2>1, <2>2
<1> DEFINE Good(k) == Parsed(f[k], Log!Lines(script, k, "blank")) /\ AllFresh(script, f[k])
           Bad == {k \in n..m : ~ Good(k)}
<1>2. Bad = {}
  <2>1. SUFFICES ASSUME Bad # {} PROVE FALSE
    OBVIOUS
  <2>2. PICK k \in Bad : \A j \in Bad : k <= j
    <3>1. Bad \in SUBSET Nat
      OBVIOUS
    <3> HIDE DEF Bad
    <3> QED
      BY <2>1, <3>1, Least
  <2>3. k # n
    BY <1>1, <2>2
  <2>4. k \in n + 1..m /\ k - 1 \in n..m /\ k - 1 \in Nat /\ k - 1 < Len(script)
    BY <2>2, <2>3
  <2>5. Good(k - 1)
    BY <2>2, <2>4
  <2> DEFINE lines == Log!Lines(script, k - 1, "blank")
  <2>6. /\ lines \in Seq(Log!LineKinds) /\ Len(lines) = k - 1
        /\ Log!Lines(script, k, "blank") = Append(lines, script[k])
    <3>1. k - 1 + 1 = k /\ k - 1 <= Len(script)
      BY <2>4
    <3> QED
      BY <2>4, <3>1, LinesNext
  <2>7. script[k] \in Log!LineKinds
    BY <2>4
  <2>8. f[k] = FeedLine(f[k - 1], Len(lines) + 1, script[k])
    BY <1>1, <2>4, <2>6
  <2>9. Parsed(f[k - 1], lines) /\ AllFresh(script, f[k - 1])
    BY <2>5
  <2> HIDE DEF lines
  <2>10. Good(k)
    BY <2>6, <2>7, <2>8, <2>9, FeedLineParses
  <2> QED
    BY <2>2, <2>10
<1>3. Good(m)
  <2>1. m \in n..m
    OBVIOUS
  <2> HIDE DEF Good
  <2> QED
    BY <1>2, <2>1
<1> QED
  BY <1>1, <1>3

\* What an event resolves to says nothing else than its frames.
LEMMA ResolveSays ==
  ASSUME NEW e \in Events
  PROVE  /\ Resolve(e) \in Events
         /\ Resolve(e).line = e.line /\ Resolve(e).frames = e.frames
         /\ Resolve(e).resolved # 0
         /\ FreshIn(script, e) => FreshIn(script, Resolve(e))
<1>1. Resolve(e) \in Events
  BY ResolveType
<1>2. CASE e.resolved # 0
  BY <1>1, <1>2 DEF Resolve
<1>3. CASE e.resolved = 0
  <2> DEFINE r == IF Sourced(e) = {} THEN 2 ELSE 1
             s == SourceFrame(e)
             new == Resolve(e)
  <2>1. e = [line |-> e.line, frames |-> e.frames, resolved |-> e.resolved, source |-> e.source]
    BY DEF Events
  <2>2. new = [e EXCEPT !.resolved = r, !.source = s]
    BY <1>3 DEF Resolve
  <2>3. (r = 1 <=> Sourced(e) # {}) /\ r # 0
    OBVIOUS
  <2> HIDE DEF r, s, new
  <2>4. new.line = e.line /\ new.frames = e.frames /\ new.resolved = r /\ new.source = s
    BY <2>1, <2>2
  <2>5. Sourced(new) = Sourced(e)
    BY <2>4 DEF Sourced
  <2>6. SourceFrame(new) = s
    BY <2>5 DEF SourceFrame, s
  <2>7. Fresh(new)
    BY <2>3, <2>4, <2>5, <2>6 DEF Fresh
  <2> QED
    BY <1>1, <2>3, <2>4, <2>7, FreshIs DEF new
<1> QED
  BY <1>2, <1>3

----------------------------------------------------------------------------
(* The invariant of a session *)

Counts ==
    /\ script \in Scripts
    /\ fed \in Nat /\ got \in Nat /\ out \in Nat
    /\ fed <= got /\ got <= out /\ out <= 2 * Len(script) /\ out - got <= PipeSize
    /\ torn \in Log!LineKinds \cup {"blank"}
    /\ strace \in {"runs", "zombie", "gone"}
    /\ done \in BOOLEAN /\ cut \in BOOLEAN /\ child \in BOOLEAN /\ heirs \in BOOLEAN /\ termed \in BOOLEAN
    /\ pc \in {"read", "show", "key", "stop", "grace", "drain", "save", "done"}

\* All complete lines among what was read have been parsed; at the end of the pipe the rest too.
Reads ==
    /\ ~done => fed = 2 * (got \div 2) /\ torn = "blank"
    /\ done => fed = got /\ got = out /\ strace # "runs"
    /\ strace # "runs" => cut \/ out = 2 * Len(script)
    /\ TornOnlyIfCut

\* Nothing is written any more when the pipe is drained, and all is read before the save.
Ends ==
    /\ PidIsStrace
    /\ pc \in {"drain", "save", "done"} => strace = "gone"
    /\ pc \in {"save", "done"} => got = out
    /\ pc = "grace" => child
    /\ pc # "done" => step = "idle"

\* The log says what the lines parsed say, and what it has cached is right.
LogRight == Parsed(events, Log!Lines(script, fed \div 2, torn))
Cached == AllFresh(script, events) /\ AllFresh(script, saved)

\* A save resolves every event before it writes it.
SavedResolved ==
    /\ \A k \in 1..Len(saved) : saved[k].resolved # 0
    /\ step \in {"write", "close", "rename"} =>
          \A k \in 1..Len(temp.events) : temp.events[k].resolved # 0

SavedParsed == step = "saved" => Parsed(saved, Log!Lines(script, out \div 2, torn))

SessionInv ==
    FileInv /\ Counts /\ Reads /\ Ends /\ LogRight /\ Cached /\ SavedResolved /\ SavedParsed

LEMMA Halves ==
  \A n \in Nat :
     /\ n \div 2 \in Nat /\ 2 * (n \div 2) \in Nat
     /\ 2 * (n \div 2) <= n /\ n <= 2 * (n \div 2) + 1
     /\ (2 * n) \div 2 = n /\ (2 * n + 1) \div 2 = n /\ (2 * n) % 2 = 0
  OBVIOUS

LEMMA ScriptType == Counts => script \in Seq(Log!LineKinds) /\ Len(script) \in Nat
  BY ScriptsAssumption DEF Counts


LEMMA SessionInit == Init => SessionInv
<1> SUFFICES ASSUME Init PROVE SessionInv
  OBVIOUS
<1>1. FileInv
  BY InitEstablishes DEF Init
<1>2. script \in Seq(Log!LineKinds) /\ Len(script) \in Nat
  BY ScriptsAssumption DEF Init
<1>3. Counts
  <2>1. /\ script \in Scripts /\ out = 0 /\ got = 0 /\ fed = 0 /\ torn = "blank"
        /\ done = FALSE /\ strace = "runs" /\ cut = FALSE /\ child = TRUE /\ heirs \in BOOLEAN
        /\ termed = FALSE /\ pc = "read"
    BY DEF Init
  <2>2. out <= 2 * Len(script) /\ out - got <= PipeSize
    BY <1>2, <2>1, PipeAssumption
  <2>3. out \in Nat /\ got \in Nat /\ fed \in Nat /\ fed <= got /\ got <= out
    BY <2>1
  <2> QED
    BY <2>1, <2>2, <2>3, Zenon DEF Counts
<1>4. Reads
  BY <1>2 DEF Init, Reads, TornOnlyIfCut
<1>5. Ends
  BY DEF Init, Ends, PidIsStrace, FileInit
<1>6. LogRight
  <2>1. Log!Lines(script, 0, "blank") = <<>> /\ fed \div 2 = 0 /\ torn = "blank" /\ events = <<>>
    BY DEF Init, FileInit, Log!Lines
  <2>2. Log!Calls(<<>>) = {}
    BY DEF Log!Calls
  <2>3. Parsed(<<>>, <<>>)
    BY <2>2 DEF Parsed
  <2> QED
    BY <2>1, <2>3 DEF LogRight
<1>7. Cached /\ SavedResolved /\ SavedParsed
  BY DEF Init, FileInit, Cached, AllFresh, SavedResolved, SavedParsed
<1> QED
  BY <1>1, <1>3, <1>4, <1>5, <1>6, <1>7 DEF SessionInv

\* Steps that neither parse nor touch files.
LEMMA QuietStep ==
  ASSUME SessionInv, UNCHANGED fileVars, UNCHANGED <<fed, torn>>, Counts', Reads', Ends',
         step = "saved" => out' = out
  PROVE  SessionInv'
<1>1. FileInv'
  BY StutterKeeps DEF SessionInv
<1>2. LogRight'
  BY DEF SessionInv, LogRight, fileVars, Parsed
<1>3. Cached'
  BY DEF SessionInv, Cached, fileVars
<1>4. SavedResolved' /\ SavedParsed'
  BY DEF SessionInv, SavedResolved, SavedParsed, Parsed, fileVars
<1> QED
  BY <1>1, <1>2, <1>3, <1>4 DEF SessionInv

LEMMA LoopKeeps ==
  SessionInv /\ (ReadNothing \/ ReadAfterEnd \/ AnyKey \/ KeyQ) => SessionInv'
<1> SUFFICES ASSUME SessionInv, ReadNothing \/ ReadAfterEnd \/ AnyKey \/ KeyQ PROVE SessionInv'
  OBVIOUS
<1>1. UNCHANGED fileVars /\ UNCHANGED <<out, got, fed, torn, done>>
      /\ UNCHANGED <<strace, cut, child, heirs, termed>>
  BY DEF ReadNothing, ReadAfterEnd, AnyKey, KeyQ, pipe, child_
<1>2. UNCHANGED <<script, step>>
  BY <1>1 DEF fileVars
<1>3. Counts'
  BY <1>1, <1>2 DEF SessionInv, Counts, ReadNothing, ReadAfterEnd, AnyKey, KeyQ, Onwards
<1>4. Reads'
  BY <1>1, <1>2 DEF SessionInv, Reads, TornOnlyIfCut
<1>5. Ends'
  BY <1>1, <1>2 DEF SessionInv, Ends, Reads, PidIsStrace, ReadNothing, ReadAfterEnd, AnyKey, KeyQ,
     Onwards, Reading
<1> QED
  BY <1>1, <1>3, <1>4, <1>5, QuietStep

LEMMA LeaveKeeps == SessionInv /\ (Stop \/ StraceObeyed \/ GraceOver) => SessionInv'
<1> SUFFICES ASSUME SessionInv, Stop \/ StraceObeyed \/ GraceOver PROVE SessionInv'
  OBVIOUS
<1>1. UNCHANGED fileVars /\ UNCHANGED <<out, got, fed, torn, done>>
  BY DEF Stop, StraceObeyed, GraceOver, pipe
<1>2. UNCHANGED <<script, step>>
  BY <1>1 DEF fileVars
<1>3. Counts' /\ Reads' /\ Ends'
  <2>1. CASE Stop
    <3>1. CASE ~ child
      <4>1. pc = "stop" /\ pc' = "drain" /\ UNCHANGED <<strace, cut, child, heirs, termed>>
        BY <2>1, <3>1 DEF Stop, child_
      <4> QED
        BY <1>1, <1>2, <3>1, <4>1 DEF SessionInv, Counts, Reads, Ends, TornOnlyIfCut, PidIsStrace
    <3>2. CASE child /\ strace # "runs"
      <4>1. pc = "stop" /\ pc' = "drain" /\ strace = "zombie" /\ strace' = "gone" /\ child' = FALSE
            /\ UNCHANGED <<cut, heirs, termed>>
        BY <2>1, <3>2 DEF Stop, Reap
      <4> QED
        BY <1>1, <1>2, <4>1 DEF SessionInv, Counts, Reads, Ends, TornOnlyIfCut, PidIsStrace
    <3>3. CASE child /\ strace = "runs"
      <4>1. pc = "stop" /\ pc' = "grace" /\ termed' = TRUE /\ UNCHANGED <<strace, cut, child, heirs>>
        BY <2>1, <3>3 DEF Stop
      <4> QED
        BY <1>1, <1>2, <3>3, <4>1 DEF SessionInv, Counts, Reads, Ends, TornOnlyIfCut, PidIsStrace
    <3> QED
      BY <3>1, <3>2, <3>3
  <2>2. CASE StraceObeyed
    BY <1>1, <1>2, <2>2 DEF SessionInv, Counts, Reads, Ends, TornOnlyIfCut, PidIsStrace, StraceObeyed, Reap
  <2>3. CASE GraceOver
    BY <1>1, <1>2, <2>3 DEF SessionInv, Counts, Reads, Ends, TornOnlyIfCut, PidIsStrace, GraceOver
  <2> QED
    BY <2>1, <2>2, <2>3
<1> QED
  BY <1>1, <1>3, QuietStep

LEMMA StraceKeeps == SessionInv /\ Strace => SessionInv'
<1> SUFFICES ASSUME SessionInv, Strace PROVE SessionInv'
  OBVIOUS
<1>1. UNCHANGED fileVars /\ UNCHANGED <<got, fed, torn, done, child, termed, pc>>
  BY DEF Strace, Prints, StraceEnds, StraceKilled, HeirsEnd, pipe, child_
<1>2. UNCHANGED <<script, step>>
  BY <1>1 DEF fileVars
<1>3. script \in Seq(Log!LineKinds) /\ Len(script) \in Nat
  BY ScriptType DEF SessionInv
<1>4. CASE Prints
  <2>1. Counts'
    BY <1>1, <1>2, <1>3, <1>4, PipeAssumption DEF SessionInv, Counts, Prints, child_
  <2>2. Reads' /\ Ends'
    BY <1>1, <1>2, <1>4 DEF SessionInv, Reads, Ends, TornOnlyIfCut, PidIsStrace, Prints, child_
  <2>3. step # "saved"
    BY <1>4 DEF SessionInv, Ends, Prints
  <2> QED
    BY <1>1, <2>1, <2>2, <2>3, QuietStep
<1>5. CASE StraceEnds \/ StraceKilled \/ HeirsEnd
  <2>1. out' = out
    BY <1>5 DEF StraceEnds, StraceKilled, HeirsEnd, pipe
  <2>2. Counts' /\ Reads' /\ Ends'
    BY <1>1, <1>2, <1>5, <2>1
       DEF SessionInv, Counts, Reads, Ends, TornOnlyIfCut, PidIsStrace, StraceEnds, StraceKilled, HeirsEnd
  <2> QED
    BY <1>1, <2>1, <2>2, QuietStep
<1> QED
  BY <1>4, <1>5 DEF Strace

\* Between reads events are captured only before a save begins.
LEMMA CapturedIsFile ==
  ASSUME SessionInv, pc # "done", step' \in {"idle", "create"}, events' \in Seq(Events),
         UNCHANGED <<script, file, stable, temp, synced, saved, replayed>>
  PROVE  Capture /\ FileInv'
<1>1. step = "idle"
  BY DEF SessionInv, Ends
<1>2. Capture
  BY <1>1 DEF Capture
<1> QED
  BY <1>2, CaptureKeeps DEF SessionInv

LEMMA FewerLeft == \A a, b, c, p \in Nat : b < c /\ a - b <= p => a - c <= p
  OBVIOUS

LEMMA ReadSomeKeeps ==
  SessionInv /\ ReadSome => Capture /\ Log!Take /\ SessionInv'
<1> SUFFICES ASSUME SessionInv, ReadSome PROVE Capture /\ Log!Take /\ SessionInv'
  OBVIOUS
<1> DEFINE n == fed \div 2
           m == fed' \div 2
<1>1. /\ pc \in {"read", "drain"} /\ ~done /\ got < out
      /\ got' \in got + 1..out /\ fed' = 2 * (got' \div 2)
      /\ events' = FeedLines(events, n + 1, m)
      /\ UNCHANGED <<script, file, stable, temp, synced, step, saved, replayed>>
      /\ UNCHANGED <<out, torn, done, strace, cut, child, heirs, termed, pc>>
  BY DEF ReadSome, Reading, child_
<1>2. script \in Seq(Log!LineKinds) /\ Len(script) \in Nat
  BY ScriptType DEF SessionInv
<1>3. /\ fed \in Nat /\ got \in Nat /\ out \in Nat /\ fed <= got /\ got <= out
      /\ out <= 2 * Len(script) /\ out - got <= PipeSize
      /\ fed = 2 * (got \div 2) /\ torn = "blank"
  BY <1>1 DEF SessionInv, Counts, Reads
<1>4. /\ got' \in Nat /\ got < got' /\ got' <= out /\ fed' \in Nat /\ fed' <= got' /\ out - got' <= PipeSize
  <2>1. got' \in Nat /\ got < got' /\ got' <= out
    BY <1>1, <1>3
  <2>2. fed' \in Nat /\ fed' <= got'
    BY <1>1, <2>1, Halves
  <2>3. out - got' <= PipeSize
    <3>1. out - got <= PipeSize /\ out \in Nat /\ got \in Nat /\ PipeSize \in Nat
      BY <1>3, PipeAssumption
    <3> QED
      BY <2>1, <3>1, FewerLeft
  <2> QED
    BY <2>1, <2>2, <2>3
<1>5. n \in Nat /\ m \in Nat /\ n <= m /\ m <= Len(script)
  <2> DEFINE h == got \div 2
             k == got' \div 2
  <2>1. h \in Nat /\ 2 * h <= got /\ got <= 2 * h + 1
    BY <1>3, Halves
  <2>2. k \in Nat /\ 2 * k <= got' /\ got' <= 2 * k + 1
    BY <1>4, Halves
  <2>3. fed = 2 * h /\ fed' = 2 * k
    BY <1>1, <1>3
  <2> HIDE DEF h, k
  <2>4. n = h /\ m = k
    BY <2>1, <2>2, <2>3, Halves
  <2>5. h <= k /\ k <= Len(script)
    BY <1>2, <1>3, <1>4, <2>1, <2>2
  <2> QED
    BY <2>1, <2>2, <2>4, <2>5
<1>6. Parsed(events, Log!Lines(script, n, "blank")) /\ AllFresh(script, events)
  BY <1>3 DEF SessionInv, LogRight, Cached
<1> HIDE DEF n, m
<1>7. Parsed(events', Log!Lines(script, m, "blank")) /\ AllFresh(script, FeedLines(events, n + 1, m))
  BY <1>1, <1>2, <1>5, <1>6, FeedLinesParse
<1>8. AllFresh(script, events)'
  BY <1>1, <1>7
<1>9. Capture /\ FileInv'
  <2>1. events' \in Seq(Events)
    BY <1>7 DEF Parsed
  <2>2. pc # "done" /\ step' = "idle"
    BY <1>1 DEF SessionInv, Ends
  <2> QED
    BY <1>1, <2>1, <2>2, CapturedIsFile
<1>10. Counts'
  BY <1>1, <1>2, <1>3, <1>4 DEF SessionInv, Counts
<1>11. Reads' /\ Ends'
  <2>1. strace' # "runs" => cut' \/ out' = 2 * Len(script')
    BY <1>1 DEF SessionInv, Reads
  <2>2. fed' % 2 # 1
    <3>1. got' \div 2 \in Nat
      BY <1>4, Halves
    <3>2. (2 * (got' \div 2)) % 2 = 0
      BY <3>1, Halves
    <3>3. fed' = 2 * (got' \div 2)
      BY <1>1
    <3>4. fed' % 2 = 0
      BY <3>2, <3>3, Zenon
    <3> QED
      BY <3>4
  <2>3. Reads'
    BY <1>1, <1>3, <2>1, <2>2 DEF Reads, TornOnlyIfCut
  <2>4. Ends'
    BY <1>1 DEF SessionInv, Ends, PidIsStrace
  <2> QED
    BY <2>3, <2>4
<1>12. LogRight'
  BY <1>1, <1>3, <1>7 DEF LogRight, m
<1>13. AllFresh(script, saved)' /\ SavedResolved'
  BY <1>1 DEF SessionInv, Cached, SavedResolved
<1>14. SavedParsed'
  BY <1>1 DEF SessionInv, Ends, SavedParsed
<1>15. Log!Take
  <2>1. Log!IsLogOf(Plain(events'), Log!Lines(script, m, "blank"))
    BY <1>7, ParsedIsLogOf
  <2>2. Log!IsLogOf(Plain(events)', Log!Lines(script', m, torn'))
    BY <1>1, <1>3, <2>1 DEF Plain
  <2>3. m \in n..Len(script)
    BY <1>2, <1>5
  <2>4. torn' \in IF m < Len(script) THEN Log!TornKinds(script[m + 1]) ELSE {"blank"}
    BY <1>1, <1>3 DEF Log!TornKinds
  <2> QED
    BY <1>1, <1>3, <2>2, <2>3, <2>4 DEF Log!Take, n, m
<1> QED
  BY <1>8, <1>9, <1>10, <1>11, <1>12, <1>13, <1>14, <1>15 DEF SessionInv, Cached

LEMMA ReadEndKeeps ==
  SessionInv /\ ReadEnd => Capture /\ [Log!Take]_(Log!logVars) /\ SessionInv'
<1> SUFFICES ASSUME SessionInv, ReadEnd PROVE Capture /\ [Log!Take]_(Log!logVars) /\ SessionInv'
  OBVIOUS
<1> DEFINE n == fed \div 2
<1>1. /\ pc \in {"read", "drain"} /\ ~done /\ got = out /\ strace # "runs"
      /\ done' = TRUE /\ fed' = got
      /\ IF fed = got THEN UNCHANGED <<torn, events>>
         ELSE /\ torn' \in Log!TornKinds(script[n + 1])
              /\ events' = FeedLine(events, n + 1, torn')
      /\ pc' = (IF pc = "read" THEN "show" ELSE "save")
      /\ UNCHANGED <<script, file, stable, temp, synced, step, saved, replayed, out, got>>
      /\ UNCHANGED <<strace, cut, child, heirs, termed>>
  BY DEF ReadEnd, Reading, Writers, Onwards, child_
<1>2. script \in Seq(Log!LineKinds) /\ Len(script) \in Nat
  BY ScriptType DEF SessionInv
<1>3. /\ fed \in Nat /\ got \in Nat /\ out \in Nat /\ fed <= got /\ got <= out
      /\ out <= 2 * Len(script) /\ out - got <= PipeSize
      /\ fed = 2 * (got \div 2) /\ torn = "blank"
      /\ (cut \/ out = 2 * Len(script))
  BY <1>1 DEF SessionInv, Counts, Reads
<1>4. /\ n \in Nat /\ fed = 2 * n /\ got <= 2 * n + 1 /\ got \div 2 = n
  <2> DEFINE h == got \div 2
  <2>1. h \in Nat /\ 2 * h <= got /\ got <= 2 * h + 1
    BY <1>3, Halves
  <2>2. fed = 2 * h
    BY <1>3
  <2> HIDE DEF h
  <2>3. n = h
    BY <2>1, <2>2, Halves
  <2> QED
    BY <2>1, <2>2, <2>3 DEF h
<1>5. Parsed(events, Log!Lines(script, n, "blank")) /\ AllFresh(script, events)
  BY <1>3 DEF SessionInv, LogRight, Cached
<1> HIDE DEF n
\* A half of a line there is only if strace was killed.
<1>6. fed # got => got = 2 * n + 1 /\ n < Len(script) /\ cut
  BY <1>1, <1>2, <1>3, <1>4
<1>7. fed = got => got % 2 = 0
  BY <1>4, Halves
<1>8. fed' \div 2 = n
  BY <1>1, <1>4
<1>9. fed # got => torn' \in Log!LineKinds \cup {"blank"}
  <2> SUFFICES ASSUME fed # got PROVE torn' \in Log!LineKinds \cup {"blank"}
    OBVIOUS
  <2>1. torn' \in Log!TornKinds(script[n + 1]) /\ script[n + 1] \in Log!LineKinds
    BY <1>1, <1>2, <1>4, <1>6
  <2> QED
    BY <2>1 DEF Log!TornKinds, Log!LineKinds, Log!Frames
<1>10. Parsed(events', Log!Lines(script, n, torn')) /\ AllFresh(script, events')
  <2>1. CASE fed = got
    BY <1>1, <1>3, <1>5, <2>1
  <2>2. CASE fed # got /\ torn' = "blank"
    <3>1. FeedLine(events, n + 1, "blank") = events
      BY DEF FeedLine, Log!Frames
    <3> QED
      BY <1>1, <1>5, <2>2, <3>1
  <2>3. CASE fed # got /\ torn' # "blank"
    <3> DEFINE lines == Log!Lines(script, n, "blank")
    <3>1. torn' \in Log!LineKinds
      BY <1>9, <2>3
    <3>2. /\ lines \in Seq(Log!LineKinds) /\ Len(lines) = n
          /\ Log!Lines(script, n, torn') = Append(lines, torn')
      <4>1. n \in Nat /\ n <= Len(script)
        BY <1>2, <1>4, <1>6, <2>3
      <4> HIDE DEF lines
      <4>2. lines = Log!Lines(script, n, "blank")
        BY DEF lines
      <4> QED
        BY <1>2, <3>1, <4>1, <4>2, LinesNext
    <3>3. events' = FeedLine(events, Len(lines) + 1, torn')
      BY <1>1, <2>3, <3>2
    <3>4. Parsed(events, lines)
      BY <1>5
    <3> HIDE DEF lines
    <3> QED
      BY <1>5, <3>1, <3>2, <3>3, <3>4, FeedLineParses
  <2> QED
    BY <2>1, <2>2, <2>3
<1>11. Capture /\ FileInv'
  <2>1. events' \in Seq(Events)
    BY <1>10 DEF Parsed
  <2>2. pc # "done" /\ step' = "idle"
    BY <1>1 DEF SessionInv, Ends
  <2> QED
    BY <1>1, <2>1, <2>2, CapturedIsFile
<1>12. Counts'
  <2>1. torn' \in Log!LineKinds \cup {"blank"}
    BY <1>1, <1>3, <1>9
  <2> QED
    BY <1>1, <1>3, <2>1 DEF SessionInv, Counts
<1>13. Reads'
  <2>1. TornOnlyIfCut'
    BY <1>1, <1>3, <1>6, <1>7 DEF TornOnlyIfCut
  <2> QED
    BY <1>1, <1>3, <2>1 DEF Reads
<1>14. Ends'
  BY <1>1 DEF SessionInv, Ends, PidIsStrace
<1>15. LogRight' /\ Cached' /\ SavedResolved' /\ SavedParsed'
  BY <1>1, <1>8, <1>10 DEF SessionInv, Ends, LogRight, Cached, SavedResolved, SavedParsed
<1>16. [Log!Take]_(Log!logVars)
  <2>1. CASE fed = got
    BY <1>1, <1>3, <1>4, <1>8, <2>1 DEF Log!logVars, n
  <2>2. CASE fed # got
    <3>1. Log!IsLogOf(Plain(events'), Log!Lines(script, n, torn'))
      BY <1>10, ParsedIsLogOf
    <3>2. Log!IsLogOf(Plain(events)', Log!Lines(script', n, torn'))
      BY <1>1, <3>1 DEF Plain
    <3>3. n \in n..Len(script) /\ n < Len(script)
      BY <1>2, <1>4, <1>6, <2>2
    <3> QED
      BY <1>1, <1>3, <1>8, <2>2, <3>2, <3>3 DEF Log!Take, n
  <2> QED
    BY <2>1, <2>2
<1> QED
  BY <1>11, <1>12, <1>13, <1>14, <1>15, <1>16 DEF SessionInv

\* A log of which some events have been resolved says what it said.
LEMMA SomeResolved ==
  ASSUME NEW log, NEW new, NEW lines, log \in Seq(Events),
         new \in Seq(Events), Len(new) = Len(log),
         \A k \in 1..Len(log) : new[k] = log[k] \/ new[k] = Resolve(log[k])
  PROVE  /\ Parsed(log, lines) => Parsed(new, lines)
         /\ AllFresh(script, log) => AllFresh(script, new)
         /\ Plain(new) = Plain(log)
<1>1. \A k \in 1..Len(log) : log[k] \in Events
  OBVIOUS
<1>2. \A k \in 1..Len(log) :
         /\ new[k].line = log[k].line /\ new[k].frames = log[k].frames
         /\ FreshIn(script, log[k]) => FreshIn(script, new[k])
  BY <1>1, ResolveSays
<1>3. ASSUME Parsed(log, lines) PROVE Parsed(new, lines)
  <2>1. \A j, k \in 1..Len(new) : j < k => new[j].line < new[k].line
    BY <1>2, <1>3 DEF Parsed
  <2>2. \A k \in 1..Len(new) : new[k].line \in Log!Calls(lines)
    BY <1>2, <1>3 DEF Parsed
  <2>3. \A c \in Log!Calls(lines) : \E k \in 1..Len(new) : new[k].line = c
    <3> TAKE c \in Log!Calls(lines)
    <3>1. PICK k \in 1..Len(log) : log[k].line = c
      BY <1>3 DEF Parsed
    <3> QED
      BY <1>2, <3>1
  <2>4. \A k \in 1..Len(new) :
           /\ Log!Ascends(new[k].frames)
           /\ ToSet(new[k].frames) = Log!FramesBelow(lines, new[k].line)
    BY <1>2, <1>3 DEF Parsed
  <2> QED
    BY <2>1, <2>2, <2>3, <2>4 DEF Parsed
<1>4. AllFresh(script, log) => AllFresh(script, new)
  BY <1>2 DEF AllFresh
<1>5. Plain(new) = Plain(log)
  <2>1. DOMAIN new = 1..Len(log) /\ DOMAIN log = 1..Len(log)
    OBVIOUS
  <2>2. Plain(new) = [k \in 1..Len(log) |-> [line |-> new[k].line, frames |-> new[k].frames]]
    BY <2>1 DEF Plain
  <2>3. Plain(log) = [k \in 1..Len(log) |-> [line |-> log[k].line, frames |-> log[k].frames]]
    BY <2>1 DEF Plain
  <2> QED
    BY <1>2, <2>2, <2>3
<1> QED
  BY <1>3, <1>4, <1>5

LEMMA ShowKeeps == SessionInv /\ Show => Capture /\ UNCHANGED Log!logVars /\ SessionInv'
<1> SUFFICES ASSUME SessionInv, Show PROVE Capture /\ UNCHANGED Log!logVars /\ SessionInv'
  OBVIOUS
<1>1. /\ pc = "show" /\ pc' = "key"
      /\ IF child /\ strace = "zombie" THEN Reap ELSE UNCHANGED child_
      /\ UNCHANGED <<script, file, stable, temp, synced, step, saved, replayed>>
      /\ UNCHANGED <<out, got, fed, torn, done>>
  BY DEF Show, pipe
<1>2. PICK shown \in SUBSET DOMAIN events :
         events' = [i \in DOMAIN events |-> IF i \in shown THEN Resolve(events[i]) ELSE events[i]]
  BY DEF Show
<1>3. events \in Seq(Events) /\ Len(events) \in Nat /\ DOMAIN events = 1..Len(events)
      /\ \A k \in 1..Len(events) : events[k] \in Events
  BY DEF SessionInv, LogRight, Parsed
<1>4. \A k \in 1..Len(events) : Resolve(events[k]) \in Events
  BY <1>3, ResolveType
<1>5. /\ events' \in Seq(Events) /\ Len(events') = Len(events)
      /\ \A k \in 1..Len(events) : events'[k] = events[k] \/ events'[k] = Resolve(events[k])
  BY <1>2, <1>3, <1>4
<1>6. /\ Parsed(events', Log!Lines(script, fed \div 2, torn))
      /\ AllFresh(script, events') /\ Plain(events') = Plain(events)
  BY <1>3, <1>5, SomeResolved DEF SessionInv, LogRight, Cached
<1>7. UNCHANGED Log!logVars
  <2>1. Plain(events)' = Plain(events)
    BY <1>6 DEF Plain
  <2> QED
    BY <1>1, <2>1 DEF Log!logVars
<1>8. Capture /\ FileInv'
  <2>1. pc # "done" /\ step' = "idle"
    BY <1>1 DEF SessionInv, Ends
  <2> QED
    BY <1>1, <1>5, <2>1, CapturedIsFile
<1>9. \/ /\ strace = "zombie" /\ strace' = "gone" /\ child' = FALSE /\ UNCHANGED <<cut, heirs, termed>>
      \/ UNCHANGED <<strace, cut, child, heirs, termed>>
  BY <1>1 DEF Reap, child_
<1>10. Counts' /\ Reads' /\ Ends'
  <2>1. CASE strace = "zombie" /\ strace' = "gone" /\ child' = FALSE /\ UNCHANGED <<cut, heirs, termed>>
    BY <1>1, <2>1 DEF SessionInv, Counts, Reads, Ends, TornOnlyIfCut, PidIsStrace
  <2>2. CASE UNCHANGED <<strace, cut, child, heirs, termed>>
    BY <1>1, <2>2 DEF SessionInv, Counts, Reads, Ends, TornOnlyIfCut, PidIsStrace
  <2> QED
    BY <1>9, <2>1, <2>2
<1>11. LogRight' /\ Cached' /\ SavedResolved' /\ SavedParsed'
  BY <1>1, <1>6 DEF SessionInv, Ends, LogRight, Cached, SavedResolved, SavedParsed
<1> QED
  BY <1>7, <1>8, <1>10, <1>11 DEF SessionInv

LEMMA FinishKeeps == SessionInv /\ Finish => Capture /\ UNCHANGED Log!logVars /\ SessionInv'
<1> SUFFICES ASSUME SessionInv, Finish PROVE Capture /\ UNCHANGED Log!logVars /\ SessionInv'
  OBVIOUS
<1>1. /\ pc = "save" /\ pc' = "done" /\ step' \in {"idle", "create"}
      /\ UNCHANGED <<script, events, file, stable, temp, synced, saved, replayed>>
      /\ UNCHANGED <<out, got, fed, torn, done, strace, cut, child, heirs, termed>>
  BY DEF Finish, pipe, child_
<1>2. Capture /\ FileInv'
  <2>1. events' \in Seq(Events)
    BY <1>1 DEF SessionInv, LogRight, Parsed
  <2> QED
    BY <1>1, <2>1, CapturedIsFile
<1>3. UNCHANGED Log!logVars
  BY <1>1 DEF Log!logVars, Plain
<1>4. Counts' /\ Reads' /\ Ends'
  BY <1>1 DEF SessionInv, Counts, Reads, Ends, TornOnlyIfCut, PidIsStrace
<1>5. LogRight' /\ Cached' /\ SavedResolved' /\ SavedParsed'
  BY <1>1 DEF SessionInv, LogRight, Cached, SavedResolved, SavedParsed
<1> QED
  BY <1>2, <1>3, <1>4, <1>5 DEF SessionInv

\* Steps that touch files find that all has been read.
LEMMA FileStep ==
  ASSUME SessionInv, pc = "done", FileNext, UNCHANGED <<pipe, child_, pc>>, script' = script,
         events' \in Seq(Events), Len(events') = Len(events),
         \A k \in 1..Len(events) : events'[k] = events[k] \/ events'[k] = Resolve(events[k]),
         SavedResolved', AllFresh(script, saved'),
         step' = "saved" => Parsed(saved', Log!Lines(script, out \div 2, torn))
  PROVE  UNCHANGED Log!logVars /\ SessionInv'
<1>1. FileInv'
  <2>1. FileInv
    BY DEF SessionInv
  <2> QED
    BY <2>1, CreateKeeps, WriteEventKeeps, SyncKeeps, CloseFileKeeps, RenameKeeps, SaveFailsKeeps,
       WriteBackKeeps, SaverKilledKeeps, PowerFailsKeeps, OpenKeeps DEF FileNext, SaveStep, DiskStep
<1>2. UNCHANGED <<out, got, fed, torn, done, strace, cut, child, heirs, termed, pc>>
  BY DEF pipe, child_
<1>3. events \in Seq(Events)
  BY DEF SessionInv, LogRight, Parsed
<1>4. /\ Parsed(events', Log!Lines(script, fed \div 2, torn))
      /\ AllFresh(script, events') /\ Plain(events') = Plain(events)
  BY <1>3, SomeResolved DEF SessionInv, LogRight, Cached
<1>5. UNCHANGED Log!logVars
  <2>1. Plain(events)' = Plain(events)
    BY <1>4 DEF Plain
  <2> QED
    BY <1>2, <2>1 DEF Log!logVars
<1>6. Counts' /\ Reads' /\ Ends'
  BY <1>2 DEF SessionInv, Counts, Reads, Ends, TornOnlyIfCut, PidIsStrace
<1>7. LogRight' /\ Cached' /\ SavedParsed'
  BY <1>2, <1>4 DEF LogRight, Cached, SavedParsed
<1> QED
  BY <1>1, <1>5, <1>6, <1>7 DEF SessionInv

LEMMA AllRead ==
  ASSUME SessionInv, pc = "done" PROVE Parsed(events, Log!Lines(script, out \div 2, torn))
<1>1. fed \in Nat /\ got \in Nat /\ got = out /\ (done => fed = got) /\ (~done => fed = 2 * (got \div 2))
  BY DEF SessionInv, Counts, Reads, Ends
<1>2. fed \div 2 = out \div 2
  <2>1. CASE done
    BY <1>1, <2>1
  <2>2. CASE ~ done
    <3>1. got \div 2 \in Nat
      BY <1>1, Halves
    <3>2. (2 * (got \div 2)) \div 2 = got \div 2
      BY <3>1, Halves
    <3> QED
      BY <1>1, <2>2, <3>2
  <2> QED
    BY <2>1, <2>2
<1> QED
  BY <1>2 DEF SessionInv, LogRight

LEMMA SaveKeeps == SessionInv /\ Save => SaveStep /\ UNCHANGED Log!logVars /\ SessionInv'
<1> SUFFICES ASSUME SessionInv, Save PROVE SaveStep /\ UNCHANGED Log!logVars /\ SessionInv'
  OBVIOUS
<1>1. SaveStep /\ pc = "done" /\ UNCHANGED <<pipe, child_, pc>>
  BY DEF Save
<1>2. FileNext
  BY <1>1 DEF FileNext
<1>3. events \in Seq(Events) /\ AllFresh(script, events) /\ AllFresh(script, saved) /\ SavedResolved
      /\ Parsed(events, Log!Lines(script, out \div 2, torn)) /\ SavedParsed /\ FileInv
  BY <1>1, AllRead DEF SessionInv, LogRight, Parsed, Cached
<1>4. CASE WriteEvent
  <2> DEFINE i == Len(temp.events) + 1
             e == Resolve(events[i])
             lines == Log!Lines(script, out \div 2, torn)
  <2>1. /\ step = "write" /\ step' = "write" /\ Len(temp.events) < temp.count
        /\ events' = [events EXCEPT ![i] = e]
        /\ temp' = [temp EXCEPT !.events = Append(@, events'[i])]
        /\ UNCHANGED <<script, saved>>
    BY <1>4 DEF WriteEvent
  <2>2. /\ temp \in Files /\ temp.count = Len(events) /\ temp.events \in Seq(Events)
        /\ Len(temp.events) \in Nat /\ Len(events) \in Nat
    BY <1>3, <2>1 DEF FileInv, Written, Files
  <2>3. i \in 1..Len(events) /\ events[i] \in Events
    BY <1>3, <2>1, <2>2
  <2>4. e \in Events /\ e.resolved # 0
    BY <2>3, ResolveSays
  <2> HIDE DEF e
  <2>5. /\ events' \in Seq(Events) /\ Len(events') = Len(events) /\ events'[i] = e
        /\ \A k \in 1..Len(events) : events'[k] = events[k] \/ (k = i /\ events'[k] = e)
    BY <1>3, <2>1, <2>2, <2>3, <2>4
  <2>6. temp'.events = Append(temp.events, e)
    BY <2>1, <2>2, <2>5 DEF Files
  <2>7. \A k \in 1..Len(temp.events) : temp.events[k].resolved # 0
    BY <1>3, <2>1 DEF SavedResolved
  <2>8. \A k \in 1..Len(temp'.events) : temp'.events[k].resolved # 0
    BY <2>2, <2>4, <2>6, <2>7
  <2>9. SavedResolved'
    BY <1>3, <2>1, <2>8 DEF SavedResolved
  <2>10. \A k \in 1..Len(events) : events'[k] = events[k] \/ events'[k] = Resolve(events[k])
    BY <2>5 DEF e
  <2>11. AllFresh(script, saved') /\ step' # "saved"
    BY <1>3, <2>1
  <2> QED
    BY <1>1, <1>2, <2>1, <2>5, <2>9, <2>10, <2>11, FileStep
<1>5. CASE Rename
  <2>1. /\ step = "rename" /\ step' = "saved" /\ saved' = events /\ UNCHANGED <<script, events>>
    BY <1>5 DEF Rename
  <2>2. \A k \in 1..Len(events) : events[k].resolved # 0
    <3>1. /\ temp \in Files /\ Len(temp.events) = Len(events)
          /\ \A k \in 1..Len(temp.events) : temp.events[k] = events[k]
      BY <1>3, <2>1 DEF FileInv, Written, Ready
    <3>2. \A k \in 1..Len(temp.events) : temp.events[k].resolved # 0
      BY <1>3, <2>1 DEF SavedResolved
    <3> QED
      BY <3>1, <3>2
  <2>3. SavedResolved'
    BY <2>1, <2>2 DEF SavedResolved
  <2>4. events' \in Seq(Events) /\ Len(events') = Len(events)
        /\ \A k \in 1..Len(events) : events'[k] = events[k]
    BY <1>3, <2>1
  <2>5. Parsed(saved', Log!Lines(script, out \div 2, torn)) /\ AllFresh(script, saved')
    BY <1>3, <2>1
  <2> QED
    BY <1>1, <1>2, <2>1, <2>3, <2>4, <2>5, FileStep
<1>6. CASE Create \/ Sync \/ CloseFile \/ SaveFails
  <2>1. UNCHANGED <<script, events, saved>> /\ step' # "saved"
    BY <1>6 DEF Create, Sync, CloseFile, SaveFails
  <2>2. SavedResolved'
    <3>1. CASE Create
      BY <1>3, <2>1, <3>1 DEF SavedResolved, Create, Header
    <3>2. CASE Sync \/ CloseFile \/ SaveFails
      BY <1>3, <2>1, <3>2 DEF SavedResolved, Sync, CloseFile, SaveFails
    <3> QED
      BY <1>6, <3>1, <3>2
  <2> QED
    BY <1>1, <1>2, <1>3, <2>1, <2>2, FileStep
<1> QED
  BY <1>1, <1>4, <1>5, <1>6 DEF SaveStep

LEMMA DiskKeeps == SessionInv /\ Disk => FileNext /\ UNCHANGED Log!logVars /\ SessionInv'
<1> SUFFICES ASSUME SessionInv, Disk PROVE FileNext /\ UNCHANGED Log!logVars /\ SessionInv'
  OBVIOUS
<1>1. (DiskStep \/ Open) /\ FileNext /\ pc = "done" /\ UNCHANGED <<pipe, child_, pc>>
  BY DEF Disk, FileNext
<1>2. events \in Seq(Events) /\ AllFresh(script, saved) /\ SavedResolved /\ SavedParsed
  BY DEF SessionInv, LogRight, Parsed, Cached
<1>3. UNCHANGED <<script, events, saved, temp>>
      /\ (step' = step \/ step' \in {"dead", "opened", "refused"})
  BY <1>1 DEF DiskStep, WriteBack, SaverKilled, PowerFails, Open
<1>4. SavedResolved'
  BY <1>2, <1>3 DEF SavedResolved
<1>5. step' = "saved" => Parsed(saved', Log!Lines(script, out \div 2, torn))
  BY <1>2, <1>3 DEF SavedParsed
<1> QED
  BY <1>1, <1>2, <1>3, <1>4, <1>5, FileStep

LEMMA SessionStep ==
  SessionInv /\ [Next]_vars =>
     SessionInv' /\ [Log!Take]_(Log!logVars) /\ [Capture \/ FileNext]_fileVars
<1> SUFFICES ASSUME SessionInv, [Next]_vars
    PROVE SessionInv' /\ [Log!Take]_(Log!logVars) /\ [Capture \/ FileNext]_fileVars
  OBVIOUS
<1>1. CASE ReadSome
  BY <1>1, ReadSomeKeeps
<1>2. CASE ReadEnd
  BY <1>2, ReadEndKeeps
<1>3. CASE ReadNothing \/ ReadAfterEnd \/ AnyKey \/ KeyQ
  <2>1. UNCHANGED fileVars /\ UNCHANGED <<fed, torn>>
    BY <1>3 DEF ReadNothing, ReadAfterEnd, AnyKey, KeyQ, pipe
  <2>2. UNCHANGED Log!logVars
    BY <2>1 DEF Log!logVars, Plain, fileVars
  <2> QED
    BY <1>3, <2>1, <2>2, LoopKeeps
<1>4. CASE Show
  BY <1>4, ShowKeeps
<1>5. CASE Stop \/ StraceObeyed \/ GraceOver
  <2>1. UNCHANGED fileVars /\ UNCHANGED <<fed, torn>>
    BY <1>5 DEF Stop, StraceObeyed, GraceOver, pipe
  <2>2. UNCHANGED Log!logVars
    BY <2>1 DEF Log!logVars, Plain, fileVars
  <2> QED
    BY <1>5, <2>1, <2>2, LeaveKeeps
<1>6. CASE Finish
  BY <1>6, FinishKeeps
<1>7. CASE Strace
  <2>1. UNCHANGED fileVars /\ UNCHANGED <<fed, torn>>
    BY <1>7 DEF Strace, Prints, StraceEnds, StraceKilled, HeirsEnd, pipe
  <2>2. UNCHANGED Log!logVars
    BY <2>1 DEF Log!logVars, Plain, fileVars
  <2> QED
    BY <1>7, <2>1, <2>2, StraceKeeps
<1>8. CASE Save
  BY <1>8, SaveKeeps DEF FileNext
<1>9. CASE Disk
  BY <1>9, DiskKeeps
<1>10. CASE UNCHANGED vars
  <2>1. UNCHANGED fileVars /\ UNCHANGED <<out, got, fed, torn, done, strace, cut, child, heirs, termed, pc>>
    BY <1>10 DEF vars, pipe, child_
  <2>2. UNCHANGED Log!logVars
    BY <2>1 DEF Log!logVars, Plain, fileVars
  <2>3. Counts' /\ Reads' /\ Ends'
    BY <2>1 DEF SessionInv, Counts, Reads, Ends, TornOnlyIfCut, PidIsStrace, fileVars
  <2> QED
    BY <2>1, <2>2, <2>3, QuietStep
<1> QED
  BY <1>1, <1>2, <1>3, <1>4, <1>5, <1>6, <1>7, <1>8, <1>9, <1>10
     DEF Next, Session, ReadTrace, Leave

LEMMA SessionInvariant == Spec => []SessionInv
  BY SessionInit, SessionStep, PTL DEF Spec

\* However strace's writes and strace-src's reads cut the lines, whether strace ends, is asked to
\* end or is killed, and whenever q is pressed: a save has every line that strace wrote, the second
\* it was given to end included (stop_strace, drain_trace), a half of a line is taken for a line
\* only if strace was killed in the middle of it (read_trace), and strace_pid is never another
\* process.  For every trace and every size of the pipe.
THEOREM NothingIsLost == Spec => []NothingLost
<1>1. SessionInv => NothingLost
  <2> SUFFICES ASSUME SessionInv PROVE NothingLost
    OBVIOUS
  <2>1. TypeOK
    <3>1. script \in Scripts /\ fed \in 0..got /\ got \in 0..out /\ out \in 0..2 * Len(script)
          /\ out - got <= PipeSize
      BY ScriptType DEF SessionInv, Counts
    <3>2. events \in Seq(Events) /\ saved \in Seq(Events) /\ synced \in BOOLEAN /\ step \in Steps
      BY DEF SessionInv, FileInv, FileTypes
    <3>3. {file, stable, temp} \subseteq Files \cup {NoFile, OldFile}
      <4>1. Whole \in Files
        BY <3>2 DEF Whole, Files
      <4>2. temp \in Files \cup {NoFile}
        BY DEF SessionInv, FileInv, FileTypes
      <4>3. \A f \in {file, stable} : f = OldFile \/ f = Whole
        BY DEF SessionInv, FileInv, Placed
      <4> QED
        BY <4>1, <4>2, <4>3
    <3>4. /\ torn \in Log!LineKinds \cup {"blank"} /\ strace \in {"runs", "zombie", "gone"}
          /\ {done, cut, child, heirs, termed} \subseteq BOOLEAN
          /\ pc \in {"read", "show", "key", "stop", "grace", "drain", "save", "done"}
      BY DEF SessionInv, Counts
    <3> QED
      BY <3>1, <3>2, <3>3, <3>4 DEF TypeOK
  <2>2. TornOnlyIfCut /\ PidIsStrace
    BY DEF SessionInv, Reads, Ends
  <2>3. SavedAll
    BY ParsedIsLogOf DEF SessionInv, SavedParsed, SavedAll
  <2> QED
    BY <2>1, <2>2, <2>3 DEF NothingLost
<1> QED
  BY <1>1, SessionInvariant, PTL

\* What the screen and a saved file say of the source of an event is what its frames say, in
\* whatever order lines arrive, events are drawn and the trace is saved: the cache is never stale
\* (append_frame, trace_event_resolve).
THEOREM SourcesAreFresh == Spec => []SourcesFresh
<1>1. SessionInv => SourcesFresh
  <2> SUFFICES ASSUME SessionInv PROVE SourcesFresh
    OBVIOUS
  <2>1. events \in Seq(Events) /\ saved \in Seq(Events)
    BY DEF SessionInv, FileInv, FileTypes
  <2>2. \A e \in ToSet(events) : \E k \in 1..Len(events) : e = events[k]
    BY <2>1 DEF ToSet
  <2>3. \A e \in ToSet(saved) : \E k \in 1..Len(saved) : e = saved[k]
    BY <2>1 DEF ToSet
  <2>4. \A e \in ToSet(events) \cup ToSet(saved) : Fresh(e)
    BY <2>2, <2>3, FreshIs DEF SessionInv, Cached, AllFresh
  <2>5. \A e \in ToSet(saved) : e.resolved # 0
    BY <2>3 DEF SessionInv, SavedResolved
  <2> QED
    BY <2>4, <2>5 DEF SourcesFresh
<1> QED
  BY <1>1, SessionInvariant, PTL

\* The session implements TraceLog: the log is always what the lines read so far say, one event
\* for every call with the frames printed below it, wherever the reads cut the lines and whatever
\* is drawn between them (process_complete_lines, trace_model_feed_line); and it touches files
\* only as FileSpec says.
THEOREM SessionImplementsLog == Spec => LogIsParse
<1>1. Init => Log!LogInit /\ FileInit
  <2> SUFFICES ASSUME Init PROVE Log!LogInit
    BY DEF Init
  <2>1. script \in Scripts /\ fed \div 2 = 0 /\ torn = "blank" /\ events = <<>>
    BY DEF Init, FileInit
  <2>2. Plain(<<>>) = <<>>
    BY DEF Plain
  <2> QED
    BY <2>1, <2>2 DEF Log!LogInit
<1> QED
  BY <1>1, SessionInvariant, SessionStep, PTL DEF Spec, LogIsParse, Log!LogSpec, FileSpec

\* So the saves of a session are as atomic as any.
THEOREM SessionSavesAtomically == Spec => []SaveIsAtomic
  BY SessionImplementsLog, SavesAreAtomic, PTL DEF LogIsParse
=============================================================================
