--------------------------- MODULE FdTracingProofs ----------------------------
(***************************************************************************)
(* Proofs about the descriptor analysis for every set of processes and     *)
(* descriptors and traces of any length. It is type correct and the links  *)
(* followed by 'o' and by the FD popup always lead to the origin; and it   *)
(* is right about the traces that strace prints: the files and the close-  *)
(* on-exec marks it believes in are the kernel's.                          *)
(***************************************************************************)
EXTENDS FdTracing, FiniteSetTheorems, TLAPS

ChainInv == TypeOK /\ ChainReachesOrigin /\ BindingsCreated

\* The table an event works on is well formed and its bindings have sound creators.
LEMMA GetTableSound ==
    ASSUME TypeOK, BindingsCreated, NEW pid \in Pid
    PROVE  GetTable(pid) \in Tables /\ TableSound(infos, objects, GetTable(pid))
<1>1. EmptyTable \in Tables /\ TableSound(infos, objects, EmptyTable)
  BY DEF EmptyTable, Tables, TableSound
<1>2. CASE pid \in hasTable
  BY <1>2 DEF GetTable, TypeOK, BindingsCreated
<1>3. CASE pid \notin hasTable /\ parents[pid] \in hasTable
  BY <1>3 DEF GetTable, TypeOK, BindingsCreated
<1>4. CASE pid \notin hasTable /\ parents[pid] \notin hasTable
  BY <1>1, <1>4 DEF GetTable
<1> QED BY <1>2, <1>3, <1>4

\* Appending an event, and perhaps an object, leaves earlier creators as they were.
LEMMA CreatorStable ==
    ASSUME NEW known \in Seq(FdEventInfos), NEW info \in FdEventInfos,
           NEW origins \in Seq(Nat), NEW origins2 \in Seq(Nat), NEW n \in Nat,
           origins2 = origins \/ origins2 = Append(origins, n),
           NEW o, NEW c, CreatorOf(known, origins, o, c)
    PROVE  CreatorOf(Append(known, info), origins2, o, c)
<1> DEFINE seen2 == Append(known, info)
<1>1. c \in 1..Len(known) /\ o \in 1..Len(origins)
  BY DEF CreatorOf
<1>2. c \in 1..Len(seen2) /\ seen2[c] = known[c]
  BY <1>1
<1>3. o \in 1..Len(origins2) /\ origins2[o] = origins[o]
  <2>1. CASE origins2 = origins
    BY <1>1, <2>1
  <2>2. CASE origins2 = Append(origins, n)
    BY <1>1, <2>2
  <2> QED BY <2>1, <2>2
<1> HIDE DEF seen2
<1>4. CreatorOf(seen2, origins2, o, c)
  BY <1>2, <1>3 DEF CreatorOf
<1> QED BY <1>4 DEF seen2

\* What every iteration of the loop does: it stores, for one or two processes, tables
\* whose bindings are sound once its event is known, and an info with sound links.
SoundStep ==
    /\ UNCHANGED parents
    /\ hasTable' \subseteq Pid
    /\ tables' \in [Pid -> Tables]
    /\ \E info \in FdEventInfos : infos' = Append(infos, info)
    /\ objects' = objects \/ objects' = Append(objects, ThisEvent)
    /\ \A p \in Pid : tables'[p] = tables[p] \/ TableSound(infos', objects', tables'[p])
    /\ LinksOf(infos', objects', ThisEvent)

LEMMA SoundStepPreserves ==
    ASSUME ChainInv, SoundStep
    PROVE  ChainInv'
<1> USE DEF ChainInv
<1>1. PICK info \in FdEventInfos : infos' = Append(infos, info)
  BY DEF SoundStep
<1>2. /\ infos \in Seq(FdEventInfos) /\ objects \in Seq(Nat)
      /\ ThisEvent \in Nat /\ ThisEvent = Len(infos) + 1
  BY DEF TypeOK, ThisEvent
<1>3. infos' \in Seq(FdEventInfos) /\ objects' \in Seq(Nat)
  <2>1. infos' \in Seq(FdEventInfos)
    BY <1>1, <1>2
  <2>2. CASE objects' = objects
    BY <1>2, <2>1, <2>2
  <2>3. CASE objects' = Append(objects, ThisEvent)
    BY <1>2, <2>1, <2>3
  <2> QED BY <2>2, <2>3 DEF SoundStep
<1>4. TypeOK'
  BY <1>3 DEF TypeOK, SoundStep
<1>5. ASSUME NEW o, NEW c, CreatorOf(infos, objects, o, c)
      PROVE  CreatorOf(infos', objects', o, c)
  BY <1>1, <1>2, <1>3, <1>5, CreatorStable DEF SoundStep
<1>6. BindingsCreated'
  <2> SUFFICES ASSUME NEW p \in Pid
               PROVE  TableSound(infos', objects', tables'[p])
    BY DEF BindingsCreated
  <2>1. CASE tables'[p] = tables[p]
    BY <1>5, <2>1 DEF BindingsCreated, TableSound
  <2> QED BY <2>1 DEF SoundStep
<1>7. ChainReachesOrigin'
  <2> SUFFICES ASSUME NEW i \in 1..Len(infos')
               PROVE  LinksOf(infos', objects', i)
    BY DEF ChainReachesOrigin
  <2>1. i \in 1..Len(infos) \/ i = ThisEvent
    BY <1>1, <1>2
  <2>2. CASE i \in 1..Len(infos)
    <3>1. infos'[i] = infos[i]
      BY <1>1, <1>2, <2>2
    <3> QED BY <2>2, <3>1, <1>5 DEF ChainReachesOrigin, LinksOf
  <2> QED BY <2>1, <2>2 DEF SoundStep
<1> QED BY <1>4, <1>6, <1>7

----------------------------------------------------------------------------
(* Every branch of the loop is a SoundStep. *)

\* A branch that ends in Store.
LEMMA StoreSound ==
    ASSUME ChainInv, NEW pid \in Pid, NEW table \in Tables, NEW info \in FdEventInfos,
           Store(pid, table, info),
           objects' = objects \/ objects' = Append(objects, ThisEvent),
           TableSound(infos', objects', table),
           info.jump # 0 => /\ info.jump < ThisEvent
                            /\ CreatorOf(infos', objects', PrimaryObject(info), info.jump),
           info.creator # 0 => CreatorOf(infos', objects', PrimaryObject(info), info.creator)
    PROVE  SoundStep
<1>1. /\ infos' = Append(infos, info) /\ hasTable' = hasTable \cup {pid}
      /\ tables' = [tables EXCEPT ![pid] = table] /\ UNCHANGED parents
  BY DEF Store
<1>2. TypeOK
  BY DEF ChainInv
<1>3. hasTable' \subseteq Pid /\ tables' \in [Pid -> Tables]
  BY <1>1, <1>2 DEF TypeOK
<1>4. \A p \in Pid : tables'[p] = tables[p] \/ TableSound(infos', objects', tables'[p])
  BY <1>1, <1>2 DEF TypeOK
<1>5. infos'[ThisEvent] = info
  BY <1>1, <1>2 DEF TypeOK, ThisEvent
<1>6. LinksOf(infos', objects', ThisEvent)
  BY <1>5 DEF LinksOf
<1> QED BY <1>1, <1>3, <1>4, <1>6 DEF SoundStep

\* A branch that creates no object keeps every creator it had.
LEMMA OldCreators ==
    ASSUME ChainInv, NEW info \in FdEventInfos, infos' = Append(infos, info),
           objects' = objects \/ objects' = Append(objects, ThisEvent),
           NEW o, NEW c, CreatorOf(infos, objects, o, c)
    PROVE  /\ CreatorOf(infos', objects', o, c)
           /\ c \in Nat \ {0} /\ c < ThisEvent
           /\ o \in Nat \ {0} /\ o \in 1..Len(objects)
<1>1. infos \in Seq(FdEventInfos) /\ objects \in Seq(Nat) /\ ThisEvent \in Nat
  BY DEF ChainInv, TypeOK, ThisEvent
<1>2. objects' \in Seq(Nat)
  <2>1. CASE objects' = objects
    BY <1>1, <2>1
  <2>2. CASE objects' = Append(objects, ThisEvent)
    BY <1>1, <2>2
  <2> QED BY <2>1, <2>2
<1>3. CreatorOf(infos', objects', o, c)
  BY <1>1, <1>2, CreatorStable
<1>4. c \in 1..Len(infos) /\ o \in 1..Len(objects)
  BY DEF CreatorOf
<1> QED BY <1>1, <1>3, <1>4 DEF ThisEvent

\* The event being processed becomes a creator of the object it duplicates ...
LEMMA DupCreator ==
    ASSUME ChainInv, NEW info \in FdEventInfos, infos' = Append(infos, info),
           objects' = objects,
           NEW o, NEW c, CreatorOf(infos, objects, o, c),
           info.creator = ThisEvent, info.jump = c, PrimaryObject(info) = o
    PROVE  CreatorOf(infos', objects', o, ThisEvent)
<1>1. infos \in Seq(FdEventInfos) /\ objects \in Seq(Nat) /\ ThisEvent = Len(infos) + 1
  BY DEF ChainInv, TypeOK, ThisEvent
<1>2. ThisEvent \in 1..Len(infos') /\ infos'[ThisEvent] = info
  BY <1>1
<1>3. c \in 1..Len(infos) /\ o \in 1..Len(objects) /\ objects[o] <= c
  BY DEF CreatorOf
<1>4. objects[o] <= ThisEvent /\ objects[o] # ThisEvent /\ c # 0
  <2>1. objects[o] \in Nat /\ Len(infos) \in Nat
    BY <1>1, <1>3
  <2> QED BY <1>1, <1>3, <2>1
<1> QED BY <1>2, <1>3, <1>4 DEF CreatorOf

\* ... or the origin of the object it creates.
LEMMA OriginCreator ==
    ASSUME ChainInv, NEW info \in FdEventInfos, infos' = Append(infos, info),
           objects' = Append(objects, ThisEvent),
           info.creator = ThisEvent, info.jump = 0, PrimaryObject(info) = Len(objects) + 1
    PROVE  CreatorOf(infos', objects', Len(objects) + 1, ThisEvent)
<1>1. infos \in Seq(FdEventInfos) /\ objects \in Seq(Nat) /\ ThisEvent = Len(infos) + 1
  BY DEF ChainInv, TypeOK, ThisEvent
<1>2. ThisEvent \in 1..Len(infos') /\ infos'[ThisEvent] = info /\ ThisEvent \in Nat
  BY <1>1
<1>3. Len(objects) + 1 \in 1..Len(objects') /\ objects'[Len(objects) + 1] = ThisEvent
  BY <1>1, <1>2
<1>4. ThisEvent <= ThisEvent
  BY <1>2
<1> QED BY <1>2, <1>3, <1>4 DEF CreatorOf

\* Constructors of well-typed values.
LEMMA InfoTypes ==
    ASSUME NEW pid \in Pid, NEW refs \in Seq(FdRefs), NEW primary \in Nat,
           NEW jump \in Nat, NEW creator \in Nat, NEW open \in BOOLEAN
    PROVE  /\ EventInfo(pid, refs, primary, jump, creator, open) \in FdEventInfos
           /\ RefsInfo(pid, refs, primary) \in FdEventInfos
BY DEF EventInfo, RefsInfo, FdEventInfos

\* A branch that changes no link: the event only refers to a descriptor.
LEMMA UseSound ==
    ASSUME ChainInv, NEW pid \in Pid, NEW fd \in Fd, NEW open \in BOOLEAN,
           NEW table \in Tables, TableSound(infos, objects, table),
           NEW stored \in Tables,
           \A g \in Fd : stored[g] # Unbound =>
               /\ table[g] # Unbound
               /\ stored[g].object = table[g].object /\ stored[g].creator = table[g].creator,
           Store(pid, stored, UseInfo(pid, table, fd, open)), UNCHANGED objects
    PROVE  SoundStep
<1> DEFINE info == UseInfo(pid, table, fd, open)
           refs == <<Ref(fd, ObjectOf(table, fd))>>
<1>1. ASSUME table[fd] # Unbound
      PROVE  /\ table[fd] \in Bindings
             /\ CreatorOf(infos, objects, table[fd].object, table[fd].creator)
  BY <1>1 DEF TableSound, Tables
<1>2. ObjectOf(table, fd) \in Nat
  BY <1>1 DEF ObjectOf, Bindings
<1>3. refs \in Seq(FdRefs) /\ refs[1].object = ObjectOf(table, fd)
  BY <1>2 DEF Ref, FdRefs
<1>4. info \in FdEventInfos
  <2>1. CASE table[fd] = Unbound
    BY <1>3, <2>1, InfoTypes DEF UseInfo
  <2>2. CASE table[fd] # Unbound
    BY <1>1, <1>3, <2>2, InfoTypes DEF UseInfo, Bindings
  <2> QED BY <2>1, <2>2
<1>5. infos' = Append(infos, info)
  BY DEF Store
<1>6. \A o, c : CreatorOf(infos, objects, o, c) =>
                  /\ CreatorOf(infos', objects', o, c) /\ c < ThisEvent
  BY <1>4, <1>5, OldCreators
<1>7. TableSound(infos', objects', stored)
  BY <1>6 DEF TableSound
<1>8. /\ info.jump # 0 => /\ info.jump < ThisEvent
                          /\ CreatorOf(infos', objects', PrimaryObject(info), info.jump)
      /\ info.creator # 0 => CreatorOf(infos', objects', PrimaryObject(info), info.creator)
  <2>1. CASE table[fd] = Unbound
    <3>1. info.jump = 0 /\ info.creator = 0
      BY <2>1 DEF UseInfo, RefsInfo, EventInfo
    <3> QED BY <3>1
  <2>2. CASE table[fd] # Unbound
    <3>1. /\ info.jump = table[fd].creator /\ info.creator = table[fd].creator
          /\ PrimaryObject(info) = table[fd].object
      BY <2>2, <1>3 DEF UseInfo, EventInfo, PrimaryObject, ObjectOf
    <3> QED BY <3>1, <2>2, <1>1, <1>6
  <2> QED BY <2>1, <2>2
<1> HIDE DEF info
<1>9. Store(pid, stored, info)
  BY DEF info
<1> QED BY <1>4, <1>7, <1>8, <1>9, StoreSound

\* A branch that records no link at all.
LEMMA RefsSound ==
    ASSUME ChainInv, NEW pid \in Pid, NEW refs \in Seq(FdRefs), NEW primary \in Nat,
           NEW table \in Tables, TableSound(infos, objects, table),
           NEW stored \in Tables,
           \A g \in Fd : stored[g] # Unbound => stored[g] = table[g],
           Store(pid, stored, RefsInfo(pid, refs, primary)), UNCHANGED objects
    PROVE  SoundStep
<1> DEFINE info == RefsInfo(pid, refs, primary)
<1>1. info \in FdEventInfos
  BY InfoTypes
<1>2. info.jump = 0 /\ info.creator = 0
  BY DEF RefsInfo, EventInfo
<1>3. infos' = Append(infos, info)
  BY DEF Store
<1> HIDE DEF info
<1>4. TableSound(infos', objects', stored)
  BY <1>1, <1>3, OldCreators DEF TableSound
<1>5. Store(pid, stored, info)
  BY DEF info
<1> QED BY <1>1, <1>2, <1>4, <1>5, StoreSound

\* A branch that binds fd, and perhaps another descriptor, to the object of its event.
LEMMA CreateSound ==
    ASSUME ChainInv, NEW pid \in Pid, NEW refs \in Seq(FdRefs), NEW primary \in 1..Len(refs),
           NEW jump \in Nat, NEW table \in Tables, TableSound(infos, objects, table),
           NEW object \in Nat, refs[primary].object = object,
           NEW stored \in Tables,
           \A g \in Fd : \/ stored[g] = table[g]
                         \/ stored[g].object = object /\ stored[g].creator = ThisEvent,
           Store(pid, stored, CreatorInfo(pid, refs, primary, jump)),
           \/ /\ objects' = Append(objects, ThisEvent) /\ object = Len(objects) + 1
              /\ jump = 0
           \/ /\ objects' = objects /\ jump # 0
              /\ CreatorOf(infos, objects, object, jump)
    PROVE  SoundStep
<1> DEFINE info == CreatorInfo(pid, refs, primary, jump)
<1>1. ThisEvent \in Nat /\ primary \in Nat /\ primary # 0
  BY DEF ThisEvent, ChainInv, TypeOK
<1>2. info \in FdEventInfos
  BY <1>1, InfoTypes DEF CreatorInfo
<1>3. /\ info.jump = jump /\ info.creator = ThisEvent
      /\ PrimaryObject(info) = object
  BY <1>1 DEF CreatorInfo, EventInfo, PrimaryObject
<1>4. infos' = Append(infos, info)
  BY DEF Store
<1> HIDE DEF info
<1>5. CreatorOf(infos', objects', object, ThisEvent)
  BY <1>2, <1>3, <1>4, OriginCreator, DupCreator
<1>6. TableSound(infos', objects', stored)
  BY <1>2, <1>4, <1>5, OldCreators DEF TableSound
<1>7. jump # 0 => jump < ThisEvent /\ CreatorOf(infos', objects', object, jump)
  BY <1>2, <1>4, OldCreators
<1>8. Store(pid, stored, info)
  BY DEF info
<1> QED BY <1>2, <1>3, <1>5, <1>6, <1>7, <1>8, StoreSound

\* Binding a descriptor keeps a table a table.
LEMMA SetBindingType ==
    \A table \in Tables, fd \in Fd, object, creator \in Nat, cloexec \in BOOLEAN :
        LET stored == SetBinding(table, fd, object, creator, cloexec) IN
        /\ stored \in Tables
        /\ \A g \in Fd : \/ stored[g] = table[g]
                         \/ stored[g].object = object /\ stored[g].creator = creator
BY DEF SetBinding, Tables, Bindings

LEMMA ObjectOfType ==
    ASSUME NEW table \in Tables, NEW fd \in Fd
    PROVE  ObjectOf(table, fd) \in Nat
BY DEF ObjectOf, Tables, Bindings

LEMMA LastRef ==
    ASSUME NEW refs \in Seq(FdRefs), NEW ref \in FdRefs
    PROVE  /\ Append(refs, ref) \in Seq(FdRefs)
           /\ Len(Append(refs, ref)) = Len(refs) + 1
           /\ Append(refs, ref)[Len(refs) + 1] = ref
OBVIOUS

LEMMA NoRefs == <<>> \in Seq(FdRefs) /\ 0 \in Nat
OBVIOUS

\* Every iteration of the loop, on any event of any process, is a SoundStep.
LEMMA EveryBranchSound ==
    ASSUME ChainInv, NEW pid \in Pid, OnEvent(pid)
    PROVE  SoundStep
<1> DEFINE table == GetTable(pid)
           fresh == Len(objects) + 1
<1>1. /\ table \in Tables /\ TableSound(infos, objects, table)
      /\ ThisEvent \in Nat /\ fresh \in Nat
  BY GetTableSound DEF ChainInv, TypeOK, ThisEvent
<1>2. ASSUME NEW g \in Fd, table[g] # Unbound
      PROVE  /\ table[g] \in Bindings /\ table[g].creator # 0
             /\ CreatorOf(infos, objects, table[g].object, table[g].creator)
  BY <1>1, <1>2 DEF TableSound, Tables, CreatorOf
<1> HIDE DEF table, fresh
<1>3. ASSUME NEW fd \in Fd, NEW c \in BOOLEAN, Open(pid, fd, c)
      PROVE  SoundStep
  <2> DEFINE stored == SetBinding(table, fd, fresh, ThisEvent, c)
             refs == <<Ref(fd, fresh)>>
  <2>1. /\ objects' = Append(objects, ThisEvent)
        /\ Store(pid, stored, CreatorInfo(pid, refs, 1, 0))
    BY <1>3 DEF Open, table, fresh
  <2>2. refs \in Seq(FdRefs) /\ 1 \in 1..Len(refs) /\ refs[1].object = fresh
    BY <1>1 DEF Ref, FdRefs
  <2>3. /\ stored \in Tables
        /\ \A g \in Fd : \/ stored[g] = table[g]
                         \/ stored[g].object = fresh /\ stored[g].creator = ThisEvent
    BY <1>1, SetBindingType
  <2> HIDE DEF stored, refs
  <2> QED BY <1>1, <2>1, <2>2, <2>3, CreateSound DEF fresh
<1>4. ASSUME NEW listener \in Fd \cup {NoFd}, NEW fd \in Fd, NEW c \in BOOLEAN,
             Accept(pid, listener, fd, c)
      PROVE  SoundStep
  <2> DEFINE stored == SetBinding(table, fd, fresh, ThisEvent, c)
             named == IF listener = NoFd THEN <<>> ELSE <<Ref(listener, ObjectOf(table, listener))>>
             refs == Append(named, Ref(fd, fresh))
  <2>1. /\ objects' = Append(objects, ThisEvent)
        /\ Store(pid, stored, CreatorInfo(pid, refs, Len(named) + 1, 0))
    BY <1>4 DEF Accept, table, fresh
  <2>2. named \in Seq(FdRefs)
    <3>1. CASE listener = NoFd
      BY <3>1
    <3>2. CASE listener # NoFd
      <4>1. ObjectOf(table, listener) \in Nat
        BY <1>1, <3>2, ObjectOfType
      <4> QED BY <3>2, <4>1 DEF Ref, FdRefs
    <3> QED BY <3>1, <3>2
  <2> HIDE DEF named
  <2>3. Ref(fd, fresh) \in FdRefs /\ Ref(fd, fresh).object = fresh
    BY <1>1 DEF Ref, FdRefs
  <2>4. /\ refs \in Seq(FdRefs) /\ Len(named) + 1 \in 1..Len(refs)
        /\ refs[Len(named) + 1].object = fresh
    BY <2>2, <2>3
  <2>5. /\ stored \in Tables
        /\ \A g \in Fd : \/ stored[g] = table[g]
                         \/ stored[g].object = fresh /\ stored[g].creator = ThisEvent
    BY <1>1, SetBindingType
  <2> HIDE DEF stored, refs
  <2> QED BY <1>1, <2>1, <2>4, <2>5, CreateSound DEF fresh
<1>5. ASSUME NEW left \in Fd, NEW right \in Fd, NEW c \in BOOLEAN, Pipe(pid, left, right, c)
      PROVE  SoundStep
  <2> DEFINE once == SetBinding(table, left, fresh, ThisEvent, c)
             stored == SetBinding(once, right, fresh, ThisEvent, c)
             refs == <<Ref(left, fresh), Ref(right, fresh)>>
  <2>1. /\ objects' = Append(objects, ThisEvent)
        /\ Store(pid, stored, CreatorInfo(pid, refs, 1, 0))
    BY <1>5 DEF Pipe, table, fresh
  <2>2. refs \in Seq(FdRefs) /\ 1 \in 1..Len(refs) /\ refs[1].object = fresh
    BY <1>1 DEF Ref, FdRefs
  <2>3. /\ once \in Tables
        /\ \A g \in Fd : \/ once[g] = table[g]
                         \/ once[g].object = fresh /\ once[g].creator = ThisEvent
    BY <1>1, SetBindingType
  <2> HIDE DEF once
  <2>4. /\ stored \in Tables
        /\ \A g \in Fd : \/ stored[g] = table[g]
                         \/ stored[g].object = fresh /\ stored[g].creator = ThisEvent
    BY <1>1, <2>3, SetBindingType
  <2> HIDE DEF stored, refs
  <2> QED BY <1>1, <2>1, <2>2, <2>4, CreateSound DEF fresh
<1>6. ASSUME NEW fd \in Fd, NEW c \in BOOLEAN, NEW named \in NamedFds(fd),
             Dup(pid, named, fd, c)
      PROVE  SoundStep
  <2> DEFINE source == table[named[1]]
             object == ObjectOf(table, named[1])
             refs == [i \in 1..Len(named) |-> Ref(named[i], object)]
  <2>1. named \in Seq(Fd) /\ Len(named) \in Nat /\ Len(named) >= 1 /\ named[1] \in Fd
    <3>1. PICK old \in Fd : named = <<old>> \/ named = <<old, fd>>
      BY DEF NamedFds
    <3>2. CASE named = <<old>>
      BY <3>2
    <3>3. CASE named = <<old, fd>>
      BY <3>3
    <3> QED BY <3>1, <3>2, <3>3
  <2>2. object \in Nat
    BY <1>1, <2>1, ObjectOfType
  <2>3. refs \in Seq(FdRefs) /\ Len(refs) = Len(named)
    <3>1. \A i \in 1..Len(named) : Ref(named[i], object) \in FdRefs
      BY <2>1, <2>2 DEF Ref, FdRefs
    <3> HIDE DEF object
    <3> QED BY <2>1, <3>1
  <2>4. CASE source = Unbound
    <3>1. Store(pid, table, RefsInfo(pid, refs, 0)) /\ UNCHANGED objects
      BY <1>6, <2>4 DEF Dup, table
    <3> HIDE DEF refs
    <3> QED BY <1>1, <2>3, <3>1, RefsSound
  <2>5. CASE source # Unbound
    <3> DEFINE stored == SetBinding(table, fd, source.object, ThisEvent, c)
               all == Append(refs, Ref(fd, source.object))
    <3>1. /\ Store(pid, stored, CreatorInfo(pid, all, Len(refs) + 1, source.creator))
          /\ UNCHANGED objects
      BY <1>6, <2>5 DEF Dup, table
    <3>2. /\ source.object \in Nat /\ source.creator \in Nat /\ source.creator # 0
          /\ CreatorOf(infos, objects, source.object, source.creator)
      BY <1>2, <2>1, <2>5 DEF Bindings
    <3> HIDE DEF refs, source
    <3>3. Ref(fd, source.object) \in FdRefs /\ Ref(fd, source.object).object = source.object
      BY <3>2 DEF Ref, FdRefs
    <3>4. /\ all \in Seq(FdRefs) /\ Len(refs) + 1 \in 1..Len(all)
          /\ all[Len(refs) + 1].object = source.object
      BY <2>3, <3>3
    <3>5. /\ stored \in Tables
          /\ \A g \in Fd : \/ stored[g] = table[g]
                           \/ stored[g].object = source.object /\ stored[g].creator = ThisEvent
      <4>1. table \in Tables /\ source.object \in Nat /\ ThisEvent \in Nat
        BY <1>1, <3>2
      <4> QED BY <4>1, SetBindingType
    <3> HIDE DEF stored, all
    <3> QED BY <1>1, <3>1, <3>2, <3>4, <3>5, CreateSound
  <2> QED BY <2>4, <2>5
<1>7. ASSUME NEW old \in Fd, NEW fd \in Fd, NEW c \in BOOLEAN, FcntlDup(pid, old, fd, c)
      PROVE  SoundStep
  <2> DEFINE source == table[old]
             refs == <<Ref(old, ObjectOf(table, old))>>
  <2>1. refs \in Seq(FdRefs) /\ Len(refs) = 1
    <3>1. ObjectOf(table, old) \in Nat
      BY <1>1, ObjectOfType
    <3> QED BY <3>1 DEF Ref, FdRefs
  <2>2. CASE source = Unbound
    <3>1. Store(pid, table, RefsInfo(pid, refs, 1)) /\ UNCHANGED objects
      BY <1>7, <2>2 DEF FcntlDup, table
    <3> HIDE DEF refs
    <3> QED BY <1>1, <2>1, <3>1, RefsSound
  <2>3. CASE source # Unbound
    <3> DEFINE stored == SetBinding(table, fd, source.object, ThisEvent, c)
               all == Append(refs, Ref(fd, source.object))
    <3>1. /\ Store(pid, stored, CreatorInfo(pid, all, 2, source.creator))
          /\ UNCHANGED objects
      BY <1>7, <2>3 DEF FcntlDup, table
    <3>2. /\ source.object \in Nat /\ source.creator \in Nat /\ source.creator # 0
          /\ CreatorOf(infos, objects, source.object, source.creator)
      BY <1>2, <2>3 DEF Bindings
    <3> HIDE DEF refs, source
    <3>3. Ref(fd, source.object) \in FdRefs /\ Ref(fd, source.object).object = source.object
      BY <3>2 DEF Ref, FdRefs
    <3>4. all \in Seq(FdRefs) /\ 2 \in 1..Len(all) /\ all[2].object = source.object
      <4>1. /\ all \in Seq(FdRefs) /\ Len(all) = Len(refs) + 1
            /\ all[Len(refs) + 1] = Ref(fd, source.object)
        BY <2>1, <3>3, LastRef
      <4> HIDE DEF all
      <4> QED BY <2>1, <3>3, <4>1
    <3>5. /\ stored \in Tables
          /\ \A g \in Fd : \/ stored[g] = table[g]
                           \/ stored[g].object = source.object /\ stored[g].creator = ThisEvent
      <4>1. table \in Tables /\ source.object \in Nat /\ ThisEvent \in Nat
        BY <1>1, <3>2
      <4> QED BY <4>1, SetBindingType
    <3> HIDE DEF stored, all
    <3> QED BY <1>1, <3>1, <3>2, <3>4, <3>5, CreateSound
  <2> QED BY <2>2, <2>3
<1>8. ASSUME NEW fd \in Fd, NEW c \in BOOLEAN, FcntlSetFd(pid, fd, c)
      PROVE  SoundStep
  <2> DEFINE stored == IF table[fd] = Unbound THEN table ELSE [table EXCEPT ![fd].cloexec = c]
  <2>1. Store(pid, stored, UseInfo(pid, table, fd, TRUE)) /\ UNCHANGED objects
    BY <1>8 DEF FcntlSetFd, table
  <2>2. /\ stored \in Tables
        /\ \A g \in Fd : stored[g] # Unbound =>
              /\ table[g] # Unbound
              /\ stored[g].object = table[g].object /\ stored[g].creator = table[g].creator
    <3>1. CASE table[fd] = Unbound
      BY <1>1, <3>1
    <3>2. CASE table[fd] # Unbound
      BY <1>1, <1>2, <3>2 DEF Tables, Bindings
    <3> QED BY <3>1, <3>2
  <2> HIDE DEF stored
  <2> QED BY <1>1, <2>1, <2>2, UseSound
<1>9. ASSUME NEW fd \in Fd, FcntlOther(pid, fd)
      PROVE  SoundStep
  <2> DEFINE refs == <<Ref(fd, ObjectOf(table, fd))>>
  <2>1. Store(pid, table, RefsInfo(pid, refs, 1)) /\ UNCHANGED objects
    BY <1>9 DEF FcntlOther, table
  <2>2. ObjectOf(table, fd) \in Nat
    BY <1>1, ObjectOfType
  <2>3. refs \in Seq(FdRefs)
    BY <2>2 DEF Ref, FdRefs
  <2> HIDE DEF refs
  <2> QED BY <1>1, <2>1, <2>3, RefsSound
<1>10. ASSUME NEW fd \in Fd, Use(pid, fd)
       PROVE  SoundStep
  <2>1. Store(pid, table, UseInfo(pid, table, fd, TRUE)) /\ UNCHANGED objects
    BY <1>10 DEF Use, table
  <2> QED BY <1>1, <2>1, UseSound
<1>11. ASSUME NEW fd \in Fd, Close(pid, fd)
       PROVE  SoundStep
  <2> DEFINE stored == RemoveBinding(table, fd)
  <2>1. Store(pid, stored, UseInfo(pid, table, fd, FALSE)) /\ UNCHANGED objects
    BY <1>11 DEF Close, table
  <2>2. stored \in Tables /\ \A g \in Fd : stored[g] # Unbound => stored[g] = table[g]
    BY <1>1 DEF RemoveBinding, Tables
  <2> HIDE DEF stored
  <2> QED BY <1>1, <2>1, <2>2, UseSound
<1>12. ASSUME Execve(pid) PROVE SoundStep
  <2> DEFINE stored == [fd \in Fd |-> IF table[fd] # Unbound /\ table[fd].cloexec
                                      THEN Unbound ELSE table[fd]]
  <2>1. Store(pid, stored, RefsInfo(pid, <<>>, 0)) /\ UNCHANGED objects
    BY <1>12 DEF Execve, table
  <2>2. stored \in Tables /\ \A g \in Fd : stored[g] # Unbound => stored[g] = table[g]
    BY <1>1 DEF Tables
  <2> HIDE DEF stored
  <2> QED BY <1>1, <2>1, <2>2, NoRefs, RefsSound
<1>13. ASSUME Other(pid) PROVE SoundStep
  <2>1. Store(pid, table, RefsInfo(pid, <<>>, 0)) /\ UNCHANGED objects
    BY <1>13 DEF Other, table
  <2> QED BY <1>1, <2>1, NoRefs, RefsSound
<1>14. ASSUME NEW child \in Pid, Clone(pid, child) PROVE SoundStep
  <2> DEFINE info == RefsInfo(pid, <<>>, 0)
             copy == IF child \in hasTable THEN tables[child] ELSE table
  <2>1. /\ hasTable' = hasTable \cup {pid, child}
        /\ tables' = [tables EXCEPT ![pid] = table, ![child] = copy]
        /\ infos' = Append(infos, info) /\ UNCHANGED <<parents, objects>>
    BY <1>14 DEF Clone, table
  <2>2. info \in FdEventInfos /\ info.jump = 0 /\ info.creator = 0
    BY NoRefs DEF RefsInfo, EventInfo, FdEventInfos
  <2> HIDE DEF info
  <2>3. copy \in Tables /\ TableSound(infos, objects, copy)
    BY <1>1 DEF ChainInv, TypeOK, BindingsCreated
  <2> HIDE DEF copy
  <2>4. hasTable' \subseteq Pid /\ tables' \in [Pid -> Tables]
    BY <1>1, <2>1, <2>3 DEF ChainInv, TypeOK
  <2>5. ASSUME NEW t \in Tables, TableSound(infos, objects, t)
        PROVE  TableSound(infos', objects', t)
    BY <2>1, <2>2, <2>5, OldCreators DEF TableSound
  <2>6. ASSUME NEW p \in Pid
        PROVE  tables'[p] = tables[p] \/ TableSound(infos', objects', tables'[p])
    <3>1. tables'[p] = tables[p] \/ tables'[p] = table \/ tables'[p] = copy
      BY <2>1 DEF ChainInv, TypeOK
    <3> QED BY <3>1, <1>1, <2>3, <2>5
  <2>7. infos'[ThisEvent] = info
    BY <2>1, <2>2 DEF ChainInv, TypeOK, ThisEvent
  <2>8. LinksOf(infos', objects', ThisEvent)
    BY <2>2, <2>7 DEF LinksOf
  <2> QED BY <2>1, <2>2, <2>4, <2>6, <2>8 DEF SoundStep
<1>15. \A old, fd \in Fd : <<old, fd>> \in NamedFds(fd)
  BY DEF NamedFds
<1> QED
  BY <1>3, <1>4, <1>5, <1>6, <1>7, <1>8, <1>9, <1>10, <1>11, <1>12, <1>13, <1>14, <1>15
  DEF OnEvent

----------------------------------------------------------------------------
(* The invariant holds where the loop starts and every iteration keeps it. *)

LEMMA ChainInvInit == TrackerInit => ChainInv
<1> SUFFICES ASSUME TrackerInit PROVE ChainInv
  OBVIOUS
<1>1. EmptyTable \in Tables
  BY DEF EmptyTable, Tables
<1>2. TypeOK
  BY <1>1 DEF TrackerInit, TypeOK
<1>3. ChainReachesOrigin
  BY DEF TrackerInit, ChainReachesOrigin
<1>4. BindingsCreated
  BY DEF TrackerInit, BindingsCreated, TableSound, EmptyTable
<1> QED BY <1>2, <1>3, <1>4 DEF ChainInv

LEMMA ChainInvNext == ChainInv /\ [TrackerNext]_trackerVars => ChainInv'
<1>1. ASSUME ChainInv, TrackerNext PROVE ChainInv'
  <2>1. SoundStep
    BY <1>1, EveryBranchSound DEF TrackerNext
  <2> QED BY <1>1, <2>1, SoundStepPreserves
<1>2. ASSUME ChainInv, UNCHANGED trackerVars PROVE ChainInv'
  BY <1>2 DEF ChainInv, trackerVars, TypeOK, ChainReachesOrigin, LinksOf, CreatorOf,
              BindingsCreated, TableSound
<1> QED BY <1>1, <1>2

LEMMA ChainInvariant == TrackerSpec => []ChainInv
BY ChainInvInit, ChainInvNext, PTL DEF TrackerSpec

\* The analysis stays well typed: fd_analysis_build never stores a reference, table
\* or link of the wrong kind, for any processes, descriptors and events.
THEOREM TypeCorrect == TrackerSpec => []TypeOK
<1>1. ChainInv => TypeOK
  BY DEF ChainInv
<1> QED BY <1>1, ChainInvariant, PTL

\* For every trace, of any length and in any order of events, the links 'o' follows
\* lead to ever earlier creators of the same object and stop only at its origin.
THEOREM ChainAlwaysReachesOrigin == TrackerSpec => []ChainReachesOrigin
<1>1. ChainInv => ChainReachesOrigin
  BY DEF ChainInv
<1> QED BY <1>1, ChainInvariant, PTL
----------------------------------------------------------------------------
(* The traces that strace prints *)


SlotTables == [Fd -> Slots \cup {Closed}]

\* What a table says of descriptors is so.
Agrees(table, slot, origins) ==
    \A fd \in Fd : table[fd] # Unbound =>
        /\ slot[fd] # Closed
        /\ origins[table[fd].object] = slot[fd].born
        /\ table[fd].cloexec = slot[fd].cloexec

\* A table knows every descriptor that a known call has made, and will not drop it at
\* an exec that keeps it.
Covers(table, slot) ==
    \A fd \in Fd : slot[fd] # Closed /\ slot[fd].born # 0 =>
        table[fd] # Unbound /\ (table[fd].cloexec => slot[fd].cloexec)

\* An event that is said to leave its descriptor open does.
Truthful(info, slot) == info.open => slot[info.refs[info.primary].fd] # Closed

----------------------------------------------------------------------------
(* Tables and slots *)

LEMMA BoundAt ==
  ASSUME NEW table \in Tables, NEW fd \in Fd, NEW object \in Nat, NEW creator \in Nat,
         NEW c \in BOOLEAN
  PROVE  LET bound == SetBinding(table, fd, object, creator, c) IN
         /\ bound \in Tables
         /\ bound[fd].object = object /\ bound[fd].cloexec = c /\ bound[fd] # Unbound
         /\ \A g \in Fd : g # fd => bound[g] = table[g]
<1> DEFINE bound == SetBinding(table, fd, object, creator, c)
<1>1. /\ bound \in Tables /\ bound[fd] = [object |-> object, creator |-> creator, cloexec |-> c]
      /\ \A g \in Fd : g # fd => bound[g] = table[g]
  BY DEF SetBinding, Tables, Bindings
<1>2. bound[fd] \in Bindings
  BY <1>1 DEF Bindings
<1> HIDE DEF bound
<1>3. bound[fd].object = object /\ bound[fd].cloexec = c /\ bound[fd] # Unbound
  BY <1>1, <1>2, UnboundAssumption
<1> QED
  BY <1>1, <1>3 DEF bound

\* A binding is made for a descriptor that the kernel opens or makes refer to the file.
LEMMA BindAgrees ==
  ASSUME NEW table \in Tables, NEW slot \in SlotTables, NEW origins,
         NEW fd \in Fd, NEW object \in Nat, NEW creator \in Nat, NEW c \in BOOLEAN,
         NEW born \in Nat
  PROVE  LET bound == SetBinding(table, fd, object, creator, c)
             open == [slot EXCEPT ![fd] = Opened(born, c)] IN
         /\ bound \in Tables /\ open \in SlotTables
         /\ Agrees(table, slot, origins) /\ origins[object] = born =>
              Agrees(bound, open, origins)
         /\ Covers(table, slot) => Covers(bound, open)
<1> DEFINE bound == SetBinding(table, fd, object, creator, c)
           open == [slot EXCEPT ![fd] = Opened(born, c)]
<1>1. /\ bound \in Tables
      /\ bound[fd].object = object /\ bound[fd].cloexec = c /\ bound[fd] # Unbound
      /\ \A g \in Fd : g # fd => bound[g] = table[g]
  BY BoundAt
<1>2. Opened(born, c) \in Slots /\ Opened(born, c).born = born /\ Opened(born, c).cloexec = c
  BY DEF Opened, Slots
<1>3. /\ open \in SlotTables /\ open[fd] = Opened(born, c) /\ open[fd] # Closed
      /\ \A g \in Fd : g # fd => open[g] = slot[g]
  BY <1>2, KernelAssumption DEF SlotTables
<1> HIDE DEF bound, open
<1>4. Agrees(table, slot, origins) /\ origins[object] = born => Agrees(bound, open, origins)
  BY <1>1, <1>2, <1>3 DEF Agrees
<1>5. Covers(table, slot) => Covers(bound, open)
  BY <1>1, <1>2, <1>3 DEF Covers
<1> QED
  BY <1>1, <1>3, <1>4, <1>5 DEF bound, open

\* The kernel opens a descriptor of which the analysis knows nothing.
LEMMA UnknownAgrees ==
  ASSUME NEW table \in Tables, NEW slot \in SlotTables, NEW origins,
         NEW fd \in Fd, NEW born \in Nat, NEW c \in BOOLEAN
  PROVE  LET open == [slot EXCEPT ![fd] = Opened(born, c)] IN
         /\ open \in SlotTables
         /\ Agrees(table, slot, origins) /\ table[fd] = Unbound => Agrees(table, open, origins)
         /\ Covers(table, slot) /\ born = 0 => Covers(table, open)
<1> DEFINE open == [slot EXCEPT ![fd] = Opened(born, c)]
<1>1. Opened(born, c) \in Slots /\ Opened(born, c).born = born
  BY DEF Opened, Slots
<1>2. /\ open \in SlotTables /\ open[fd] = Opened(born, c)
      /\ \A g \in Fd : g # fd => open[g] = slot[g]
  BY <1>1 DEF SlotTables
<1> HIDE DEF open
<1>3. Agrees(table, slot, origins) /\ table[fd] = Unbound => Agrees(table, open, origins)
  BY <1>1, <1>2 DEF Agrees
<1>4. Covers(table, slot) /\ born = 0 => Covers(table, open)
  BY <1>1, <1>2 DEF Covers
<1> QED
  BY <1>2, <1>3, <1>4 DEF open

\* Objects are only added.
LEMMA ObjectsKept ==
  ASSUME NEW table \in Tables, TableSound(infos, objects, table), objects \in Seq(Nat),
         NEW slot, NEW n \in Nat,
         Agrees(table, slot, objects)
  PROVE  Agrees(table, slot, Append(objects, n))
<1>1. ASSUME NEW fd \in Fd, table[fd] # Unbound
      PROVE  Append(objects, n)[table[fd].object] = objects[table[fd].object]
  <2>1. table[fd].object \in 1..Len(objects)
    BY <1>1 DEF TableSound, CreatorOf
  <2> QED
    BY <2>1
<1> QED
  BY <1>1 DEF Agrees

----------------------------------------------------------------------------
(* Calls printed on one line *)

Plain == Without({"split", "threads"})

\* What is asked of a call that is printed on one line: it touches one process, and it
\* leaves the analysis as right about it as it was.
WholeStep(p) ==
    /\ parents' = parents /\ hasTable' = hasTable \cup {p}
    /\ seen' = seen /\ live' = live /\ inCall' = inCall
    /\ slots' \in [Pid -> SlotTables]
    /\ \A q \in Pid : q # p => tables'[q] = tables[q] /\ slots'[q] = slots[q]
    /\ objects' = objects \/ objects' = Append(objects, ThisEvent)
    /\ seen = {} /\ Agrees(GetTable(p), slots[p], objects) =>
          Agrees(tables'[p], slots'[p], objects') /\ OpenMeansOpen'
    /\ Plain /\ Covers(GetTable(p), slots[p]) => Covers(tables'[p], slots'[p])

LEMMA StoreIsWhole ==
  ASSUME TypeOK, KernelTypeOK, NEW p \in Pid,
         NEW table \in Tables, NEW info \in FdEventInfos, NEW slot \in SlotTables,
         Store(p, table, info), info.pid = p,
         slots' = [slots EXCEPT ![p] = slot], UNCHANGED <<seen, live, inCall>>,
         objects' = objects \/ objects' = Append(objects, ThisEvent),
         seen = {} /\ Agrees(GetTable(p), slots[p], objects) =>
            Agrees(table, slot, objects') /\ Truthful(info, slot),
         Plain /\ Covers(GetTable(p), slots[p]) => Covers(table, slot)
  PROVE  WholeStep(p)
<1>1. /\ parents' = parents /\ hasTable' = hasTable \cup {p}
      /\ tables'[p] = table /\ \A q \in Pid : q # p => tables'[q] = tables[q]
  BY DEF Store, TypeOK
<1>2. slots \in [Pid -> SlotTables]
  BY DEF KernelTypeOK, SlotTables
<1>3. /\ slots' \in [Pid -> SlotTables]
      /\ slots'[p] = slot /\ \A q \in Pid : q # p => slots'[q] = slots[q]
  BY <1>2
<1>4. infos' = Append(infos, info) /\ infos \in Seq(FdEventInfos)
  BY DEF Store, TypeOK
<1>5. Len(infos') > 0 /\ infos'[Len(infos')] = info
  BY <1>4
<1>6. Truthful(info, slot) => OpenMeansOpen'
  <2>1. SUFFICES ASSUME Truthful(info, slot), info.open
                 PROVE  slots'[p][info.refs[info.primary].fd] # Closed
    BY <1>5 DEF OpenMeansOpen, IsOpen, ShownFd
  <2> QED
    BY <1>3, <2>1 DEF Truthful
<1> QED
  BY <1>1, <1>3, <1>6 DEF WholeStep

LEMMA BeforeStep ==
  ASSUME ChainInv, KernelTypeOK, NEW p \in Pid
  PROVE  /\ TypeOK
         /\ GetTable(p) \in Tables /\ TableSound(infos, objects, GetTable(p))
         /\ slots[p] \in SlotTables
         /\ \A fd \in Fd : slots[p][fd] # Closed =>
               slots[p][fd].born \in Nat /\ slots[p][fd].cloexec \in BOOLEAN
         /\ ThisEvent \in Nat /\ Len(objects) + 1 \in Nat /\ objects \in Seq(Nat)
         /\ Append(objects, ThisEvent)[Len(objects) + 1] = ThisEvent
<1>1. TypeOK /\ BindingsCreated
  BY DEF ChainInv
<1>2. GetTable(p) \in Tables /\ TableSound(infos, objects, GetTable(p))
  BY <1>1, GetTableSound
<1>3. slots[p] \in SlotTables
  BY DEF KernelTypeOK, SlotTables
<1>4. \A fd \in Fd : slots[p][fd] # Closed =>
         slots[p][fd].born \in Nat /\ slots[p][fd].cloexec \in BOOLEAN
  BY <1>3 DEF SlotTables, Slots
<1>5. ThisEvent \in Nat /\ Len(objects) + 1 \in Nat /\ objects \in Seq(Nat)
  BY <1>1 DEF TypeOK, ThisEvent
<1>6. Append(objects, ThisEvent)[Len(objects) + 1] = ThisEvent
  BY <1>5
<1> QED
  BY <1>1, <1>2, <1>3, <1>4, <1>5, <1>6

\* A descriptor is opened, or made to refer to a file, and a binding says so.
LEMMA BindingIsWhole ==
  ASSUME ChainInv, KernelTypeOK, NEW p \in Pid,
         NEW fd \in Fd, NEW object \in Nat, NEW born \in Nat, NEW c \in BOOLEAN,
         NEW refs \in Seq(FdRefs), NEW primary \in Nat, refs[primary].fd = fd, NEW jump \in Nat,
         Store(p, SetBinding(GetTable(p), fd, object, ThisEvent, c),
               CreatorInfo(p, refs, primary, jump)),
         slots' = [slots EXCEPT ![p][fd] = Opened(born, c)], UNCHANGED <<seen, live, inCall>>,
         objects' = objects \/ objects' = Append(objects, ThisEvent),
         Agrees(GetTable(p), slots[p], objects) /\ seen = {} => objects'[object] = born
  PROVE  WholeStep(p)
<1> DEFINE table == GetTable(p)
           bound == SetBinding(table, fd, object, ThisEvent, c)
           slot == [slots[p] EXCEPT ![fd] = Opened(born, c)]
           info == CreatorInfo(p, refs, primary, jump)
<1>1. /\ TypeOK /\ table \in Tables /\ TableSound(infos, objects, table)
      /\ slots[p] \in SlotTables /\ ThisEvent \in Nat /\ objects \in Seq(Nat)
  BY BeforeStep
<1>2. slots' = [slots EXCEPT ![p] = slot]
  OBVIOUS
<1>3. info \in FdEventInfos
  <2>1. TRUE \in BOOLEAN
    OBVIOUS
  <2> QED
    BY <1>1, <2>1, InfoTypes DEF CreatorInfo
<1>4. info.pid = p /\ info.refs[info.primary].fd = fd
  BY DEF CreatorInfo, EventInfo
<1>5. /\ bound \in Tables /\ slot \in SlotTables
      /\ Agrees(table, slots[p], objects') /\ objects'[object] = born =>
            Agrees(bound, slot, objects')
      /\ Covers(table, slots[p]) => Covers(bound, slot)
  BY <1>1, BindAgrees
<1>6. Agrees(table, slots[p], objects) => Agrees(table, slots[p], objects')
  BY <1>1, ObjectsKept
<1>7. Truthful(info, slot)
  <2>1. Opened(born, c) \in Slots
    BY DEF Opened, Slots
  <2>2. slot[fd] # Closed
    BY <1>1, <2>1, KernelAssumption DEF SlotTables
  <2> HIDE DEF slot, info
  <2> QED
    BY <1>4, <2>2 DEF Truthful
<1>8. Store(p, bound, info)
  OBVIOUS
<1> HIDE DEF bound, slot, info, table
<1>9. /\ seen = {} /\ Agrees(table, slots[p], objects) =>
            Agrees(bound, slot, objects') /\ Truthful(info, slot)
      /\ Plain /\ Covers(table, slots[p]) => Covers(bound, slot)
  BY <1>5, <1>6, <1>7 DEF table
<1> QED
  BY <1>1, <1>2, <1>3, <1>4, <1>5, <1>8, <1>9, StoreIsWhole DEF table

\* A descriptor is opened, or made to refer to a file, and no binding is made.
LEMMA UnknownIsWhole ==
  ASSUME ChainInv, KernelTypeOK, NEW p \in Pid,
         NEW fd \in Fd, NEW born \in Nat, NEW c \in BOOLEAN,
         NEW refs \in Seq(FdRefs), NEW primary \in Nat,
         Store(p, GetTable(p), RefsInfo(p, refs, primary)),
         slots' = [slots EXCEPT ![p][fd] = Opened(born, c)],
         UNCHANGED <<seen, live, inCall, objects>>,
         Agrees(GetTable(p), slots[p], objects) /\ seen = {} => GetTable(p)[fd] = Unbound,
         Covers(GetTable(p), slots[p]) => born = 0
  PROVE  WholeStep(p)
<1> DEFINE table == GetTable(p)
           slot == [slots[p] EXCEPT ![fd] = Opened(born, c)]
           info == RefsInfo(p, refs, primary)
<1>1. TypeOK /\ table \in Tables /\ slots[p] \in SlotTables
  BY BeforeStep
<1>2. slots' = [slots EXCEPT ![p] = slot]
  OBVIOUS
<1>3. info \in FdEventInfos
  <2>1. TRUE \in BOOLEAN /\ 0 \in Nat
    OBVIOUS
  <2> QED
    BY <2>1, InfoTypes
<1>4. info.pid = p /\ info.open = FALSE
  BY DEF RefsInfo, EventInfo
<1>5. /\ slot \in SlotTables
      /\ Agrees(table, slots[p], objects) /\ table[fd] = Unbound => Agrees(table, slot, objects)
      /\ Covers(table, slots[p]) /\ born = 0 => Covers(table, slot)
  BY <1>1, UnknownAgrees
<1>6. Store(p, table, info)
  OBVIOUS
<1> HIDE DEF slot, info, table
<1>7. Truthful(info, slot)
  BY <1>4 DEF Truthful
<1>8. /\ seen = {} /\ Agrees(table, slots[p], objects) =>
            Agrees(table, slot, objects') /\ Truthful(info, slot)
      /\ Plain /\ Covers(table, slots[p]) => Covers(table, slot)
  BY <1>5, <1>7 DEF table
<1> QED
  BY <1>1, <1>2, <1>3, <1>4, <1>5, <1>6, <1>8, StoreIsWhole DEF table

\* An event that names a descriptor, and says of it at most that it is known.
LEMMA UseInfoIs ==
  ASSUME NEW p \in Pid, NEW table \in Tables, NEW fd \in Fd, NEW open \in BOOLEAN
  PROVE  LET info == UseInfo(p, table, fd, open) IN
         /\ info \in FdEventInfos /\ info.pid = p
         /\ info.open => open /\ table[fd] # Unbound /\ info.refs[info.primary].fd = fd
<1> DEFINE refs == <<Ref(fd, ObjectOf(table, fd))>>
           info == UseInfo(p, table, fd, open)
<1>1. ObjectOf(table, fd) \in Nat
  BY ObjectOfType
<1>2. refs \in Seq(FdRefs) /\ refs[1].fd = fd
  BY <1>1 DEF Ref, FdRefs
<1>3. CASE table[fd] = Unbound
  <2>1. info = RefsInfo(p, refs, 1)
    BY <1>3 DEF UseInfo
  <2>2. RefsInfo(p, refs, 1) \in FdEventInfos
    <3>1. TRUE \in BOOLEAN /\ 0 \in Nat /\ 1 \in Nat
      OBVIOUS
    <3> HIDE DEF refs
    <3> QED
      BY <1>2, <3>1, InfoTypes
  <2>3. RefsInfo(p, refs, 1).pid = p /\ RefsInfo(p, refs, 1).open = FALSE
    BY DEF RefsInfo, EventInfo
  <2> QED
    BY <2>1, <2>2, <2>3
<1>4. CASE table[fd] # Unbound
  <2> DEFINE creator == table[fd].creator
  <2>1. creator \in Nat
    BY <1>4 DEF Tables, Bindings
  <2>2. info = EventInfo(p, refs, 1, creator, creator, open)
    BY <1>4 DEF UseInfo
  <2> HIDE DEF refs, creator, info
  <2>3. EventInfo(p, refs, 1, creator, creator, open) \in FdEventInfos
    <3>1. 1 \in Nat
      OBVIOUS
    <3> QED
      BY <1>2, <2>1, <3>1, InfoTypes
  <2>4. info.pid = p /\ info.open = open /\ info.refs[info.primary].fd = fd
    BY <1>2, <2>2 DEF EventInfo
  <2> QED
    BY <1>4, <2>2, <2>3, <2>4 DEF info
<1> QED
  BY <1>3, <1>4

\* Neither the descriptors nor what is known of them changes.
LEMMA LookIsWhole ==
  ASSUME ChainInv, KernelTypeOK, NEW p \in Pid, NEW info \in FdEventInfos, info.pid = p,
         info.open => info.refs[info.primary].fd \in Fd /\
                      GetTable(p)[info.refs[info.primary].fd] # Unbound,
         Store(p, GetTable(p), info), UNCHANGED kernelVars, UNCHANGED objects
  PROVE  WholeStep(p)
<1>1. TypeOK /\ GetTable(p) \in Tables /\ slots[p] \in SlotTables
  BY BeforeStep
<1>2. slots' = [slots EXCEPT ![p] = slots[p]] /\ UNCHANGED <<seen, live, inCall>>
  BY DEF KernelTypeOK, kernelVars
<1>3. Agrees(GetTable(p), slots[p], objects) => Truthful(info, slots[p])
  BY DEF Agrees, Truthful
<1> QED
  BY <1>1, <1>2, <1>3, StoreIsWhole

LEMMA OpenIsWhole ==
  ASSUME ChainInv, KernelTypeOK, NEW p \in Pid, NEW fd \in Fd, NEW c \in BOOLEAN,
         SysOpen(p, fd, c)
  PROVE  WholeStep(p)
<1> DEFINE object == Len(objects) + 1
           refs == <<Ref(fd, object)>>
<1>1. /\ object \in Nat /\ ThisEvent \in Nat
      /\ Append(objects, ThisEvent)[object] = ThisEvent
  BY BeforeStep
<1>2. /\ Store(p, SetBinding(GetTable(p), fd, object, ThisEvent, c), CreatorInfo(p, refs, 1, 0))
      /\ objects' = Append(objects, ThisEvent)
  BY DEF SysOpen, Open
<1>3. /\ slots' = [slots EXCEPT ![p][fd] = Opened(ThisEvent, c)]
      /\ UNCHANGED <<seen, live, inCall>>
  BY DEF SysOpen, SetSlot
<1>4. refs \in Seq(FdRefs) /\ refs[1].fd = fd /\ 1 \in Nat /\ 0 \in Nat
  BY <1>1 DEF Ref, FdRefs
<1> HIDE DEF object, refs
<1> QED
  BY <1>1, <1>2, <1>3, <1>4, BindingIsWhole

LEMMA AcceptIsWhole ==
  ASSUME ChainInv, KernelTypeOK, NEW p \in Pid, NEW listener \in Fd, NEW fd \in Fd,
         NEW c \in BOOLEAN, SysAccept(p, listener, fd, c)
  PROVE  WholeStep(p)
<1> DEFINE object == Len(objects) + 1
           heard == <<Ref(listener, ObjectOf(GetTable(p), listener))>>
           refs == Append(heard, Ref(fd, object))
<1>1. /\ object \in Nat /\ ThisEvent \in Nat /\ GetTable(p) \in Tables
      /\ Append(objects, ThisEvent)[object] = ThisEvent
  BY BeforeStep
<1>2. /\ Store(p, SetBinding(GetTable(p), fd, object, ThisEvent, c),
               CreatorInfo(p, refs, Len(heard) + 1, 0))
      /\ objects' = Append(objects, ThisEvent)
  BY NoFdAssumption DEF SysAccept, Accept
<1>3. /\ slots' = [slots EXCEPT ![p][fd] = Opened(ThisEvent, c)]
      /\ UNCHANGED <<seen, live, inCall>>
  BY DEF SysAccept, SetSlot
<1>4. ObjectOf(GetTable(p), listener) \in Nat
  BY <1>1, ObjectOfType
<1>5. heard \in Seq(FdRefs)
  BY <1>4 DEF Ref, FdRefs
<1>6. Ref(fd, object) \in FdRefs /\ Ref(fd, object).fd = fd
  BY <1>1 DEF Ref, FdRefs
<1> HIDE DEF object, heard
<1>7. /\ refs \in Seq(FdRefs) /\ refs[Len(heard) + 1].fd = fd
      /\ Len(heard) + 1 \in Nat /\ 0 \in Nat
  BY <1>5, <1>6
<1> HIDE DEF refs
<1> QED
  BY <1>1, <1>2, <1>3, <1>7, BindingIsWhole

LEMMA PipeIsWhole ==
  ASSUME ChainInv, KernelTypeOK, NEW p \in Pid, NEW left \in Fd, NEW right \in Fd,
         NEW c \in BOOLEAN, SysPipe(p, left, right, c)
  PROVE  WholeStep(p)
<1> DEFINE table == GetTable(p)
           object == Len(objects) + 1
           refs == <<Ref(left, object), Ref(right, object)>>
           info == CreatorInfo(p, refs, 1, 0)
           bound1 == SetBinding(table, left, object, ThisEvent, c)
           slot1 == [slots[p] EXCEPT ![left] = Opened(ThisEvent, c)]
           bound2 == SetBinding(bound1, right, object, ThisEvent, c)
           slot2 == [slot1 EXCEPT ![right] = Opened(ThisEvent, c)]
<1>1. /\ TypeOK /\ table \in Tables /\ TableSound(infos, objects, table)
      /\ slots[p] \in SlotTables /\ ThisEvent \in Nat /\ objects \in Seq(Nat)
      /\ object \in Nat /\ Append(objects, ThisEvent)[object] = ThisEvent
  BY BeforeStep
<1>2. Store(p, bound2, info) /\ objects' = Append(objects, ThisEvent)
  BY DEF SysPipe, Pipe
<1>3. UNCHANGED <<seen, live, inCall>>
  BY DEF SysPipe
<1>4. slots' = [slots EXCEPT ![p] = slot2]
  <2>1. slots' = [slots EXCEPT ![p][left] = Opened(ThisEvent, c),
                               ![p][right] = Opened(ThisEvent, c)]
    BY DEF SysPipe
  <2>2. slots \in [Pid -> SlotTables]
    BY DEF KernelTypeOK, SlotTables
  <2> QED
    BY <2>1, <2>2
<1>5. refs \in Seq(FdRefs) /\ refs[1].fd = left
  BY <1>1 DEF Ref, FdRefs
<1> HIDE DEF refs, object
<1>6. info \in FdEventInfos
  <2>1. TRUE \in BOOLEAN /\ 0 \in Nat /\ 1 \in Nat
    OBVIOUS
  <2> QED
    BY <1>1, <1>5, <2>1, InfoTypes DEF CreatorInfo
<1>7. info.pid = p /\ info.refs[info.primary].fd = left
  BY <1>5 DEF CreatorInfo, EventInfo
<1> HIDE DEF info, table
<1>8. /\ bound1 \in Tables /\ slot1 \in SlotTables
      /\ Agrees(table, slots[p], objects') => Agrees(bound1, slot1, objects')
      /\ Covers(table, slots[p]) => Covers(bound1, slot1)
  BY <1>1, <1>2, BindAgrees
<1>9. Agrees(table, slots[p], objects) => Agrees(table, slots[p], objects')
  BY <1>1, <1>2, ObjectsKept
<1>10. slot1[left] # Closed
  <2>1. Opened(ThisEvent, c) \in Slots
    BY <1>1 DEF Opened, Slots
  <2> QED
    BY <1>1, <2>1, KernelAssumption DEF SlotTables
<1> HIDE DEF bound1, slot1
<1>11. /\ bound2 \in Tables /\ slot2 \in SlotTables
       /\ Agrees(bound1, slot1, objects') => Agrees(bound2, slot2, objects')
       /\ Covers(bound1, slot1) => Covers(bound2, slot2)
  BY <1>1, <1>2, <1>8, BindAgrees
<1>12. Truthful(info, slot2)
  <2>1. left # right
    BY DEF SysPipe
  <2>2. slot2[left] # Closed
    BY <1>8, <1>10, <2>1
  <2> HIDE DEF slot2
  <2> QED
    BY <1>7, <2>2 DEF Truthful
<1> HIDE DEF bound2, slot2
<1>13. /\ seen = {} /\ Agrees(GetTable(p), slots[p], objects) =>
             Agrees(bound2, slot2, objects') /\ Truthful(info, slot2)
       /\ Plain /\ Covers(GetTable(p), slots[p]) => Covers(bound2, slot2)
  BY <1>8, <1>9, <1>11, <1>12 DEF table
<1> QED
  BY <1>1, <1>2, <1>3, <1>4, <1>6, <1>7, <1>11, <1>13, StoreIsWhole

LEMMA ForeignIsWhole ==
  ASSUME ChainInv, KernelTypeOK, NEW p \in Pid, NEW fd \in Fd, NEW c \in BOOLEAN,
         SysForeign(p, fd, c)
  PROVE  WholeStep(p)
<1>1. Store(p, GetTable(p), RefsInfo(p, <<>>, 0)) /\ UNCHANGED objects
  BY DEF SysForeign, Other
<1>2. slots' = [slots EXCEPT ![p][fd] = Opened(0, c)] /\ UNCHANGED <<seen, live, inCall>>
  BY DEF SysForeign, SetSlot
<1>3. Agrees(GetTable(p), slots[p], objects) => GetTable(p)[fd] = Unbound
  BY DEF SysForeign, FreeSlot, Agrees
<1>4. UNCHANGED <<seen, live, inCall, objects>>
  BY <1>1, <1>2
<1> QED
  BY <1>1, <1>2, <1>3, <1>4, NoRefs, UnknownIsWhole

\* dup, dup2 and dup3 of a descriptor, whether the analysis knows it or not.
LEMMA DupCallIsWhole ==
  ASSUME ChainInv, KernelTypeOK, NEW p \in Pid, NEW old \in Fd, NEW fd \in Fd,
         NEW c \in BOOLEAN, NEW named \in NamedFds(fd), named[1] = old,
         Dup(p, named, fd, c), IsOpen(p, old),
         slots' = [slots EXCEPT ![p][fd] = Opened(slots[p][old].born, c)],
         UNCHANGED <<seen, live, inCall>>,
         Agrees(GetTable(p), slots[p], objects) /\ seen = {} =>
            GetTable(p)[old] # Unbound \/ GetTable(p)[fd] = Unbound
  PROVE  WholeStep(p)
<1> DEFINE table == GetTable(p)
           source == table[old]
           born == slots[p][old].born
           named1 == ObjectOf(table, named[1])
           refs == [i \in 1..Len(named) |-> Ref(named[i], named1)]
<1>1. table \in Tables /\ ThisEvent \in Nat /\ born \in Nat
  BY BeforeStep DEF IsOpen
<1>2. /\ named \in Seq(Fd) /\ Len(named) \in Nat /\ Len(named) >= 1 /\ named[1] = old
  <2>1. PICK o \in Fd : named = <<o>> \/ named = <<o, fd>>
    BY DEF NamedFds
  <2>2. CASE named = <<o>>
    BY <2>2
  <2>3. CASE named = <<o, fd>>
    BY <2>3
  <2> QED
    BY <2>1, <2>2, <2>3
<1>3. named1 \in Nat
  BY <1>1, <1>2, ObjectOfType
<1>4. refs \in Seq(FdRefs) /\ Len(refs) \in Nat
  <2>1. \A i \in 1..Len(named) : Ref(named[i], named1) \in FdRefs
    BY <1>2, <1>3 DEF Ref, FdRefs
  <2> HIDE DEF named1
  <2> QED
    BY <1>2, <2>1
<1>5. CASE source = Unbound
  <2>1. Store(p, table, RefsInfo(p, refs, 0)) /\ UNCHANGED objects
    BY <1>2, <1>5 DEF Dup
  <2>2. Covers(table, slots[p]) => born = 0
    BY <1>5 DEF Covers, IsOpen
  <2> HIDE DEF refs
  <2>3. UNCHANGED <<seen, live, inCall, objects>> /\ 0 \in Nat
    BY <2>1
  <2> QED
    BY <1>1, <1>4, <1>5, <2>1, <2>2, <2>3, UnknownIsWhole
<1>6. CASE source # Unbound
  <2> DEFINE all == Append(refs, Ref(fd, source.object))
  <2>1. /\ Store(p, SetBinding(table, fd, source.object, ThisEvent, c),
                 CreatorInfo(p, all, Len(refs) + 1, source.creator))
        /\ UNCHANGED objects
    BY <1>2, <1>6 DEF Dup
  <2>2. source.object \in Nat /\ source.creator \in Nat
    BY <1>1, <1>6 DEF Tables, Bindings
  <2>3. Ref(fd, source.object) \in FdRefs /\ Ref(fd, source.object).fd = fd
    BY <2>2 DEF Ref, FdRefs
  <2>4. Agrees(table, slots[p], objects) => objects[source.object] = born
    BY <1>6 DEF Agrees
  <2> HIDE DEF refs, source, born
  <2>5. all \in Seq(FdRefs) /\ all[Len(refs) + 1].fd = fd /\ Len(refs) + 1 \in Nat
    BY <1>4, <2>3
  <2> DEFINE primary == Len(refs) + 1
  <2>6. slots' = [slots EXCEPT ![p][fd] = Opened(born, c)]
    BY DEF born
  <2>7. /\ Store(p, SetBinding(table, fd, source.object, ThisEvent, c),
                 CreatorInfo(p, all, primary, source.creator))
        /\ all[primary].fd = fd /\ primary \in Nat
    BY <2>1, <2>5
  <2> HIDE DEF all, primary
  <2>8. UNCHANGED <<seen, live, inCall>> /\ objects' = objects
    BY <2>1
  <2>9. Agrees(GetTable(p), slots[p], objects) /\ seen = {} => objects'[source.object] = born
    BY <2>4, <2>8
  <2> DEFINE src == source.object
             cr == source.creator
  <2>11. src \in Nat /\ cr \in Nat
    BY <2>2
  <2>12. Store(p, SetBinding(GetTable(p), fd, src, ThisEvent, c),
                 CreatorInfo(p, all, primary, cr))
    BY <2>7
  <2>13. Agrees(GetTable(p), slots[p], objects) /\ seen = {} => objects'[src] = born
    BY <2>9
  <2>14. all \in Seq(FdRefs) /\ primary \in Nat /\ all[primary].fd = fd
    BY <2>5, <2>7
  <2>15. born \in Nat
    BY <1>1
  <2> HIDE DEF src, cr
  <2> QED
    BY <2>6, <2>8, <2>11, <2>12, <2>13, <2>14, <2>15, BindingIsWhole
<1> QED
  BY <1>5, <1>6

LEMMA DupsAreWhole ==
  ASSUME ChainInv, KernelTypeOK, NEW p \in Pid, NEW old \in Fd, NEW fd \in Fd
  PROVE  /\ SysDup(p, old, fd) => WholeStep(p)
         /\ \A c \in BOOLEAN : SysDup2(p, old, fd, c) => WholeStep(p)
<1>0. /\ <<old>> \in NamedFds(fd) /\ <<old>>[1] = old
      /\ <<old, fd>> \in NamedFds(fd) /\ <<old, fd>>[1] = old
  BY DEF NamedFds
<1>1. ASSUME SysDup(p, old, fd) PROVE WholeStep(p)
  <2>1. /\ Dup(p, <<old>>, fd, FALSE) /\ IsOpen(p, old)
        /\ slots' = [slots EXCEPT ![p][fd] = Opened(slots[p][old].born, FALSE)]
        /\ UNCHANGED <<seen, live, inCall>>
    BY <1>1 DEF SysDup, SetSlot
  <2>2. Agrees(GetTable(p), slots[p], objects) => GetTable(p)[fd] = Unbound
    BY <1>1 DEF SysDup, FreeSlot, Agrees
  <2>3. FALSE \in BOOLEAN
    OBVIOUS
  <2> QED
    BY <1>0, <2>1, <2>2, <2>3, DupCallIsWhole
<1>2. ASSUME NEW c \in BOOLEAN, SysDup2(p, old, fd, c) PROVE WholeStep(p)
  <2>1. /\ Dup(p, <<old, fd>>, fd, c) /\ IsOpen(p, old)
        /\ slots' = [slots EXCEPT ![p][fd] = Opened(slots[p][old].born, c)]
        /\ UNCHANGED <<seen, live, inCall>>
    BY <1>2 DEF SysDup2, SetSlot
  <2>2. seen = {} => GetTable(p)[old] # Unbound \/ GetTable(p)[fd] = Unbound
    BY <1>2 DEF SysDup2, Knows
  <2> QED
    BY <1>0, <2>1, <2>2, DupCallIsWhole
<1> QED
  BY <1>1, <1>2

LEMMA FcntlDupIsWhole ==
  ASSUME ChainInv, KernelTypeOK, NEW p \in Pid, NEW old \in Fd, NEW fd \in Fd,
         NEW c \in BOOLEAN, SysFcntlDup(p, old, fd, c)
  PROVE  WholeStep(p)
<1> DEFINE table == GetTable(p)
           source == table[old]
           born == slots[p][old].born
           refs == <<Ref(old, ObjectOf(table, old))>>
<1>1. table \in Tables /\ ThisEvent \in Nat /\ born \in Nat
  BY BeforeStep DEF SysFcntlDup, IsOpen
<1>2. /\ slots' = [slots EXCEPT ![p][fd] = Opened(born, c)]
      /\ UNCHANGED <<seen, live, inCall>>
  BY DEF SysFcntlDup, SetSlot
<1>3. ObjectOf(table, old) \in Nat
  BY <1>1, ObjectOfType
<1>4. refs \in Seq(FdRefs) /\ Len(refs) = 1
  BY <1>3 DEF Ref, FdRefs
<1>5. CASE source = Unbound
  <2>1. Store(p, table, RefsInfo(p, refs, 1)) /\ UNCHANGED objects
    BY <1>5 DEF SysFcntlDup, FcntlDup
  <2>2. Covers(table, slots[p]) => born = 0
    BY <1>5 DEF Covers, SysFcntlDup, IsOpen
  <2>3. Agrees(table, slots[p], objects) => table[fd] = Unbound
    BY DEF SysFcntlDup, FreeSlot, Agrees
  <2> HIDE DEF refs
  <2>4. UNCHANGED <<seen, live, inCall, objects>> /\ 1 \in Nat
    BY <1>2, <2>1
  <2> QED
    BY <1>1, <1>2, <1>4, <2>1, <2>2, <2>3, <2>4, UnknownIsWhole
<1>6. CASE source # Unbound
  <2> DEFINE all == Append(refs, Ref(fd, source.object))
  <2>1. /\ Store(p, SetBinding(table, fd, source.object, ThisEvent, c),
                 CreatorInfo(p, all, 2, source.creator))
        /\ UNCHANGED objects
    BY <1>6 DEF SysFcntlDup, FcntlDup
  <2>2. source.object \in Nat /\ source.creator \in Nat
    BY <1>1, <1>6 DEF Tables, Bindings
  <2>3. Ref(fd, source.object) \in FdRefs /\ Ref(fd, source.object).fd = fd
    BY <2>2 DEF Ref, FdRefs
  <2>4. Agrees(table, slots[p], objects) => objects[source.object] = born
    BY <1>6 DEF Agrees, SysFcntlDup
  <2> HIDE DEF refs, source, born
  <2>5. all \in Seq(FdRefs) /\ all[2].fd = fd /\ 2 \in Nat
    <3>1. all \in Seq(FdRefs) /\ all[Len(refs) + 1] = Ref(fd, source.object)
      BY <1>4, <2>3, LastRef
    <3> HIDE DEF all
    <3> QED
      BY <1>4, <2>3, <3>1
  <2> HIDE DEF all
  <2> QED
    BY <1>1, <1>2, <2>1, <2>2, <2>4, <2>5, BindingIsWhole
<1> QED
  BY <1>5, <1>6

\* dup2 of a descriptor onto itself makes the analysis forget the mark; that is all.
LEMMA DupSelfIsWhole ==
  ASSUME ChainInv, KernelTypeOK, NEW p \in Pid, NEW fd \in Fd, SysDup2Self(p, fd)
  PROVE  WholeStep(p)
<1> DEFINE table == GetTable(p)
           source == table[fd]
           refs == [i \in 1..2 |-> Ref(<<fd, fd>>[i], ObjectOf(table, fd))]
<1>1. TypeOK /\ table \in Tables /\ slots[p] \in SlotTables /\ ThisEvent \in Nat
  BY BeforeStep
<1>2. PICK no \in BOOLEAN : ~no /\ seen # {} /\ UNCHANGED kernelVars /\ Dup(p, <<fd, fd>>, fd, no)
  BY DEF SysDup2Self
<1>3. slots' = [slots EXCEPT ![p] = slots[p]] /\ UNCHANGED <<seen, live, inCall>>
  BY <1>2 DEF KernelTypeOK, kernelVars
<1>4. ObjectOf(table, fd) \in Nat
  BY <1>1, ObjectOfType
<1>5. refs \in Seq(FdRefs) /\ Len(refs) = 2
  <2> DEFINE object == ObjectOf(table, fd)
  <2>1. \A i \in 1..2 : Ref(<<fd, fd>>[i], object) \in FdRefs
    BY <1>4 DEF Ref, FdRefs
  <2> HIDE DEF object
  <2>2. [i \in 1..2 |-> Ref(<<fd, fd>>[i], object)] \in Seq(FdRefs)
    BY <2>1
  <2> QED
    BY <2>2 DEF object
<1>6. CASE source = Unbound
  <2> DEFINE info == RefsInfo(p, refs, 0)
  <2>1. Store(p, table, info) /\ UNCHANGED objects
    BY <1>2, <1>6 DEF Dup
  <2> HIDE DEF refs
  <2>2. info \in FdEventInfos /\ info.pid = p /\ info.open = FALSE
    <3>1. TRUE \in BOOLEAN /\ 0 \in Nat
      OBVIOUS
    <3>2. info \in FdEventInfos
      BY <1>5, <3>1, InfoTypes
    <3> QED
      BY <3>2 DEF RefsInfo, EventInfo
  <2> HIDE DEF info
  <2> QED
    BY <1>2, <2>1, <2>2, LookIsWhole
<1>7. CASE source # Unbound
  <2> DEFINE all == Append(refs, Ref(fd, source.object))
             info == CreatorInfo(p, all, Len(refs) + 1, source.creator)
             bound == SetBinding(table, fd, source.object, ThisEvent, no)
  <2>1. Store(p, bound, info) /\ UNCHANGED objects
    BY <1>2, <1>7 DEF Dup
  <2>2. source.object \in Nat /\ source.creator \in Nat
    BY <1>1, <1>7 DEF Tables, Bindings
  <2>3. Ref(fd, source.object) \in FdRefs
    BY <2>2 DEF Ref, FdRefs
  <2> HIDE DEF refs
  <2>4. all \in Seq(FdRefs) /\ Len(refs) + 1 \in Nat
    BY <1>5, <2>3
  <2> HIDE DEF all
  <2>5. info \in FdEventInfos /\ info.pid = p
    <3>1. TRUE \in BOOLEAN
      OBVIOUS
    <3>2. info \in FdEventInfos
      BY <1>1, <2>2, <2>4, <3>1, InfoTypes DEF CreatorInfo
    <3> QED
      BY <3>2 DEF CreatorInfo, EventInfo
  <2>6. /\ bound \in Tables /\ bound[fd].cloexec = no /\ bound[fd] # Unbound
        /\ \A g \in Fd : g # fd => bound[g] = table[g]
    <3> DEFINE object == source.object
    <3>1. object \in Nat /\ table \in Tables /\ ThisEvent \in Nat
      BY <1>1, <2>2
    <3> HIDE DEF source, object, table
    <3> QED
      BY <3>1, BoundAt DEF object
  <2> HIDE DEF bound, info, source
  <2>7. Covers(table, slots[p]) => Covers(bound, slots[p])
    BY <1>2, <2>6 DEF Covers
  <2> QED
    BY <1>1, <1>2, <1>3, <2>1, <2>5, <2>6, <2>7, StoreIsWhole
<1> QED
  BY <1>6, <1>7

LEMMA SetFdIsWhole ==
  ASSUME ChainInv, KernelTypeOK, NEW p \in Pid, NEW fd \in Fd, NEW c \in BOOLEAN,
         SysSetFd(p, fd, c)
  PROVE  WholeStep(p)
<1> DEFINE table == GetTable(p)
           marked == IF table[fd] = Unbound THEN table ELSE [table EXCEPT ![fd].cloexec = c]
           slot == [slots[p] EXCEPT ![fd] = [@ EXCEPT !.cloexec = c]]
<1>0. PICK yes \in BOOLEAN : yes /\ FcntlSetFd(p, fd, c) /\ yes = TRUE
  BY DEF SysSetFd
<1> DEFINE info == UseInfo(p, table, fd, yes)
<1>1. TypeOK /\ table \in Tables /\ slots[p] \in SlotTables
  BY BeforeStep
<1>2. Store(p, marked, info) /\ UNCHANGED objects /\ slots[p][fd] # Closed
  BY <1>0 DEF SysSetFd, FcntlSetFd, IsOpen
<1>3. UNCHANGED <<seen, live, inCall>>
  BY DEF SysSetFd, SetSlot
<1>4. slots' = [slots EXCEPT ![p] = slot]
  <2>1. slots' = [slots EXCEPT ![p][fd] = [slots[p][fd] EXCEPT !.cloexec = c]]
    BY DEF SysSetFd, SetSlot
  <2>2. slots \in [Pid -> SlotTables]
    BY DEF KernelTypeOK, SlotTables
  <2> QED
    BY <2>1, <2>2 DEF SlotTables
<1>5. /\ info \in FdEventInfos /\ info.pid = p
      /\ info.open => table[fd] # Unbound /\ info.refs[info.primary].fd = fd
  BY <1>1, UseInfoIs
<1>6. /\ slots[p][fd] \in Slots
      /\ slot[fd] = [slots[p][fd] EXCEPT !.cloexec = c]
      /\ \A g \in Fd : g # fd => slot[g] = slots[p][g]
  BY <1>1, <1>2 DEF SlotTables
<1>7. /\ slot[fd] \in Slots /\ slot[fd].born = slots[p][fd].born /\ slot[fd].cloexec = c
      /\ slot[fd] # Closed
  <2> HIDE DEF slot
  <2>1. slot[fd] \in Slots /\ slot[fd].born = slots[p][fd].born /\ slot[fd].cloexec = c
    BY <1>6 DEF Slots
  <2> QED
    BY <2>1, KernelAssumption
<1>8. slot \in SlotTables
  BY <1>1, <1>6, <1>7 DEF SlotTables
<1>9. /\ marked \in Tables
      /\ marked[fd] = Unbound <=> table[fd] = Unbound
      /\ table[fd] # Unbound => marked[fd].object = table[fd].object /\ marked[fd].cloexec = c
      /\ \A g \in Fd : g # fd => marked[g] = table[g]
  <2>1. CASE table[fd] = Unbound
    BY <1>1, <2>1
  <2>2. CASE table[fd] # Unbound
    <3>1. table[fd] \in Bindings
      BY <1>1, <2>2 DEF Tables
    <3>2. /\ marked[fd] = [table[fd] EXCEPT !.cloexec = c]
          /\ \A g \in Fd : g # fd => marked[g] = table[g]
      BY <1>1, <2>2 DEF Tables
    <3>3. marked[fd] \in Bindings
      BY <3>1, <3>2 DEF Bindings
    <3>4. marked[fd].object = table[fd].object /\ marked[fd].cloexec = c
      BY <3>1, <3>2 DEF Bindings
    <3>5. marked \in Tables
      BY <1>1, <2>2, <3>2, <3>3 DEF Tables
    <3> QED
      BY <2>2, <3>2, <3>3, <3>4, <3>5, UnboundAssumption
  <2> QED
    BY <2>1, <2>2
<1> HIDE DEF slot, marked, info
<1>10. Agrees(table, slots[p], objects) => Agrees(marked, slot, objects)
  <2> HIDE DEF table
  <2>1. SUFFICES ASSUME Agrees(table, slots[p], objects), NEW g \in Fd, marked[g] # Unbound
                 PROVE  /\ slot[g] # Closed
                        /\ objects[marked[g].object] = slot[g].born
                        /\ marked[g].cloexec = slot[g].cloexec
    BY DEF Agrees
  <2>2. /\ table[g] # Unbound /\ slots[p][g] # Closed
        /\ objects[table[g].object] = slots[p][g].born
        /\ table[g].cloexec = slots[p][g].cloexec
    BY <1>9, <2>1 DEF Agrees
  <2>3. CASE g = fd
    BY <1>6, <1>7, <1>9, <2>2, <2>3
  <2>4. CASE g # fd
    BY <1>6, <1>9, <2>2, <2>4
  <2> QED
    BY <2>3, <2>4
<1>11. Covers(table, slots[p]) => Covers(marked, slot)
  BY <1>2, <1>6, <1>7, <1>9 DEF Covers
<1>12. Truthful(info, slot)
  BY <1>5, <1>7 DEF Truthful
<1>13. UNCHANGED <<seen, live, inCall>> /\ objects' = objects
  BY <1>2, <1>3
<1> QED
  BY <1>1, <1>2, <1>4, <1>5, <1>8, <1>9, <1>10, <1>11, <1>12, <1>13, StoreIsWhole

LEMMA CloseIsWhole ==
  ASSUME ChainInv, KernelTypeOK, NEW p \in Pid, NEW fd \in Fd, SysClose(p, fd)
  PROVE  WholeStep(p)
<1> DEFINE table == GetTable(p)
           removed == RemoveBinding(table, fd)
           slot == [slots[p] EXCEPT ![fd] = Closed]
           info == UseInfo(p, table, fd, FALSE)
<1>1. TypeOK /\ table \in Tables /\ slots[p] \in SlotTables
  BY BeforeStep
<1>2. Store(p, removed, info) /\ objects' = objects
  BY DEF SysClose, Close
<1>3. slots' = [slots EXCEPT ![p] = slot] /\ UNCHANGED <<seen, live, inCall>>
  BY DEF SysClose, SetSlot
<1>4. info \in FdEventInfos /\ info.pid = p /\ ~info.open
  <2>1. FALSE \in BOOLEAN
    OBVIOUS
  <2> QED
    BY <1>1, <2>1, UseInfoIs
<1>5. /\ removed \in Tables /\ slot \in SlotTables
      /\ removed[fd] = Unbound /\ slot[fd] = Closed
      /\ \A g \in Fd : g # fd => removed[g] = table[g] /\ slot[g] = slots[p][g]
  BY <1>1 DEF RemoveBinding, Tables, SlotTables
<1> HIDE DEF removed, slot, info
<1>6. Agrees(table, slots[p], objects) => Agrees(removed, slot, objects)
  BY <1>5 DEF Agrees
<1>7. Covers(table, slots[p]) => Covers(removed, slot)
  BY <1>5 DEF Covers
<1>8. Truthful(info, slot)
  BY <1>4 DEF Truthful
<1> QED
  BY <1>1, <1>2, <1>3, <1>4, <1>5, <1>6, <1>7, <1>8, StoreIsWhole

\* The analysis drops what it believes the kernel closes; it keeps what the kernel keeps.
LEMMA ExecIsWhole ==
  ASSUME ChainInv, KernelTypeOK, NEW p \in Pid, SysExec(p)
  PROVE  WholeStep(p)
<1> DEFINE table == GetTable(p)
           kept == [fd \in Fd |-> IF table[fd] # Unbound /\ table[fd].cloexec
                                  THEN Unbound ELSE table[fd]]
           slot == [fd \in Fd |-> IF IsOpen(p, fd) /\ slots[p][fd].cloexec
                                  THEN Closed ELSE slots[p][fd]]
           info == RefsInfo(p, <<>>, 0)
<1>1. TypeOK /\ table \in Tables /\ slots[p] \in SlotTables
  BY BeforeStep
<1>2. Store(p, kept, info) /\ objects' = objects
  BY DEF SysExec, Execve
<1>3. slots' = [slots EXCEPT ![p] = slot] /\ UNCHANGED <<seen, live, inCall>>
  BY DEF SysExec
<1>4. info \in FdEventInfos /\ info.pid = p /\ info.open = FALSE
  <2>1. FALSE \in BOOLEAN
    OBVIOUS
  <2>2. info \in FdEventInfos
    BY <2>1, NoRefs, InfoTypes
  <2> QED
    BY <2>2 DEF RefsInfo, EventInfo
<1>5. kept \in Tables /\ slot \in SlotTables
  BY <1>1 DEF Tables, SlotTables
<1>6. \A fd \in Fd : /\ kept[fd] = IF table[fd] # Unbound /\ table[fd].cloexec
                                   THEN Unbound ELSE table[fd]
                     /\ slot[fd] = IF slots[p][fd] # Closed /\ slots[p][fd].cloexec
                                   THEN Closed ELSE slots[p][fd]
  BY DEF IsOpen
<1> HIDE DEF kept, slot, info
<1>7. Agrees(table, slots[p], objects) => Agrees(kept, slot, objects)
  BY <1>6 DEF Agrees
<1>8. Covers(table, slots[p]) => Covers(kept, slot)
  BY <1>6 DEF Covers
<1>9. Truthful(info, slot)
  BY <1>4 DEF Truthful
<1> QED
  BY <1>1, <1>2, <1>3, <1>4, <1>5, <1>7, <1>8, <1>9, StoreIsWhole

LEMMA LooksAreWhole ==
  ASSUME ChainInv, KernelTypeOK, NEW p \in Pid
  PROVE  /\ \A fd \in Fd : SysRead(p, fd) \/ SysFcntl(p, fd) => WholeStep(p)
         /\ SysOther(p) => WholeStep(p)
<1>1. GetTable(p) \in Tables
  BY BeforeStep
<1>2. ASSUME NEW fd \in Fd, SysRead(p, fd) PROVE WholeStep(p)
  <2>0. PICK yes \in BOOLEAN : /\ Store(p, GetTable(p), UseInfo(p, GetTable(p), fd, yes))
                               /\ UNCHANGED objects /\ UNCHANGED kernelVars
    BY <1>2 DEF SysRead, Use
  <2> DEFINE info == UseInfo(p, GetTable(p), fd, yes)
  <2>1. Store(p, GetTable(p), info) /\ UNCHANGED objects /\ UNCHANGED kernelVars
    BY <2>0
  <2>2. /\ info \in FdEventInfos /\ info.pid = p
        /\ info.open => GetTable(p)[fd] # Unbound /\ info.refs[info.primary].fd = fd
    BY <1>1, UseInfoIs
  <2> HIDE DEF info
  <2> QED
    BY <2>1, <2>2, LookIsWhole
<1>3. ASSUME NEW refs \in Seq(FdRefs), NEW primary \in Nat,
             Store(p, GetTable(p), RefsInfo(p, refs, primary)),
             UNCHANGED objects, UNCHANGED kernelVars
      PROVE  WholeStep(p)
  <2> DEFINE info == RefsInfo(p, refs, primary)
  <2>1. info \in FdEventInfos /\ info.pid = p /\ info.open = FALSE
    <3>1. FALSE \in BOOLEAN /\ 0 \in Nat
      OBVIOUS
    <3>2. info \in FdEventInfos
      BY <3>1, InfoTypes
    <3> QED
      BY <3>2 DEF RefsInfo, EventInfo
  <2>2. Store(p, GetTable(p), info)
    BY <1>3
  <2> HIDE DEF info
  <2> QED
    BY <1>3, <2>1, <2>2, LookIsWhole
<1>4. ASSUME NEW fd \in Fd, SysFcntl(p, fd) PROVE WholeStep(p)
  <2> DEFINE refs == <<Ref(fd, ObjectOf(GetTable(p), fd))>>
  <2>1. ObjectOf(GetTable(p), fd) \in Nat
    BY <1>1, ObjectOfType
  <2>2. refs \in Seq(FdRefs) /\ 1 \in Nat
    BY <2>1 DEF Ref, FdRefs
  <2>3. /\ Store(p, GetTable(p), RefsInfo(p, refs, 1))
        /\ UNCHANGED objects /\ UNCHANGED kernelVars
    BY <1>4 DEF SysFcntl, FcntlOther
  <2> HIDE DEF refs
  <2> QED
    BY <1>3, <2>2, <2>3
<1>5. ASSUME SysOther(p) PROVE WholeStep(p)
  <2>1. /\ Store(p, GetTable(p), RefsInfo(p, <<>>, 0))
        /\ UNCHANGED objects /\ UNCHANGED kernelVars
    BY <1>5 DEF SysOther, Other
  <2> QED
    BY <1>3, <2>1, NoRefs
<1> QED
  BY <1>2, <1>4, <1>5

LEMMA WholeCallIsWhole ==
  ASSUME ChainInv, KernelTypeOK, NEW p \in Pid, WholeCall(p)
  PROVE  WholeStep(p) \/ \E child \in Pid : SysFork(p, child)
<1>1. ASSUME NEW fd \in Fd
      PROVE  /\ SysDup2Self(p, fd) => WholeStep(p)
             /\ SysClose(p, fd) => WholeStep(p)
             /\ SysRead(p, fd) \/ SysFcntl(p, fd) => WholeStep(p)
  BY DupSelfIsWhole, CloseIsWhole, LooksAreWhole
<1>2. ASSUME NEW fd \in Fd, NEW c \in BOOLEAN
      PROVE  /\ SysOpen(p, fd, c) => WholeStep(p)
             /\ SysForeign(p, fd, c) => WholeStep(p)
             /\ SysSetFd(p, fd, c) => WholeStep(p)
  BY OpenIsWhole, ForeignIsWhole, SetFdIsWhole
<1>3. ASSUME NEW old \in Fd, NEW fd \in Fd
      PROVE  /\ SysDup(p, old, fd) => WholeStep(p)
             /\ \A c \in BOOLEAN : SysDup2(p, old, fd, c) => WholeStep(p)
             /\ \A c \in BOOLEAN : SysFcntlDup(p, old, fd, c) => WholeStep(p)
             /\ \A c \in BOOLEAN : SysAccept(p, old, fd, c) => WholeStep(p)
             /\ \A c \in BOOLEAN : SysPipe(p, old, fd, c) => WholeStep(p)
  <2>1. /\ SysDup(p, old, fd) => WholeStep(p)
        /\ \A c \in BOOLEAN : SysDup2(p, old, fd, c) => WholeStep(p)
    BY DupsAreWhole
  <2>2. \A c \in BOOLEAN : SysFcntlDup(p, old, fd, c) => WholeStep(p)
    BY FcntlDupIsWhole
  <2>3. \A c \in BOOLEAN : SysAccept(p, old, fd, c) => WholeStep(p)
    BY AcceptIsWhole
  <2>4. \A c \in BOOLEAN : SysPipe(p, old, fd, c) => WholeStep(p)
    BY PipeIsWhole
  <2> QED
    BY <2>1, <2>2, <2>3, <2>4
<1>4. SysOther(p) \/ SysExec(p) => WholeStep(p)
  BY LooksAreWhole, ExecIsWhole
<1> QED
  BY <1>1, <1>2, <1>3, <1>4 DEF WholeCall

----------------------------------------------------------------------------
(* The invariant *)

\* Processes whose parent the trace does not tell.
Orphans == {p \in live : parents[p] = NoPid}
AtMostOne == \A p, q \in Orphans : p = q

Counted == IsFiniteSet(live) /\ hasTable \subseteq live /\ Orphans # {}

\* Only started processes are inside calls, what they start is there, and no other
\* call than a clone is printed in two halves unless that is seen.
Begun == \A p \in Pid : inCall[p] # Idle =>
            /\ p \in live
            /\ \A c \in Pid : inCall[p] = <<"clone", c>> => c \in live
            /\ "split" \notin seen => \E c \in Pid : inCall[p] = <<"clone", c>>

\* A process that was not printed yet is as its parent was, and the parent has not
\* moved since: it is still inside the clone.
Handed == \A q \in live : q \notin hasTable /\ parents[q] # NoPid =>
            /\ parents[q] \in hasTable
            /\ inCall[parents[q]] = <<"clone", q>>
            /\ slots[q] = slots[parents[q]]

AllAgree == \A p \in live : Agrees(GetTable(p), slots[p], objects)
AllCovered == \A p \in live : Covers(GetTable(p), slots[p])

TracingInv ==
    /\ ChainInv /\ KernelTypeOK /\ Counted /\ Begun
    /\ Plain => Handed
    /\ seen = {} => AllAgree
    /\ Plain /\ AtMostOne => AllCovered
    /\ OpenMeansOpen

LEMMA TypedInv ==
  ASSUME TracingInv
  PROVE  /\ TypeOK /\ parents \in [Pid -> Pid \cup {NoPid}] /\ tables \in [Pid -> Tables]
         /\ hasTable \subseteq live /\ live \subseteq Pid /\ NoPid \notin hasTable
         /\ objects \in Seq(Nat) /\ slots \in [Pid -> SlotTables]
         /\ inCall \in [Pid -> Calls \cup {Idle}]
         /\ seen = {} => Plain
         /\ \A c \in Pid : <<"clone", c>> # Idle
<1>1. TypeOK /\ KernelTypeOK /\ Counted
  BY DEF TracingInv, ChainInv
<1>2. /\ parents \in [Pid -> Pid \cup {NoPid}] /\ tables \in [Pid -> Tables]
      /\ objects \in Seq(Nat)
  BY <1>1 DEF TypeOK
<1>3. /\ live \subseteq Pid /\ slots \in [Pid -> SlotTables]
      /\ inCall \in [Pid -> Calls \cup {Idle}]
  BY <1>1 DEF KernelTypeOK, SlotTables
<1>4. hasTable \subseteq live /\ NoPid \notin hasTable
  BY <1>1, <1>3, NoPidAssumption DEF Counted
<1>5. seen = {} => Plain
  BY DEF Plain, Without
<1>6. \A c \in Pid : <<"clone", c>> # Idle
  <2>1. \A c \in Pid : <<"clone", c>> \in Calls
    BY DEF Calls
  <2> QED
    BY <2>1, KernelAssumption
<1> QED
  BY <1>1, <1>2, <1>3, <1>4, <1>5, <1>6

\* What the analysis knows of a process changes only at its own events, and at the
\* clone that has it as its child.
LEMMA OthersKeep ==
  ASSUME TracingInv, Plain, NEW moved \in SUBSET Pid,
         \A r \in moved : r \in live => inCall[r] = Idle,
         parents' = parents, hasTable' = hasTable \cup moved,
         \A r \in Pid : r \notin moved => tables'[r] = tables[r],
         NEW q \in live, q \notin moved
  PROVE  GetTable(q)' = GetTable(q)
<1>1. /\ parents \in [Pid -> Pid \cup {NoPid}] /\ hasTable \subseteq live /\ live \subseteq Pid
      /\ \A c \in Pid : <<"clone", c>> # Idle
  BY TypedInv
<1>2. CASE q \in hasTable
  BY <1>1, <1>2 DEF GetTable
<1>3. CASE q \notin hasTable /\ parents[q] = NoPid
  <2>1. NoPid \notin hasTable /\ NoPid \notin hasTable'
    BY <1>1, NoPidAssumption
  <2> QED
    BY <1>1, <1>3, <2>1 DEF GetTable
<1>4. CASE q \notin hasTable /\ parents[q] # NoPid
  <2>1. parents[q] \in hasTable /\ inCall[parents[q]] = <<"clone", q>>
    BY <1>4 DEF TracingInv, Handed
  <2>2. parents[q] \in Pid /\ parents[q] \notin moved
    BY <1>1, <2>1
  <2> QED
    BY <1>1, <1>4, <2>1, <2>2 DEF GetTable
<1> QED
  BY <1>2, <1>3, <1>4

\* A table that agrees still does when other events have made objects.
LEMMA StillAgrees ==
  ASSUME TracingInv, NEW q \in Pid, NEW slot, Agrees(GetTable(q), slot, objects),
         objects' = objects \/ objects' = Append(objects, ThisEvent)
  PROVE  Agrees(GetTable(q), slot, objects')
<1>1. /\ GetTable(q) \in Tables /\ TableSound(infos, objects, GetTable(q))
      /\ objects \in Seq(Nat) /\ ThisEvent \in Nat
  BY BeforeStep DEF TracingInv
<1> QED
  BY <1>1, ObjectsKept

LEMMA WholeStepKeeps ==
  ASSUME TracingInv, NEW p \in Pid, CanRun(p), WholeStep(p), ChainInv'
  PROVE  TracingInv'
<1>1. /\ parents \in [Pid -> Pid \cup {NoPid}] /\ hasTable \subseteq live /\ live \subseteq Pid
      /\ tables \in [Pid -> Tables] /\ slots \in [Pid -> SlotTables]
      /\ seen = {} => Plain
      /\ \A c \in Pid : <<"clone", c>> # Idle
  BY TypedInv
<1>2. /\ parents' = parents /\ hasTable' = hasTable \cup {p}
      /\ seen' = seen /\ live' = live /\ inCall' = inCall
      /\ slots' \in [Pid -> SlotTables]
      /\ \A q \in Pid : q # p => tables'[q] = tables[q] /\ slots'[q] = slots[q]
      /\ objects' = objects \/ objects' = Append(objects, ThisEvent)
  BY DEF WholeStep
<1>3. p \in live /\ (Plain => inCall[p] = Idle)
  BY DEF CanRun, Plain, Without
<1>4. KernelTypeOK'
  BY <1>2 DEF TracingInv, KernelTypeOK, SlotTables
<1>5. Counted' /\ Begun' /\ (AtMostOne' => AtMostOne)
  BY <1>2, <1>3 DEF TracingInv, Counted, Begun, AtMostOne, Orphans
<1>6. Plain' = Plain
  BY <1>2 DEF Plain, Without
<1>7. Plain => Handed'
  <2>1. SUFFICES ASSUME Plain, NEW q \in live, q \notin hasTable', parents[q] # NoPid
                 PROVE  /\ parents[q] \in hasTable'
                        /\ inCall[parents[q]] = <<"clone", q>>
                        /\ slots'[q] = slots'[parents[q]]
    BY <1>2 DEF Handed
  <2>2. /\ parents[q] \in hasTable /\ inCall[parents[q]] = <<"clone", q>>
        /\ slots[q] = slots[parents[q]]
    BY <1>2, <2>1 DEF TracingInv, Handed
  <2>3. parents[q] \in Pid /\ parents[q] # p /\ q # p
    BY <1>1, <1>2, <1>3, <2>1, <2>2
  <2> QED
    BY <1>1, <1>2, <2>2, <2>3
<1>8. GetTable(p)' = tables'[p]
  BY <1>2 DEF GetTable
<1>9. ASSUME Plain, NEW q \in live, q # p
      PROVE  GetTable(q)' = GetTable(q)
  <2> DEFINE moved == {p}
  <2>1. moved \in SUBSET Pid /\ hasTable' = hasTable \cup moved /\ q \notin moved
    BY <1>2, <1>9
  <2>2. /\ \A r \in moved : r \in live => inCall[r] = Idle
        /\ \A r \in Pid : r \notin moved => tables'[r] = tables[r]
    BY <1>2, <1>3, <1>9
  <2> HIDE DEF moved
  <2> QED
    BY <1>2, <1>9, <2>1, <2>2, OthersKeep
<1>10. ASSUME seen = {} PROVE AllAgree' /\ OpenMeansOpen'
  <2>1. \A q \in live : Agrees(GetTable(q), slots[q], objects)
    BY <1>10 DEF TracingInv, AllAgree
  <2>2. Agrees(tables'[p], slots'[p], objects') /\ OpenMeansOpen'
    BY <1>3, <1>10, <2>1 DEF WholeStep
  <2>3. ASSUME NEW q \in live PROVE Agrees(GetTable(q)', slots'[q], objects')
    <3>1. CASE q = p
      BY <1>8, <2>2, <3>1
    <3>2. CASE q # p
      <4>1. GetTable(q)' = GetTable(q) /\ slots'[q] = slots[q]
        BY <1>1, <1>2, <1>9, <1>10, <3>2
      <4>2. Agrees(GetTable(q), slots[q], objects')
        BY <1>1, <1>2, <2>1, StillAgrees
      <4> QED
        BY <4>1, <4>2
    <3> QED
      BY <3>1, <3>2
  <2> QED
    BY <1>2, <2>2, <2>3 DEF AllAgree
<1>11. ASSUME Plain, AtMostOne PROVE AllCovered'
  <2>1. \A q \in live : Covers(GetTable(q), slots[q])
    BY <1>11 DEF TracingInv, AllCovered
  <2>2. Covers(tables'[p], slots'[p])
    BY <1>3, <1>11, <2>1 DEF WholeStep
  <2>3. ASSUME NEW q \in live PROVE Covers(GetTable(q)', slots'[q])
    BY <1>1, <1>2, <1>8, <1>9, <1>11, <2>1, <2>2
  <2> QED
    BY <1>2, <2>3 DEF AllCovered
<1>12. seen # {} => OpenMeansOpen'
  BY <1>2 DEF OpenMeansOpen
<1> QED
  BY <1>2, <1>4, <1>5, <1>6, <1>7, <1>10, <1>11, <1>12 DEF TracingInv

\* An event of which nothing is said.
LEMMA QuietMeansOpen ==
  ASSUME TracingInv, NEW p \in Pid, infos' = Append(infos, RefsInfo(p, <<>>, 0))
  PROVE  OpenMeansOpen'
<1>1. RefsInfo(p, <<>>, 0).open = FALSE
  BY DEF RefsInfo, EventInfo
<1>2. infos \in Seq(FdEventInfos)
  BY TypedInv DEF TypeOK
<1>3. infos'[Len(infos')].open = FALSE
  BY <1>1, <1>2
<1> QED
  BY <1>3 DEF OpenMeansOpen

\* fork and clone on one line: the child gets its table at once.
LEMMA ForkKeeps ==
  ASSUME TracingInv, NEW p \in Pid, NEW child \in Pid, SysFork(p, child), ChainInv'
  PROVE  TracingInv'
<1> DEFINE own == GetTable(p)
<1>1. /\ parents \in [Pid -> Pid \cup {NoPid}] /\ hasTable \subseteq live /\ live \subseteq Pid
      /\ tables \in [Pid -> Tables] /\ slots \in [Pid -> SlotTables]
      /\ inCall \in [Pid -> Calls \cup {Idle}]
      /\ seen = {} => Plain
      /\ \A c \in Pid : <<"clone", c>> # Idle
  BY TypedInv
<1>2. /\ CanRun(p) /\ child \notin live /\ parents[child] = p
      /\ live' = live \cup {child} /\ seen' = seen /\ inCall' = inCall
      /\ slots' = [slots EXCEPT ![child] = slots[p]]
      /\ Clone(p, child)
  BY DEF SysFork, Born
<1>3. p \in live /\ (Plain => inCall[p] = Idle) /\ p # child /\ child \notin hasTable
  BY <1>1, <1>2 DEF CanRun, Plain, Without
<1>4. /\ parents' = parents /\ hasTable' = hasTable \cup {p, child} /\ objects' = objects
      /\ infos' = Append(infos, RefsInfo(p, <<>>, 0))
      /\ tables' = [tables EXCEPT ![p] = own, ![child] = own]
  BY <1>2, <1>3 DEF Clone
<1>5. /\ tables'[p] = own /\ tables'[child] = own
      /\ \A q \in Pid : q # p /\ q # child => tables'[q] = tables[q]
  <2> HIDE DEF own
  <2> QED
    BY <1>1, <1>4
<1>6. /\ slots' \in [Pid -> SlotTables] /\ slots'[child] = slots[p]
      /\ \A q \in Pid : q # child => slots'[q] = slots[q]
  BY <1>1, <1>2
<1>7. KernelTypeOK'
  BY <1>1, <1>2, <1>6 DEF TracingInv, KernelTypeOK, SlotTables
<1>8. Counted' /\ Orphans' = Orphans
  <2>1. Orphans' = Orphans
    BY <1>2, <1>3, <1>4, NoPidAssumption DEF Orphans
  <2>2. IsFiniteSet(live')
    BY <1>2, FS_AddElement DEF TracingInv, Counted
  <2> QED
    BY <1>2, <1>3, <1>4, <2>1, <2>2 DEF TracingInv, Counted
<1>9. Begun' /\ (AtMostOne' => AtMostOne)
  BY <1>2, <1>8 DEF TracingInv, Begun, AtMostOne
<1>10. Plain' = Plain
  BY <1>2 DEF Plain, Without
<1>11. Plain => Handed'
  <2>1. SUFFICES ASSUME Plain, NEW q \in live', q \notin hasTable', parents[q] # NoPid
                 PROVE  /\ parents[q] \in hasTable'
                        /\ inCall[parents[q]] = <<"clone", q>>
                        /\ slots'[q] = slots'[parents[q]]
    BY <1>2, <1>4 DEF Handed
  <2>2. q \in live /\ q # child /\ q # p /\ q \notin hasTable
    BY <1>2, <1>4, <2>1
  <2>3. /\ parents[q] \in hasTable /\ inCall[parents[q]] = <<"clone", q>>
        /\ slots[q] = slots[parents[q]]
    BY <2>1, <2>2 DEF TracingInv, Handed
  <2>4. parents[q] # child /\ parents[q] \in Pid
    BY <1>1, <1>2, <2>3
  <2> QED
    BY <1>1, <1>4, <1>6, <2>2, <2>3, <2>4
<1>12. GetTable(p)' = own /\ GetTable(child)' = own
  <2>1. p \in hasTable' /\ child \in hasTable'
    BY <1>4
  <2> QED
    BY <1>5, <2>1 DEF GetTable
<1>13. ASSUME Plain, NEW q \in live, q # p
       PROVE  GetTable(q)' = GetTable(q)
  <2> DEFINE moved == {p, child}
  <2>1. moved \in SUBSET Pid /\ hasTable' = hasTable \cup moved /\ q \notin moved
    BY <1>2, <1>4, <1>13
  <2>2. /\ \A r \in moved : r \in live => inCall[r] = Idle
        /\ \A r \in Pid : r \notin moved => tables'[r] = tables[r]
    BY <1>2, <1>3, <1>5, <1>13
  <2> HIDE DEF moved, own
  <2> QED
    BY <1>4, <1>13, <2>1, <2>2, OthersKeep
<1>14. ASSUME seen = {} PROVE AllAgree'
  <2>1. \A q \in live : Agrees(GetTable(q), slots[q], objects)
    BY <1>14 DEF TracingInv, AllAgree
  <2>2. ASSUME NEW q \in live' PROVE Agrees(GetTable(q)', slots'[q], objects')
    <3> HIDE DEF own
    <3>1. CASE q = child \/ q = p
      <4>1. GetTable(q)' = own /\ slots'[q] = slots[p]
        BY <1>1, <1>3, <1>6, <1>12, <3>1
      <4>2. Agrees(own, slots[p], objects)
        BY <1>3, <2>1 DEF own
      <4> QED
        BY <1>4, <4>1, <4>2
    <3>2. CASE q # child /\ q # p
      <4>1. q \in live /\ GetTable(q)' = GetTable(q) /\ slots'[q] = slots[q]
        BY <1>1, <1>2, <1>6, <1>13, <1>14, <3>2
      <4> QED
        BY <1>4, <2>1, <4>1
    <3> QED
      BY <3>1, <3>2
  <2> QED
    BY <2>2 DEF AllAgree
<1>15. ASSUME Plain, AtMostOne PROVE AllCovered'
  <2>1. \A q \in live : Covers(GetTable(q), slots[q])
    BY <1>15 DEF TracingInv, AllCovered
  <2>2. ASSUME NEW q \in live' PROVE Covers(GetTable(q)', slots'[q])
    <3> HIDE DEF own
    <3>1. CASE q = child \/ q = p
      <4>1. GetTable(q)' = own /\ slots'[q] = slots[p]
        BY <1>1, <1>3, <1>6, <1>12, <3>1
      <4>2. Covers(own, slots[p])
        BY <1>3, <2>1 DEF own
      <4> QED
        BY <4>1, <4>2
    <3>2. CASE q # child /\ q # p
      <4>1. q \in live /\ GetTable(q)' = GetTable(q) /\ slots'[q] = slots[q]
        BY <1>1, <1>2, <1>6, <1>13, <1>15, <3>2
      <4> QED
        BY <2>1, <4>1
    <3> QED
      BY <3>1, <3>2
  <2> QED
    BY <2>2 DEF AllCovered
<1>16. OpenMeansOpen'
  BY <1>4, QuietMeansOpen
<1> QED
  BY <1>2, <1>7, <1>8, <1>9, <1>10, <1>11, <1>14, <1>15, <1>16 DEF TracingInv

\* A clone in two halves: between them the child is told from its parent.
LEMMA ForkBeginsKeeps ==
  ASSUME TracingInv, NEW p \in Pid, NEW child \in Pid, ForkBegins(p, child), ChainInv'
  PROVE  TracingInv'
<1> DEFINE own == GetTable(p)
<1>1. /\ parents \in [Pid -> Pid \cup {NoPid}] /\ hasTable \subseteq live /\ live \subseteq Pid
      /\ tables \in [Pid -> Tables] /\ slots \in [Pid -> SlotTables]
      /\ inCall \in [Pid -> Calls \cup {Idle}] /\ NoPid \notin hasTable
      /\ seen = {} => Plain
      /\ \A c \in Pid : <<"clone", c>> # Idle
  BY TypedInv
<1>2. /\ p \in live /\ child \notin live /\ (parents[child] = p \/ parents[child] = NoPid)
      /\ live' = live \cup {child} /\ seen' = seen
      /\ slots' = [slots EXCEPT ![child] = slots[p]]
      /\ inCall[p] = Idle /\ inCall' = [inCall EXCEPT ![p] = <<"clone", child>>]
      /\ Other(p)
  BY DEF ForkBegins, Born, CanRun, Enter
<1>3. p # child /\ child \notin hasTable
  BY <1>1, <1>2
<1>4. /\ parents' = parents /\ hasTable' = hasTable \cup {p} /\ objects' = objects
      /\ infos' = Append(infos, RefsInfo(p, <<>>, 0))
      /\ tables' = [tables EXCEPT ![p] = own]
  BY <1>2 DEF Other, Store
<1>5. tables'[p] = own /\ \A q \in Pid : q # p => tables'[q] = tables[q]
  <2> HIDE DEF own
  <2> QED
    BY <1>1, <1>4
<1>6. /\ slots' \in [Pid -> SlotTables] /\ slots'[child] = slots[p]
      /\ \A q \in Pid : q # child => slots'[q] = slots[q]
  BY <1>1, <1>2
<1>7. /\ inCall'[p] = <<"clone", child>> /\ \A q \in Pid : q # p => inCall'[q] = inCall[q]
      /\ inCall' \in [Pid -> Calls \cup {Idle}]
  <2>1. <<"clone", child>> \in Calls
    BY DEF Calls
  <2> QED
    BY <1>1, <1>2, <2>1
<1>8. KernelTypeOK'
  BY <1>1, <1>2, <1>6, <1>7 DEF TracingInv, KernelTypeOK, SlotTables
<1>9. Orphans \subseteq Orphans' /\ (parents[child] = NoPid => child \in Orphans')
  BY <1>2, <1>4 DEF Orphans
<1>10. Counted'
  <2>1. IsFiniteSet(live')
    BY <1>2, FS_AddElement DEF TracingInv, Counted
  <2> QED
    BY <1>2, <1>4, <1>9, <2>1 DEF TracingInv, Counted
<1>11. AtMostOne' => AtMostOne /\ parents[child] = p
  <2>1. SUFFICES ASSUME AtMostOne' PROVE parents[child] = p
    BY <1>9, <2>1 DEF AtMostOne
  <2>2. PICK first \in Orphans : TRUE
    BY DEF TracingInv, Counted
  <2>3. first \in Orphans' /\ first # child
    BY <1>2, <1>9, <2>2 DEF Orphans
  <2> QED
    BY <1>2, <1>9, <2>1, <2>3 DEF AtMostOne
<1>12. Begun'
  <2>1. SUFFICES ASSUME NEW q \in Pid, inCall'[q] # Idle
                 PROVE  /\ q \in live'
                        /\ \A c \in Pid : inCall'[q] = <<"clone", c>> => c \in live'
                        /\ "split" \notin seen => \E c \in Pid : inCall'[q] = <<"clone", c>>
    BY <1>2 DEF Begun
  <2>2. CASE q = p
    BY <1>2, <1>7, <2>2
  <2>3. CASE q # p
    BY <1>2, <1>7, <2>1, <2>3 DEF TracingInv, Begun
  <2> QED
    BY <2>2, <2>3
<1>13. Plain' = Plain
  BY <1>2 DEF Plain, Without
<1>14. Plain => Handed'
  <2>1. SUFFICES ASSUME Plain, NEW q \in live', q \notin hasTable', parents[q] # NoPid
                 PROVE  /\ parents[q] \in hasTable'
                        /\ inCall'[parents[q]] = <<"clone", q>>
                        /\ slots'[q] = slots'[parents[q]]
    BY <1>4 DEF Handed
  <2>2. CASE q = child
    BY <1>2, <1>3, <1>4, <1>6, <1>7, <2>1, <2>2
  <2>3. CASE q # child
    <3>1. q \in live /\ q # p /\ q \notin hasTable
      BY <1>2, <1>4, <2>1, <2>3
    <3>2. /\ parents[q] \in hasTable /\ inCall[parents[q]] = <<"clone", q>>
          /\ slots[q] = slots[parents[q]]
      BY <2>1, <3>1 DEF TracingInv, Handed
    <3>3. parents[q] # child /\ parents[q] \in Pid /\ parents[q] # p
      BY <1>1, <1>2, <1>3, <3>1, <3>2
    <3> QED
      BY <1>1, <1>4, <1>6, <1>7, <2>3, <3>1, <3>2, <3>3
  <2> QED
    BY <2>2, <2>3
<1>15. GetTable(p)' = own
  BY <1>4, <1>5 DEF GetTable
<1>16. GetTable(child)' = IF parents[child] = p THEN own ELSE EmptyTable
  <2>1. child \notin hasTable' /\ p \in hasTable' /\ NoPid \notin hasTable' /\ p # NoPid
    BY <1>1, <1>3, <1>4, NoPidAssumption
  <2> HIDE DEF own
  <2> QED
    BY <1>2, <1>4, <1>5, <2>1 DEF GetTable
<1>17. ASSUME Plain, NEW q \in live, q # p
       PROVE  GetTable(q)' = GetTable(q)
  <2> DEFINE moved == {p}
  <2>1. moved \in SUBSET Pid /\ hasTable' = hasTable \cup moved /\ q \notin moved
    BY <1>4, <1>17
  <2>2. /\ \A r \in moved : r \in live => inCall[r] = Idle
        /\ \A r \in Pid : r \notin moved => tables'[r] = tables[r]
    BY <1>2, <1>5
  <2> HIDE DEF moved, own
  <2> QED
    BY <1>4, <1>17, <2>1, <2>2, OthersKeep
<1> HIDE DEF own
<1>18. ASSUME seen = {} PROVE AllAgree'
  <2>1. \A q \in live : Agrees(GetTable(q), slots[q], objects)
    BY <1>18 DEF TracingInv, AllAgree
  <2>2. Agrees(own, slots[p], objects)
    BY <1>2, <2>1 DEF own
  <2>3. Agrees(EmptyTable, slots[p], objects)
    BY DEF Agrees, EmptyTable
  <2>4. ASSUME NEW q \in live' PROVE Agrees(GetTable(q)', slots'[q], objects')
    <3>1. CASE q = child
      BY <1>4, <1>6, <1>16, <2>2, <2>3, <3>1
    <3>2. CASE q = p
      BY <1>3, <1>4, <1>6, <1>15, <2>2, <3>2
    <3>3. CASE q # child /\ q # p
      <4>1. q \in live /\ GetTable(q)' = GetTable(q) /\ slots'[q] = slots[q]
        BY <1>1, <1>2, <1>6, <1>17, <1>18, <3>3
      <4> QED
        BY <1>4, <2>1, <4>1
    <3> QED
      BY <3>1, <3>2, <3>3
  <2> QED
    BY <2>4 DEF AllAgree
<1>19. ASSUME Plain, AtMostOne' PROVE AllCovered'
  <2>1. \A q \in live : Covers(GetTable(q), slots[q])
    BY <1>11, <1>19 DEF TracingInv, AllCovered
  <2>2. Covers(own, slots[p])
    BY <1>2, <2>1 DEF own
  <2>3. ASSUME NEW q \in live' PROVE Covers(GetTable(q)', slots'[q])
    <3>1. CASE q = child
      BY <1>6, <1>11, <1>16, <1>19, <2>2, <3>1
    <3>2. CASE q = p
      BY <1>3, <1>6, <1>15, <2>2, <3>2
    <3>3. CASE q # child /\ q # p
      <4>1. q \in live /\ GetTable(q)' = GetTable(q) /\ slots'[q] = slots[q]
        BY <1>1, <1>2, <1>6, <1>17, <1>19, <3>3
      <4> QED
        BY <2>1, <4>1
    <3> QED
      BY <3>1, <3>2, <3>3
  <2> QED
    BY <2>3 DEF AllCovered
<1>20. OpenMeansOpen'
  BY <1>4, QuietMeansOpen
<1> QED
  BY <1>2, <1>8, <1>10, <1>12, <1>13, <1>14, <1>18, <1>19, <1>20 DEF TracingInv

\* The clone returns: what the child was given is what it had.
LEMMA ForkReturnsKeeps ==
  ASSUME TracingInv, NEW p \in Pid, NEW child \in Pid, ForkReturns(p, child), ChainInv'
  PROVE  TracingInv'
<1> DEFINE own == GetTable(p)
           copy == IF child \in hasTable THEN tables[child] ELSE own
<1>1. /\ parents \in [Pid -> Pid \cup {NoPid}] /\ hasTable \subseteq live /\ live \subseteq Pid
      /\ tables \in [Pid -> Tables]
      /\ inCall \in [Pid -> Calls \cup {Idle}] /\ NoPid \notin hasTable
      /\ seen = {} => Plain
      /\ \A c \in Pid : <<"clone", c>> # Idle
  BY TypedInv
<1>2. /\ inCall[p] = <<"clone", child>> /\ inCall' = [inCall EXCEPT ![p] = Idle]
      /\ seen' = seen /\ live' = live /\ slots' = slots
      /\ Clone(p, child)
  BY DEF ForkReturns, Leave
<1>3. p \in live /\ child \in live
  BY <1>1, <1>2 DEF TracingInv, Begun
<1>4. /\ parents' = parents /\ hasTable' = hasTable \cup {p, child} /\ objects' = objects
      /\ infos' = Append(infos, RefsInfo(p, <<>>, 0))
      /\ tables' = [tables EXCEPT ![p] = own, ![child] = copy]
      /\ parents[child] = p \/ child \in hasTable
  BY <1>2 DEF Clone
<1>5. /\ inCall'[p] = Idle /\ \A q \in Pid : q # p => inCall'[q] = inCall[q]
      /\ inCall' \in [Pid -> Calls \cup {Idle}]
  BY <1>1, <1>2
<1>6. KernelTypeOK'
  BY <1>2, <1>5 DEF TracingInv, KernelTypeOK
<1>7. Counted' /\ Orphans' = Orphans /\ (AtMostOne' => AtMostOne)
  BY <1>2, <1>3, <1>4 DEF TracingInv, Counted, Orphans, AtMostOne
<1>8. Begun'
  BY <1>2, <1>5 DEF TracingInv, Begun
<1>9. Plain' = Plain
  BY <1>2 DEF Plain, Without
<1>10. Plain => Handed'
  <2>1. SUFFICES ASSUME Plain, NEW q \in live, q \notin hasTable', parents[q] # NoPid
                 PROVE  /\ parents[q] \in hasTable'
                        /\ inCall'[parents[q]] = <<"clone", q>>
                        /\ slots[q] = slots[parents[q]]
    BY <1>2, <1>4 DEF Handed
  <2>2. /\ parents[q] \in hasTable /\ inCall[parents[q]] = <<"clone", q>>
        /\ slots[q] = slots[parents[q]] /\ q # child
    BY <1>4, <2>1 DEF TracingInv, Handed
  <2>3. parents[q] # p /\ parents[q] \in Pid
    BY <1>1, <1>2, <2>2
  <2> QED
    BY <1>4, <1>5, <2>2, <2>3
<1>11. ASSUME Plain PROVE copy = GetTable(child)
  <2>1. CASE child \in hasTable
    BY <2>1 DEF GetTable
  <2>2. CASE child \notin hasTable
    <3>1. parents[child] = p /\ p # NoPid
      BY <1>4, <2>2, NoPidAssumption
    <3>2. p \in hasTable
      BY <1>3, <1>11, <2>2, <3>1 DEF TracingInv, Handed
    <3> QED
      BY <2>2, <3>1, <3>2 DEF GetTable
  <2> QED
    BY <2>1, <2>2
<1>12. p = child => copy = own
  BY DEF GetTable
<1> HIDE DEF own, copy
<1>13. /\ tables'[p] = own /\ tables'[child] = copy
       /\ \A q \in Pid : q # p /\ q # child => tables'[q] = tables[q]
  BY <1>1, <1>4, <1>12
<1>14. ASSUME Plain, NEW q \in live PROVE GetTable(q)' = GetTable(q)
  <2>1. CASE q = p
    BY <1>4, <1>13, <2>1 DEF GetTable, own
  <2>2. CASE q = child
    <3>1. GetTable(q)' = copy
      BY <1>4, <1>13, <2>2 DEF GetTable
    <3> QED
      BY <1>11, <1>14, <2>2, <3>1
  <2>3. CASE q # p /\ q # child /\ q \in hasTable
    BY <1>1, <1>4, <1>13, <2>3 DEF GetTable
  <2>4. CASE q # p /\ q # child /\ q \notin hasTable /\ parents[q] = NoPid
    <3>1. NoPid \notin hasTable' /\ q \notin hasTable'
      BY <1>1, <1>4, <2>4, NoPidAssumption
    <3> QED
      BY <1>1, <1>4, <2>4, <3>1 DEF GetTable
  <2>5. CASE q # p /\ q # child /\ q \notin hasTable /\ parents[q] # NoPid
    <3>1. parents[q] \in hasTable /\ inCall[parents[q]] = <<"clone", q>>
      BY <1>14, <2>5 DEF TracingInv, Handed
    <3>2. parents[q] # p
      BY <1>2, <2>5, <3>1
    <3>3. parents[q] \in Pid /\ tables'[parents[q]] = tables[parents[q]]
      <4>1. CASE parents[q] = child
        <5>1. copy = tables[child]
          BY <3>1, <4>1 DEF copy
        <5> QED
          BY <1>13, <4>1, <5>1
      <4>2. CASE parents[q] # child
        BY <1>1, <1>13, <3>1, <3>2, <4>2
      <4> QED
        BY <4>1, <4>2
    <3>4. q \notin hasTable' /\ parents[q] \in hasTable'
      BY <1>4, <2>5, <3>1
    <3> QED
      BY <1>4, <2>5, <3>1, <3>3, <3>4 DEF GetTable
  <2> QED
    BY <2>1, <2>2, <2>3, <2>4, <2>5
<1>15. ASSUME seen = {} PROVE AllAgree'
  <2>1. \A q \in live : Agrees(GetTable(q), slots[q], objects)
    BY <1>15 DEF TracingInv, AllAgree
  <2>2. ASSUME NEW q \in live PROVE Agrees(GetTable(q)', slots[q], objects)
    BY <1>1, <1>14, <1>15, <2>1
  <2> QED
    BY <1>2, <1>4, <2>2 DEF AllAgree
<1>16. ASSUME Plain, AtMostOne PROVE AllCovered'
  <2>1. \A q \in live : Covers(GetTable(q), slots[q])
    BY <1>16 DEF TracingInv, AllCovered
  <2>2. ASSUME NEW q \in live PROVE Covers(GetTable(q)', slots[q])
    BY <1>14, <1>16, <2>1
  <2> QED
    BY <1>2, <2>2 DEF AllCovered
<1>17. OpenMeansOpen'
  BY <1>4, QuietMeansOpen
<1> QED
  BY <1>2, <1>6, <1>7, <1>8, <1>9, <1>10, <1>15, <1>16, <1>17 DEF TracingInv

\* Halves of other calls: of such a trace only the unconditional is said.
SplitStep(p) ==
    /\ "split" \in seen /\ p \in live
    /\ parents' = parents /\ hasTable' = hasTable \cup {p}
    /\ seen' = seen /\ live' = live
    /\ slots' \in [Pid -> SlotTables]
    /\ \E call \in Calls \cup {Idle} :
          /\ \A c \in Pid : call # <<"clone", c>>
          /\ inCall' = [inCall EXCEPT ![p] = call]

LEMMA SplitStepKeeps ==
  ASSUME TracingInv, NEW p \in Pid, SplitStep(p), ChainInv'
  PROVE  TracingInv'
<1>1. /\ live \subseteq Pid /\ inCall \in [Pid -> Calls \cup {Idle}]
  BY TypedInv
<1>2. PICK call \in Calls \cup {Idle} : /\ \A c \in Pid : call # <<"clone", c>>
                                        /\ inCall' = [inCall EXCEPT ![p] = call]
  BY DEF SplitStep
<1>3. /\ inCall' \in [Pid -> Calls \cup {Idle}]
      /\ inCall'[p] = call /\ \A q \in Pid : q # p => inCall'[q] = inCall[q]
  BY <1>1, <1>2
<1>4. /\ "split" \in seen /\ p \in live
      /\ parents' = parents /\ hasTable' = hasTable \cup {p}
      /\ seen' = seen /\ live' = live
      /\ slots' \in [Pid -> SlotTables]
  BY DEF SplitStep
<1>5. KernelTypeOK'
  BY <1>3, <1>4 DEF TracingInv, KernelTypeOK, SlotTables
<1>6. Counted'
  BY <1>4 DEF TracingInv, Counted, Orphans
<1>7. Begun'
  BY <1>2, <1>3, <1>4 DEF TracingInv, Begun
<1>8. ~Plain' /\ seen' # {}
  BY <1>4 DEF Plain, Without
<1>9. OpenMeansOpen'
  BY <1>8 DEF OpenMeansOpen
<1> QED
  BY <1>5, <1>6, <1>7, <1>8, <1>9 DEF TracingInv

LEMMA LongCallIsSplit ==
  ASSUME TracingInv, NEW p \in Pid, LongCall(p)
  PROVE  \/ SplitStep(p)
         \/ \E child \in Pid : ForkBegins(p, child) \/ ForkReturns(p, child)
<1>1. /\ slots \in [Pid -> SlotTables] /\ ThisEvent \in Nat
      /\ \A fd \in Fd : slots[p][fd] # Closed => slots[p][fd].born \in Nat
  BY BeforeStep DEF TracingInv, KernelTypeOK, SlotTables
<1>2. \A fd \in Fd, born \in Nat, c \in BOOLEAN :
         [slots EXCEPT ![p][fd] = Opened(born, c)] \in [Pid -> SlotTables]
  <2>1. \A born \in Nat, c \in BOOLEAN : Opened(born, c) \in Slots
    BY DEF Opened, Slots
  <2> QED
    BY <1>1, <2>1 DEF SlotTables
<1>3. \A fd \in Fd : [slots EXCEPT ![p][fd] = Closed] \in [Pid -> SlotTables]
  BY <1>1 DEF SlotTables
<1>4. ASSUME NEW call \in Calls, inCall[p] = call, \A c \in Pid : call # <<"clone", c>>
      PROVE  "split" \in seen /\ p \in live
  <2>1. call # Idle
    BY KernelAssumption
  <2> QED
    BY <1>4, <2>1 DEF TracingInv, Begun
<1>5. \A c \in BOOLEAN : <<"open", c>> \in Calls /\ \A q \in Pid : <<"open", c>> # <<"clone", q>>
  BY DEF Calls
<1>6. \A fd \in Fd : /\ <<"close", fd>> \in Calls /\ <<"dup", fd>> \in Calls
                     /\ \A q \in Pid : /\ <<"close", fd>> # <<"clone", q>>
                                      /\ <<"dup", fd>> # <<"clone", q>>
  BY DEF Calls
<1>7. \A q \in Pid : Idle # <<"clone", q>>
  BY TypedInv
<1>8. ASSUME NEW c \in BOOLEAN, OpenBegins(p, c) PROVE SplitStep(p)
  <2>1. /\ "split" \in seen /\ p \in live /\ seen' = seen /\ live' = live /\ slots' = slots
        /\ inCall' = [inCall EXCEPT ![p] = <<"open", c>>] /\ Other(p)
    BY <1>8 DEF OpenBegins, CanRun, Enter
  <2>2. parents' = parents /\ hasTable' = hasTable \cup {p}
    BY <2>1 DEF Other, Store
  <2> QED
    BY <1>1, <1>5, <2>1, <2>2 DEF SplitStep
<1>9. ASSUME NEW c \in BOOLEAN, NEW fd \in Fd, OpenEnds(p, fd, c) PROVE SplitStep(p)
  <2>1. /\ inCall[p] = <<"open", c>> /\ seen' = seen /\ live' = live
        /\ slots' = [slots EXCEPT ![p][fd] = Opened(ThisEvent, c)]
        /\ inCall' = [inCall EXCEPT ![p] = Idle] /\ Open(p, fd, FALSE)
    BY <1>9 DEF OpenEnds, Leave
  <2>2. parents' = parents /\ hasTable' = hasTable \cup {p}
    BY <2>1 DEF Open, Store
  <2>3. "split" \in seen /\ p \in live
    BY <1>4, <1>5, <2>1
  <2>4. slots' \in [Pid -> SlotTables]
    BY <1>1, <1>2, <2>1
  <2> QED
    BY <1>7, <2>1, <2>2, <2>3, <2>4 DEF SplitStep
<1>10. ASSUME NEW fd \in Fd, CloseBegins(p, fd) PROVE SplitStep(p)
  <2>1. /\ "split" \in seen /\ p \in live /\ seen' = seen /\ live' = live /\ slots' = slots
        /\ inCall' = [inCall EXCEPT ![p] = <<"close", fd>>] /\ Use(p, fd)
    BY <1>10 DEF CloseBegins, CanRun, Enter
  <2>2. parents' = parents /\ hasTable' = hasTable \cup {p}
    BY <2>1 DEF Use, Store
  <2> QED
    BY <1>1, <1>6, <2>1, <2>2 DEF SplitStep
<1>11. ASSUME NEW fd \in Fd, CloseEnds(p, fd) PROVE SplitStep(p)
  <2>1. /\ inCall[p] = <<"close", fd>> /\ seen' = seen /\ live' = live
        /\ slots' = [slots EXCEPT ![p][fd] = Closed]
        /\ inCall' = [inCall EXCEPT ![p] = Idle] /\ Other(p)
    BY <1>11 DEF CloseEnds, Leave
  <2>2. parents' = parents /\ hasTable' = hasTable \cup {p}
    BY <2>1 DEF Other, Store
  <2>3. "split" \in seen /\ p \in live
    BY <1>4, <1>6, <2>1
  <2>4. slots' \in [Pid -> SlotTables]
    BY <1>3, <2>1
  <2> QED
    BY <1>7, <2>1, <2>2, <2>3, <2>4 DEF SplitStep
<1>12. ASSUME NEW old \in Fd, DupBegins(p, old) PROVE SplitStep(p)
  <2>1. /\ "split" \in seen /\ p \in live /\ seen' = seen /\ live' = live /\ slots' = slots
        /\ inCall' = [inCall EXCEPT ![p] = <<"dup", old>>] /\ Other(p)
    BY <1>12 DEF DupBegins, CanRun, Enter
  <2>2. parents' = parents /\ hasTable' = hasTable \cup {p}
    BY <2>1 DEF Other, Store
  <2> QED
    BY <1>1, <1>6, <2>1, <2>2 DEF SplitStep
<1>13. ASSUME NEW old \in Fd, NEW fd \in Fd, DupEnds(p, old, fd) PROVE SplitStep(p)
  <2>1. /\ inCall[p] = <<"dup", old>> /\ seen' = seen /\ live' = live
        /\ slots[p][old] # Closed
        /\ slots' = [slots EXCEPT ![p][fd] = Opened(slots[p][old].born, FALSE)]
        /\ inCall' = [inCall EXCEPT ![p] = Idle] /\ Other(p)
    BY <1>13 DEF DupEnds, Leave, IsOpen
  <2>2. parents' = parents /\ hasTable' = hasTable \cup {p}
    BY <2>1 DEF Other, Store
  <2>3. "split" \in seen /\ p \in live
    BY <1>4, <1>6, <2>1
  <2>4. slots' \in [Pid -> SlotTables]
    BY <1>1, <1>2, <2>1
  <2> QED
    BY <1>7, <2>1, <2>2, <2>3, <2>4 DEF SplitStep
<1> QED
  BY <1>8, <1>9, <1>10, <1>11, <1>12, <1>13 DEF LongCall

----------------------------------------------------------------------------
(* Every step is an iteration of the loop of fd_analysis_build. *)

LEMMA WholeCallIsEvent ==
  ASSUME NEW p \in Pid, WholeCall(p)
  PROVE  OnEvent(p)
<1>1. ASSUME NEW fd \in Fd
      PROVE  /\ SysClose(p, fd) => Close(p, fd)
             /\ SysRead(p, fd) => Use(p, fd)
             /\ SysFcntl(p, fd) => FcntlOther(p, fd)
  BY DEF SysClose, SysRead, SysFcntl
<1>2. ASSUME NEW fd \in Fd, NEW c \in BOOLEAN
      PROVE  /\ SysOpen(p, fd, c) => Open(p, fd, c)
             /\ SysForeign(p, fd, c) => Other(p)
             /\ SysSetFd(p, fd, c) => FcntlSetFd(p, fd, c)
  BY DEF SysOpen, SysForeign, SysSetFd
<1>3. ASSUME NEW old \in Fd, NEW fd \in Fd, NEW c \in BOOLEAN
      PROVE  /\ SysFcntlDup(p, old, fd, c) => FcntlDup(p, old, fd, c)
             /\ SysAccept(p, old, fd, c) => Accept(p, old, fd, c)
             /\ SysPipe(p, old, fd, c) => Pipe(p, old, fd, c)
  BY DEF SysFcntlDup, SysAccept, SysPipe
<1>4. SysOther(p) => Other(p)
  BY DEF SysOther
<1>5. SysExec(p) => Execve(p)
  BY DEF SysExec
<1>6. \A child \in Pid : SysFork(p, child) => Clone(p, child)
  BY DEF SysFork
<1>7. ASSUME NEW old \in Fd, NEW fd \in Fd
      PROVE  SysDup(p, old, fd) => \E named \in NamedFds(fd) : Dup(p, named, fd, FALSE)
  BY DEF SysDup, NamedFds
<1>8. ASSUME NEW fd \in Fd
      PROVE  SysDup2Self(p, fd) => \E named \in NamedFds(fd) : Dup(p, named, fd, FALSE)
  BY DEF SysDup2Self, NamedFds
<1>9. ASSUME NEW old \in Fd, NEW fd \in Fd, NEW c \in BOOLEAN, SysDup2(p, old, fd, c)
      PROVE  \/ \E named \in NamedFds(fd) : Dup(p, named, fd, FALSE)
             \/ Dup(p, <<old, fd>>, fd, TRUE)
  <2>1. Dup(p, <<old, fd>>, fd, c)
    BY <1>9 DEF SysDup2
  <2>2. CASE c = TRUE
    BY <2>1, <2>2
  <2>3. CASE c = FALSE
    BY <2>1, <2>3 DEF NamedFds
  <2> QED
    BY <2>2, <2>3
<1> QED
  BY <1>1, <1>2, <1>3, <1>4, <1>5, <1>6, <1>7, <1>8, <1>9 DEF WholeCall, OnEvent

LEMMA LongCallIsEvent ==
  ASSUME NEW p \in Pid, LongCall(p)
  PROVE  OnEvent(p)
<1>1. \A child \in Pid : /\ ForkBegins(p, child) => Other(p)
                         /\ ForkReturns(p, child) => Clone(p, child)
  BY DEF ForkBegins, ForkReturns
<1>2. \A c \in BOOLEAN : /\ OpenBegins(p, c) => Other(p)
                         /\ \A fd \in Fd : OpenEnds(p, fd, c) => Open(p, fd, FALSE)
  BY DEF OpenBegins, OpenEnds
<1>3. \A fd \in Fd : /\ CloseBegins(p, fd) => Use(p, fd)
                     /\ CloseEnds(p, fd) => Other(p)
                     /\ DupBegins(p, fd) => Other(p)
  BY DEF CloseBegins, CloseEnds, DupBegins
<1>4. \A old, fd \in Fd : DupEnds(p, old, fd) => Other(p)
  BY DEF DupEnds
<1>5. FALSE \in BOOLEAN
  OBVIOUS
<1> QED
  BY <1>1, <1>2, <1>3, <1>4, <1>5 DEF LongCall, OnEvent

LEMMA NextKeeps == TracingInv /\ [Next]_vars => TracingInv'
<1>1. ASSUME TracingInv, NEW p \in Pid, WholeCall(p) \/ LongCall(p) PROVE TracingInv'
  <2>1. ChainInv /\ KernelTypeOK
    BY <1>1 DEF TracingInv
  <2>2. ChainInv'
    <3>1. OnEvent(p)
      BY <1>1, WholeCallIsEvent, LongCallIsEvent
    <3> QED
      BY <2>1, <3>1, EveryBranchSound, SoundStepPreserves
  <2>3. CASE WholeCall(p)
    <3>1. WholeStep(p) \/ \E child \in Pid : SysFork(p, child)
      BY <2>1, <2>3, WholeCallIsWhole
    <3>2. CanRun(p) \/ \E child \in Pid : SysFork(p, child)
      BY <2>3 DEF WholeCall, SysOpen, SysAccept, SysPipe, SysForeign, SysDup, SysDup2,
                  SysDup2Self, SysFcntlDup, SysSetFd, SysClose, SysRead, SysFcntl, SysOther,
                  SysExec
    <3> QED
      BY <1>1, <2>2, <3>1, <3>2, WholeStepKeeps, ForkKeeps
  <2>4. CASE LongCall(p)
    <3>1. SplitStep(p) \/ \E child \in Pid : ForkBegins(p, child) \/ ForkReturns(p, child)
      BY <1>1, <2>4, LongCallIsSplit
    <3> QED
      BY <1>1, <2>2, <3>1, SplitStepKeeps, ForkBeginsKeeps, ForkReturnsKeeps
  <2> QED
    BY <1>1, <2>3, <2>4
<1>2. ASSUME TracingInv, UNCHANGED vars PROVE TracingInv'
  <2>1. ChainInv'
    BY <1>2, ChainInvNext DEF vars, TracingInv
  <2>2. /\ seen' = seen /\ live' = live /\ slots' = slots /\ inCall' = inCall
        /\ parents' = parents /\ hasTable' = hasTable /\ tables' = tables
        /\ objects' = objects /\ infos' = infos
    BY <1>2 DEF vars, trackerVars, kernelVars
  <2>3. \A p \in live : GetTable(p)' = GetTable(p)
    BY <2>2 DEF GetTable
  <2>4. KernelTypeOK' /\ Counted' /\ Begun' /\ (Plain' => Plain) /\ (AtMostOne' => AtMostOne)
    BY <1>2, <2>2 DEF TracingInv, KernelTypeOK, Counted, Begun, Plain, Without, AtMostOne, Orphans
  <2>5. (Handed => Handed') /\ (AllAgree => AllAgree') /\ (AllCovered => AllCovered')
    BY <2>2, <2>3 DEF Handed, AllAgree, AllCovered
  <2>6. OpenMeansOpen'
    BY <1>2, <2>2 DEF TracingInv, OpenMeansOpen, IsOpen, ShownFd
  <2> QED
    BY <1>2, <2>1, <2>2, <2>4, <2>5, <2>6 DEF TracingInv
<1> QED
  BY <1>1, <1>2 DEF Next

----------------------------------------------------------------------------
(* The invariant holds at the start; what the runs check follows from it. *)

LEMMA InitHolds == Init => TracingInv
<1> SUFFICES ASSUME Init PROVE TracingInv
  OBVIOUS
<1>1. ChainInv /\ hasTable = {} /\ infos = <<>>
  BY ChainInvInit DEF Init, TrackerInit
<1>2. PICK first \in Pid : live = {first} /\ parents[first] = NoPid
  BY DEF Init
<1>3. /\ seen \in Behaviours /\ slots = [p \in Pid |-> [fd \in Fd |-> Closed]]
      /\ inCall = [p \in Pid |-> Idle]
  BY DEF Init
<1>4. KernelTypeOK
  BY <1>2, <1>3 DEF KernelTypeOK
<1>5. Counted
  BY <1>1, <1>2, FS_Singleton DEF Counted, Orphans
<1>6. Begun
  BY <1>3 DEF Begun
<1>7. Handed
  BY <1>2 DEF Handed
<1>8. \A p \in live : GetTable(p) = EmptyTable
  BY <1>1, <1>2 DEF GetTable
<1>9. AllAgree /\ AllCovered
  BY <1>2, <1>3, <1>8 DEF AllAgree, AllCovered, Agrees, Covers, EmptyTable
<1>10. OpenMeansOpen
  BY <1>1 DEF OpenMeansOpen
<1> QED
  BY <1>1, <1>4, <1>5, <1>6, <1>7, <1>9, <1>10 DEF TracingInv

LEMMA InvTablesAgree == TracingInv => TablesAgree
<1> SUFFICES ASSUME TracingInv PROVE TablesAgree
  OBVIOUS
<1>1. hasTable \subseteq live /\ TypeOK /\ KernelTypeOK
  BY TypedInv DEF TracingInv
<1>2. ASSUME seen = {}, NEW p \in Pid, NEW fd \in Fd, Bound(p, fd)
      PROVE  /\ slots[p][fd] # Closed
             /\ objects[tables[p][fd].object] = slots[p][fd].born
             /\ tables[p][fd].cloexec = slots[p][fd].cloexec
  <2>1. p \in hasTable /\ tables[p][fd] # Unbound
    BY <1>2 DEF Bound
  <2>2. Agrees(tables[p], slots[p], objects)
    BY <1>1, <1>2, <2>1 DEF TracingInv, AllAgree, GetTable
  <2> QED
    BY <2>1, <2>2 DEF Agrees
<1> QED
  BY <1>1, <1>2 DEF TablesAgree, TracingTypeOK, RightObjects, NoStaleBinding, RightMarks, IsOpen

LEMMA InvNothingForgotten == TracingInv => NothingForgotten
<1> SUFFICES ASSUME TracingInv, EveryParentKnown, Plain,
                    NEW p \in hasTable, NEW fd \in Fd, IsOpen(p, fd), slots[p][fd].born # 0
             PROVE  Bound(p, fd)
  BY DEF NothingForgotten, Plain
<1>1. hasTable \subseteq live /\ IsFiniteSet(live)
  BY DEF TracingInv, Counted
<1>2. AtMostOne
  <2>1. IsFiniteSet(Orphans)
    BY <1>1, FS_Subset DEF Orphans
  <2>2. Cardinality(Orphans) = 1
    BY DEF EveryParentKnown, Orphans
  <2>3. \E q : Orphans = {q}
    BY <2>1, <2>2, FS_Singleton
  <2> QED
    BY <2>3 DEF AtMostOne
<1>3. Covers(tables[p], slots[p])
  BY <1>1, <1>2 DEF TracingInv, AllCovered, GetTable
<1> QED
  BY <1>3 DEF Covers, Bound, IsOpen

LEMMA Invariant == Spec => []TracingInv
BY InitHolds, NextKeeps, PTL DEF Spec

\* For any number of processes, descriptors and events: the file and the close-on-exec
\* mark the analysis believes a descriptor has are the kernel's, and no binding
\* outlives its descriptor, across fork, exec, dup and the reuse of numbers.
THEOREM BeliefsAreRight == Spec => []TablesAgree
BY Invariant, InvTablesAgree, PTL

\* When the trace tells the parent of every process but the first, a descriptor made by
\* a known call is known in every process that has it, also where the child is printed
\* before its clone returns, and whatever unknown descriptors were duplicated.
THEOREM InheritanceIsComplete == Spec => []NothingForgotten
BY Invariant, InvNothingForgotten, PTL

\* The popup never says OPEN of a descriptor that its event leaves closed.
THEOREM OpenIsTrue == Spec => []OpenMeansOpen
<1>1. TracingInv => OpenMeansOpen
  BY DEF TracingInv
<1> QED
  BY Invariant, <1>1, PTL

\* The links of 'o' end at the origin in every trace strace can print of a kernel, the
\* split and interleaved calls included.
THEOREM TracedChainsEnd == Spec => []ChainReachesOrigin
<1>1. TracingInv => ChainReachesOrigin
  BY DEF TracingInv, ChainInv
<1> QED
  BY Invariant, <1>1, PTL
=============================================================================
