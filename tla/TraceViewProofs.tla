-------------------------- MODULE TraceViewProofs --------------------------
(***************************************************************************)
(* That the keys of strace-src act on an event that is on the screen, that *)
(* the list is what the filters let through, and that no popup changes its *)
(* event, for any number of events and frames and any order of arrivals    *)
(* and keys.                                                               *)
(***************************************************************************)
EXTENDS TraceView, WellFoundedInduction, TLAPS

\* A list that is not out of date.
Steady ==
    ~dirty =>
        /\ visible = Filtered(forced)
        /\ IF visible = {} THEN selected = 0 ELSE selected \in visible
        /\ follow /\ visible # {} => selected = LastOf(visible)

Clean == pc = "key" => ~dirty

\* What keeps the event under a popup, whether or not the list is out of date.
Held == mode \in {"stack", "fd"} => ~follow /\ selected \in Filtered(forced)

ViewInv == TypeOK /\ Clean /\ Steady /\ OverrideOfSelected /\ Held

----------------------------------------------------------------------------
(* Least and greatest numbers of a set *)

LEMMA Least ==
    \A T \in SUBSET Nat : T # {} => \E x \in T : \A y \in T : x <= y
<1> SUFFICES ASSUME NEW T \in SUBSET Nat, T # {}
    PROVE \E x \in T : \A y \in T : x <= y
  OBVIOUS
<1> DEFINE R == {ss \in Nat \X Nat : ss[1] < ss[2]}
<1>1. IsWellFoundedOn(R, Nat)
  BY NatLessThanWellFounded, Zenon DEF OpToRel
<1> HIDE DEF R
<1>2. PICK x \in T : \A y \in T : <<y, x>> \notin R
  BY <1>1, WFMin
<1>3. \A y \in T : x <= y
  <2> TAKE y \in T
  <2>1. y \in Nat /\ x \in Nat
    OBVIOUS
  <2>2. <<y, x>> \notin R
    BY <1>2
  <2> QED
    BY <2>1, <2>2 DEF R
<1> QED
  BY <1>3

LEMMA LastOfType ==
    \A n \in Nat : \A S \in SUBSET (1..n) : S # {} => LastOf(S) \in S
<1> SUFFICES ASSUME NEW n \in Nat, NEW S \in SUBSET (1..n), S # {}
    PROVE \E i \in S : \A j \in S : j <= i
  BY DEF LastOf
<1> DEFINE T == {d \in Nat : n - d \in S}
<1>1. PICK i \in S : TRUE
  OBVIOUS
<1>2. T \in SUBSET Nat /\ T # {}
  <2>1. n - i \in T
    BY <1>1
  <2> QED
    BY <2>1
<1>3. \A j \in S : n - j \in T
  OBVIOUS
<1>4. \A d \in T : n - d \in S
  OBVIOUS
<1> HIDE DEF T
<1>5. PICK x \in T : \A y \in T : x <= y
  BY <1>2, Least
<1>6. \A j \in S : j <= n - x
  BY <1>2, <1>3, <1>5
<1> QED
  BY <1>4, <1>6

----------------------------------------------------------------------------
(* What arrives does not hide an event *)

LEMMA SourceOfLeast ==
    \A e \in Events : Resolved(e) # {} =>
        \E m \in Resolved(e) : SourceOf(e) = e.frames[m] /\ \A j \in Resolved(e) : m <= j
<1> SUFFICES ASSUME NEW e \in Events, Resolved(e) # {}
    PROVE \E m \in Resolved(e) : SourceOf(e) = e.frames[m] /\ \A j \in Resolved(e) : m <= j
  OBVIOUS
<1>1. Resolved(e) \in SUBSET Nat
  BY DEF Resolved, Events
<1>2. PICK x \in Resolved(e) : \A j \in Resolved(e) : x <= j
  BY <1>1, Least
<1> DEFINE m == CHOOSE i \in Resolved(e) : \A j \in Resolved(e) : i <= j
<1>3. m \in Resolved(e) /\ \A j \in Resolved(e) : m <= j
  BY <1>2
<1>4. SourceOf(e) = e.frames[m]
  BY DEF SourceOf
<1> QED
  BY <1>3, <1>4

\* A frame more does not change what an event has been resolved to.
LEMMA SourceStays ==
    \A e \in Events : \A line \in Lines \cup {NoLine} :
        LET longer == [e EXCEPT !.frames = Append(@, line)]
        IN  longer \in Events /\ longer.kind = e.kind
            /\ (SourceOf(e) # NoLine => SourceOf(longer) = SourceOf(e))
<1> SUFFICES ASSUME NEW e \in Events, NEW line \in Lines \cup {NoLine}
    PROVE LET longer == [e EXCEPT !.frames = Append(@, line)]
          IN  longer \in Events /\ longer.kind = e.kind
              /\ (SourceOf(e) # NoLine => SourceOf(longer) = SourceOf(e))
  OBVIOUS
<1> DEFINE longer == [e EXCEPT !.frames = Append(@, line)]
<1>1. longer \in Events /\ longer.kind = e.kind /\ longer.frames = Append(e.frames, line)
  BY DEF Events
<1>2. Len(e.frames) \in Nat /\ DOMAIN e.frames = 1 .. Len(e.frames)
      /\ DOMAIN longer.frames = 1 .. Len(e.frames) + 1
  BY <1>1 DEF Events
<1>3. \A i \in DOMAIN e.frames : longer.frames[i] = e.frames[i]
  BY <1>1 DEF Events
<1> HIDE DEF longer
<1>4. ASSUME SourceOf(e) # NoLine PROVE SourceOf(longer) = SourceOf(e)
  <2>1. Resolved(e) # {}
    BY <1>4 DEF SourceOf
  <2>2. PICK m \in Resolved(e) :
            SourceOf(e) = e.frames[m] /\ \A j \in Resolved(e) : m <= j
    BY <2>1, SourceOfLeast
  <2>3. m \in Resolved(longer)
    BY <1>2, <1>3 DEF Resolved
  <2>4. PICK k \in Resolved(longer) :
            SourceOf(longer) = longer.frames[k] /\ \A j \in Resolved(longer) : k <= j
    BY <1>1, <2>3, SourceOfLeast
  <2>5. k <= m
    BY <2>3, <2>4
  <2>6. k \in Resolved(e)
    BY <1>2, <1>3, <2>5 DEF Resolved
  <2>7. m <= k
    BY <2>2, <2>6
  <2>8. k = m
    BY <1>2, <2>5, <2>7 DEF Resolved
  <2> QED
    BY <1>3, <2>2, <2>4, <2>8 DEF Resolved
<1> QED
  BY <1>1, <1>4 DEF longer

\* What an arrival does to the events there are.
Grown ==
    /\ events' \in Seq(Events) /\ DOMAIN events \subseteq DOMAIN events'
    /\ \A i \in DOMAIN events :
          /\ events'[i].kind = events[i].kind
          /\ SourceOf(events[i]) # NoLine => SourceOf(events'[i]) = SourceOf(events[i])
          /\ \A k \in DOMAIN events[i].frames :
                k \in DOMAIN events'[i].frames /\ events'[i].frames[k] = events[i].frames[k]

LEMMA NewEventGrows == TypeOK /\ NewEvent => Grown
<1> SUFFICES ASSUME TypeOK, NewEvent PROVE Grown
  OBVIOUS
<1>1. PICK kind \in Kinds : events' = Append(events, [kind |-> kind, frames |-> <<>>])
  BY DEF NewEvent
<1>2. [kind |-> kind, frames |-> <<>>] \in Events
  BY DEF Events
<1>3. events \in Seq(Events)
  BY DEF TypeOK
<1>4. events' \in Seq(Events) /\ DOMAIN events \subseteq DOMAIN events'
  BY <1>1, <1>2, <1>3
<1>5. \A i \in DOMAIN events : events'[i] = events[i]
  BY <1>1, <1>2, <1>3
<1> QED
  BY <1>4, <1>5 DEF Grown

LEMMA NewFrameGrows == TypeOK /\ NewFrame => Grown /\ DOMAIN events' = DOMAIN events
<1> SUFFICES ASSUME TypeOK, NewFrame PROVE Grown /\ DOMAIN events' = DOMAIN events
  OBVIOUS
<1>1. PICK line \in Lines \cup {NoLine} :
          events' = [events EXCEPT ![Len(events)].frames = Append(@, line)]
  BY DEF NewFrame
<1> DEFINE last == events[Len(events)]
           longer == [last EXCEPT !.frames = Append(@, line)]
<1>2. events \in Seq(Events) /\ events # <<>>
  BY DEF TypeOK, NewFrame
<1>3. Len(events) \in DOMAIN events /\ last \in Events
  BY <1>2
<1>4. events' = [events EXCEPT ![Len(events)] = longer]
  BY <1>1
<1>5. /\ longer \in Events /\ longer.kind = last.kind
      /\ SourceOf(last) # NoLine => SourceOf(longer) = SourceOf(last)
  BY <1>3, SourceStays
<1>6. \A k \in DOMAIN last.frames :
         k \in DOMAIN longer.frames /\ longer.frames[k] = last.frames[k]
  <2>1. last.frames \in Seq(Lines \cup {NoLine}) /\ longer.frames = Append(last.frames, line)
    BY <1>3 DEF Events
  <2> HIDE DEF last, longer
  <2> QED
    BY <2>1
<1> HIDE DEF longer
<1>7. /\ events' \in Seq(Events) /\ DOMAIN events' = DOMAIN events
      /\ events'[Len(events)] = longer
      /\ \A i \in DOMAIN events : i # Len(events) => events'[i] = events[i]
  BY <1>2, <1>3, <1>4, <1>5
<1> QED
  <2> SUFFICES ASSUME NEW i \in DOMAIN events
      PROVE /\ events'[i].kind = events[i].kind
            /\ SourceOf(events[i]) # NoLine => SourceOf(events'[i]) = SourceOf(events[i])
            /\ \A k \in DOMAIN events[i].frames :
                  k \in DOMAIN events'[i].frames /\ events'[i].frames[k] = events[i].frames[k]
    BY <1>7 DEF Grown
  <2>1. CASE i = Len(events)
    BY <1>5, <1>6, <1>7, <2>1
  <2>2. CASE i # Len(events)
    BY <1>7, <2>2
  <2> QED
    BY <2>1, <2>2

\* An event that the filters let through is let through when it has grown.
LEMMA ShownStays ==
    Grown /\ UNCHANGED <<forced, search, filter, lineFilter>>
        => Filtered(forced) \subseteq Filtered(forced)'
<1> SUFFICES ASSUME Grown, UNCHANGED <<forced, search, filter, lineFilter>>,
                    NEW i \in Filtered(forced)
    PROVE i \in Filtered(forced)'
  OBVIOUS
<1>1. i \in DOMAIN events /\ i \in DOMAIN events'
  BY DEF Filtered, Grown
<1>2. CASE i = forced
  BY <1>1, <1>2 DEF Filtered
<1>3. CASE EventVisible(events[i])
  <2>1. events'[i].kind = events[i].kind
    BY <1>1 DEF Grown
  <2>2. lineFilter = NoLine \/ SourceOf(events'[i]) = lineFilter
    BY <1>1, <1>3 DEF Grown, EventVisible
  <2>3. \A menu \in Menus : Passes(menu, events[i])
    BY <1>3 DEF EventVisible
  <2>4. \A menu \in Menus : Passes(menu, events[i])'
    BY <2>1, <2>3 DEF Passes, ItemOf
  <2>5. events[i].kind.name \in search
    BY <1>3 DEF EventVisible
  <2>6. EventVisible(events[i])'
    BY <2>1, <2>2, <2>4, <2>5 DEF EventVisible
  <2> QED
    BY <1>1, <2>6 DEF Filtered
<1> QED
  BY <1>2, <1>3 DEF Filtered

----------------------------------------------------------------------------
(* The list *)

LEMMA EventsInOrder ==
    TypeOK => /\ DOMAIN events = 1 .. Len(events) /\ Len(events) \in Nat
              /\ \A f : Filtered(f) \subseteq DOMAIN events
  BY DEF TypeOK, Filtered

LEMMA FilteredSame == UNCHANGED <<events, filters>> => Filtered(forced)' = Filtered(forced')
  BY DEF Filtered, EventVisible, Passes, ItemOf, filters

\* The selection that rebuild_visible leaves.
LEMMA SelectedInList ==
    TypeOK => \A S \in SUBSET DOMAIN events :
        /\ SelectedIn(TRUE, S) \in {0} \cup DOMAIN events
        /\ IF S = {} THEN SelectedIn(TRUE, S) = 0 ELSE SelectedIn(TRUE, S) \in S
        /\ follow /\ S # {} => SelectedIn(TRUE, S) = LastOf(S)
        /\ ~follow /\ selected \in S => SelectedIn(TRUE, S) = selected
<1> SUFFICES ASSUME TypeOK, NEW S \in SUBSET DOMAIN events
    PROVE /\ SelectedIn(TRUE, S) \in {0} \cup DOMAIN events
          /\ IF S = {} THEN SelectedIn(TRUE, S) = 0 ELSE SelectedIn(TRUE, S) \in S
          /\ follow /\ S # {} => SelectedIn(TRUE, S) = LastOf(S)
          /\ ~follow /\ selected \in S => SelectedIn(TRUE, S) = selected
  OBVIOUS
<1>1. S # {} => LastOf(S) \in S
  BY EventsInOrder, LastOfType
<1> QED
  BY <1>1 DEF SelectedIn

\* select_event.
LEMMA SelectEventKeeps ==
    TypeOK /\ OverrideOfSelected /\ UNCHANGED events =>
        \A s \in {0} \cup DOMAIN events : SelectEvent(s) =>
            /\ selected' \in {0} \cup DOMAIN events /\ override' \in Overrides
            /\ scrolled' \in BOOLEAN /\ OverrideOfSelected'
<1> SUFFICES ASSUME TypeOK, OverrideOfSelected, UNCHANGED events,
                    NEW s \in {0} \cup DOMAIN events, SelectEvent(s)
    PROVE /\ selected' \in {0} \cup DOMAIN events /\ override' \in Overrides
          /\ scrolled' \in BOOLEAN /\ OverrideOfSelected'
  OBVIOUS
<1>1. NoOverride \in Overrides
  BY DEF NoOverride, Overrides
<1>2. CASE s = selected
  BY <1>2 DEF SelectEvent, TypeOK, OverrideOfSelected, source, NoOverride
<1>3. CASE s # selected
  BY <1>1, <1>3 DEF SelectEvent, OverrideOfSelected, NoOverride
<1> QED
  BY <1>2, <1>3

\* rebuild_visible, when it follows select_event and nothing else.
LEMMA RebuildKeeps ==
    ASSUME TypeOK, Steady, OverrideOfSelected, UNCHANGED <<events, follow, filters>>,
           NEW stale \in BOOLEAN, dirty => stale,
           forced' \in {0} \cup DOMAIN events, ~stale => forced' = forced,
           visible' = Rebuilt(forced', stale), SelectEvent(SelectedIn(stale, visible'))
    PROVE  /\ visible' \subseteq DOMAIN events' /\ visible' = Filtered(forced)'
           /\ selected' \in {0} \cup DOMAIN events' /\ override' \in Overrides
           /\ scrolled' \in BOOLEAN
           /\ Steady' /\ OverrideOfSelected'
           /\ ~follow /\ selected \in Filtered(forced') => selected' = selected
<1>1. Filtered(forced)' = Filtered(forced')
  BY FilteredSame
<1>2. visible' = Filtered(forced')
  BY DEF Rebuilt, Steady
<1>3. visible' \in SUBSET DOMAIN events
  BY <1>2, EventsInOrder
<1>4. SelectedIn(stale, visible') \in {0} \cup DOMAIN events
  <2>1. CASE stale = TRUE
    BY <1>3, <2>1, SelectedInList
  <2>2. CASE stale = FALSE
    BY <2>2 DEF SelectedIn, TypeOK
  <2> QED
    BY <2>1, <2>2
<1>5. /\ selected' \in {0} \cup DOMAIN events /\ override' \in Overrides
      /\ scrolled' \in BOOLEAN /\ OverrideOfSelected'
  BY <1>4, SelectEventKeeps
<1>6. selected' = SelectedIn(stale, visible')
  BY DEF SelectEvent
<1>7. CASE stale = TRUE
  BY <1>1, <1>2, <1>3, <1>5, <1>6, <1>7, SelectedInList DEF Steady
<1>8. CASE stale = FALSE
  <2>1. selected' = selected
    BY <1>6, <1>8 DEF SelectedIn
  <2>2. visible' = visible
    BY <1>8 DEF Rebuilt
  <2> QED
    BY <1>1, <1>2, <1>3, <1>5, <1>8, <2>1, <2>2 DEF Steady
<1> QED
  BY <1>7, <1>8

----------------------------------------------------------------------------
(* Every step *)

LEMMA ViewInvInit == Init => ViewInv
<1> SUFFICES ASSUME Init PROVE ViewInv
  OBVIOUS
<1>1. TypeOK
  <2>1. override \in Overrides
    BY DEF Init, NoOverride, Overrides
  <2>2. filter \in [Menus -> [active : BOOLEAN, items : SUBSET (Names \cup Threads)]]
    <3>1. AllPass \in [active : BOOLEAN, items : SUBSET (Names \cup Threads)]
      BY DEF AllPass
    <3> QED
      BY <3>1 DEF Init
  <2>3. events \in Seq(Events) /\ DOMAIN events = {}
    BY DEF Init
  <2>4. keys \in 0..MaxKeys
    BY BoundsAssumption DEF Init
  <2> QED
    BY <2>1, <2>2, <2>3, <2>4 DEF TypeOK, Init, Modes
<1>2. Clean /\ Steady /\ OverrideOfSelected /\ Held
  BY DEF Init, Clean, Steady, OverrideOfSelected, Held
<1> QED
  BY <1>1, <1>2 DEF ViewInv

LEMMA PressKeeps == TypeOK /\ Press => pc' \in {"read", "key"} /\ keys' \in 0..MaxKeys
  BY BoundsAssumption DEF TypeOK, Press

\* A step that leaves the events, the list and what it depends on alone.
LEMMA ListKept ==
    Steady /\ UNCHANGED <<events, list, filters>> => Steady'
<1> SUFFICES ASSUME Steady, UNCHANGED <<events, list, filters>> PROVE Steady'
  OBVIOUS
<1>1. Filtered(forced)' = Filtered(forced)
  BY FilteredSame DEF list
<1> QED
  BY <1>1 DEF Steady, list

LEMMA OverrideKept ==
    OverrideOfSelected /\ UNCHANGED <<events, selected, override>> => OverrideOfSelected'
  BY DEF OverrideOfSelected

LEMMA HeldKept ==
    Held /\ UNCHANGED <<events, follow, selected, forced, filters>> /\ mode' \in {mode, "none"}
        => Held'
<1> SUFFICES ASSUME Held, UNCHANGED <<events, follow, selected, forced, filters>>,
                    mode' \in {mode, "none"}
    PROVE Held'
  OBVIOUS
<1>1. Filtered(forced)' = Filtered(forced)
  BY FilteredSame
<1> QED
  BY <1>1 DEF Held

LEMMA ArrivalKeeps == ViewInv /\ (NewEvent \/ NewFrame) => ViewInv'
<1> SUFFICES ASSUME ViewInv, NewEvent \/ NewFrame PROVE ViewInv'
  OBVIOUS
<1> USE DEF ViewInv
<1>1. Grown
  BY NewEventGrows, NewFrameGrows
<1>2. /\ UNCHANGED <<visible, selected, follow, forced, source, filters, focus, mode, listed, pc, keys>>
      /\ pc = "read" /\ dirty' \in BOOLEAN
  BY DEF NewEvent, NewFrame, TypeOK
<1>3. TypeOK'
  BY <1>1, <1>2 DEF TypeOK, Grown, source, filters
<1>4. Clean'
  BY <1>2 DEF Clean
<1>5. OverrideOfSelected'
  <2> SUFFICES ASSUME override # NoOverride
      PROVE /\ override.event = selected /\ selected # 0
            /\ \E i \in DOMAIN events'[selected].frames : events'[selected].frames[i] = override.line
    BY <1>2 DEF OverrideOfSelected, source
  <2>1. override.event = selected /\ selected # 0
    BY DEF OverrideOfSelected
  <2>2. selected \in DOMAIN events
    BY <2>1 DEF TypeOK
  <2> QED
    BY <1>1, <2>1, <2>2 DEF OverrideOfSelected, Grown
<1>6. Held'
  <2>1. Filtered(forced) \subseteq Filtered(forced)'
    BY <1>1, <1>2, ShownStays DEF filters
  <2> QED
    BY <1>2, <2>1 DEF Held
<1>7. Steady'
  <2>1. CASE NewEvent
    BY <2>1 DEF NewEvent, Steady
  <2>2. CASE NewFrame
    <3>1. CASE lineFilter # NoLine
      BY <2>2, <3>1 DEF NewFrame, Steady
    <3>2. CASE lineFilter = NoLine
      <4>1. \A i \in DOMAIN events : events'[i].kind = events[i].kind
        BY <1>1 DEF Grown
      <4>2. DOMAIN events' = DOMAIN events
        BY <2>2, NewFrameGrows
      <4>3. \A i \in DOMAIN events : EventVisible(events[i])' <=> EventVisible(events[i])
        BY <1>2, <3>2, <4>1 DEF EventVisible, Passes, ItemOf, filters
      <4>4. Filtered(forced)' = Filtered(forced)
        BY <1>2, <4>2, <4>3 DEF Filtered
      <4>5. ~dirty' => ~dirty
        BY <2>2, <3>2 DEF NewFrame
      <4>6. visible' = visible /\ selected' = selected /\ follow' = follow
        BY <1>2
      <4> QED
        BY <4>4, <4>5, <4>6 DEF Steady
    <3> QED
      BY <3>1, <3>2
  <2> QED
    BY <2>1, <2>2
<1> QED
  BY <1>3, <1>4, <1>5, <1>6, <1>7

LEMMA DrawKeeps == ViewInv /\ Draw => ViewInv' /\ (mode \in {"stack", "fd"} => selected' = selected)
<1> SUFFICES ASSUME ViewInv, Draw
    PROVE ViewInv' /\ (mode \in {"stack", "fd"} => selected' = selected)
  OBVIOUS
<1> USE DEF ViewInv
<1>1. /\ UNCHANGED <<events, follow, forced, filters, focus, mode, listed, keys>>
      /\ pc' = "key" /\ dirty' = FALSE /\ visible' = Rebuilt(forced', dirty)
      /\ SelectEvent(SelectedIn(dirty, visible')) /\ dirty \in BOOLEAN
      /\ forced' \in {0} \cup DOMAIN events
  BY DEF Draw, TypeOK
<1>2. /\ visible' \subseteq DOMAIN events'
      /\ selected' \in {0} \cup DOMAIN events' /\ override' \in Overrides
      /\ scrolled' \in BOOLEAN
      /\ Steady' /\ OverrideOfSelected'
      /\ ~follow /\ selected \in Filtered(forced') => selected' = selected
  BY <1>1, RebuildKeeps
<1>3. TypeOK'
  BY <1>1, <1>2 DEF TypeOK, filters
<1>4. Clean'
  BY <1>1 DEF Clean
<1>5. mode \in {"stack", "fd"} => selected' = selected
  BY <1>1, <1>2 DEF Held
<1>6. Held'
  BY <1>1, <1>5, HeldKept DEF Held
<1> QED
  BY <1>2, <1>3, <1>4, <1>5, <1>6

LEMMA NoKeyKeeps == ViewInv /\ (NoKey \/ IdleKey) => ViewInv'
<1> SUFFICES ASSUME ViewInv, NoKey \/ IdleKey PROVE ViewInv'
  OBVIOUS
<1> USE DEF ViewInv
<1>1. pc = "key" /\ pc' = "read" /\ UNCHANGED <<events, follow, filters, focus, mode, listed, keys>>
  BY DEF NoKey, IdleKey, list
<1>2. Clean'
  BY <1>1 DEF Clean
<1>3. CASE NoKey /\ mode = "none" /\ focus = "trace"
  <2> DEFINE stale == dirty \/ forced # 0
  <2>1. /\ forced' = 0 /\ dirty' = FALSE /\ visible' = Rebuilt(forced', stale)
        /\ SelectEvent(SelectedIn(stale, visible'))
    BY <1>3 DEF NoKey, Unforce
  <2>2. stale \in BOOLEAN /\ (dirty => stale) /\ (~stale => forced' = forced)
    BY <2>1 DEF TypeOK
  <2> HIDE DEF stale
  <2>3. /\ visible' \subseteq DOMAIN events'
        /\ selected' \in {0} \cup DOMAIN events' /\ override' \in Overrides
        /\ scrolled' \in BOOLEAN
        /\ Steady' /\ OverrideOfSelected'
    BY <1>1, <2>1, <2>2, RebuildKeeps
  <2>4. TypeOK'
    BY <1>1, <2>1, <2>3 DEF TypeOK, filters
  <2>5. Held'
    BY <1>1, <1>3 DEF Held
  <2> QED
    BY <1>2, <2>3, <2>4, <2>5
<1>4. CASE IdleKey \/ (NoKey /\ ~(mode = "none" /\ focus = "trace"))
  <2>1. UNCHANGED <<visible, dirty, selected, forced, source>>
    BY <1>4 DEF NoKey, IdleKey, list
  <2>2. TypeOK'
    BY <1>1, <2>1 DEF TypeOK, filters, source
  <2>3. Steady' /\ OverrideOfSelected' /\ Held'
    BY <1>1, <2>1, ListKept, OverrideKept, HeldKept DEF list, source
  <2> QED
    BY <1>2, <2>2, <2>3
<1> QED
  BY <1>3, <1>4

LEMMA NavigateKeeps == ViewInv /\ Navigate => ViewInv'
<1> SUFFICES ASSUME ViewInv, Navigate PROVE ViewInv'
  OBVIOUS
<1> USE DEF ViewInv
<1> DEFINE stale == dirty \/ forced # 0
<1>1. /\ Press /\ mode = "none" /\ UNCHANGED <<events, filters, focus, mode, listed>>
      /\ forced' = 0 /\ dirty' = FALSE /\ visible' = Rebuilt(forced', stale)
  BY DEF Navigate, PressIn
<1>2. PICK target \in visible' :
         /\ selected' = target /\ follow' = (target = LastOf(visible'))
         /\ IF SelectedIn(stale, visible') = selected /\ target = selected
            THEN UNCHANGED source
            ELSE override' = NoOverride /\ scrolled' = FALSE
  BY DEF Navigate
<1>3. pc' = "read" /\ keys' \in 0..MaxKeys
  BY <1>1, PressKeeps DEF Press
<1>4. visible' = Filtered(forced')
  BY <1>1 DEF Rebuilt, Steady, TypeOK
<1>5. visible' \subseteq DOMAIN events' /\ target \in DOMAIN events
  BY <1>1, <1>4, EventsInOrder
<1>6. Filtered(forced)' = Filtered(forced')
  BY <1>1, FilteredSame
<1>7. Steady'
  BY <1>2, <1>4, <1>6 DEF Steady
<1>8. OverrideOfSelected' /\ override' \in Overrides /\ scrolled' \in BOOLEAN
  <2>1. CASE target = selected /\ UNCHANGED source
    BY <1>1, <1>2, <2>1, OverrideKept DEF source, TypeOK
  <2>2. CASE override' = NoOverride /\ scrolled' = FALSE
    BY <2>2 DEF OverrideOfSelected, NoOverride, Overrides
  <2> QED
    BY <1>2, <2>1, <2>2
<1>9. TypeOK'
  <2>1. follow' \in BOOLEAN /\ selected' \in DOMAIN events'
    BY <1>1, <1>2, <1>5
  <2> QED
    BY <1>1, <1>3, <1>5, <1>8, <2>1 DEF TypeOK, filters
<1>10. Clean' /\ Held'
  BY <1>1, <1>3 DEF Clean, Held
<1> QED
  BY <1>7, <1>8, <1>9, <1>10

\* The keys after which the list has to be made again.
LEMMA ChangesKeep ==
    ViewInv /\ (\/ AcceptInput \/ ReverseFromSelected \/ JumpFdOrigin \/ ClearFilters
                \/ \E menu \in Menus : ApplyMenu(menu))
        => ViewInv'
<1> SUFFICES ASSUME ViewInv,
                    \/ AcceptInput \/ ReverseFromSelected \/ JumpFdOrigin \/ ClearFilters
                    \/ \E menu \in Menus : ApplyMenu(menu)
    PROVE ViewInv'
  OBVIOUS
<1> USE DEF ViewInv
<1>1. Press /\ dirty' = TRUE /\ mode' = "none" /\ UNCHANGED <<events, visible, focus>>
  BY DEF AcceptInput, ReverseFromSelected, JumpFdOrigin, ClearFilters, ApplyMenu, PressIn
<1>2. Clean' /\ Steady' /\ Held'
  BY <1>1 DEF Clean, Steady, Held, Press
<1>3. pc' = "read" /\ keys' \in 0..MaxKeys
  BY <1>1, PressKeeps DEF Press
<1>4. CASE AcceptInput
  <2>1. TypeOK'
    BY <1>1, <1>3, <1>4 DEF AcceptInput, TypeOK, Modes, source
  <2>2. OverrideOfSelected'
    BY <1>1, <1>4, OverrideKept DEF AcceptInput, source
  <2> QED
    BY <1>2, <2>1, <2>2
<1>5. CASE ReverseFromSelected
  <2>1. lineFilter' \in Lines \cup {NoLine}
    <3>1. lineFilter' = Displayed /\ selected \in DOMAIN events
      BY <1>5 DEF ReverseFromSelected, TypeOK
    <3>2. events[selected] \in Events
      BY <3>1 DEF TypeOK
    <3>3. SourceOf(events[selected]) \in Lines \cup {NoLine}
      <4>1. CASE Resolved(events[selected]) = {}
        BY <4>1 DEF SourceOf
      <4>2. CASE Resolved(events[selected]) # {}
        BY <3>2, <4>2, SourceOfLeast DEF Resolved, Events
      <4> QED
        BY <4>1, <4>2
    <3> QED
      BY <3>1, <3>3 DEF Displayed, TypeOK, Overrides
  <2>2. TypeOK'
    BY <1>1, <1>3, <1>5, <2>1 DEF ReverseFromSelected, TypeOK, Modes, source
  <2>3. OverrideOfSelected'
    BY <1>1, <1>5, OverrideKept DEF ReverseFromSelected, source
  <2> QED
    BY <1>2, <2>2, <2>3
<1>6. CASE JumpFdOrigin
  <2>1. PICK target \in 1 .. selected - 1 : forced' = target /\ SelectEvent(target)
    BY <1>6 DEF JumpFdOrigin
  <2>2. target \in DOMAIN events
    BY EventsInOrder DEF TypeOK
  <2>3. /\ selected' \in {0} \cup DOMAIN events /\ override' \in Overrides
        /\ scrolled' \in BOOLEAN /\ OverrideOfSelected'
    BY <1>1, <2>1, <2>2, SelectEventKeeps
  <2>4. TypeOK'
    BY <1>1, <1>3, <1>6, <2>1, <2>2, <2>3 DEF JumpFdOrigin, TypeOK, Modes, filters
  <2> QED
    BY <1>2, <2>3, <2>4
<1>7. CASE ClearFilters
  <2>1. filter' \in [Menus -> [active : BOOLEAN, items : SUBSET (Names \cup Threads)]]
    <3>1. AllPass \in [active : BOOLEAN, items : SUBSET (Names \cup Threads)]
      BY DEF AllPass
    <3> QED
      BY <1>7, <3>1 DEF ClearFilters
  <2>2. TypeOK'
    BY <1>1, <1>3, <1>7, <2>1 DEF ClearFilters, TypeOK, Modes, source
  <2>3. OverrideOfSelected'
    BY <1>1, <1>7, OverrideKept DEF ClearFilters, source
  <2> QED
    BY <1>2, <2>2, <2>3
<1>8. ASSUME NEW menu \in Menus, ApplyMenu(menu) PROVE ViewInv'
  <2>1. filter' \in [Menus -> [active : BOOLEAN, items : SUBSET (Names \cup Threads)]]
    <3>1. PICK checked \in SUBSET listed :
             filter' = [filter EXCEPT ![menu] =
                          IF checked = listed THEN AllPass
                          ELSE [active |-> TRUE, items |-> checked]]
      BY <1>8 DEF ApplyMenu
    <3>2. AllPass \in [active : BOOLEAN, items : SUBSET (Names \cup Threads)]
      BY DEF AllPass
    <3>3. [active |-> TRUE, items |-> checked]
             \in [active : BOOLEAN, items : SUBSET (Names \cup Threads)]
      BY DEF TypeOK
    <3> QED
      BY <3>1, <3>2, <3>3 DEF TypeOK
  <2>2. TypeOK'
    BY <1>1, <1>3, <1>8, <2>1 DEF ApplyMenu, TypeOK, Modes, source
  <2>3. OverrideOfSelected'
    BY <1>1, <1>8, OverrideKept DEF ApplyMenu, source
  <2> QED
    BY <1>2, <2>2, <2>3
<1> QED
  BY <1>4, <1>5, <1>6, <1>7, <1>8

\* The keys that leave the list as it is.
LEMMA OthersKeep ==
    ViewInv /\ (\/ Scroll \/ Tab \/ BeginInput \/ OpenPopup \/ UseStackSource \/ Close
                \/ \E menu \in Menus : OpenMenu(menu))
        => ViewInv'
<1> SUFFICES ASSUME ViewInv,
                    \/ Scroll \/ Tab \/ BeginInput \/ OpenPopup \/ UseStackSource \/ Close
                    \/ \E menu \in Menus : OpenMenu(menu)
    PROVE ViewInv'
  OBVIOUS
<1> USE DEF ViewInv
<1>1. Press /\ UNCHANGED <<events, list, filters>> /\ mode' \in Modes \ {"stack", "fd"}
  BY DEF Scroll, Tab, BeginInput, OpenPopup, UseStackSource, Close, OpenMenu, PressIn, Modes, Menus
<1>2. pc' = "read" /\ keys' \in 0..MaxKeys
  BY <1>1, PressKeeps DEF Press
<1>3. Clean' /\ Steady' /\ Held'
  BY <1>1, <1>2, ListKept DEF Clean, Held
<1>4. listed' \in SUBSET (Names \cup Threads) /\ focus' \in {"trace", "source"}
      /\ scrolled' \in BOOLEAN
  <2>1. CASE Scroll \/ Tab \/ BeginInput \/ OpenPopup \/ UseStackSource \/ Close
    BY <2>1 DEF Scroll, Tab, BeginInput, OpenPopup, UseStackSource, Close, TypeOK, source
  <2>2. ASSUME NEW menu \in Menus, OpenMenu(menu)
        PROVE listed' \in SUBSET (Names \cup Threads) /\ UNCHANGED <<focus, scrolled>>
    <3>1. \A i \in DOMAIN events : ItemOf(menu, events[i]) \in Names \cup Threads
      <4> TAKE i \in DOMAIN events
      <4>1. events[i] \in Events
        BY DEF TypeOK
      <4>2. events[i].kind \in [name : Names, thread : Threads, resumed : BOOLEAN]
        BY <4>1, KindsAssumption DEF Events
      <4> QED
        BY <4>2 DEF ItemOf
    <3> QED
      BY <2>2, <3>1 DEF OpenMenu, source
  <2> QED
    BY <2>1, <2>2 DEF TypeOK
<1>5. override' \in Overrides /\ OverrideOfSelected'
  <2>1. CASE UseStackSource
    <3>1. PICK i \in Resolved(events[selected]) :
             override' = [event |-> selected, line |-> events[selected].frames[i]]
      BY <2>1 DEF UseStackSource
    <3>2. mode = "stack"
      BY <2>1 DEF UseStackSource, PressIn
    <3>3. selected \in DOMAIN events /\ selected \in Nat /\ selected # 0
      BY <3>2, EventsInOrder DEF Held
    <3>4. events[selected] \in Events
      BY <3>3 DEF TypeOK
    <3>5. i \in DOMAIN events[selected].frames
          /\ events[selected].frames[i] \in Lines \cup {NoLine}
      BY <3>1, <3>4 DEF Resolved, Events
    <3>6. override' \in Overrides
      BY <3>1, <3>3, <3>5 DEF Overrides
    <3>7. selected' = selected /\ events' = events
      BY <1>1 DEF list
    <3> QED
      BY <3>1, <3>3, <3>5, <3>6, <3>7 DEF OverrideOfSelected
  <2>2. CASE UNCHANGED override
    BY <1>1, <2>2, OverrideKept DEF list, TypeOK
  <2> QED
    BY <2>1, <2>2 DEF Scroll, Tab, BeginInput, OpenPopup, Close, OpenMenu, source
<1>6. TypeOK'
  BY <1>1, <1>2, <1>4, <1>5 DEF TypeOK, list, filters
<1> QED
  BY <1>3, <1>5, <1>6

LEMMA PopupsKeep == ViewInv /\ (OpenStack \/ OpenFdInfo) => ViewInv'
<1> SUFFICES ASSUME ViewInv, OpenStack \/ OpenFdInfo PROVE ViewInv'
  OBVIOUS
<1> USE DEF ViewInv
<1>1. /\ Press /\ selected # 0 /\ mode' \in {"stack", "fd"} /\ follow' = FALSE
      /\ UNCHANGED <<events, visible, dirty, selected, forced, source, filters, focus, listed>>
  BY DEF OpenStack, OpenFdInfo, PressIn
<1>2. pc' = "read" /\ pc = "key" /\ keys' \in 0..MaxKeys
  BY <1>1, PressKeeps DEF Press
<1>3. TypeOK'
  BY <1>1, <1>2 DEF TypeOK, Modes, source, filters
<1>4. Filtered(forced)' = Filtered(forced)
  BY <1>1, FilteredSame
<1>5. ~dirty /\ selected \in Filtered(forced)
  BY <1>1, <1>2 DEF Clean, Steady
<1>6. Steady'
  BY <1>1, <1>4 DEF Steady
<1>7. Clean' /\ Held'
  BY <1>1, <1>2, <1>4, <1>5 DEF Clean, Held
<1>8. OverrideOfSelected'
  BY <1>1, OverrideKept DEF source
<1> QED
  BY <1>3, <1>6, <1>7, <1>8

LEMMA StutterKeeps == ViewInv /\ UNCHANGED vars => ViewInv'
<1> SUFFICES ASSUME ViewInv, UNCHANGED vars PROVE ViewInv'
  OBVIOUS
<1> USE DEF ViewInv, vars
<1>1. TypeOK'
  BY DEF TypeOK, list, source, filters
<1>2. Steady' /\ OverrideOfSelected' /\ Held'
  BY ListKept, OverrideKept, HeldKept DEF list, source
<1>3. Clean'
  BY DEF Clean, list
<1> QED
  BY <1>1, <1>2, <1>3

LEMMA ViewInvNext == ViewInv /\ [Next]_vars => ViewInv'
  BY ArrivalKeeps, DrawKeeps, NoKeyKeeps, NavigateKeeps, ChangesKeep, OthersKeep,
     PopupsKeep, StutterKeeps DEF Next, Key

----------------------------------------------------------------------------
(* The theorems *)

\* Every value of the view is of its type, in every state that the loop of main reaches:
\* no key and no arrival leaves a selection or a list of events that there are not.
THEOREM ViewTypeCorrect == Spec => []TypeOK
<1>1. ViewInv => TypeOK
  BY DEF ViewInv
<1> QED
  BY <1>1, ViewInvInit, ViewInvNext, PTL DEF Spec

\* When a key is awaited, the list on the screen is what rebuild_visible would make of
\* everything that has arrived: no arrival and no key forgets to mark it out of date.
THEOREM ListIsCurrent == Spec => []ShownIsFiltered
<1>1. ViewInv => ShownIsFiltered
  BY DEF ViewInv, Clean, Steady, ShownIsFiltered
<1> QED
  BY <1>1, ViewInvInit, ViewInvNext, PTL DEF Spec

\* Keys act on an event that is on the screen, or the list is empty and on none.
THEOREM SelectionOnScreen == Spec => []SelectionShown
<1>1. ViewInv => SelectionShown
  BY DEF ViewInv, Clean, Steady, SelectionShown
<1> QED
  BY <1>1, ViewInvInit, ViewInvNext, PTL DEF Spec

\* While it follows, the selection is the latest event of the list, however many arrived
\* between two keys.
THEOREM FollowingIsLatest == Spec => []FollowsLatest
<1>1. ViewInv => FollowsLatest
  BY DEF ViewInv, Clean, Steady, FollowsLatest
<1> QED
  BY <1>1, ViewInvInit, ViewInvNext, PTL DEF Spec

\* The source line chosen in the stack popup belongs to the selected event, or is forgotten.
THEOREM OverrideFollows == Spec => []OverrideOfSelected
<1>1. ViewInv => OverrideOfSelected
  BY DEF ViewInv
<1> QED
  BY <1>1, ViewInvInit, ViewInvNext, PTL DEF Spec

\* Neither an arrival nor a key exchanges the event whose stack or descriptor a popup shows.
THEOREM PopupKeepsItsEvent == Spec => PopupKeepsEvent
<1>1. ASSUME ViewInv, [Next]_vars
      PROVE  [(mode \in {"stack", "fd"}) => (selected' = selected)]_vars
  <2> SUFFICES ASSUME Next, mode \in {"stack", "fd"} PROVE selected' = selected
    BY <1>1
  <2>1. CASE Draw
    BY <1>1, <2>1, DrawKeeps
  <2>2. CASE NewEvent \/ NewFrame \/ NoKey \/ IdleKey
    BY <2>2 DEF NewEvent, NewFrame, NoKey, IdleKey, list
  <2>3. CASE Key
    BY <2>3 DEF Key, Navigate, Scroll, Tab, BeginInput, AcceptInput, OpenMenu, ApplyMenu,
        OpenPopup, OpenFdInfo, OpenStack, UseStackSource, Close, ReverseFromSelected,
        JumpFdOrigin, ClearFilters, PressIn, list, Menus
  <2> QED
    BY <2>1, <2>2, <2>3 DEF Next
<1> QED
  BY <1>1, ViewInvInit, ViewInvNext, PTL DEF Spec, PopupKeepsEvent
============================================================================
