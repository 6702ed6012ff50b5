------------------------- MODULE TestforgeAppProofs -------------------------
(***************************************************************************)
(* That testforge opens what it shows, lets no memory action go beyond the *)
(* memory there is (but for a leak without a maximum), and tells of each   *)
(* job how its own process ended: for any catalog, any search, any number  *)
(* of jobs and process ids.                                                *)
(***************************************************************************)
EXTENDS TestforgeApp, FiniteSetTheorems, SequenceTheorems, TLAPS

\* A draft is of an action, with a value for each of its parameters.
IsDraft(d) ==
    /\ d = [action |-> d.action, values |-> d.values]
    /\ d.action \in DOMAIN Actions
    /\ d.values = [n \in DOMAIN Params(d) |-> d.values[n]]
    /\ \A n \in DOMAIN Params(d) : ParamOf(d, n).type = "mem" => d.values[n] \in Nat

Selections ==
    /\ category \in 1..Len(Categories) /\ action \in 1..Len(Actions) /\ param \in Nat
    /\ view \in {"categories", "actions", "config"} /\ focus \in {0, 1}
    /\ opened \in 0..Len(Categories) /\ search \in Searches
    /\ dryRun \in BOOLEAN /\ mem \in Memories
    /\ at \in {"top", "key", "search", "value", "gone"}

Drafted ==
    /\ draft # <<>> => IsDraft(draft)
    /\ at = "value" => draft # <<>>

\* What is lit is what is selected, until a key is handled.
LitRight ==
    lit # 0 =>
        /\ at = "key"
        /\ lit = IF opened = 0 THEN Nth(CategoriesShown(search), category)
                 ELSE Nth(ActionsShown(search), action)

ScreenInv == Selections /\ Drafted /\ Coherent /\ LitRight

Children == [pid : Pids, state : {"running", "zombie", "reaped"}, code : {0, -1}]
Jobs == [pid : Nat, child : Nat, state : {"dry", "running", "exited", "failed"}, code : Int]

\* Two children not yet waited for have different process ids.
PidsUnique ==
    \A m, n \in 1..Len(procs) :
        procs[m].state # "reaped" /\ procs[n].state # "reaped" /\ procs[m].pid = procs[n].pid => m = n

\* A job that runs has a child of its own, with its process id, that nobody has waited for.
JobsHaveChildren ==
    \A i \in 1..Len(jobs) :
        /\ jobs[i].state # "dry" => jobs[i].child \in 1..Len(procs)
        /\ jobs[i].state = "running" =>
              /\ procs[jobs[i].child].pid = jobs[i].pid
              /\ procs[jobs[i].child].state # "reaped"
        /\ \A k \in 1..Len(jobs) :
              jobs[i].state # "dry" /\ jobs[k].state # "dry" /\ jobs[i].child = jobs[k].child => i = k

JobsInv ==
    /\ procs \in Seq(Children) /\ jobs \in Seq(Jobs) /\ Len(jobs) <= MaxJobs
    /\ PidsUnique /\ JobsHaveChildren /\ ResultIsOwn

----------------------------------------------------------------------------
(* The catalog *)

LEMMA Catalog ==
  /\ Len(Categories) \in Nat \ {0} /\ DOMAIN Categories = 1..Len(Categories)
  /\ Len(Actions) \in Nat \ {0} /\ DOMAIN Actions = 1..Len(Actions)
  /\ \A a \in DOMAIN Actions :
        /\ Len(Actions[a].params) \in Nat \ {0}
        /\ DOMAIN Actions[a].params = 1..Len(Actions[a].params)
        /\ \A n \in DOMAIN Actions[a].params :
              Actions[a].params[n].type = "mem" => Actions[a].params[n].default \in Nat
<1>1. /\ Categories \in Seq(Range(Categories)) /\ Categories # <<>>
      /\ Actions \in Seq(Range(Actions)) /\ Actions # <<>>
  BY CatalogAssumption
<1>2. /\ Len(Categories) \in Nat \ {0} /\ DOMAIN Categories = 1..Len(Categories)
      /\ Len(Actions) \in Nat \ {0} /\ DOMAIN Actions = 1..Len(Actions)
  BY <1>1, EmptySeq, LenProperties
<1>3. ASSUME NEW a \in DOMAIN Actions
      PROVE /\ Len(Actions[a].params) \in Nat \ {0}
            /\ DOMAIN Actions[a].params = 1..Len(Actions[a].params)
            /\ \A n \in DOMAIN Actions[a].params :
                  Actions[a].params[n].type = "mem" => Actions[a].params[n].default \in Nat
  <2> DEFINE params == Actions[a].params
  <2>1. Actions[a] \in Range(Actions)
    BY DEF Range
  <2>2. params \in Seq(Range(params)) /\ Len(params) > 0
        /\ \A p \in Range(params) : p.type = "mem" => p.default \in Nat
    BY <2>1, CatalogAssumption DEF Numeric
  <2>3. \A n \in DOMAIN params : params[n] \in Range(params)
    BY DEF Range
  <2> HIDE DEF params
  <2>4. Len(params) \in Nat /\ DOMAIN params = 1..Len(params)
    BY <2>2, LenProperties
  <2> QED
    BY <2>2, <2>3, <2>4 DEF params
<1> QED
  BY <1>2, <1>3

LEMMA ShownIsFinite ==
  /\ \A s : /\ IsFiniteSet(CategoriesShown(s)) /\ CategoriesShown(s) \subseteq 1..Len(Categories)
            /\ Cardinality(CategoriesShown(s)) \in 0..Len(Categories)
  /\ \A s : /\ IsFiniteSet(ActionsShown(s)) /\ ActionsShown(s) \subseteq 1..Len(Actions)
            /\ Cardinality(ActionsShown(s)) \in 0..Len(Actions)
<1>1. ASSUME NEW n \in Nat, NEW shown, shown \subseteq 1..n
      PROVE IsFiniteSet(shown) /\ Cardinality(shown) \in 0..n
  <2>1. IsFiniteSet(1..n) /\ Cardinality(1..n) = n
    BY FS_Interval
  <2>2. IsFiniteSet(shown) /\ Cardinality(shown) \in Nat /\ Cardinality(shown) <= n
    BY <1>1, <2>1, FS_Subset, FS_CardinalityType
  <2> QED
    BY <2>2
<1>2. \A s : CategoriesShown(s) \subseteq 1..Len(Categories)
  BY Catalog DEF CategoriesShown
<1>3. \A s : ActionsShown(s) \subseteq 1..Len(Actions)
  BY Catalog DEF ActionsShown
<1> QED
  BY <1>1, <1>2, <1>3, Catalog

LEMMA NthIsShown == \A shown, n : Nth(shown, n) # 0 => Nth(shown, n) \in shown
  BY DEF Nth

LEMMA InsideIsInside ==
  ASSUME NEW last \in Nat \ {0}, NEW n \in 1..last, NEW shown, IsFiniteSet(shown),
         Cardinality(shown) \in 0..last
  PROVE  Inside(n, shown) \in 1..last
<1>1. shown # {} => Cardinality(shown) # 0
  BY FS_EmptySet
<1> QED
  BY <1>1 DEF Inside

LEMMA MovedInside ==
  ASSUME NEW n \in Nat, NEW step \in {-1, 1}, NEW last \in Int, NEW end \in Nat, n \in 1..end,
         step = 1 => last <= end
  PROVE  Moved(n, step, last) \in 1..end
  BY DEF Moved

----------------------------------------------------------------------------
(* Drafts *)

LEMMA ModSmall == \A x, y \in Nat : x < y => x % y = x
  OBVIOUS

\* atoi leaves alone what fits an int.
LEMMA AtoiFits ==
  /\ \A n \in Nat : Atoi(n) \in Int
  /\ \A n \in Nat : n < IntRange => Atoi(n) = n
<1>1. IntRange \in Nat /\ IntRange > 0 /\ 2 * IntRange \in Nat /\ 2 * IntRange > 0
  BY BoundsAssumption
<1> DEFINE w == 2 * IntRange
<1>2. w \in Nat /\ w > 0
  BY <1>1
<1>3. ASSUME NEW n \in Nat PROVE Atoi(n) \in Int
  <2>1. Atoi(n) = ((n + IntRange) % w) - IntRange
    BY DEF Atoi
  <2> HIDE DEF w
  <2>2. (n + IntRange) % w \in Int
    BY <1>1, <1>2
  <2> QED
    BY <1>1, <2>1, <2>2
<1>4. ASSUME NEW n \in Nat, n < IntRange PROVE Atoi(n) = n
  <2>1. Atoi(n) = ((n + IntRange) % w) - IntRange
    BY DEF Atoi
  <2>2. n + IntRange < w /\ n + IntRange \in Nat
    BY <1>1, <1>4
  <2> HIDE DEF w
  <2>3. (n + IntRange) % w = n + IntRange
    BY <1>2, <2>2, ModSmall
  <2> QED
    BY <1>1, <2>1, <2>3
<1> QED
  BY <1>3, <1>4

LEMMA DraftIsThere == \A d : IsDraft(d) => d # <<>>
<1> SUFFICES ASSUME NEW d, IsDraft(d), d = <<>> PROVE FALSE
  OBVIOUS
<1>1. DOMAIN d = {"action", "values"}
  BY DEF IsDraft
<1>2. DOMAIN d = {}
  OBVIOUS
<1> QED
  BY <1>1, <1>2

LEMMA DraftParams ==
  ASSUME NEW d, IsDraft(d)
  PROVE  /\ DOMAIN d.values = 1..Len(Params(d)) /\ DOMAIN Params(d) = 1..Len(Params(d))
         /\ Len(Params(d)) \in Nat \ {0}
<1>1. DOMAIN d.values = DOMAIN Params(d)
  BY DEF IsDraft
<1> QED
  BY <1>1, Catalog DEF IsDraft, Params

LEMMA ClampedIsDraft ==
  ASSUME NEW d, IsDraft(d), NEW limit \in Nat
  PROVE  /\ IsDraft(Clamped(d, limit)) /\ Clamped(d, limit).action = d.action
         /\ DOMAIN Clamped(d, limit).values = DOMAIN d.values
         /\ limit > 0 /\ limit < IntRange =>
               \A n \in DOMAIN d.values :
                  ParamOf(d, n).type = "mem" => Atoi(Clamped(d, limit).values[n]) <= limit
<1> DEFINE v(n) == IF ParamOf(d, n).type = "mem" /\ limit > 0 /\ Atoi(d.values[n]) > limit
                   THEN limit ELSE d.values[n]
           vs == [n \in DOMAIN d.values |-> v(n)]
           new == Clamped(d, limit)
<1>1. d = [action |-> d.action, values |-> d.values]
  BY DEF IsDraft
<1>2. new = [d EXCEPT !.values = vs]
  BY DEF Clamped
<1>3. DOMAIN d.values = DOMAIN Params(d)
  BY DEF IsDraft
<1> HIDE DEF new
<1>4. DOMAIN vs = DOMAIN d.values /\ \A n \in DOMAIN d.values : vs[n] = v(n)
  OBVIOUS
<1>5. vs = [n \in DOMAIN d.values |-> vs[n]]
  BY <1>4
<1>6. \A n \in DOMAIN d.values : ParamOf(d, n).type = "mem" => d.values[n] \in Nat
  BY <1>3 DEF IsDraft
<1>7. \A n \in DOMAIN d.values : ParamOf(d, n).type = "mem" => v(n) \in Nat
  BY <1>6
<1>8. ASSUME limit > 0, limit < IntRange, NEW n \in DOMAIN d.values, ParamOf(d, n).type = "mem"
      PROVE  Atoi(v(n)) <= limit
  <2>1. Atoi(d.values[n]) \in Int /\ Atoi(limit) = limit
    BY <1>6, <1>8, AtoiFits
  <2> QED
    BY <1>8, <2>1
<1> HIDE DEF v, vs
<1>9. new = [action |-> d.action, values |-> vs]
  BY <1>1, <1>2
<1>10. new.action = d.action /\ new.values = vs
  BY <1>9
<1>11. Params(new) = Params(d) /\ \A n : ParamOf(new, n) = ParamOf(d, n)
  BY <1>10 DEF Params, ParamOf
<1>12. IsDraft(new)
  BY <1>3, <1>4, <1>5, <1>7, <1>9, <1>10, <1>11 DEF IsDraft
<1> QED
  BY <1>4, <1>8, <1>10, <1>12 DEF new

LEMMA MakeStepIsDraft ==
  ASSUME NEW a \in DOMAIN Actions
  PROVE  IsDraft(MakeStep(a)) /\ MakeStep(a).action = a
<1> DEFINE vs == [n \in DOMAIN Actions[a].params |-> Actions[a].params[n].default]
           new == MakeStep(a)
<1>1. new = [action |-> a, values |-> vs]
  BY DEF MakeStep
<1>2. DOMAIN vs = DOMAIN Actions[a].params
      /\ \A n \in DOMAIN Actions[a].params : vs[n] = Actions[a].params[n].default
  OBVIOUS
<1>3. vs = [n \in DOMAIN Actions[a].params |-> vs[n]]
  OBVIOUS
<1> HIDE DEF vs, new
<1>4. new.action = a /\ new.values = vs
  BY <1>1
<1>5. Params(new) = Actions[a].params
  BY <1>4 DEF Params
<1>6. IsDraft(new)
  BY <1>1, <1>2, <1>3, <1>4, <1>5, Catalog DEF IsDraft, ParamOf
<1> QED
  BY <1>4, <1>6 DEF new

LEMMA ChangedIsDraft ==
  ASSUME NEW d, IsDraft(d), NEW n \in DOMAIN d.values, NEW value,
         ParamOf(d, n).type = "mem" => value \in Nat
  PROVE  LET new == [d EXCEPT !.values[n] = value]
         IN  IsDraft(new) /\ new.action = d.action /\ DOMAIN new.values = DOMAIN d.values
<1> DEFINE new == [d EXCEPT !.values[n] = value]
           vs == [d.values EXCEPT ![n] = value]
<1>1. d = [action |-> d.action, values |-> d.values]
      /\ d.values = [k \in DOMAIN Params(d) |-> d.values[k]] /\ DOMAIN d.values = DOMAIN Params(d)
  BY DEF IsDraft
<1>2. new = [action |-> d.action, values |-> vs]
  BY <1>1
<1>3. DOMAIN vs = DOMAIN d.values /\ vs[n] = value
      /\ \A k \in DOMAIN d.values : k # n => vs[k] = d.values[k]
  OBVIOUS
<1>4. vs = [k \in DOMAIN d.values |-> vs[k]]
  OBVIOUS
<1> HIDE DEF vs, new
<1>5. new.action = d.action /\ new.values = vs
  BY <1>2
<1>6. Params(new) = Params(d) /\ \A k : ParamOf(new, k) = ParamOf(d, k)
  BY <1>5 DEF Params, ParamOf
<1>7. \A k \in DOMAIN Params(d) : ParamOf(d, k).type = "mem" => vs[k] \in Nat
  BY <1>1, <1>3 DEF IsDraft
<1>8. IsDraft(new)
  BY <1>1, <1>2, <1>3, <1>4, <1>5, <1>6, <1>7 DEF IsDraft
<1> QED
  BY <1>3, <1>5, <1>8 DEF new

----------------------------------------------------------------------------
(* Where the user is *)

LEMMA ScreenInit == Init => ScreenInv
<1> SUFFICES ASSUME Init PROVE ScreenInv
  OBVIOUS
<1>1. Selections
  BY Catalog, CatalogAssumption DEF Init, Selections
<1>2. Drafted /\ Coherent /\ LitRight
  BY DEF Init, Drafted, Coherent, LitRight
<1> QED
  BY <1>1, <1>2 DEF ScreenInv

\* Keys that change no more than the place in the loop, and answers that are not given.
LEMMA SamePlace ==
  ASSUME ScreenInv, UNCHANGED app, mem' \in Memories, lit' = 0,
         at' \in {"top", "key", "search", "value", "gone"}, at' = "value" => draft # <<>>
  PROVE  ScreenInv'
<1>1. UNCHANGED <<view, focus, opened, search, category, action, param, draft, dryRun>>
  BY DEF app
<1>2. Selections' /\ Drafted' /\ Coherent' /\ LitRight'
  BY <1>1 DEF ScreenInv, Selections, Drafted, Coherent, LitRight, Params
<1> QED
  BY <1>2 DEF ScreenInv

LEMMA MemoryStays == ScreenInv => mem \in Memories /\ mem \in Nat /\ mem < IntRange
  BY BoundsAssumption DEF ScreenInv, Selections

LEMMA LitOnlyAtKey == ScreenInv /\ at # "key" => lit = 0
  BY DEF ScreenInv, LitRight

LEMMA IdleKeysKeepScreen ==
  ScreenInv /\ (NoKey \/ KeyQuit \/ KeySearch \/ KeyEdit \/ Cancel) => ScreenInv'
<1> SUFFICES ASSUME ScreenInv, NoKey \/ KeyQuit \/ KeySearch \/ KeyEdit \/ Cancel PROVE ScreenInv'
  OBVIOUS
<1>1. UNCHANGED app /\ mem' = mem
  BY DEF NoKey, KeyQuit, KeySearch, KeyEdit, Cancel, Handle, Goes
<1>2. lit' = 0
  BY LitOnlyAtKey DEF NoKey, KeyQuit, KeySearch, KeyEdit, Cancel, Handle, Goes
<1>3. at' \in {"top", "key", "search", "value", "gone"} /\ (at' = "value" => draft # <<>>)
  BY DEF NoKey, KeyQuit, KeySearch, KeyEdit, Cancel, Handle, Goes, ScreenInv, Coherent
<1> QED
  BY <1>1, <1>2, <1>3, MemoryStays, SamePlace

LEMMA SearchKeepsScreen ==
  ASSUME ScreenInv, NEW s \in Searches, Search(s) PROVE ScreenInv'
<1>1. Selections'
  BY Catalog DEF Search, ScreenInv, Selections
<1>2. Drafted' /\ Coherent' /\ LitRight'
  BY LitOnlyAtKey DEF Search, ScreenInv, Drafted, Coherent, LitRight
<1> QED
  BY <1>1, <1>2 DEF ScreenInv

LEMMA EscKeepsScreen == ScreenInv /\ KeyEsc => ScreenInv'
<1> SUFFICES ASSUME ScreenInv, KeyEsc PROVE ScreenInv'
  OBVIOUS
<1>1. at' = "top" /\ lit' = 0 /\ mem' = mem
  BY DEF KeyEsc, Handle, Goes
<1>2. Selections /\ Drafted /\ Coherent
  BY DEF ScreenInv
<1>3. CASE view = "config" /\ CloseConfig
  <2>1. Selections'
    BY <1>1, <1>2, <1>3 DEF CloseConfig, Selections
  <2>2. Coherent'
    BY <1>2, <1>3 DEF CloseConfig, Coherent
  <2>3. Drafted' /\ LitRight'
    BY <1>1, <1>3 DEF CloseConfig, Drafted, LitRight
  <2> QED
    BY <2>1, <2>2, <2>3 DEF ScreenInv
<1>4. CASE view # "config" /\ opened # 0 /\ CloseCategory
  <2>1. Selections'
    BY <1>1, <1>2, <1>4, Catalog DEF CloseCategory, Selections
  <2>2. Coherent'
    BY <1>2, <1>4 DEF CloseCategory, Coherent
  <2>3. Drafted' /\ LitRight'
    BY <1>1, <1>2, <1>4 DEF CloseCategory, Drafted, LitRight
  <2> QED
    BY <2>1, <2>2, <2>3 DEF ScreenInv
<1>5. CASE /\ view # "config" /\ opened = 0
           /\ search' = NoSearch
           /\ category' = IF search = NoSearch THEN category ELSE 1
           /\ UNCHANGED <<view, focus, opened, action, param, draft, dryRun>>
  <2>1. Selections'
    BY <1>1, <1>2, <1>5, Catalog, CatalogAssumption DEF Selections
  <2>2. Coherent'
    BY <1>2, <1>5 DEF Coherent
  <2>3. Drafted' /\ LitRight'
    BY <1>1, <1>2, <1>5 DEF Drafted, LitRight
  <2> QED
    BY <2>1, <2>2, <2>3 DEF ScreenInv
<1> QED
  BY <1>3, <1>4, <1>5 DEF KeyEsc

LEMMA MoveKeepsScreen ==
  ASSUME ScreenInv, NEW step \in {-1, 1}, KeyMove(step) PROVE ScreenInv'
<1> DEFINE last(shown) == IF step = 1 THEN Cardinality(shown) ELSE Len(Categories) + Len(Actions)
           lastCategory == last(CategoriesShown(search))
           lastAction == last(ActionsShown(search))
<1>1. /\ at' = "top" /\ lit' = 0 /\ mem' = mem
      /\ category' = (IF view = "categories" THEN Moved(category, step, lastCategory) ELSE category)
      /\ action' = (IF view = "actions" THEN Moved(action, step, lastAction) ELSE action)
      /\ param' = IF view = "config" /\ focus = 1 THEN Moved(param, step, Len(Params(draft))) ELSE param
      /\ UNCHANGED <<view, focus, opened, search, draft, dryRun>>
  BY DEF KeyMove, Handle, Goes
<1>2. Selections /\ Drafted /\ Coherent
  BY DEF ScreenInv
<1>3. lastCategory \in Int /\ (step = 1 => lastCategory <= Len(Categories))
      /\ lastAction \in Int /\ (step = 1 => lastAction <= Len(Actions))
  BY Catalog, ShownIsFinite
<1> HIDE DEF lastCategory, lastAction
<1>4. category' \in 1..Len(Categories)
  <2>1. category \in 1..Len(Categories) /\ category \in Nat
    BY <1>2 DEF Selections
  <2>2. Moved(category, step, lastCategory) \in 1..Len(Categories)
    BY <1>3, <2>1, Catalog, MovedInside
  <2> QED
    BY <1>1, <2>1, <2>2
<1>5. action' \in 1..Len(Actions)
  <2>1. action \in 1..Len(Actions) /\ action \in Nat
    BY <1>2 DEF Selections
  <2>2. Moved(action, step, lastAction) \in 1..Len(Actions)
    BY <1>3, <2>1, Catalog, MovedInside
  <2> QED
    BY <1>1, <2>1, <2>2
<1>6. param' \in Nat /\ (draft # <<>> => param' \in DOMAIN draft.values)
  <2>1. CASE draft = <<>>
    BY <1>1, <1>2, <2>1 DEF Coherent, Selections
  <2>2. CASE draft # <<>>
    <3>1. IsDraft(draft) /\ param \in DOMAIN draft.values /\ view = "config" /\ focus = 1
      BY <1>2, <2>2 DEF Drafted, Coherent
    <3>2. DOMAIN draft.values = 1..Len(Params(draft)) /\ Len(Params(draft)) \in Nat \ {0}
      BY <3>1, DraftParams
    <3>3. param' = Moved(param, step, Len(Params(draft)))
      BY <1>1, <3>1
    <3>4. param \in Nat /\ param \in 1..Len(Params(draft)) /\ Len(Params(draft)) \in Int
      BY <3>1, <3>2
    <3>5. Moved(param, step, Len(Params(draft))) \in 1..Len(Params(draft))
      <4> DEFINE end == Len(Params(draft))
      <4>1. end \in Nat /\ end \in Int /\ param \in Nat /\ param \in 1..end /\ end <= end
        BY <3>2, <3>4
      <4> HIDE DEF end
      <4>2. Moved(param, step, end) \in 1..end
        BY <4>1, MovedInside
      <4> QED
        BY <4>2 DEF end
    <3> QED
      BY <3>2, <3>3, <3>5
  <2> QED
    BY <2>1, <2>2
<1>7. Selections'
  BY <1>1, <1>2, <1>4, <1>5, <1>6 DEF Selections
<1>8. Drafted' /\ Coherent' /\ LitRight'
  BY <1>1, <1>2, <1>6 DEF Drafted, Coherent, LitRight
<1> QED
  BY <1>7, <1>8 DEF ScreenInv

LEMMA OpenKeepsScreen == ScreenInv /\ KeyOpen => ScreenInv'
<1> SUFFICES ASSUME ScreenInv, KeyOpen PROVE ScreenInv'
  OBVIOUS
<1>1. at' = "top" /\ lit' = 0 /\ mem' = mem
  BY DEF KeyOpen, Handle, Goes
<1>2. Selections /\ Drafted /\ Coherent
  BY DEF ScreenInv
<1>3. CASE view = "categories" /\ OpenCategory
  <2>1. opened' \in 1..Len(Categories)
    <3>1. Nth(CategoriesShown(search), category) \in CategoriesShown(search)
      BY <1>3, NthIsShown DEF OpenCategory
    <3> QED
      BY <1>3, <3>1, ShownIsFinite DEF OpenCategory
  <2>2. draft = <<>>
    BY <1>2, <1>3 DEF Coherent
  <2>3. Selections'
    BY <1>1, <1>2, <1>3, <2>1, Catalog DEF OpenCategory, Selections
  <2>4. Coherent'
    BY <1>2, <1>3, <2>1, <2>2 DEF OpenCategory, Coherent
  <2>5. Drafted' /\ LitRight'
    BY <1>1, <1>2, <1>3 DEF OpenCategory, Drafted, LitRight
  <2> QED
    BY <2>3, <2>4, <2>5 DEF ScreenInv
<1>4. CASE view # "categories" /\ OpenConfig
  <2> DEFINE a == Nth(ActionsShown(search), action)
             d == Clamped(MakeStep(a), mem)
  <2>1. /\ a # 0 /\ draft' = d /\ param' = 1 /\ view' = "config" /\ focus' = 1
        /\ UNCHANGED <<opened, search, category, action, dryRun>>
    BY <1>4 DEF OpenConfig
  <2>2. a \in ActionsShown(search)
    BY <2>1, NthIsShown
  <2> HIDE DEF a
  <2>3. a \in DOMAIN Actions /\ Actions[a].category = Categories[opened]
    BY <2>2 DEF ActionsShown
  <2>4. IsDraft(MakeStep(a)) /\ MakeStep(a).action = a
    BY <2>3, MakeStepIsDraft
  <2>5. IsDraft(d) /\ d.action = a /\ DOMAIN d.values = DOMAIN MakeStep(a).values
    BY <2>4, MemoryStays, ClampedIsDraft
  <2>6. 1 \in DOMAIN d.values /\ d # <<>>
    BY <2>4, <2>5, DraftParams, DraftIsThere
  <2> HIDE DEF d
  <2>7. opened # 0
    BY <1>2, <1>4 DEF Coherent
  <2>8. Selections'
    BY <1>1, <1>2, <2>1 DEF Selections
  <2>9. Coherent'
    BY <2>1, <2>3, <2>5, <2>6, <2>7 DEF Coherent
  <2>10. Drafted' /\ LitRight'
    BY <1>1, <2>1, <2>5 DEF Drafted, LitRight
  <2> QED
    BY <2>8, <2>9, <2>10 DEF ScreenInv
<1> QED
  BY <1>3, <1>4 DEF KeyOpen

\* A draft is edited, and stays one.
LEMMA EditedDraft ==
  ASSUME ScreenInv, draft # <<>>, IsDraft(draft'), draft'.action = draft.action,
         DOMAIN draft'.values = DOMAIN draft.values,
         UNCHANGED <<view, focus, opened, search, category, action, param, dryRun, mem>>,
         at' = "top", lit' = 0
  PROVE  ScreenInv'
<1>1. draft' # <<>>
  BY DraftIsThere
<1>2. Selections' /\ Drafted' /\ Coherent' /\ LitRight'
  BY <1>1 DEF ScreenInv, Selections, Drafted, Coherent, LitRight
<1> QED
  BY <1>2 DEF ScreenInv

LEMMA AnswerKeepsScreen == ScreenInv /\ Answer => ScreenInv'
<1> SUFFICES ASSUME ScreenInv, Answer PROVE ScreenInv'
  OBVIOUS
<1>1. PICK value \in Typed : draft' = Clamped([draft EXCEPT !.values[param] = value], mem)
  BY DEF Answer
<1>2. draft # <<>> /\ IsDraft(draft) /\ param \in DOMAIN draft.values
  BY DEF Answer, ScreenInv, Drafted, Coherent
<1>3. ParamOf(draft, param).type = "mem" => value \in Nat
  BY BoundsAssumption DEF Typed, Numeric
<1> DEFINE new == [draft EXCEPT !.values[param] = value]
<1>4. IsDraft(new) /\ new.action = draft.action /\ DOMAIN new.values = DOMAIN draft.values
  BY <1>2, <1>3, ChangedIsDraft
<1>5. draft' = Clamped(new, mem)
  BY <1>1
<1> HIDE DEF new
<1>6. IsDraft(draft') /\ draft'.action = draft.action /\ DOMAIN draft'.values = DOMAIN draft.values
  BY <1>4, <1>5, MemoryStays, ClampedIsDraft
<1>7. UNCHANGED <<view, focus, opened, search, category, action, param, dryRun, mem>>
      /\ at' = "top" /\ lit' = 0
  BY LitOnlyAtKey DEF Answer
<1> QED
  BY <1>2, <1>6, <1>7, EditedDraft

LEMMA CycleKeepsScreen ==
  ASSUME ScreenInv, NEW direction \in {-1, 1}, KeyCycle(direction) PROVE ScreenInv'
<1>1. draft # <<>> /\ IsDraft(draft) /\ param \in DOMAIN draft.values
  BY DEF KeyCycle, ScreenInv, Drafted, Coherent
<1> DEFINE value == Cycled(ParamOf(draft, param), draft.values[param], direction)
           new == [draft EXCEPT !.values[param] = value]
<1>2. ParamOf(draft, param).type # "mem"
  BY DEF KeyCycle
<1>3. draft' = new
  BY DEF KeyCycle
<1> HIDE DEF value
<1>4. IsDraft(new) /\ new.action = draft.action /\ DOMAIN new.values = DOMAIN draft.values
  BY <1>1, <1>2, ChangedIsDraft
<1> HIDE DEF new
<1>5. UNCHANGED <<view, focus, opened, search, category, action, param, dryRun, mem>>
      /\ at' = "top" /\ lit' = 0
  BY DEF KeyCycle, Handle, Goes
<1> QED
  BY <1>1, <1>3, <1>4, <1>5, EditedDraft

LEMMA DryRunKeepsScreen == ScreenInv /\ KeyDryRun => ScreenInv'
<1> SUFFICES ASSUME ScreenInv, KeyDryRun PROVE ScreenInv'
  OBVIOUS
<1>1. /\ at' = "top" /\ lit' = 0 /\ dryRun' = ~dryRun
      /\ UNCHANGED <<view, focus, opened, search, category, action, param, draft, mem>>
  BY DEF KeyDryRun, Handle, Goes
<1>2. Selections' /\ Drafted' /\ Coherent' /\ LitRight'
  BY <1>1 DEF ScreenInv, Selections, Drafted, Coherent, LitRight
<1> QED
  BY <1>2 DEF ScreenInv

LEMMA RunDraft ==
  ASSUME ScreenInv, KeyRun
  PROVE  /\ draft # <<>> /\ IsDraft(draft) /\ draft' = Clamped(draft, mem)
         /\ IsDraft(draft') /\ draft'.action = draft.action
         /\ DOMAIN draft'.values = DOMAIN draft.values
<1>1. draft # <<>> /\ IsDraft(draft)
  BY DEF KeyRun, ScreenInv, Drafted, Coherent
<1>2. draft' = Clamped(draft, mem)
  BY DEF KeyRun, StepToRun
<1> QED
  BY <1>1, <1>2, MemoryStays, ClampedIsDraft

LEMMA RunKeepsScreen == ScreenInv /\ KeyRun => ScreenInv'
<1> SUFFICES ASSUME ScreenInv, KeyRun PROVE ScreenInv'
  OBVIOUS
<1>1. UNCHANGED <<view, focus, opened, search, category, action, param, dryRun, mem>>
      /\ at' = "top" /\ lit' = 0
  BY DEF KeyRun, Handle, Goes
<1> QED
  BY <1>1, RunDraft, EditedDraft

LEMMA DrawKeepsScreen == ScreenInv /\ Iterate => ScreenInv'
<1> SUFFICES ASSUME ScreenInv, Iterate PROVE ScreenInv'
  OBVIOUS
<1>1. /\ at' = "key" /\ mem' \in Memories
      /\ UNCHANGED <<view, focus, opened, search, param, draft, dryRun>>
  BY DEF Iterate
<1>2. PICK big \in BOOLEAN : Draw(big)
  BY DEF Iterate
<1>3. Selections /\ Drafted /\ Coherent
  BY DEF ScreenInv
<1>4. /\ category' \in 1..Len(Categories) /\ action' \in 1..Len(Actions)
      /\ lit' # 0 => lit' = IF opened = 0 THEN Nth(CategoriesShown(search), category')
                            ELSE Nth(ActionsShown(search), action')
  <2>0. category \in 1..Len(Categories) /\ action \in 1..Len(Actions)
    BY <1>3 DEF Selections
  <2>1. CASE ~ big
    BY <1>2, <2>0, <2>1 DEF Draw
  <2>2. CASE big /\ opened = 0
    <3>1. Inside(category, CategoriesShown(search)) \in 1..Len(Categories)
      BY <2>0, Catalog, ShownIsFinite, InsideIsInside
    <3> QED
      BY <1>2, <2>0, <2>2, <3>1 DEF Draw
  <2>3. CASE big /\ opened # 0
    <3>1. Inside(action, ActionsShown(search)) \in 1..Len(Actions)
      BY <2>0, Catalog, ShownIsFinite, InsideIsInside
    <3> QED
      BY <1>2, <2>0, <2>3, <3>1 DEF Draw
  <2> QED
    BY <2>1, <2>2, <2>3
<1>5. Selections'
  BY <1>1, <1>3, <1>4 DEF Selections
<1>6. Drafted' /\ Coherent'
  BY <1>1, <1>3 DEF Drafted, Coherent
<1>7. LitRight'
  <2>1. CategoriesShown(search)' = CategoriesShown(search) /\ ActionsShown(search)' = ActionsShown(search)
    BY <1>1 DEF CategoriesShown, ActionsShown
  <2> QED
    BY <1>1, <1>4, <2>1 DEF LitRight
<1> QED
  BY <1>5, <1>6, <1>7 DEF ScreenInv

LEMMA OutsideKeepsScreen ==
  ASSUME ScreenInv, UNCHANGED <<app, mem, at, lit>> PROVE ScreenInv'
<1>1. UNCHANGED <<view, focus, opened, search, category, action, param, draft, dryRun>>
  BY DEF app
<1>2. Selections' /\ Drafted' /\ Coherent'
  BY <1>1 DEF ScreenInv, Selections, Drafted, Coherent
<1>3. LitRight'
  BY <1>1 DEF ScreenInv, LitRight, CategoriesShown, ActionsShown
<1> QED
  BY <1>2, <1>3 DEF ScreenInv

LEMMA ScreenNext == ScreenInv /\ [Next]_vars => ScreenInv'
<1> SUFFICES ASSUME ScreenInv, [Next]_vars PROVE ScreenInv'
  OBVIOUS
<1>1. CASE Iterate
  BY <1>1, DrawKeepsScreen
<1>2. CASE Key
  <2>1. CASE NoKey \/ KeyQuit \/ KeySearch \/ KeyEdit
    BY <2>1, IdleKeysKeepScreen
  <2>2. CASE KeyEsc
    BY <2>2, EscKeepsScreen
  <2>3. CASE KeyOpen
    BY <2>3, OpenKeepsScreen
  <2>4. CASE KeyDryRun
    BY <2>4, DryRunKeepsScreen
  <2>5. CASE KeyRun
    BY <2>5, RunKeepsScreen
  <2>6. ASSUME NEW step \in {-1, 1}, KeyMove(step) \/ KeyCycle(step) PROVE ScreenInv'
    BY <2>6, MoveKeepsScreen, CycleKeepsScreen
  <2> QED
    BY <1>2, <2>1, <2>2, <2>3, <2>4, <2>5, <2>6 DEF Key
<1>3. CASE Prompted
  BY <1>3, IdleKeysKeepScreen, AnswerKeepsScreen, SearchKeepsScreen DEF Prompted
<1>4. CASE \E n \in 1..MaxRuns, code \in {0, -1} : ChildEnds(n, code)
  <2>1. UNCHANGED <<app, mem, at, lit>>
    BY <1>4 DEF ChildEnds
  <2> QED
    BY <2>1, OutsideKeepsScreen
<1>5. CASE UNCHANGED vars
  <2>1. UNCHANGED <<app, mem, at, lit>>
    BY <1>5 DEF vars
  <2> QED
    BY <2>1, OutsideKeepsScreen
<1> QED
  BY <1>1, <1>2, <1>3, <1>4, <1>5 DEF Next

----------------------------------------------------------------------------
(* Jobs and their children *)

\* The table and the children stay.
LEMMA JobsStay == ASSUME JobsInv, OnlyScreen PROVE JobsInv'
  BY DEF OnlyScreen, JobsInv, PidsUnique, JobsHaveChildren, ResultIsOwn

LEMMA JobsInit == Init => JobsInv
  BY BoundsAssumption DEF Init, JobsInv, PidsUnique, JobsHaveChildren, ResultIsOwn

LEMMA JobsTypes ==
  ASSUME JobsInv
  PROVE  /\ Len(procs) \in Nat /\ DOMAIN procs = 1..Len(procs)
         /\ \A n \in 1..Len(procs) : procs[n] \in Children /\ procs[n].pid \in Pids
                /\ procs[n].state \in {"running", "zombie", "reaped"} /\ procs[n].code \in {0, -1}
         /\ Len(jobs) \in Nat /\ DOMAIN jobs = 1..Len(jobs)
         /\ \A i \in 1..Len(jobs) : jobs[i] \in Jobs /\ jobs[i].child \in Nat /\ jobs[i].pid \in Nat
                /\ jobs[i].state \in {"dry", "running", "exited", "failed"}
<1>1. procs \in Seq(Children) /\ jobs \in Seq(Jobs)
  BY DEF JobsInv
<1>2. Len(procs) \in Nat /\ DOMAIN procs = 1..Len(procs) /\ Len(jobs) \in Nat /\ DOMAIN jobs = 1..Len(jobs)
  BY <1>1, LenProperties
<1>3. /\ \A n \in 1..Len(procs) : procs[n] \in Children
      /\ \A i \in 1..Len(jobs) : jobs[i] \in Jobs
  BY <1>1
<1> QED
  BY <1>2, <1>3 DEF Children, Jobs

\* ChildEnds: a child that ends keeps its process id, and its job knows nothing yet.
LEMMA EndKeepsJobs ==
  ASSUME JobsInv, NEW n \in Nat, NEW code \in {0, -1}, ChildEnds(n, code) PROVE JobsInv'
<1>1. /\ n \in 1..Len(procs) /\ procs[n].state = "running" /\ jobs' = jobs
      /\ procs' = [procs EXCEPT ![n].state = "zombie", ![n].code = code]
  BY JobsTypes DEF ChildEnds, Running
<1> DEFINE ended == [pid |-> procs[n].pid, state |-> "zombie", code |-> code]
<1>2. procs[n] \in Children /\ DOMAIN procs = 1..Len(procs) /\ Len(procs) \in Nat
  BY <1>1, JobsTypes
<1>3. [procs[n] EXCEPT !.state = "zombie", !.code = code] = ended /\ ended \in Children
  <2>1. /\ procs[n] = [pid |-> procs[n].pid, state |-> procs[n].state, code |-> procs[n].code]
        /\ procs[n].pid \in Pids
    BY <1>2 DEF Children
  <2>2. [procs[n] EXCEPT !.state = "zombie", !.code = code] = ended
    <3> DEFINE old == procs[n]
               new == [old EXCEPT !.state = "zombie", !.code = code]
    <3>1. old = [pid |-> old.pid, state |-> old.state, code |-> old.code]
      BY <2>1
    <3>2. new = [old EXCEPT !.state = "zombie", !.code = code]
      OBVIOUS
    <3> HIDE DEF old, new
    <3>3. new = [pid |-> old.pid, state |-> "zombie", code |-> code]
      BY <3>1, <3>2
    <3> QED
      BY <3>3 DEF old, new
  <2> QED
    BY <2>1, <2>2 DEF Children
<1>4. ended.pid = procs[n].pid /\ ended.state = "zombie"
  OBVIOUS
<1>5. procs' = [m \in 1..Len(procs) |->
                  IF m = n THEN [procs[n] EXCEPT !.state = "zombie", !.code = code] ELSE procs[m]]
  BY <1>1, <1>2
<1>11. procs' = [m \in 1..Len(procs) |-> IF m = n THEN ended ELSE procs[m]]
  BY <1>3, <1>5
<1> HIDE DEF ended
<1>6. /\ procs' \in Seq(Children) /\ Len(procs') = Len(procs)
      /\ \A m \in 1..Len(procs) : procs'[m] = IF m = n THEN ended ELSE procs[m]
  <2>1. \A m \in 1..Len(procs) : procs[m] \in Children
    BY JobsTypes
  <2> QED
    BY <1>2, <1>3, <1>11, <2>1
<1>7. \A m \in 1..Len(procs) :
         /\ procs'[m].pid = procs[m].pid
         /\ procs'[m].state # "reaped" <=> procs[m].state # "reaped"
         /\ procs[m].state = "reaped" => procs'[m] = procs[m]
  BY <1>1, <1>4, <1>6
<1>8. PidsUnique'
  BY <1>6, <1>7 DEF JobsInv, PidsUnique
<1>9. JobsHaveChildren'
  BY <1>1, <1>6, <1>7, JobsTypes DEF JobsInv, JobsHaveChildren
<1>10. ResultIsOwn'
  <2> SUFFICES ASSUME NEW i \in 1..Len(jobs), jobs[i].state \in {"exited", "failed"}
      PROVE /\ procs'[jobs[i].child].state = "reaped" /\ jobs[i].code = procs'[jobs[i].child].code
            /\ jobs[i].state = "exited" <=> jobs[i].code = 0
    <3>1. DOMAIN jobs' = 1..Len(jobs) /\ \A i \in 1..Len(jobs) : jobs'[i] = jobs[i]
      BY <1>1, JobsTypes
    <3> QED
      BY <3>1 DEF ResultIsOwn
  <2>1. jobs[i].child \in 1..Len(procs)
    BY DEF JobsInv, JobsHaveChildren
  <2>2. /\ procs[jobs[i].child].state = "reaped" /\ jobs[i].code = procs[jobs[i].child].code
        /\ jobs[i].state = "exited" <=> jobs[i].code = 0
    BY JobsTypes DEF JobsInv, ResultIsOwn
  <2> QED
    BY <1>7, <2>1, <2>2
<1> QED
  BY <1>1, <1>6, <1>8, <1>9, <1>10 DEF JobsInv

\* What waitpid finds under the process id of a job that runs is the job's own child.
LEMMA FindsItsOwn ==
  ASSUME JobsInv, NEW i \in 1..Len(jobs), jobs[i].state = "running"
  PROVE  /\ ChildWith(jobs[i].pid) = {jobs[i].child}
         /\ jobs[i].child \in 1..Len(procs) /\ i \in Polled
         /\ procs[jobs[i].child].state \in {"running", "zombie"}
<1>1. /\ jobs[i].child \in 1..Len(procs)
      /\ procs[jobs[i].child].pid = jobs[i].pid /\ procs[jobs[i].child].state # "reaped"
  BY DEF JobsInv, JobsHaveChildren
<1>2. ChildWith(jobs[i].pid) = {jobs[i].child}
  <2>1. \A n \in 1..Len(procs) :
           procs[n].pid = jobs[i].pid /\ procs[n].state # "reaped" => n = jobs[i].child
    BY <1>1 DEF JobsInv, PidsUnique
  <2>2. ChildWith(jobs[i].pid) =
           { n \in 1..Len(procs) : procs[n].pid = jobs[i].pid /\ procs[n].state # "reaped" }
    BY JobsTypes DEF ChildWith
  <2> QED
    BY <1>1, <2>1, <2>2
<1>3. jobs[i].pid # 0
  BY <1>1, JobsTypes, BoundsAssumption
<1>4. i \in Polled
  BY <1>3, JobsTypes DEF Polled
<1> QED
  BY <1>1, <1>2, <1>4, JobsTypes

\* refresh_jobs: what a job learns is of its own child.
LEMMA JobLearns ==
  ASSUME JobsInv, NEW i \in 1..Len(jobs)
  PROVE  /\ Refreshed(i) \in Jobs
         /\ Refreshed(i).pid = jobs[i].pid /\ Refreshed(i).child = jobs[i].child
         /\ jobs[i].state # "running" => Refreshed(i) = jobs[i]
         /\ jobs[i].state = "running" =>
               LET child == procs[jobs[i].child] IN
               \/ child.state = "running" /\ Refreshed(i) = jobs[i]
               \/ /\ child.state = "zombie" /\ Refreshed(i).code = child.code
                  /\ Refreshed(i).state \in {"exited", "failed"}
                  /\ Refreshed(i).state = "exited" <=> child.code = 0
<1>1. jobs[i] \in Jobs
  BY JobsTypes
<1>2. CASE jobs[i].state # "running"
  <2>1. i \notin Polled
    BY <1>2 DEF Polled
  <2>2. Refreshed(i) = jobs[i]
    BY <2>1 DEF Refreshed
  <2> QED
    BY <1>1, <1>2, <2>2
<1>3. CASE jobs[i].state = "running"
  <2> DEFINE job == jobs[i]
             n == jobs[i].child
             found == ChildWith(job.pid)
             child == CHOOSE k \in found : TRUE
             learnt == [job EXCEPT !.state = IF procs[child].code = 0 THEN "exited" ELSE "failed",
                                   !.code = procs[child].code]
  <2>1. found = {n} /\ n \in 1..Len(procs) /\ i \in Polled /\ procs[n].state \in {"running", "zombie"}
    BY <1>3, FindsItsOwn
  <2>2. child = n
    BY <2>1
  <2>3. Refreshed(i) = IF i \notin Polled \/ (found # {} /\ Running(procs[child])) THEN job
                       ELSE IF found = {} THEN [job EXCEPT !.state = "failed"] ELSE learnt
    BY DEF Refreshed
  <2>4. procs[n].code \in {0, -1}
    BY <2>1, JobsTypes
  <2>5. /\ learnt \in Jobs /\ learnt.pid = job.pid /\ learnt.child = job.child
        /\ learnt.code = procs[n].code /\ learnt.state \in {"exited", "failed"}
        /\ learnt.state = "exited" <=> procs[n].code = 0
    <3> DEFINE word == IF procs[child].code = 0 THEN "exited" ELSE "failed"
    <3>1. word \in {"exited", "failed"} /\ (word = "exited" <=> procs[n].code = 0)
      BY <2>2
    <3>2. job = [pid |-> job.pid, child |-> job.child, state |-> job.state, code |-> job.code]
          /\ job.pid \in Nat /\ job.child \in Nat
      BY <1>1 DEF Jobs
    <3>5. learnt = [job EXCEPT !.state = word, !.code = procs[n].code]
      BY <2>2
    <3> HIDE DEF word, child, learnt, job, found
    <3>3. learnt = [pid |-> job.pid, child |-> job.child, state |-> word, code |-> procs[n].code]
      BY <3>2, <3>5
    <3> QED
      BY <2>4, <3>1, <3>2, <3>3 DEF Jobs
  <2> HIDE DEF learnt, child, found
  <2>6. CASE procs[n].state = "running"
    <3>1. Refreshed(i) = job
      BY <2>1, <2>2, <2>3, <2>6 DEF Running
    <3> QED
      BY <1>1, <1>3, <2>6, <3>1
  <2>7. CASE procs[n].state = "zombie"
    <3>1. Refreshed(i) = learnt
      BY <2>1, <2>2, <2>3, <2>7 DEF Running
    <3> QED
      BY <1>3, <2>5, <2>7, <3>1
  <2> QED
    BY <2>1, <2>6, <2>7
<1> QED
  BY <1>2, <1>3

LEMMA RefreshKeepsJobs == JobsInv /\ RefreshJobs => JobsInv'
<1> SUFFICES ASSUME JobsInv, RefreshJobs PROVE JobsInv'
  OBVIOUS
<1> DEFINE Waited(n) == procs[n].state = "zombie" /\ \E i \in Polled : n \in ChildWith(jobs[i].pid)
           next(n) == IF Waited(n) THEN [procs[n] EXCEPT !.state = "reaped"] ELSE procs[n]
<1>1. jobs' = [i \in 1..Len(jobs) |-> Refreshed(i)] /\ procs' = [n \in 1..Len(procs) |-> next(n)]
  BY JobsTypes DEF RefreshJobs
<1>2. \A n \in 1..Len(procs) :
         /\ next(n) \in Children /\ next(n).pid = procs[n].pid /\ next(n).code = procs[n].code
         /\ next(n).state = IF Waited(n) THEN "reaped" ELSE procs[n].state
  BY JobsTypes DEF Children
<1> HIDE DEF next
<1>3. /\ jobs' \in Seq(Jobs) /\ Len(jobs') = Len(jobs) /\ \A i \in 1..Len(jobs) : jobs'[i] = Refreshed(i)
  <2>1. \A i \in 1..Len(jobs) : Refreshed(i) \in Jobs
    BY JobLearns
  <2>2. Len(jobs) \in Nat
    BY JobsTypes
  <2> QED
    BY <1>1, <2>1, <2>2
<1>4. /\ procs' \in Seq(Children) /\ Len(procs') = Len(procs) /\ \A n \in 1..Len(procs) : procs'[n] = next(n)
  <2>1. Len(procs) \in Nat
    BY JobsTypes
  <2> QED
    BY <1>1, <1>2, <2>1
<1>5. \A n \in 1..Len(procs) :
         /\ procs'[n].pid = procs[n].pid /\ procs'[n].code = procs[n].code
         /\ procs'[n].state # "reaped" => procs[n].state # "reaped" /\ ~ Waited(n)
         /\ procs[n].state = "reaped" => procs'[n].state = "reaped"
         /\ procs[n].state = "running" => procs'[n].state = "running"
         /\ Waited(n) => procs'[n].state = "reaped"
  BY <1>2, <1>4
<1>6. PidsUnique'
  BY <1>4, <1>5 DEF JobsInv, PidsUnique
<1>7. \A i \in 1..Len(jobs) : jobs[i].state = "running" /\ procs[jobs[i].child].state = "zombie" =>
         Waited(jobs[i].child)
  BY FindsItsOwn
<1> HIDE DEF Waited
\* Before, and after.
<1>8. \A i \in 1..Len(jobs) :
         /\ jobs'[i].pid = jobs[i].pid /\ jobs'[i].child = jobs[i].child
         /\ jobs'[i].state # "dry" => jobs[i].state # "dry"
         /\ jobs'[i].state = "running" =>
               jobs[i].state = "running" /\ procs[jobs[i].child].state = "running"
  BY <1>3, JobLearns, JobsTypes
<1>9. JobsHaveChildren'
  <2>1. \A i \in 1..Len(jobs) : jobs[i].state # "dry" => jobs[i].child \in 1..Len(procs)
    BY DEF JobsInv, JobsHaveChildren
  <2>2. \A i \in 1..Len(jobs) : jobs'[i].state # "dry" => jobs'[i].child \in 1..Len(procs')
    BY <1>4, <1>8, <2>1
  <2>3. \A i \in 1..Len(jobs) : jobs'[i].state = "running" =>
           procs'[jobs'[i].child].pid = jobs'[i].pid /\ procs'[jobs'[i].child].state # "reaped"
    <3> SUFFICES ASSUME NEW i \in 1..Len(jobs), jobs'[i].state = "running"
        PROVE procs'[jobs'[i].child].pid = jobs'[i].pid /\ procs'[jobs'[i].child].state # "reaped"
      OBVIOUS
    <3>1. jobs[i].state = "running" /\ procs[jobs[i].child].state = "running"
      BY <1>8
    <3>2. jobs[i].child \in 1..Len(procs) /\ procs[jobs[i].child].pid = jobs[i].pid
      BY <3>1 DEF JobsInv, JobsHaveChildren
    <3>3. procs'[jobs[i].child].state = "running" /\ procs'[jobs[i].child].pid = jobs[i].pid
      BY <1>5, <3>1, <3>2
    <3> QED
      BY <1>8, <3>3
  <2>4. \A i, k \in 1..Len(jobs) :
           jobs'[i].state # "dry" /\ jobs'[k].state # "dry" /\ jobs'[i].child = jobs'[k].child => i = k
    BY <1>8 DEF JobsInv, JobsHaveChildren
  <2> QED
    BY <1>3, <2>2, <2>3, <2>4 DEF JobsHaveChildren
<1>10. ResultIsOwn'
  <2> SUFFICES ASSUME NEW i \in 1..Len(jobs), jobs'[i].state \in {"exited", "failed"}
      PROVE /\ procs'[jobs'[i].child].state = "reaped" /\ jobs'[i].code = procs'[jobs'[i].child].code
            /\ jobs'[i].state = "exited" <=> jobs'[i].code = 0
    BY <1>3 DEF ResultIsOwn
  <2>1. jobs[i].state # "dry" /\ jobs[i].child \in 1..Len(procs) /\ jobs'[i].child = jobs[i].child
    BY <1>8 DEF JobsInv, JobsHaveChildren
  <2>2. CASE jobs[i].state = "running"
    <3>1. /\ procs[jobs[i].child].state = "zombie" /\ jobs'[i].code = procs[jobs[i].child].code
          /\ jobs'[i].state = "exited" <=> procs[jobs[i].child].code = 0
      BY <1>3, <2>2, JobLearns
    <3>2. Waited(jobs[i].child)
      BY <1>7, <2>2, <3>1
    <3> QED
      BY <1>5, <2>1, <3>1, <3>2
  <2>3. CASE jobs[i].state # "running"
    <3>1. jobs'[i] = jobs[i]
      BY <1>3, <2>3, JobLearns
    <3>2. /\ procs[jobs[i].child].state = "reaped" /\ jobs[i].code = procs[jobs[i].child].code
          /\ jobs[i].state = "exited" <=> jobs[i].code = 0
      BY <3>1, JobsTypes DEF JobsInv, ResultIsOwn
    <3> QED
      BY <1>5, <2>1, <3>1, <3>2
  <2> QED
    BY <2>2, <2>3
<1> QED
  BY <1>3, <1>4, <1>6, <1>9, <1>10 DEF JobsInv

\* fork gives a process id that no child has which is still to be waited for.
LEMMA StartKeepsJobs ==
  ASSUME JobsInv, NEW pid \in FreePids, AddJob(RealJob(pid)),
         procs' = Append(procs, [pid |-> pid, state |-> "running", code |-> 0])
  PROVE  JobsInv'
<1> DEFINE child == [pid |-> pid, state |-> "running", code |-> 0]
           job == RealJob(pid)
           last == Len(procs)
<1>1. pid \in Pids /\ pid \in Nat /\ child \in Children /\ last \in Nat /\ Len(jobs) \in Nat
  BY JobsTypes, BoundsAssumption DEF FreePids, Children
<1>2. job \in Jobs /\ job.pid = pid /\ job.child = last + 1 /\ job.state = "running"
  BY <1>1 DEF RealJob, Jobs
<1>3. child.pid = pid /\ child.state = "running"
  OBVIOUS
<1>4. procs' = Append(procs, child)
  OBVIOUS
<1>5. \A n \in 1..last : procs[n].state # "reaped" => procs[n].pid # pid
  BY JobsTypes DEF FreePids, Range
<1> HIDE DEF child, job
<1>6. /\ procs' \in Seq(Children) /\ Len(procs') = last + 1 /\ procs'[last + 1] = child
      /\ \A n \in 1..last : procs'[n] = procs[n]
  BY <1>1, <1>4, AppendProperties DEF JobsInv
<1>7. PidsUnique'
  <2> SUFFICES ASSUME NEW m \in 1..(last + 1), NEW n \in 1..(last + 1),
                      procs'[m].state # "reaped", procs'[n].state # "reaped", procs'[m].pid = procs'[n].pid
      PROVE m = n
    BY <1>6 DEF PidsUnique
  <2>1. CASE m \in 1..last /\ n \in 1..last
    BY <1>6, <2>1 DEF JobsInv, PidsUnique
  <2>2. CASE m = last + 1 /\ n \in 1..last
    BY <1>3, <1>5, <1>6, <2>2
  <2>3. CASE n = last + 1 /\ m \in 1..last
    BY <1>3, <1>5, <1>6, <2>3
  <2> QED
    BY <1>1, <2>1, <2>2, <2>3
<1>8. CASE Len(jobs) = MaxJobs
  <2>1. jobs' = jobs
    BY <1>8 DEF AddJob
  <2>2. JobsHaveChildren'
    <3>1. \A i \in 1..Len(jobs) :
             /\ jobs[i].state # "dry" => jobs[i].child \in 1..last
             /\ jobs[i].state = "running" =>
                   procs[jobs[i].child].pid = jobs[i].pid /\ procs[jobs[i].child].state # "reaped"
             /\ \A k \in 1..Len(jobs) :
                   jobs[i].state # "dry" /\ jobs[k].state # "dry" /\ jobs[i].child = jobs[k].child => i = k
      BY DEF JobsInv, JobsHaveChildren
    <3>2. \A i \in 1..Len(jobs) :
             /\ jobs[i].state # "dry" => jobs[i].child \in 1..(last + 1)
             /\ jobs[i].state = "running" =>
                   procs'[jobs[i].child].pid = jobs[i].pid /\ procs'[jobs[i].child].state # "reaped"
      BY <1>1, <1>6, <3>1
    <3> QED
      BY <1>6, <2>1, <3>1, <3>2 DEF JobsHaveChildren
  <2>3. ResultIsOwn'
    <3>1. \A i \in DOMAIN jobs : jobs[i].state \in {"exited", "failed"} => jobs[i].child \in 1..last
      BY JobsTypes DEF JobsInv, JobsHaveChildren
    <3> QED
      BY <1>6, <2>1, <3>1 DEF JobsInv, ResultIsOwn
  <2> QED
    BY <1>6, <1>7, <2>1, <2>2, <2>3 DEF JobsInv
<1>9. CASE Len(jobs) # MaxJobs
  <2> DEFINE end == Len(jobs) + 1
  <2>1. jobs' = Append(jobs, job)
    BY <1>9 DEF AddJob, job
  <2>2. /\ jobs' \in Seq(Jobs) /\ Len(jobs') = end /\ jobs'[end] = job
        /\ \A i \in 1..Len(jobs) : jobs'[i] = jobs[i]
    BY <1>1, <1>2, <2>1, AppendProperties DEF JobsInv
  <2>3. Len(jobs') <= MaxJobs
    BY <1>1, <1>9, <2>2, BoundsAssumption DEF JobsInv
  <2>4. \A i \in 1..Len(jobs) :
           /\ jobs[i].state # "dry" => jobs[i].child \in 1..last
           /\ jobs[i].state = "running" =>
                 procs[jobs[i].child].pid = jobs[i].pid /\ procs[jobs[i].child].state # "reaped"
           /\ \A k \in 1..Len(jobs) :
                 jobs[i].state # "dry" /\ jobs[k].state # "dry" /\ jobs[i].child = jobs[k].child => i = k
    BY DEF JobsInv, JobsHaveChildren
  <2>5. \A i \in 1..end : i \in 1..Len(jobs) \/ i = end
    BY <1>1
  <2> HIDE DEF end
  <2>6. \A i \in 1..end :
           /\ jobs'[i].state # "dry" => jobs'[i].child \in 1..(last + 1)
           /\ jobs'[i].state = "running" =>
                 procs'[jobs'[i].child].pid = jobs'[i].pid /\ procs'[jobs'[i].child].state # "reaped"
    BY <1>1, <1>2, <1>3, <1>6, <2>2, <2>4, <2>5
  <2>7. ASSUME NEW i \in 1..end, NEW k \in 1..end,
               jobs'[i].state # "dry", jobs'[k].state # "dry", jobs'[i].child = jobs'[k].child
        PROVE  i = k
    <3>1. CASE i \in 1..Len(jobs) /\ k \in 1..Len(jobs)
      BY <2>2, <2>4, <2>7, <3>1
    <3>2. CASE i \in 1..Len(jobs) /\ k = end
      <4>1. jobs[i].child \in 1..last /\ jobs[i].child = last + 1
        BY <1>2, <2>2, <2>4, <2>7, <3>2
      <4> QED
        BY <1>1, <4>1
    <3>3. CASE k \in 1..Len(jobs) /\ i = end
      <4>1. jobs[k].child \in 1..last /\ jobs[k].child = last + 1
        BY <1>2, <2>2, <2>4, <2>7, <3>3
      <4> QED
        BY <1>1, <4>1
    <3> QED
      BY <2>5, <3>1, <3>2, <3>3
  <2>8. JobsHaveChildren'
    BY <1>6, <2>2, <2>6, <2>7 DEF JobsHaveChildren
  <2>9. ResultIsOwn'
    <3> SUFFICES ASSUME NEW i \in 1..end, jobs'[i].state \in {"exited", "failed"}
        PROVE /\ procs'[jobs'[i].child].state = "reaped" /\ jobs'[i].code = procs'[jobs'[i].child].code
              /\ jobs'[i].state = "exited" <=> jobs'[i].code = 0
      <4>1. DOMAIN jobs' = 1..end
        BY <2>2, LenProperties
      <4> QED
        BY <4>1 DEF ResultIsOwn
    <3>1. i \in 1..Len(jobs) /\ jobs'[i] = jobs[i]
      BY <1>2, <2>2, <2>5
    <3>2. jobs[i].child \in 1..last
      BY <2>4, <3>1
    <3>3. /\ procs[jobs[i].child].state = "reaped" /\ jobs[i].code = procs[jobs[i].child].code
          /\ jobs[i].state = "exited" <=> jobs[i].code = 0
      BY <3>1, JobsTypes DEF JobsInv, ResultIsOwn
    <3> QED
      BY <1>6, <3>1, <3>2, <3>3
  <2> QED
    BY <1>6, <1>7, <2>2, <2>3, <2>8, <2>9 DEF JobsInv
<1> QED
  BY <1>8, <1>9

LEMMA DryKeepsJobs ==
  ASSUME JobsInv, AddJob(DryJob), procs' = procs PROVE JobsInv'
<1>1. CASE jobs' = jobs
  BY <1>1, JobsStay DEF OnlyScreen
<1>2. CASE jobs' = Append(jobs, DryJob) /\ Len(jobs) # MaxJobs
  <2> DEFINE end == Len(jobs) + 1
  <2>1. DryJob \in Jobs /\ DryJob.state = "dry" /\ Len(jobs) \in Nat
    BY JobsTypes DEF DryJob, Jobs
  <2>2. /\ jobs' \in Seq(Jobs) /\ Len(jobs') = end /\ jobs'[end] = DryJob
        /\ \A i \in 1..Len(jobs) : jobs'[i] = jobs[i]
    BY <1>2, <2>1, AppendProperties DEF JobsInv
  <2>3. Len(jobs') <= MaxJobs
    BY <1>2, <2>1, <2>2, BoundsAssumption DEF JobsInv
  <2>4. \A i \in 1..end : i \in 1..Len(jobs) \/ i = end
    BY <2>1
  <2> HIDE DEF end
  <2>5. \A i \in 1..end : jobs'[i].state # "dry" => i \in 1..Len(jobs) /\ jobs'[i] = jobs[i]
    BY <2>1, <2>2, <2>4
  <2>6. JobsHaveChildren'
    <3> SUFFICES ASSUME NEW i \in 1..end, jobs'[i].state # "dry"
        PROVE /\ jobs'[i].child \in 1..Len(procs)
              /\ jobs'[i].state = "running" =>
                    procs[jobs'[i].child].pid = jobs'[i].pid /\ procs[jobs'[i].child].state # "reaped"
              /\ \A k \in 1..end : jobs'[k].state # "dry" /\ jobs'[i].child = jobs'[k].child => i = k
      BY <2>2 DEF JobsHaveChildren
    <3>1. i \in 1..Len(jobs) /\ jobs'[i] = jobs[i]
      BY <2>5
    <3> QED
      BY <2>5, <3>1 DEF JobsInv, JobsHaveChildren
  <2>7. PidsUnique'
    BY DEF JobsInv, PidsUnique
  <2>8. ResultIsOwn'
    <3> SUFFICES ASSUME NEW i \in 1..end, jobs'[i].state \in {"exited", "failed"}
        PROVE /\ procs[jobs'[i].child].state = "reaped" /\ jobs'[i].code = procs[jobs'[i].child].code
              /\ jobs'[i].state = "exited" <=> jobs'[i].code = 0
      <4>1. DOMAIN jobs' = 1..end
        BY <2>2, LenProperties
      <4> QED
        BY <4>1 DEF ResultIsOwn
    <3>1. i \in DOMAIN jobs /\ jobs'[i] = jobs[i]
      BY <2>5, JobsTypes
    <3> QED
      BY <3>1 DEF JobsInv, ResultIsOwn
  <2> QED
    BY <2>2, <2>3, <2>6, <2>7, <2>8 DEF JobsInv
<1> QED
  BY <1>1, <1>2 DEF AddJob

LEMMA RunKeepsJobs == JobsInv /\ KeyRun => JobsInv'
<1> SUFFICES ASSUME JobsInv, KeyRun PROVE JobsInv'
  OBVIOUS
<1>1. CASE AddJob(DryJob) /\ UNCHANGED procs
  BY <1>1, DryKeepsJobs
<1>2. CASE UNCHANGED <<jobs, procs>>
  BY <1>2, JobsStay DEF OnlyScreen
<1>3. ASSUME NEW pid \in FreePids, AddJob(RealJob(pid)),
             procs' = Append(procs, [pid |-> pid, state |-> "running", code |-> 0])
      PROVE  JobsInv'
  BY <1>3, StartKeepsJobs
<1> QED
  BY <1>1, <1>2, <1>3 DEF KeyRun

LEMMA JobsNext == JobsInv /\ [Next]_vars => JobsInv'
<1> SUFFICES ASSUME JobsInv, [Next]_vars PROVE JobsInv'
  OBVIOUS
<1>1. CASE Iterate
  BY <1>1, RefreshKeepsJobs DEF Iterate
<1>2. CASE Key
  <2>1. CASE KeyRun
    BY <2>1, RunKeepsJobs
  <2>2. CASE NoKey \/ KeyQuit \/ KeySearch \/ KeyEsc \/ KeyOpen \/ KeyEdit \/ KeyDryRun
    <3>1. OnlyScreen
      BY <2>2 DEF NoKey, KeyQuit, KeySearch, KeyEsc, KeyOpen, KeyEdit, KeyDryRun
    <3> QED
      BY <3>1, JobsStay
  <2>3. ASSUME NEW step \in {-1, 1}, KeyMove(step) \/ KeyCycle(step) PROVE JobsInv'
    <3>1. OnlyScreen
      BY <2>3 DEF KeyMove, KeyCycle
    <3> QED
      BY <3>1, JobsStay
  <2> QED
    BY <1>2, <2>1, <2>2, <2>3 DEF Key
<1>3. CASE Prompted
  <2>1. OnlyScreen
    BY <1>3 DEF Prompted, Cancel, Answer, Search, OnlyScreen
  <2> QED
    BY <2>1, JobsStay
<1>4. ASSUME NEW n \in 1..MaxRuns, NEW code \in {0, -1}, ChildEnds(n, code) PROVE JobsInv'
  BY <1>4, EndKeepsJobs
<1>5. CASE UNCHANGED vars
  <2>1. OnlyScreen
    BY <1>5 DEF vars, OnlyScreen
  <2> QED
    BY <2>1, JobsStay
<1> QED
  BY <1>1, <1>2, <1>3, <1>4, <1>5 DEF Next

----------------------------------------------------------------------------
(* The theorems *)

LEMMA AppInvariants == Spec => []ScreenInv /\ []JobsInv
<1>1. Init => ScreenInv /\ JobsInv
  BY ScreenInit, JobsInit
<1>2. ScreenInv /\ JobsInv /\ [Next]_vars => ScreenInv' /\ JobsInv'
  BY ScreenNext, JobsNext
<1> QED
  BY <1>1, <1>2, PTL DEF Spec

\* Where the user is and what the table tells are always consistent: a draft is there exactly
\* in the configuration, of an action of the open category, and of every job that has ended the
\* table tells how its own process ended (open_config, close_config, close_category,
\* refresh_jobs, add_job), for any catalog, any process ids and any sizes of the table.
THEOREM AppIsConsistent == Spec => []StateRight
<1>1. ASSUME ScreenInv, JobsInv PROVE StateRight
  <2>1. \A i \in DOMAIN jobs : jobs[i].state \in {"dry", "running", "exited", "failed"}
    BY <1>1, JobsTypes
  <2>2. TypeOK
    BY <1>1, <2>1 DEF ScreenInv, Selections, JobsInv, TypeOK
  <2> QED
    BY <1>1, <2>2 DEF ScreenInv, JobsInv, StateRight
<1>2. ScreenInv /\ JobsInv => StateRight
  BY <1>1
<1> QED
  BY <1>2, AppInvariants, PTL

LEMMA OpenStep ==
  ASSUME ScreenInv, Next
  PROVE  /\ opened' # 0 /\ opened = 0 /\ lit # 0 => opened' = lit
         /\ view # "config" /\ view' = "config" /\ lit # 0 => draft'.action = lit
<1>1. CASE KeyOpen
  <2>1. CASE view = "categories" /\ OpenCategory
    <3>1. opened' = Nth(CategoriesShown(search), category) /\ view' = "actions"
      BY <2>1 DEF OpenCategory
    <3>2. lit # 0 => lit = Nth(CategoriesShown(search), category)
      BY <2>1 DEF ScreenInv, LitRight, Coherent
    <3> QED
      BY <3>1, <3>2
  <2>2. CASE view # "categories" /\ OpenConfig
    <3> DEFINE row == Nth(ActionsShown(search), action)
    <3>1. opened # 0 /\ (lit # 0 => lit = row)
      BY <2>2 DEF ScreenInv, LitRight, Coherent
    <3>2. row \in ActionsShown(search) /\ draft' = Clamped(MakeStep(row), mem)
      BY <2>2, NthIsShown DEF OpenConfig
    <3>3. row \in DOMAIN Actions
      BY <3>2, ShownIsFinite, Catalog
    <3> HIDE DEF row
    <3>4. draft'.action = row
      BY <3>2, <3>3, MakeStepIsDraft, ClampedIsDraft, MemoryStays
    <3> QED
      BY <3>1, <3>4
  <2> QED
    BY <1>1, <2>1, <2>2 DEF KeyOpen
<1>2. CASE opened' \in {opened, 0} /\ view' \in {view, "actions", "categories"}
  BY <1>2
<1>3. CASE Iterate
  BY <1>2, <1>3 DEF Iterate
<1>4. CASE Key /\ ~ KeyOpen
  <2>1. CASE NoKey \/ KeyQuit \/ KeySearch \/ KeyEdit
    BY <1>2, <2>1 DEF NoKey, KeyQuit, KeySearch, KeyEdit, app
  <2>2. CASE KeyEsc
    BY <1>2, <2>2 DEF KeyEsc, CloseConfig, CloseCategory
  <2>3. CASE KeyDryRun \/ KeyRun
    BY <1>2, <2>3 DEF KeyDryRun, KeyRun
  <2>4. CASE \E step \in {-1, 1} : KeyMove(step) \/ KeyCycle(step)
    BY <1>2, <2>4 DEF KeyMove, KeyCycle
  <2> QED
    BY <1>4, <2>1, <2>2, <2>3, <2>4 DEF Key
<1>5. CASE Prompted
  BY <1>2, <1>5 DEF Prompted, Cancel, Answer, Search, app
<1>6. CASE \E n \in 1..MaxRuns, code \in {0, -1} : ChildEnds(n, code)
  BY <1>2, <1>6 DEF ChildEnds, app
<1> QED
  BY <1>1, <1>3, <1>4, <1>5, <1>6 DEF Next

\* Whatever is searched for, what opens is the row that was lit when the key was waited for:
\* the selection is brought inside the list before it is drawn, and looked up by the search it
\* was drawn with (visible_category_index, visible_action_index, draw_actions).
THEOREM WhatIsLitOpens == Spec => OpensWhatIsLit
<1>1. ScreenInv /\ [Next]_vars =>
        [/\ opened' # 0 /\ opened = 0 /\ lit # 0 => opened' = lit
         /\ view # "config" /\ view' = "config" /\ lit # 0 => draft'.action = lit]_vars
  BY OpenStep
<1> QED
  BY <1>1, AppInvariants, PTL DEF Spec, OpensWhatIsLit

\* Only 'r' begins a process.
LEMMA OnlyRunBegins ==
  ASSUME JobsInv, Next, ~ KeyRun PROVE Len(procs') = Len(procs)
<1>1. Len(procs) \in Nat /\ DOMAIN procs = 1..Len(procs)
  BY JobsTypes
<1>2. CASE Iterate
  <2> DEFINE child(n) == IF procs[n].state = "zombie" /\ \E i \in Polled : n \in ChildWith(jobs[i].pid)
                         THEN [procs[n] EXCEPT !.state = "reaped"] ELSE procs[n]
  <2>1. procs' = [n \in 1..Len(procs) |-> child(n)]
    BY <1>1, <1>2 DEF Iterate, RefreshJobs
  <2> HIDE DEF child
  <2> QED
    BY <1>1, <2>1
<1>3. CASE Key
  <2>1. OnlyScreen
    BY <1>3 DEF Key, NoKey, KeyQuit, KeySearch, KeyEsc, KeyOpen, KeyEdit, KeyDryRun, KeyMove, KeyCycle
  <2> QED
    BY <2>1 DEF OnlyScreen
<1>4. CASE Prompted
  BY <1>4 DEF Prompted, Cancel, Answer, Search
<1>5. ASSUME NEW n \in 1..MaxRuns, NEW code \in {0, -1}, ChildEnds(n, code) PROVE Len(procs') = Len(procs)
  <2> DEFINE ended == [procs[n] EXCEPT !.state = "zombie", !.code = code]
  <2>1. procs' = [procs EXCEPT ![n] = ended]
    BY <1>5 DEF ChildEnds
  <2> HIDE DEF ended
  <2>2. procs' = [m \in 1..Len(procs) |-> IF m = n THEN ended ELSE procs[m]]
    BY <1>1, <2>1
  <2> QED
    BY <1>1, <2>2
<1> QED
  BY <1>2, <1>3, <1>4, <1>5 DEF Next

\* What bounded_positive gives for a size that is not negative and not above a limit.
LEMMA BoundedBelow ==
  ASSUME NEW n \in Int, NEW limit \in Int, n <= limit, 0 < limit, NEW fallback \in Int,
         n <= 0 => fallback <= limit
  PROVE  BoundedPositive(n, fallback, 1024 * 1024) <= limit
  BY DEF BoundedPositive

LEMMA RunAllocatesLittle ==
  ASSUME ScreenInv, KeyRun, mem > 0, ~ FallsBack(draft') PROVE Allocated(draft') <= mem
<1> DEFINE mems == { n \in DOMAIN draft'.values : ParamOf(draft', n).type = "mem" }
           one == CHOOSE n \in DOMAIN draft'.values : ParamOf(draft', n).type = "mem"
           kind == Actions[draft'.action].kind
           size == Value(draft', "mem")
<1>1. mem \in Nat /\ mem < IntRange /\ IsDraft(draft) /\ draft' = Clamped(draft, mem)
  BY MemoryStays, RunDraft
<1>2. /\ DOMAIN draft'.values = DOMAIN draft.values /\ \A n : ParamOf(draft', n) = ParamOf(draft, n)
      /\ IsDraft(draft')
  BY RunDraft DEF ParamOf, Params
<1>3. \A n \in mems : Atoi(draft'.values[n]) <= mem
  BY <1>1, <1>2, ClampedIsDraft
<1>4. \A n \in mems : Atoi(draft'.values[n]) \in Int
  BY <1>2, AtoiFits DEF IsDraft
<1>5. kind = "other" => Allocated(draft') <= mem
  BY <1>1 DEF Allocated
<1>6. CASE kind # "other"
  <2> DEFINE a == Actions[draft'.action]
  <2>1. a \in Range(Actions)
    BY <1>2 DEF IsDraft, Range
  <2>2. a.kind \in Kinds /\ \E p \in Range(a.params) : p.type = "mem"
    BY <1>6, <2>1, CatalogAssumption
  <2>3. PICK n \in DOMAIN a.params : a.params[n].type = "mem"
    BY <2>2 DEF Range
  <2>4. n \in mems
    BY <1>2, <2>3 DEF IsDraft, ParamOf, Params
  <2>5. one \in mems
    BY <2>4
  <2>6. size = Atoi(draft'.values[one])
    BY DEF Value
  <2> HIDE DEF mems, one
  <2>7. size \in Int /\ size <= mem
    BY <1>3, <1>4, <2>5, <2>6
  <2> HIDE DEF size
  <2>8. CASE kind = "pressure"
    BY <1>1, <2>7, <2>8 DEF Allocated, size
  <2>9. CASE kind = "oom"
    <3>1. Allocated(draft') = BoundedPositive(size, 1, 1024 * 1024)
      BY <2>9 DEF Allocated, size
    <3>2. BoundedPositive(size, 1, 1024 * 1024) <= mem
      BY <1>1, <2>7, BoundedBelow
    <3> QED
      BY <3>1, <3>2
  <2>10. CASE kind = "leak"
    <3> DEFINE rate == BoundedPositive(Value(draft', "rate"), 1, 4096)
    <3>1. Allocated(draft') = BoundedPositive(size, rate, 1024 * 1024)
      BY <2>10 DEF Allocated, size
    <3>2. size > 0
      BY <2>7, <2>10 DEF FallsBack, size
    <3> HIDE DEF rate
    <3>3. BoundedPositive(size, rate, 1024 * 1024) <= mem
      BY <1>1, <2>7, <3>2 DEF BoundedPositive
    <3> QED
      BY <3>1, <3>3
  <2> QED
    BY <1>6, <2>2, <2>8, <2>9, <2>10 DEF Kinds
<1> QED
  BY <1>5, <1>6

\* README.md:27: no memory action comes to more than was available when its key was waited for,
\* whatever was configured and typed, for any amounts of memory an int can tell
\* (clamp_step_params before run_step, atoi, bounded_positive); a leak whose maximum is no
\* positive int is left out, for it takes one step of its rate instead, which has no limit.
THEOREM NeverMoreThanThereIs == Spec => WithinMemory
<1>1. ASSUME ScreenInv, JobsInv, [Next]_vars
      PROVE  [Len(procs') > Len(procs) /\ mem > 0 /\ ~FallsBack(draft')
                 => Allocated(draft') <= mem]_vars
  <2>1. CASE KeyRun
    BY <2>1, <1>1, RunAllocatesLittle
  <2>2. CASE Next /\ ~ KeyRun
    <3>1. Len(procs') = Len(procs) /\ Len(procs) \in Nat
      BY <1>1, <2>2, OnlyRunBegins, JobsTypes
    <3> QED
      BY <3>1
  <2> QED
    BY <1>1, <2>1, <2>2
<1>2. ScreenInv /\ JobsInv /\ [Next]_vars =>
        [Len(procs') > Len(procs) /\ mem > 0 /\ ~FallsBack(draft')
            => Allocated(draft') <= mem]_vars
  BY <1>1
<1> QED
  BY <1>2, AppInvariants, PTL DEF Spec, WithinMemory
=============================================================================
