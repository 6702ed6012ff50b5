------------------------- MODULE TestRegistryProofs -------------------------
(***************************************************************************)
(* That no file of others is touched that is there when the program looks, *)
(* whatever fails or is killed; that memory, registry and scripts agree as *)
(* long as nothing fails; and that with one fault only texts that the user *)
(* has given up leave the disk, and those that only a script has which the *)
(* program was not started from: for every number of tests and whatever    *)
(* their names.                                                            *)
(*                                                                         *)
(* What a recursive definition yields is here proved of its least argument *)
(* for which it would not hold (Least).                                    *)
(***************************************************************************)
EXTENDS TestRegistry, SequenceTheorems, WellFoundedInduction, TLAPS

\* Every set of naturals has a least member.
LEMMA Least ==
  ASSUME NEW S \in SUBSET Nat, S # {}
  PROVE  \E m \in S : \A n \in S : m <= n
<1> DEFINE R == {p \in Nat \X Nat : p[1] < p[2]}
<1>1. IsWellFoundedOn(R, Nat)
  BY NatLessThanWellFounded, Zenon DEF OpToRel
<1> HIDE DEF R
<1>2. PICK m \in S : \A n \in S : ~ (<<n, m>> \in R)
  BY <1>1, WFMin, Zenon
<1>3. \A n \in S : ~ (n < m)
  BY <1>2 DEF R
<1> QED
  BY <1>3

----------------------------------------------------------------------------
(* Lines *)

\* The recursion of Lines has a solution.
LEMMA LinesSolved ==
  ASSUME NEW ts, Len(ts) \in Nat
  PROVE  \E f : f = [n \in 0..Len(ts) |-> IF n = 0 THEN <<>> ELSE Listed(f[n - 1], ts[n])]
<1> DEFINE Solves(f, m) == f = [n \in 0..m |-> IF n = 0 THEN <<>> ELSE Listed(f[n - 1], ts[n])]
           Bad == {m \in Nat : ~ \E f : Solves(f, m)}
<1>1. Bad = {}
  <2>1. SUFFICES ASSUME Bad # {} PROVE FALSE
    OBVIOUS
  <2>2. PICK m \in Bad : \A n \in Bad : m <= n
    BY <2>1, Least
  <2>3. CASE m = 0
    <3>1. Solves([n \in 0..0 |-> <<>>], 0)
      OBVIOUS
    <3> QED
      BY <2>2, <2>3, <3>1
  <2>4. CASE m # 0
    <3>1. m \in Nat /\ m - 1 \in Nat /\ m - 1 \notin Bad
      BY <2>2, <2>4
    <3>2. PICK f : Solves(f, m - 1)
      BY <3>1
    <3> DEFINE g == [n \in 0..m |-> IF n < m THEN f[n] ELSE Listed(f[m - 1], ts[m])]
               h == [n \in 0..m |-> IF n = 0 THEN <<>> ELSE Listed(g[n - 1], ts[n])]
    <3>3. \A n \in 0..(m - 1) : f[n] = IF n = 0 THEN <<>> ELSE Listed(f[n - 1], ts[n])
      BY <3>2
    <3>4. ASSUME NEW n \in 0..m PROVE g[n] = h[n]
      <4>1. CASE n = 0
        BY <3>1, <3>3, <4>1, <2>4
      <4>2. CASE n # 0 /\ n < m
        <5>1. g[n] = f[n] /\ g[n - 1] = f[n - 1] /\ n \in 0..(m - 1)
          BY <3>1, <4>2
        <5> QED
          BY <3>3, <4>2, <5>1
      <4>3. CASE n = m
        <5>1. g[n - 1] = f[m - 1]
          BY <3>1, <4>3, <2>4
        <5> QED
          BY <3>1, <4>3, <5>1, <2>4
      <4> QED
        BY <4>1, <4>2, <4>3, <3>1
    <3>5. g = h
      BY <3>4, Zenon
    <3> QED
      BY <3>5, <2>2
  <2> QED
    BY <2>3, <2>4
<1> QED
  BY <1>1

LEMMA LinesUpTo ==
  ASSUME NEW ts, Len(ts) \in Nat
  PROVE  \E f : /\ \A n \in 0..Len(ts) : f[n] = IF n = 0 THEN <<>> ELSE Listed(f[n - 1], ts[n])
                /\ Lines(ts) = f[Len(ts)]
<1> DEFINE P(f) == f = [n \in 0..Len(ts) |-> IF n = 0 THEN <<>> ELSE Listed(f[n - 1], ts[n])]
           up == CHOOSE f : P(f)
<1>1. P(up)
  <2>1. \E f : P(f)
    BY LinesSolved
  <2> HIDE DEF P
  <2> QED
    BY <2>1
<1>2. Lines(ts) = up[Len(ts)]
  BY DEF Lines
<1> HIDE DEF up
<1>3. \A n \in 0..Len(ts) : up[n] = IF n = 0 THEN <<>> ELSE Listed(up[n - 1], ts[n])
  BY <1>1
<1> QED
  BY <1>2, <1>3

\* The lines are tests that have a script, and no more of them than tests.
LEMMA LinesFromTests ==
  ASSUME NEW S, NEW ts \in Seq(S)
  PROVE  /\ Lines(ts) \in Seq(S) /\ Len(Lines(ts)) <= Len(ts)
         /\ \A k \in DOMAIN Lines(ts) :
               Lines(ts)[k].script # NoScript /\ \E i \in DOMAIN ts : Lines(ts)[k] = ts[i]
<1>1. Len(ts) \in Nat /\ DOMAIN ts = 1..Len(ts) /\ \A i \in 1..Len(ts) : ts[i] \in S
  OBVIOUS
<1>2. PICK f : /\ \A n \in 0..Len(ts) : f[n] = IF n = 0 THEN <<>> ELSE Listed(f[n - 1], ts[n])
               /\ Lines(ts) = f[Len(ts)]
  BY <1>1, LinesUpTo
<1> DEFINE Good(n) == /\ f[n] \in Seq(S) /\ Len(f[n]) <= n
                      /\ \A k \in 1..Len(f[n]) :
                            f[n][k].script # NoScript /\ \E i \in 1..Len(ts) : f[n][k] = ts[i]
           Bad == {n \in 0..Len(ts) : ~ Good(n)}
<1>3. Bad = {}
  <2>1. SUFFICES ASSUME Bad # {} PROVE FALSE
    OBVIOUS
  <2>2. PICK m \in Bad : \A n \in Bad : m <= n
    <3>1. Bad \in SUBSET Nat
      BY <1>1
    <3> HIDE DEF Bad
    <3> QED
      BY <2>1, <3>1, Least
  <2>3. CASE m = 0
    <3>1. f[0] = <<>>
      BY <1>1, <1>2
    <3>2. Good(0)
      BY <3>1
    <3> QED
      BY <2>2, <2>3, <3>2
  <2>4. CASE m # 0
    <3>1. m \in 1..Len(ts) /\ m - 1 \in 0..Len(ts) /\ Good(m - 1)
      BY <1>1, <2>2, <2>4
    <3>2. f[m] = Listed(f[m - 1], ts[m])
      BY <1>1, <1>2, <3>1, <2>4
    <3>3. CASE ts[m].script = NoScript
      <4>1. f[m] = f[m - 1]
        BY <3>2, <3>3 DEF Listed
      <4>2. Good(m)
        BY <3>1, <4>1
      <4> QED
        BY <2>2, <4>2
    <3>4. CASE ts[m].script # NoScript
      <4> DEFINE g == f[m - 1]
      <4>1. g \in Seq(S) /\ Len(g) \in Nat /\ Len(g) <= m - 1 /\ ts[m] \in S
        BY <1>1, <3>1
      <4>2. f[m] = Append(g, ts[m])
        BY <3>2, <3>4 DEF Listed
      <4>3. /\ Append(g, ts[m]) \in Seq(S) /\ Len(Append(g, ts[m])) = Len(g) + 1
            /\ \A k \in 1..Len(g) : Append(g, ts[m])[k] = g[k]
            /\ Append(g, ts[m])[Len(g) + 1] = ts[m]
        BY <4>1
      <4>4. \A k \in 1..(Len(g) + 1) : k \in 1..Len(g) \/ k = Len(g) + 1
        BY <4>1
      <4>5. \A k \in 1..Len(f[m]) :
              f[m][k].script # NoScript /\ \E i \in 1..Len(ts) : f[m][k] = ts[i]
        BY <3>1, <3>4, <4>2, <4>3, <4>4
      <4>6. Good(m)
        BY <3>1, <4>1, <4>2, <4>3, <4>5
      <4> QED
        BY <2>2, <4>6
    <3> QED
      BY <3>3, <3>4
  <2> QED
    BY <2>3, <2>4
<1>4. Good(Len(ts))
  BY <1>1, <1>3
<1>5. Lines(ts) \in Seq(S) /\ Len(Lines(ts)) <= Len(ts)
  BY <1>2, <1>4
<1>6. \A k \in 1..Len(Lines(ts)) :
        Lines(ts)[k].script # NoScript /\ \E i \in 1..Len(ts) : Lines(ts)[k] = ts[i]
  BY <1>2, <1>4
<1> QED
  BY <1>1, <1>5, <1>6

\* When no test with a script comes after one without, the lines are the first tests.
LEMMA LinesOfSaved ==
  ASSUME NEW S, NEW ts \in Seq(S), NEW m \in 0..Len(ts),
         \A i \in 1..Len(ts) : ts[i].script # NoScript <=> i <= m
  PROVE  Lines(ts) = SubSeq(ts, 1, m)
<1>1. Len(ts) \in Nat /\ DOMAIN ts = 1..Len(ts) /\ \A i \in 1..Len(ts) : ts[i] \in S
  OBVIOUS
<1>2. PICK f : /\ \A n \in 0..Len(ts) : f[n] = IF n = 0 THEN <<>> ELSE Listed(f[n - 1], ts[n])
               /\ Lines(ts) = f[Len(ts)]
  BY <1>1, LinesUpTo
<1> DEFINE Most(n) == IF n <= m THEN n ELSE m
           Good(n) == f[n] \in Seq(S) /\ Len(f[n]) = Most(n) /\ \A k \in 1..Most(n) : f[n][k] = ts[k]
           Bad == {n \in 0..Len(ts) : ~ Good(n)}
<1>3. Bad = {}
  <2>1. SUFFICES ASSUME Bad # {} PROVE FALSE
    OBVIOUS
  <2>2. PICK b \in Bad : \A n \in Bad : b <= n
    <3>1. Bad \in SUBSET Nat
      BY <1>1
    <3> HIDE DEF Bad
    <3> QED
      BY <2>1, <3>1, Least
  <2>3. CASE b = 0
    <3>1. f[0] = <<>>
      BY <1>1, <1>2
    <3>2. Good(0)
      BY <3>1
    <3> QED
      BY <2>2, <2>3, <3>2
  <2>4. CASE b # 0
    <3>1. b \in 1..Len(ts) /\ b - 1 \in 0..Len(ts) /\ Good(b - 1) /\ ts[b] \in S
      BY <1>1, <2>2, <2>4
    <3>2. f[b] = Listed(f[b - 1], ts[b])
      BY <1>1, <1>2, <3>1, <2>4
    <3>3. CASE b <= m
      <4>1. f[b] = Append(f[b - 1], ts[b])
        BY <3>1, <3>2, <3>3 DEF Listed
      <4>2. Good(b)
        BY <3>1, <3>3, <4>1
      <4> QED
        BY <2>2, <4>2
    <3>4. CASE b > m
      <4>1. f[b] = f[b - 1]
        BY <3>1, <3>2, <3>4 DEF Listed
      <4>2. Most(b) = m /\ Most(b - 1) = m
        BY <3>1, <3>4
      <4>3. Good(b)
        BY <3>1, <4>1, <4>2
      <4> QED
        BY <2>2, <4>3
    <3> QED
      BY <3>1, <3>3, <3>4
  <2> QED
    BY <2>3, <2>4
<1>4. Good(Len(ts))
  BY <1>1, <1>3
<1>5. Lines(ts) \in Seq(S) /\ Len(Lines(ts)) = m /\ \A k \in 1..m : Lines(ts)[k] = ts[k]
  BY <1>2, <1>4
<1>6. SubSeq(ts, 1, m) \in Seq(S) /\ Len(SubSeq(ts, 1, m)) = m
      /\ \A k \in 1..m : SubSeq(ts, 1, m)[k] = ts[k]
  BY <1>1
<1> QED
  BY <1>5, <1>6

LEMMA RemoveAtFacts ==
  ASSUME NEW S, NEW s \in Seq(S), NEW i \in 1..Len(s)
  PROVE  /\ RemoveAt(s, i) \in Seq(S) /\ Len(RemoveAt(s, i)) = Len(s) - 1
         /\ \A j \in 1..(Len(s) - 1) : RemoveAt(s, i)[j] = IF j < i THEN s[j] ELSE s[j + 1]
<1> DEFINE a == SubSeq(s, 1, i - 1)
           b == SubSeq(s, i + 1, Len(s))
<1>1. /\ a \in Seq(S) /\ Len(a) = i - 1 /\ \A j \in 1..(i - 1) : a[j] = s[j]
  OBVIOUS
<1>2. /\ b \in Seq(S) /\ Len(b) = Len(s) - i /\ \A j \in 1..(Len(s) - i) : b[j] = s[i + j]
  OBVIOUS
<1>3. RemoveAt(s, i) = a \o b
  BY DEF RemoveAt
<1> HIDE DEF a, b
<1>4. a \o b \in Seq(S) /\ Len(a \o b) = Len(s) - 1
  <2>1. a \o b \in Seq(S) /\ Len(a \o b) = Len(a) + Len(b)
    BY <1>1, <1>2, ConcatProperties
  <2>2. Len(s) \in Nat
    OBVIOUS
  <2> QED
    BY <1>1, <1>2, <2>1, <2>2
<1>5. \A j \in 1..(Len(s) - 1) : (a \o b)[j] = IF j < i THEN a[j] ELSE b[j - (i - 1)]
  BY <1>1, <1>2, <1>4, ConcatProperties
<1>6. ASSUME NEW j \in 1..(Len(s) - 1), ~ (j < i)
      PROVE  b[j - (i - 1)] = s[j + 1]
  <2>1. j - (i - 1) \in 1..(Len(s) - i) /\ i + (j - (i - 1)) = j + 1
    BY <1>6
  <2> QED
    BY <1>2, <2>1
<1>7. ASSUME NEW j \in 1..(Len(s) - 1)
      PROVE  RemoveAt(s, i)[j] = IF j < i THEN s[j] ELSE s[j + 1]
  <2>1. CASE j < i
    <3>1. j \in 1..(i - 1)
      BY <2>1
    <3> QED
      BY <1>1, <1>3, <1>5, <2>1, <3>1
  <2>2. CASE ~(j < i)
    BY <1>3, <1>5, <1>6, <2>2
  <2> QED
    BY <2>1, <2>2
<1> QED
  BY <1>3, <1>4, <1>7

----------------------------------------------------------------------------
(* The types *)

Test == [title : Titles, script : Paths \union {NoScript}, command : Texts, about : Texts]
Files == {None, Cut, Foreign} \union {Body(t) : t \in Test}

LEMMA PathFacts ==
  /\ NoScript \notin Paths
  /\ \A p \in Paths : p[1] \in Dirs /\ p[2] \in {Name[t] : t \in Titles}
  /\ \A d \in Dirs, t \in Titles : <<d, Name[t]>> \in Paths
  BY DEF NoScript, Paths

LEMMA FileFacts ==
  /\ Foreign # None /\ Foreign # Cut
  /\ \A t : Body(t) # Foreign /\ Body(t) # None
<1>1. \A t : Body(t)[1] = "script" /\ Foreign[1] = "foreign" /\ Cut[1] = "cut"
  BY DEF Body, Foreign, Cut
<1>2. Len(None) = 0 /\ Len(Foreign) = 1 /\ \A t : Len(Body(t)) = 4
  BY DEF Body, Foreign, None
<1> QED
  BY <1>1, <1>2

LEMMA TestFacts ==
  ASSUME NEW t \in Test, cwd \in Dirs
  PROVE  /\ t.title \in Titles /\ t.script \in Paths \union {NoScript}
         /\ t.command \in Texts /\ t.about \in Texts
         /\ PathOf(t) \in Paths /\ PathOf(t) # NoScript /\ PathOf(t)[2] = Name[t.title]
         /\ Saved(t) \in Test /\ Saved(t).script = PathOf(t)
         /\ Saved(t).title = t.title /\ Body(Saved(t)) = Body(t)
<1>1. /\ t.title \in Titles /\ t.script \in Paths \union {NoScript}
      /\ t.command \in Texts /\ t.about \in Texts
  BY DEF Test
<1>2. PathOf(t) \in Paths /\ PathOf(t) # NoScript
  BY <1>1, PathFacts DEF PathOf
<1>3. PathOf(t)[2] = Name[t.title]
  BY DEF PathOf
<1>4. /\ Saved(t) \in Test /\ Saved(t).script = PathOf(t) /\ Saved(t).title = t.title
      /\ Saved(t).command = t.command /\ Saved(t).about = t.about
  BY <1>2 DEF Saved, Test
<1> QED
  BY <1>1, <1>2, <1>3, <1>4 DEF Body

LEMMA FirstMatchIn ==
  ASSUME NEW ts \in Seq(Test), NEW f, \E i \in DOMAIN ts : ts[i].title \in Hits[f]
  PROVE  FirstMatch(ts, f) \in DOMAIN ts
<1> DEFINE hits == {i \in DOMAIN ts : ts[i].title \in Hits[f]}
<1>1. hits \in SUBSET Nat /\ hits # {} /\ hits \subseteq DOMAIN ts
  OBVIOUS
<1>2. FirstMatch(ts, f) = CHOOSE i \in hits : \A j \in hits : i <= j
  BY DEF FirstMatch
<1> HIDE DEF hits
<1>3. \E i \in hits : \A j \in hits : i <= j
  BY <1>1, Least
<1>4. FirstMatch(ts, f) \in hits
  BY <1>2, <1>3
<1> QED
  BY <1>1, <1>4

Selects(i, ts) == i \in Nat \ {0} /\ (ts # <<>> => i <= Len(ts))

LEMMA ClampSelects ==
  ASSUME NEW ts \in Seq(Test), NEW f, NEW i \in Nat \ {0}
  PROVE  Selects(Clamp(ts, i, f), ts)
<1> DEFINE j == IF i > Len(ts) THEN IF ts = <<>> THEN 1 ELSE Len(ts) ELSE i
<1>1. Len(ts) \in Nat /\ DOMAIN ts = 1..Len(ts) /\ (ts # <<>> => Len(ts) # 0)
  OBVIOUS
<1>2. j \in Nat \ {0} /\ (ts # <<>> => j <= Len(ts))
  BY <1>1
<1>3. \/ Clamp(ts, i, f) = j
      \/ Clamp(ts, i, f) = FirstMatch(ts, f) /\ \E t \in Range(ts) : t.title \in Hits[f]
  <2> DEFINE moves == /\ j \in DOMAIN ts /\ ts[j].title \notin Hits[f]
                      /\ \E t \in Range(ts) : t.title \in Hits[f]
  <2>1. Clamp(ts, i, f) = IF moves THEN FirstMatch(ts, f) ELSE j
    BY DEF Clamp
  <2>2. moves => \E t \in Range(ts) : t.title \in Hits[f]
    OBVIOUS
  <2> HIDE DEF moves
  <2> QED
    BY <2>1, <2>2
<1> HIDE DEF j
<1>4. (\E t \in Range(ts) : t.title \in Hits[f]) => FirstMatch(ts, f) \in 1..Len(ts)
  BY <1>1, FirstMatchIn DEF Range
<1> QED
  BY <1>1, <1>2, <1>3, <1>4 DEF Selects

----------------------------------------------------------------------------
(* Nothing of anyone else is touched *)

Tests ==
    /\ tests \in Seq(Test) /\ Len(tests) <= MaxCases /\ Selects(sel, tests)
    /\ pending \subseteq DOMAIN tests /\ (at # "writing" => pending = {})
    /\ at = "editor" \/ (at = "saving" /\ back = "editor") => tests # <<>>
    /\ at = "off" => tests = <<>> /\ sel = 1

Registry ==
    /\ registry \in Seq(Test) /\ Len(registry) <= MaxCases
    /\ \A k \in DOMAIN registry : registry[k].script # NoScript

Screens ==
    /\ filter \in DOMAIN Hits /\ cwd \in Dirs
    /\ at \in {"list", "editor", "saving", "writing", "off"}
    /\ back \in {"list", "editor", "running", "resuming", "failing", "off"}
    /\ at = "saving" => back \in {"list", "editor", "off"}
    /\ at = "writing" => back \in {"running", "resuming", "failing", "off"}
    /\ text \in Texts /\ typed \in Texts

Disk == scripts \in [Paths -> Files] /\ foreign \subseteq Paths

\* What is somebody else's is not taken for the script of a test.
Apart ==
    /\ \A i \in DOMAIN tests : tests[i].script \notin foreign
    /\ \A k \in DOMAIN registry : registry[k].script \notin foreign

RegInv == Tests /\ Registry /\ Screens /\ Disk /\ ForeignSafe /\ Apart

LEMMA RegInit == Init => RegInv
<1> SUFFICES ASSUME Init PROVE RegInv
  OBVIOUS
<1>1. Tests /\ Registry
  BY BoundsAssumption DEF Init, Tests, Registry, Selects
<1>2. Screens /\ Disk
  BY NamesAssumption, BoundsAssumption DEF Init, Screens, Disk, Files, Texts
<1>3. ForeignSafe /\ Apart
  BY DEF Init, ForeignSafe, Apart
<1> QED
  BY <1>1, <1>2, <1>3 DEF RegInv

\* When the program is gone only the disk is left.
LEMMA GoneKeeps ==
  ASSUME RegInv, Gone, UNCHANGED <<typed, foreign>>, Registry', Disk', ForeignSafe',
         \A k \in DOMAIN registry' : registry'[k].script \notin foreign
  PROVE  RegInv'
<1>1. Tests'
  BY BoundsAssumption DEF Gone, Tests, Selects
<1>2. Screens'
  BY NamesAssumption, BoundsAssumption DEF RegInv, Screens, Gone, Texts
<1>3. Apart'
  BY DEF Apart, Gone
<1> QED
  BY <1>1, <1>2, <1>3 DEF RegInv

\* A write touches the path of its test, which nothing is at that is not the test's, and
\* the path that the test had.
LEMMA WritesApart ==
  ASSUME RegInv, NEW t \in Test, t.script \notin foreign, ~Taken(t), NEW body \in Files
  PROVE  /\ Written(t, body) \in [Paths -> Files]
         /\ [scripts EXCEPT ![PathOf(t)] = body] \in [Paths -> Files]
         /\ PathOf(t) \notin foreign
         /\ \A p \in foreign : /\ Written(t, body)[p] = Foreign
                              /\ [scripts EXCEPT ![PathOf(t)] = body][p] = Foreign
<1>1. PathOf(t) \in Paths /\ PathOf(t) \notin foreign
  <2>1. PathOf(t) \in Paths
    BY TestFacts DEF RegInv, Screens
  <2>2. PathOf(t) = t.script \/ scripts[PathOf(t)] = None
    BY DEF Taken
  <2> QED
    BY <2>1, <2>2, FileFacts DEF RegInv, ForeignSafe
<1>2. Written(t, body) \in [Paths -> Files]
  BY DEF Written, RegInv, Disk, Files
<1>3. \A p \in foreign : Written(t, body)[p] = Foreign
  BY <1>1 DEF Written, RegInv, Disk, ForeignSafe
<1> QED
  BY <1>1, <1>2, <1>3 DEF RegInv, Disk, ForeignSafe

LEMMA BodiesAreFiles == Cut \in Files /\ None \in Files /\ Foreign \in Files /\ \A t \in Test : Body(t) \in Files
  BY DEF Files

LEMMA WriteKeeps ==
  ASSUME RegInv, NEW t \in Test, t.script \notin foreign, Write(t), UNCHANGED foreign
  PROVE  Disk' /\ ForeignSafe' /\ PathOf(t) \notin foreign /\ Saved(t) \in Test /\ Saved(t).script = PathOf(t)
<1>1. PICK body \in Files : scripts' = Written(t, body)
  BY BodiesAreFiles DEF Write
<1>2. ~Taken(t)
  BY DEF Write
<1>3. /\ scripts' \in [Paths -> Files] /\ PathOf(t) \notin foreign
      /\ \A p \in foreign : scripts'[p] = Foreign
  BY <1>1, <1>2, WritesApart
<1>4. Disk' /\ ForeignSafe'
  BY <1>3 DEF Disk, ForeignSafe, RegInv
<1>5. Saved(t) \in Test /\ Saved(t).script = PathOf(t)
  BY TestFacts DEF RegInv, Screens
<1> QED
  BY <1>3, <1>4, <1>5

LEMMA KilledKeeps ==
  ASSUME RegInv, NEW t \in Test, t.script \notin foreign, WriteKilled(t)
  PROVE  RegInv'
<1>1. ~Taken(t) /\ Gone /\ UNCHANGED <<registry, ghosts>>
  BY DEF WriteKilled
<1>2. scripts' \in [Paths -> Files] /\ \A p \in foreign : scripts'[p] = Foreign
  <2>1. \/ scripts' = scripts
        \/ \E body \in Files : scripts' = [scripts EXCEPT ![PathOf(t)] = body] \/ scripts' = Written(t, body)
    BY BodiesAreFiles DEF WriteKilled, Partway
  <2>2. CASE scripts' = scripts
    BY <2>2 DEF RegInv, Disk, ForeignSafe
  <2>3. ASSUME NEW body \in Files,
               scripts' = [scripts EXCEPT ![PathOf(t)] = body] \/ scripts' = Written(t, body)
        PROVE  scripts' \in [Paths -> Files] /\ \A p \in foreign : scripts'[p] = Foreign
    <3>1. /\ Written(t, body) \in [Paths -> Files]
          /\ [scripts EXCEPT ![PathOf(t)] = body] \in [Paths -> Files]
          /\ \A p \in foreign : /\ Written(t, body)[p] = Foreign
                               /\ [scripts EXCEPT ![PathOf(t)] = body][p] = Foreign
      BY <1>1, WritesApart
    <3> QED
      BY <2>3, <3>1
  <2> QED
    BY <2>1, <2>2, <2>3
<1> QED
  BY <1>1, <1>2, GoneKeeps DEF RegInv, Registry, Disk, ForeignSafe, Apart, ghosts

LEMMA Replaced ==
  ASSUME NEW S, NEW s \in Seq(S), NEW i \in DOMAIN s, NEW x \in S
  PROVE  /\ [s EXCEPT ![i] = x] \in Seq(S) /\ Len([s EXCEPT ![i] = x]) = Len(s)
         /\ DOMAIN [s EXCEPT ![i] = x] = DOMAIN s
         /\ \A j \in DOMAIN s : [s EXCEPT ![i] = x][j] = IF j = i THEN x ELSE s[j]
  OBVIOUS

LEMMA LoadedFacts ==
  ASSUME RegInv
  PROVE  Loaded = registry
<1>1. Len(registry) \in Nat /\ Len(registry) <= MaxCases /\ registry \in Seq(Test)
  BY DEF RegInv, Registry
<1>2. Loaded = SubSeq(registry, 1, Len(registry))
  BY <1>1, BoundsAssumption DEF Loaded
<1> QED
  BY <1>1, <1>2

----------------------------------------------------------------------------
(* The actions *)

LEMMA Sizes == 0 \in Texts /\ MaxCases \in Nat \ {0}
  BY BoundsAssumption DEF Texts

\* Where the memory and the screens change, and no file.
LEMMA AwayFromDisk ==
  ASSUME RegInv, UNCHANGED <<scripts, registry, foreign>>, Tests', Screens',
         \A i \in DOMAIN tests' : tests'[i].script \notin foreign
  PROVE  RegInv'
  BY DEF RegInv, Registry, Disk, ForeignSafe, Apart

LEMMA AddKeeps == ASSUME RegInv, NEW title \in Titles, Add(title) PROVE RegInv'
<1> DEFINE t == [title |-> title, script |-> NoScript, command |-> 0, about |-> 0]
           ts == Append(tests, t)
<1>1. t \in Test
  BY Sizes DEF Test
<1>2. /\ tests' = ts /\ Len(tests) < MaxCases /\ sel' = Clamp(ts, Len(ts), filter) /\ at = "list"
      /\ at' = "editor" /\ text' = 0 /\ UNCHANGED <<filter, cwd, back, pending, disk, typed, foreign>>
  BY DEF Add
<1>3. /\ ts \in Seq(Test) /\ ts # <<>> /\ Len(ts) = Len(tests) + 1 /\ DOMAIN ts = 1..(Len(tests) + 1)
      /\ \A i \in 1..Len(tests) : ts[i] = tests[i]
      /\ ts[Len(tests) + 1] = t
  BY <1>1, AppendProperties DEF RegInv, Tests
<1>4. Len(tests) \in Nat /\ DOMAIN tests = 1..Len(tests)
  BY DEF RegInv, Tests
<1> HIDE DEF t, ts
<1>5. Tests'
  <2>1. Selects(sel', ts)
    BY <1>2, <1>3, <1>4, ClampSelects
  <2> QED
    BY <1>2, <1>3, <1>4, <2>1, Sizes DEF Tests, RegInv
<1>6. Screens'
  BY <1>2, Sizes DEF RegInv, Screens
<1>7. \A i \in DOMAIN tests' : tests'[i].script \notin foreign
  <2>1. t.script \notin foreign
    BY PathFacts DEF t, RegInv, Disk
  <2> QED
    BY <1>2, <1>3, <1>4, <2>1 DEF RegInv, Apart
<1> QED
  BY <1>2, <1>5, <1>6, <1>7, AwayFromDisk DEF disk

LEMMA OpenKeeps == ASSUME RegInv, NEW what \in {"command", "about"}, Open(what) PROVE RegInv'
<1>1. /\ UNCHANGED <<tests, filter, cwd, back, pending, disk, ghosts>>
      /\ at = "list" /\ Visible /\ at' = "editor" /\ sel' = Clamp(tests, sel, filter)
      /\ text' = IF what = "command" THEN tests[sel].command ELSE tests[sel].about
  BY DEF Open, OnTest
<1>2. tests # <<>> /\ tests[sel] \in Test
  <2>1. tests # <<>>
    BY <1>1 DEF Visible, Range
  <2> QED
    BY <2>1 DEF RegInv, Tests, Selects
<1>3. Tests'
  <2>1. Selects(sel', tests)
    BY <1>1, ClampSelects DEF RegInv, Tests, Selects
  <2> QED
    BY <1>1, <1>2, <2>1 DEF RegInv, Tests
<1>4. Screens'
  BY <1>1, <1>2, TestFacts DEF RegInv, Screens, ghosts
<1> QED
  BY <1>1, <1>3, <1>4, AwayFromDisk DEF disk, ghosts, RegInv, Apart

\* Where one test changes in its place, with its script or without.
LEMMA ChangeKeeps ==
  ASSUME RegInv, NEW i \in DOMAIN tests, NEW x \in Test, x.script \notin foreign,
         tests' = [tests EXCEPT ![i] = x], UNCHANGED <<registry, foreign>>, Screens',
         Disk', ForeignSafe', sel' \in Nat \ {0}, sel' <= Len(tests),
         pending' \subseteq pending, at' # "writing" => pending' = {}, at' # "off"
  PROVE  RegInv'
<1>1. /\ tests' \in Seq(Test) /\ Len(tests') = Len(tests) /\ DOMAIN tests' = DOMAIN tests
      /\ \A j \in DOMAIN tests : tests'[j] = IF j = i THEN x ELSE tests[j]
  BY Replaced DEF RegInv, Tests
<1>2. tests' # <<>>
  BY <1>1 DEF RegInv, Tests
<1>3. Tests'
  BY <1>1, <1>2 DEF RegInv, Tests, Selects
<1>4. Apart' /\ Registry'
  BY <1>1 DEF RegInv, Apart, Registry
<1> QED
  BY <1>3, <1>4 DEF RegInv

\* ... and where the tests stay.
LEMMA SameTestsKeep ==
  ASSUME RegInv, UNCHANGED <<tests, registry, foreign>>, Screens', Disk', ForeignSafe',
         Selects(sel', tests), pending' \subseteq pending, at' # "writing" => pending' = {},
         at' = "editor" \/ (at' = "saving" /\ back' = "editor") => tests # <<>>, at' # "off"
  PROVE  RegInv'
<1>1. Tests'
  BY DEF RegInv, Tests
<1>2. Registry' /\ Apart'
  BY DEF RegInv, Registry, Apart
<1> QED
  BY <1>1, <1>2 DEF RegInv

LEMMA SelectedTest ==
  ASSUME RegInv, tests # <<>>
  PROVE  sel \in DOMAIN tests /\ tests[sel] \in Test /\ tests[sel].script \notin foreign
  BY DEF RegInv, Tests, Selects, Apart

LEMMA OnTestHas == RegInv /\ OnTest => tests # <<>>
  BY DEF OnTest, Visible, Range, RegInv, Tests

LEMMA Unwritten == ASSUME RegInv, UNCHANGED <<scripts, foreign>> PROVE Disk' /\ ForeignSafe'
  BY DEF RegInv, Disk, ForeignSafe

LEMMA RenameKeeps == ASSUME RegInv, NEW title \in Titles, Rename(title) PROVE RegInv'
<1> DEFINE t == [tests[sel] EXCEPT !.title = title]
           ts == [tests EXCEPT ![sel] = Saved(t)]
<1>1. OnTest /\ tests # <<>> /\ sel \in DOMAIN tests /\ at = "list"
  BY SelectedTest, OnTestHas DEF Rename, OnTest
<1>2. t \in Test /\ t.script \notin foreign
  BY <1>1, SelectedTest DEF Test
<1>3. CASE /\ Write(t) /\ tests' = ts /\ sel' = Clamp(ts, sel, filter)
           /\ SaveRegistryThen("list")
           /\ UNCHANGED <<filter, cwd, editor, pending, registry, ghosts>>
  <2>1. Disk' /\ ForeignSafe' /\ PathOf(t) \notin foreign /\ Saved(t) \in Test /\ Saved(t).script = PathOf(t)
    BY <1>2, <1>3, WriteKeeps DEF ghosts
  <2> HIDE DEF t
  <2>2. ts \in Seq(Test) /\ Len(ts) = Len(tests) /\ ts # <<>>
    BY <1>1, <2>1, Replaced DEF RegInv, Tests
  <2>3. Selects(sel', ts)
    BY <1>3, <2>2, ClampSelects DEF RegInv, Tests, Selects
  <2>4. Screens'
    BY <1>3 DEF RegInv, Screens, SaveRegistryThen, editor, ghosts
  <2>5. /\ UNCHANGED <<registry, foreign>> /\ pending' \subseteq pending /\ pending' = {}
        /\ at' = "saving" /\ back' = "list"
    BY <1>1, <1>3 DEF RegInv, Tests, SaveRegistryThen, ghosts
  <2>6. tests' = ts
    BY <1>3
  <2> QED
    BY <1>1, <2>1, <2>2, <2>3, <2>4, <2>5, <2>6, ChangeKeeps DEF Selects
<1>4. CASE /\ WriteFails(t) /\ sel' = Clamp(tests, sel, filter)
           /\ UNCHANGED <<tests, filter, cwd, at, back, editor, pending, registry, ghosts>>
  <2>1. Disk' /\ ForeignSafe'
    BY <1>4, Unwritten DEF WriteFails, ghosts
  <2>2. Selects(sel', tests)
    BY <1>4, ClampSelects DEF RegInv, Tests, Selects
  <2>3. Screens'
    BY <1>4 DEF RegInv, Screens, editor, ghosts
  <2> QED
    BY <1>1, <1>4, <2>1, <2>2, <2>3, SameTestsKeep DEF RegInv, Tests, ghosts
<1>5. CASE WriteKilled(t)
  BY <1>2, <1>5, KilledKeeps
<1> QED
  BY <1>3, <1>4, <1>5 DEF Rename

\* Where a test is added at the end.
LEMMA GrowKeeps ==
  ASSUME RegInv, NEW x \in Test, x.script \notin foreign, Len(tests) < MaxCases,
         tests' = Append(tests, x), UNCHANGED <<registry, foreign>>, Screens',
         Disk', ForeignSafe', Selects(sel', tests'), pending' = {}, at' # "off"
  PROVE  RegInv'
<1>1. /\ tests' \in Seq(Test) /\ Len(tests') = Len(tests) + 1 /\ tests' # <<>>
      /\ \A j \in 1..Len(tests) : tests'[j] = tests[j]
      /\ tests'[Len(tests) + 1] = x
  BY AppendProperties DEF RegInv, Tests
<1>2. Len(tests) \in Nat /\ DOMAIN tests = 1..Len(tests) /\ DOMAIN tests' = 1..(Len(tests) + 1)
  BY <1>1 DEF RegInv, Tests
<1>3. Tests'
  BY <1>1, <1>2, Sizes DEF Tests
<1>4. Registry'
  BY DEF RegInv, Registry
<1>5. Apart'
  BY <1>1, <1>2 DEF RegInv, Apart
<1> QED
  BY <1>3, <1>4, <1>5 DEF RegInv

LEMMA CopyKeeps == ASSUME RegInv, NEW title \in Titles, Copy(title) PROVE RegInv'
<1> DEFINE t == [tests[sel] EXCEPT !.title = title, !.script = NoScript]
           ts == Append(tests, Saved(t))
<1>1. OnTest /\ tests # <<>> /\ sel \in DOMAIN tests /\ at = "list" /\ Len(tests) < MaxCases
  BY SelectedTest, OnTestHas DEF Copy, OnTest
<1>2. t \in Test /\ t.script \notin foreign
  <2>1. t \in Test /\ t.script = NoScript
    BY <1>1, SelectedTest DEF Test
  <2> QED
    BY <2>1, PathFacts DEF RegInv, Disk
<1>3. CASE /\ Write(t) /\ tests' = ts /\ sel' = Clamp(ts, Len(ts), filter)
           /\ SaveRegistryThen("list")
           /\ UNCHANGED <<filter, cwd, editor, pending, registry, ghosts>>
  <2>1. Disk' /\ ForeignSafe' /\ PathOf(t) \notin foreign /\ Saved(t) \in Test /\ Saved(t).script = PathOf(t)
    BY <1>2, <1>3, WriteKeeps DEF ghosts
  <2> HIDE DEF t
  <2>2. ts \in Seq(Test) /\ Len(ts) = Len(tests) + 1 /\ Len(ts) \in Nat \ {0}
    BY <2>1, AppendProperties DEF RegInv, Tests
  <2>3. Selects(sel', tests')
    BY <1>3, <2>2, ClampSelects
  <2>4. Screens'
    BY <1>3 DEF RegInv, Screens, SaveRegistryThen, editor, ghosts
  <2>5. UNCHANGED <<registry, foreign>> /\ pending' = {} /\ at' = "saving"
    BY <1>1, <1>3 DEF RegInv, Tests, SaveRegistryThen, ghosts
  <2>6. tests' = ts
    BY <1>3
  <2> QED
    BY <1>1, <2>1, <2>3, <2>4, <2>5, <2>6, GrowKeeps
<1>4. CASE /\ WriteFails(t) /\ sel' = Clamp(tests, sel, filter)
           /\ UNCHANGED <<tests, filter, cwd, at, back, editor, pending, registry, ghosts>>
  <2>1. Disk' /\ ForeignSafe'
    BY <1>4, Unwritten DEF WriteFails, ghosts
  <2>2. Selects(sel', tests)
    BY <1>4, ClampSelects DEF RegInv, Tests, Selects
  <2>3. Screens'
    BY <1>4 DEF RegInv, Screens, editor, ghosts
  <2> QED
    BY <1>1, <1>4, <2>1, <2>2, <2>3, SameTestsKeep DEF RegInv, Tests, ghosts
<1>5. CASE WriteKilled(t)
  BY <1>2, <1>5, KilledKeeps
<1> QED
  BY <1>3, <1>4, <1>5 DEF Copy

\* Where a test is taken out.
LEMMA ShrinkKeeps ==
  ASSUME RegInv, NEW i \in DOMAIN tests, tests' = RemoveAt(tests, i),
         UNCHANGED <<registry, foreign>>, Screens', Disk', ForeignSafe',
         Selects(sel', tests'), pending' = {}, at' \in {"list", "saving"}, at' = "saving" => back' = "list"
  PROVE  RegInv'
<1>1. Len(tests) \in Nat /\ DOMAIN tests = 1..Len(tests)
  BY DEF RegInv, Tests
<1>2. /\ tests' \in Seq(Test) /\ Len(tests') = Len(tests) - 1
      /\ \A j \in 1..(Len(tests) - 1) : tests'[j] = IF j < i THEN tests[j] ELSE tests[j + 1]
  BY <1>1, RemoveAtFacts DEF RegInv, Tests
<1>3. DOMAIN tests' = 1..(Len(tests) - 1)
  BY <1>2
<1>4. Tests'
  BY <1>1, <1>2, <1>3, Sizes DEF RegInv, Tests
<1>5. Registry'
  BY DEF RegInv, Registry
<1>6. Apart'
  <2>1. ASSUME NEW j \in DOMAIN tests' PROVE \E k \in DOMAIN tests : tests'[j] = tests[k]
    <3>1. j \in DOMAIN tests /\ j + 1 \in DOMAIN tests
      BY <1>1, <1>3
    <3> QED
      BY <1>2, <1>3, <3>1
  <2> QED
    BY <2>1 DEF RegInv, Apart
<1> QED
  BY <1>4, <1>5, <1>6 DEF RegInv

LEMMA DeleteKeeps == ASSUME RegInv, Delete PROVE RegInv'
<1> DEFINE i == Clamp(tests, sel, filter)
           ts == RemoveAt(tests, i)
           rest == [q \in Paths |-> IF q = tests[i].script THEN None ELSE scripts[q]]
<1>1. OnTest /\ at = "list" /\ tests # <<>>
  BY OnTestHas DEF Delete, OnTest
<1>2. i \in DOMAIN tests
  <2>1. Selects(i, tests)
    BY ClampSelects DEF RegInv, Tests, Selects
  <2> HIDE DEF i
  <2> QED
    BY <1>1, <2>1 DEF Selects, RegInv, Tests
<1>3. tests[i].script \notin foreign
  BY <1>2 DEF RegInv, Apart
<1>4. \/ /\ scripts' = rest /\ tests' = ts /\ sel' = Clamp(ts, i, filter)
         /\ SaveRegistryThen("list") /\ UNCHANGED <<filter, cwd, editor, pending, faults>>
      \/ Gone /\ scripts' = rest
  BY DEF Delete
<1>10. UNCHANGED <<registry, typed, foreign>>
  BY DEF Delete
<1> HIDE DEF i
<1>5. rest \in [Paths -> Files] /\ \A p \in foreign : rest[p] = Foreign
  BY <1>3, BodiesAreFiles DEF RegInv, Disk, ForeignSafe
<1>6. scripts' = rest /\ UNCHANGED <<registry, foreign>>
  BY <1>4, <1>10
<1>7. Disk' /\ ForeignSafe'
  BY <1>5, <1>6 DEF RegInv, Disk, ForeignSafe
<1>8. CASE Gone
  BY <1>10, <1>7, <1>8, GoneKeeps DEF RegInv, Registry, Apart
<1>9. CASE /\ tests' = ts /\ sel' = Clamp(ts, i, filter)
           /\ SaveRegistryThen("list") /\ UNCHANGED <<filter, cwd, editor, pending, faults>>
  <2>1. ts \in Seq(Test) /\ i \in Nat \ {0}
    BY <1>2, RemoveAtFacts DEF RegInv, Tests
  <2>2. Selects(sel', tests')
    BY <1>9, <2>1, ClampSelects
  <2>3. Screens'
    BY <1>10, <1>9 DEF RegInv, Screens, SaveRegistryThen, editor
  <2>4. pending' = {} /\ at' = "saving" /\ back' = "list" /\ tests' = ts
    BY <1>1, <1>9 DEF RegInv, Tests, SaveRegistryThen
  <2> QED
    BY <1>2, <1>6, <1>7, <2>2, <2>3, <2>4, ShrinkKeeps
<1> QED
  BY <1>4, <1>8, <1>9

LEMMA ListKeeps ==
  ASSUME RegInv, Toggle \/ (\E f \in DOMAIN Hits : Filter(f))
  PROVE  RegInv'
<1>1. CASE Toggle
  <2>1. /\ at = "list" /\ sel' = Clamp(tests, sel, filter) /\ at' = "saving" /\ back' = "list"
        /\ UNCHANGED <<tests, filter, cwd, editor, pending, disk, ghosts>>
    BY <1>1 DEF Toggle, OnTest, SaveRegistryThen
  <2>2. Selects(sel', tests)
    BY <2>1, ClampSelects DEF RegInv, Tests, Selects
  <2>3. Screens' /\ Disk' /\ ForeignSafe'
    BY <2>1, Unwritten DEF RegInv, Screens, editor, disk, ghosts
  <2> QED
    BY <2>1, <2>2, <2>3, SameTestsKeep DEF disk, ghosts, RegInv, Tests
<1>2. ASSUME NEW f \in DOMAIN Hits, Filter(f) PROVE RegInv'
  <2> DEFINE i == Clamp(tests, sel, f)
             hits == {j \in DOMAIN tests : tests[j].title \in Hits[f]}
  <2>1. /\ at = "list" /\ filter' = f
        /\ sel' = IF f # NoFilter /\ hits # {} THEN FirstMatch(tests, f) ELSE i
        /\ UNCHANGED <<tests, cwd, at, back, editor, pending, disk, ghosts>>
    BY <1>2 DEF Filter
  <2>2. tests \in Seq(Test) /\ sel \in Nat \ {0}
    BY DEF RegInv, Tests, Selects
  <2>3. Selects(i, tests)
    BY <2>2, ClampSelects
  <2>4. hits # {} => FirstMatch(tests, f) \in DOMAIN tests
    BY <2>2, FirstMatchIn
  <2> HIDE DEF i, hits
  <2>5. Selects(sel', tests)
    BY <2>1, <2>2, <2>3, <2>4 DEF Selects
  <2>6. Screens' /\ Disk' /\ ForeignSafe'
    BY <2>1, Unwritten DEF RegInv, Screens, editor, disk, ghosts
  <2> QED
    BY <2>1, <2>5, <2>6, SameTestsKeep DEF disk, ghosts, RegInv, Tests
<1> QED
  BY <1>1, <1>2

LEMMA MoveKeeps == ASSUME RegInv, NEW direction \in {-1, 1}, Move(direction) PROVE RegInv'
<1> DEFINE n == Len(tests)
           step(k) == ((sel - 1 + direction * k + n * n) % n) + 1
           shown == {k \in 1..n : Matches(tests[step(k)])}
           first == CHOOSE k \in shown : \A l \in shown : k <= l
<1>1. /\ at = "list" /\ Visible
      /\ sel' = IF Matches(tests[sel]) THEN step(first) ELSE FirstMatch(tests, filter)
      /\ UNCHANGED <<tests, filter, cwd, at, back, editor, pending, disk, ghosts>>
  BY DEF Move, OnTest
<1>2. tests # <<>> /\ tests \in Seq(Test) /\ n \in Nat \ {0} /\ sel \in 1..n
  <2>1. tests \in Seq(Test) /\ tests # <<>>
    BY <1>1 DEF Visible, Range, RegInv, Tests
  <2> QED
    BY <2>1 DEF RegInv, Tests, Selects
<1>3. FirstMatch(tests, filter) \in 1..n
  <2>1. \E j \in DOMAIN tests : tests[j].title \in Hits[filter]
    BY <1>1 DEF Visible, Matches, Range
  <2> QED
    BY <1>2, <2>1, FirstMatchIn
<1>4. Matches(tests[sel]) => step(first) \in 1..n
  <2>1. SUFFICES ASSUME Matches(tests[sel]) PROVE step(first) \in 1..n
    OBVIOUS
  <2>2. step(n) = sel
    <3>1. sel - 1 + direction * n + n * n = n * (direction + n) + (sel - 1)
      BY <1>2
    <3> QED
      BY <1>2, <3>1
  <2>3. shown \in SUBSET Nat /\ shown # {} /\ shown \subseteq 1..n
    <3>1. n \in 1..n /\ Matches(tests[step(n)])
      BY <1>2, <2>1, <2>2
    <3> HIDE DEF step
    <3> QED
      BY <1>2, <3>1
  <2>4. first \in 1..n
    <3> HIDE DEF shown
    <3>1. \E k \in shown : \A l \in shown : k <= l
      BY <2>3, Least
    <3> QED
      BY <2>3, <3>1
  <2> HIDE DEF first
  <2>5. sel - 1 + direction * first + n * n \in Int
    BY <1>2, <2>4
  <2>6. \A x \in Int : x % n \in 0..(n - 1)
    BY <1>2
  <2>7. (sel - 1 + direction * first + n * n) % n \in 0..(n - 1)
    BY <2>5, <2>6
  <2> QED
    BY <1>2, <2>7
<1> HIDE DEF step, first, n
<1>5. Selects(sel', tests)
  BY <1>1, <1>2, <1>3, <1>4 DEF Selects, n
<1>6. Screens' /\ Disk' /\ ForeignSafe'
  BY <1>1, Unwritten DEF RegInv, Screens, editor, disk, ghosts
<1> QED
  BY <1>1, <1>5, <1>6, SameTestsKeep DEF disk, ghosts, RegInv, Tests

----------------------------------------------------------------------------
(* The editor *)

\* In the editor there is a test, the selected one.
LEMMA EditedTest ==
  ASSUME RegInv, at = "editor"
  PROVE  /\ tests # <<>> /\ sel \in DOMAIN tests /\ sel \in Nat \ {0} /\ sel <= Len(tests)
         /\ tests[sel] \in Test /\ tests[sel].script \notin foreign /\ pending = {}
<1>1. tests # <<>> /\ pending = {} /\ Selects(sel, tests)
  BY DEF RegInv, Tests
<1> QED
  BY <1>1, SelectedTest DEF Selects

LEMMA TypeKeeps == ASSUME RegInv, Type PROVE RegInv'
<1>1. /\ at = "editor" /\ typed < MaxTexts /\ typed' = typed + 1 /\ text' = typed'
      /\ UNCHANGED <<app, pending, disk, foreign>>
  BY DEF Type
<1>2. Screens'
  BY <1>1, BoundsAssumption DEF RegInv, Screens, app, Texts
<1>3. Disk' /\ ForeignSafe'
  BY <1>1, Unwritten DEF disk
<1>4. Selects(sel', tests) /\ tests # <<>> /\ UNCHANGED <<tests, registry, foreign, at, pending>>
  BY <1>1, EditedTest DEF app, disk, RegInv, Tests
<1> QED
  BY <1>1, <1>2, <1>3, <1>4, SameTestsKeep DEF RegInv, Tests

LEMMA SaveCommandKeeps == ASSUME RegInv, NEW exit \in BOOLEAN, SaveCommand(exit) PROVE RegInv'
<1> DEFINE t == [tests[sel] EXCEPT !.command = text]
<1>1. at = "editor"
  BY DEF SaveCommand
<1>2. t \in Test /\ t.script \notin foreign
  BY <1>1, EditedTest DEF Test, RegInv, Screens
<1>3. \/ /\ Write(t) /\ tests' = [tests EXCEPT ![sel] = Saved(t)]
         /\ SaveRegistryThen(IF exit THEN "list" ELSE "editor")
         /\ Closed(exit) /\ fresh' = FALSE
         /\ UNCHANGED <<sel, filter, cwd, pending, registry, typed, foreign>>
      \/ /\ WriteFails(t) /\ tests' = [tests EXCEPT ![sel] = t]
         /\ UNCHANGED <<sel, filter, cwd, at, back, editor, pending, registry, typed, foreign>>
      \/ WriteKilled(t)
  BY DEF SaveCommand
<1> HIDE DEF t
<1>4. CASE /\ Write(t) /\ tests' = [tests EXCEPT ![sel] = Saved(t)]
           /\ SaveRegistryThen(IF exit THEN "list" ELSE "editor")
           /\ Closed(exit)
           /\ UNCHANGED <<sel, filter, cwd, pending, registry, typed, foreign>>
  <2>1. Disk' /\ ForeignSafe' /\ PathOf(t) \notin foreign /\ Saved(t) \in Test /\ Saved(t).script = PathOf(t)
    BY <1>2, <1>4, WriteKeeps
  <2>2. Screens'
    BY <1>4, Sizes DEF RegInv, Screens, SaveRegistryThen, Closed
  <2>3. pending' = {} /\ at' = "saving" /\ UNCHANGED <<registry, foreign, sel>>
    BY <1>1, <1>4, EditedTest DEF SaveRegistryThen
  <2> QED
    BY <1>1, <1>4, <2>1, <2>2, <2>3, EditedTest, ChangeKeeps
<1>5. CASE /\ WriteFails(t) /\ tests' = [tests EXCEPT ![sel] = t]
           /\ UNCHANGED <<sel, filter, cwd, at, back, editor, pending, registry, typed, foreign>>
  <2>1. Disk' /\ ForeignSafe'
    BY <1>5, Unwritten DEF WriteFails
  <2>2. Screens'
    BY <1>5 DEF RegInv, Screens, editor
  <2>3. pending' = {} /\ at' = "editor" /\ UNCHANGED <<registry, foreign, sel>>
    BY <1>1, <1>5, EditedTest
  <2> QED
    BY <1>1, <1>2, <1>5, <2>1, <2>2, <2>3, EditedTest, ChangeKeeps
<1>6. CASE WriteKilled(t)
  BY <1>2, <1>6, KilledKeeps
<1> QED
  BY <1>3, <1>4, <1>5, <1>6

LEMMA SaveAboutKeeps == ASSUME RegInv, NEW exit \in BOOLEAN, SaveAbout(exit) PROVE RegInv'
<1> DEFINE t == [tests[sel] EXCEPT !.about = text]
           stays == t.script = NoScript
<1>1. at = "editor"
  BY DEF SaveAbout
<1>2. t \in Test /\ t.script \notin foreign
  BY <1>1, EditedTest DEF Test, RegInv, Screens
<1>3. /\ \/ /\ tests' = [tests EXCEPT ![sel] = IF stays \/ Taken(t) THEN t ELSE Saved(t)]
            /\ IF stays THEN UNCHANGED scripts ELSE Write(t)
         \/ ~stays /\ WriteFails(t) /\ tests' = [tests EXCEPT ![sel] = t]
      /\ SaveRegistryThen(IF exit THEN "list" ELSE "editor")
      /\ Closed(exit)
      /\ UNCHANGED <<sel, filter, cwd, fresh, pending, registry, typed, foreign>>
  BY DEF SaveAbout
<1>4. Screens'
  BY <1>3, Sizes DEF RegInv, Screens, SaveRegistryThen, Closed
<1>5. pending' = {} /\ at' = "saving" /\ UNCHANGED <<registry, foreign, sel>>
  BY <1>1, <1>3, EditedTest DEF SaveRegistryThen
<1> HIDE DEF t
<1>6. PICK x \in Test : /\ tests' = [tests EXCEPT ![sel] = x] /\ x.script \notin foreign
                        /\ Disk' /\ ForeignSafe'
  <2>1. CASE UNCHANGED scripts /\ tests' = [tests EXCEPT ![sel] = t]
    BY <1>2, <1>5, <2>1, Unwritten
  <2>2. CASE Write(t) /\ ~stays /\ tests' = [tests EXCEPT ![sel] = IF stays \/ Taken(t) THEN t ELSE Saved(t)]
    <3>1. ~Taken(t)
      BY <2>2 DEF Write
    <3>2. Disk' /\ ForeignSafe' /\ PathOf(t) \notin foreign /\ Saved(t) \in Test /\ Saved(t).script = PathOf(t)
      BY <1>2, <1>5, <2>2, WriteKeeps
    <3> QED
      BY <2>2, <3>1, <3>2
  <2> QED
    BY <1>3, <2>1, <2>2 DEF WriteFails
<1> QED
  BY <1>1, <1>4, <1>5, <1>6, EditedTest, ChangeKeeps

LEMMA SaveAboutKilledKeeps == ASSUME RegInv, SaveAboutKilled PROVE RegInv'
<1> DEFINE t == [tests[sel] EXCEPT !.about = text]
<1>1. at = "editor" /\ WriteKilled(t)
  BY DEF SaveAboutKilled
<1>2. t \in Test /\ t.script \notin foreign
  BY <1>1, EditedTest DEF Test, RegInv, Screens
<1> QED
  BY <1>1, <1>2, KilledKeeps

LEMMA LeaveEditorKeeps == ASSUME RegInv, QuitEditor \/ Discard PROVE RegInv'
<1>1. at = "editor" /\ at' = "list" /\ Closed(TRUE)
      /\ UNCHANGED <<filter, cwd, back, pending, disk, typed, foreign>>
  BY DEF QuitEditor, Discard, ghosts
<1>2. Screens' /\ Disk' /\ ForeignSafe' /\ pending' = {} /\ UNCHANGED <<registry, foreign>>
  BY <1>1, Sizes, EditedTest, Unwritten DEF RegInv, Screens, Closed, disk
<1>3. tests # <<>> /\ sel \in DOMAIN tests /\ Selects(sel, tests)
  BY <1>1, EditedTest DEF RegInv, Tests
<1>4. CASE tests' = tests /\ sel' = sel
  BY <1>1, <1>2, <1>3, <1>4, SameTestsKeep
<1>5. CASE tests' = RemoveAt(tests, sel) /\ sel' = Clamp(RemoveAt(tests, sel), sel, filter)
  <2>1. RemoveAt(tests, sel) \in Seq(Test) /\ sel \in Nat \ {0}
    BY <1>3, RemoveAtFacts DEF RegInv, Tests
  <2>2. Selects(sel', tests')
    BY <1>5, <2>1, ClampSelects
  <2> QED
    BY <1>1, <1>2, <1>3, <1>5, <2>2, ShrinkKeeps
<1> QED
  BY <1>4, <1>5 DEF QuitEditor, Discard

----------------------------------------------------------------------------
(* Several scripts at once *)

LEMMA StartKeeps == ASSUME RegInv, Start PROVE RegInv'
<1>1. /\ at = "list" /\ tests # <<>> /\ at' = "writing" /\ back' \in {"running", "resuming"}
      /\ pending' \subseteq DOMAIN tests
      /\ UNCHANGED <<tests, sel, filter, cwd, editor, disk, ghosts>>
  BY DEF Start
<1>2. Tests'
  BY <1>1 DEF RegInv, Tests
<1>3. Screens'
  BY <1>1 DEF RegInv, Screens, editor, ghosts
<1> QED
  BY <1>1, <1>2, <1>3, AwayFromDisk DEF disk, ghosts, RegInv, Apart

LEMMA RegenerateKeeps == ASSUME RegInv, Regenerate PROVE RegInv'
<1>1. /\ at = "off" /\ tests' = registry /\ registry # <<>> /\ at' = "writing" /\ back' = "off"
      /\ pending' = DOMAIN registry /\ UNCHANGED <<sel, filter, cwd, editor, disk, ghosts>>
  BY LoadedFacts DEF Regenerate
<1>2. Tests'
  BY <1>1 DEF RegInv, Tests, Registry, Selects
<1>3. Screens'
  BY <1>1 DEF RegInv, Screens, editor, ghosts
<1> QED
  BY <1>1, <1>2, <1>3, AwayFromDisk DEF disk, ghosts, RegInv, Apart

LEMMA WriteNextKeeps == ASSUME RegInv, WriteNext PROVE RegInv'
<1> DEFINE i == CHOOSE i \in pending : \A j \in pending : i <= j
           t == tests[i]
<1>1. /\ at = "writing" /\ pending # {}
      /\ \/ /\ Write(t) /\ tests' = [tests EXCEPT ![i] = Saved(t)] /\ pending' = pending \ {i}
            /\ UNCHANGED <<sel, filter, cwd, at, back, editor, registry, ghosts>>
         \/ /\ WriteFails(t) /\ pending' \in {pending \ {i}, {}}
            /\ \/ at' = at /\ back' \in {back, "failing"}
               \/ at' = "list" /\ back' = back /\ pending' = {}
            /\ UNCHANGED <<tests, sel, filter, cwd, editor, registry, ghosts>>
         \/ WriteKilled(t)
  BY DEF WriteNext
<1>2. pending \in SUBSET Nat /\ pending \subseteq DOMAIN tests
  BY DEF RegInv, Tests
<1>3. i \in DOMAIN tests
  <2>1. \E k \in pending : \A j \in pending : k <= j
    BY <1>1, <1>2, Least
  <2> QED
    BY <1>2, <2>1
<1> HIDE DEF i
<1>4. t \in Test /\ t.script \notin foreign
  BY <1>3 DEF RegInv, Tests, Apart
<1>5. tests # <<>> /\ sel \in Nat \ {0} /\ sel <= Len(tests)
  BY <1>3 DEF RegInv, Tests, Selects
<1>6. CASE /\ Write(t) /\ tests' = [tests EXCEPT ![i] = Saved(t)] /\ pending' = pending \ {i}
           /\ UNCHANGED <<sel, filter, cwd, at, back, editor, registry, ghosts>>
  <2>1. Disk' /\ ForeignSafe' /\ PathOf(t) \notin foreign /\ Saved(t) \in Test /\ Saved(t).script = PathOf(t)
    BY <1>4, <1>6, WriteKeeps DEF ghosts
  <2>2. Screens'
    BY <1>6 DEF RegInv, Screens, editor, ghosts
  <2>3. pending' \subseteq pending /\ at' = "writing" /\ UNCHANGED <<registry, foreign, sel>>
    BY <1>1, <1>6 DEF ghosts
  <2> QED
    BY <1>3, <1>5, <1>6, <2>1, <2>2, <2>3, ChangeKeeps
<1>7. CASE /\ WriteFails(t) /\ pending' \in {pending \ {i}, {}}
           /\ \/ at' = at /\ back' \in {back, "failing"}
              \/ at' = "list" /\ back' = back /\ pending' = {}
           /\ UNCHANGED <<tests, sel, filter, cwd, editor, registry, ghosts>>
  <2>1. Disk' /\ ForeignSafe'
    BY <1>7, Unwritten DEF WriteFails, ghosts
  <2>2. Screens'
    BY <1>1, <1>7 DEF RegInv, Screens, editor, ghosts
  <2>3. pending' \subseteq pending /\ (at' # "writing" => pending' = {}) /\ at' \in {"writing", "list"}
    BY <1>1, <1>7
  <2> QED
    BY <1>5, <1>7, <2>1, <2>2, <2>3, SameTestsKeep DEF RegInv, Tests, ghosts
<1>8. CASE WriteKilled(t)
  BY <1>4, <1>8, KilledKeeps
<1> QED
  BY <1>1, <1>6, <1>7, <1>8

LEMMA AllWrittenKeeps == ASSUME RegInv, AllWritten PROVE RegInv'
<1>1. at = "writing" /\ pending = {} /\ UNCHANGED <<disk, ghosts>>
  BY DEF AllWritten
<1>2. Disk' /\ ForeignSafe' /\ UNCHANGED <<registry, foreign>>
  BY <1>1, Unwritten DEF disk, ghosts
<1>3. CASE Gone
  BY <1>1, <1>2, <1>3, GoneKeeps DEF RegInv, Registry, Apart, ghosts
<1>4. CASE /\ \/ at' = "list" /\ back' = back
              \/ at' = "saving" /\ back' \in {"list", "off"}
           /\ UNCHANGED <<tests, sel, filter, cwd, editor, pending>>
  <2>1. Screens'
    BY <1>1, <1>4 DEF RegInv, Screens, editor, ghosts
  <2> QED
    BY <1>1, <1>2, <1>4, <2>1, SameTestsKeep DEF RegInv, Tests
<1>5. back \in {"running", "resuming", "failing", "off"}
  BY <1>1 DEF RegInv, Screens
<1>6. CASE back = "failing"
  BY <1>3, <1>6 DEF AllWritten
<1>7. CASE back = "running"
  BY <1>4, <1>7 DEF AllWritten
<1>8. CASE back = "resuming"
  BY <1>4, <1>8 DEF AllWritten, SaveRegistryThen
<1>9. CASE back = "off"
  BY <1>4, <1>9 DEF AllWritten, SaveRegistryThen
<1> QED
  BY <1>5, <1>6, <1>7, <1>8, <1>9

----------------------------------------------------------------------------
(* The registry *)

\* What is left of the registry: all lines, the first of them, or those with a cut one after them.
LEMMA TornShapes ==
  ASSUME NEW r, r \in Torn(tests) \/ r = Lines(tests)
  PROVE  \/ r = Lines(tests)
         \/ \E k \in 0..Len(Lines(tests)) : r = SubSeq(Lines(tests), 1, k)
         \/ \E k \in DOMAIN Lines(tests) : \E c \in {0, Lines(tests)[k].command} :
               r = Append(SubSeq(Lines(tests), 1, k - 1),
                          [Lines(tests)[k] EXCEPT !.command = c, !.about = 0])
<1> DEFINE all == Lines(tests)
           cuts(t) == {[t EXCEPT !.command = c, !.about = 0] : c \in {0, t.command}}
           ends(k) == {Append(SubSeq(all, 1, k - 1), t) : t \in cuts(all[k])}
<1>1. CASE r = all
  BY <1>1
<1>2. CASE r \in {SubSeq(all, 1, k) : k \in 0..Len(all)}
  <2>1. \E k \in 0..Len(all) : r = SubSeq(all, 1, k)
    <3> HIDE DEF all
    <3> QED
      BY <1>2
  <2> QED
    BY <2>1
<1>3. CASE r \in UNION {ends(k) : k \in DOMAIN all}
  <2>1. \E k \in DOMAIN all : \E c \in {0, all[k].command} :
          r = Append(SubSeq(all, 1, k - 1), [all[k] EXCEPT !.command = c, !.about = 0])
    <3> HIDE DEF all
    <3>1. PICK k \in DOMAIN all : r \in ends(k)
      <4> HIDE DEF ends
      <4> QED
        BY <1>3
    <3>2. PICK t \in cuts(all[k]) : r = Append(SubSeq(all, 1, k - 1), t)
      <4> HIDE DEF cuts
      <4> QED
        BY <3>1
    <3>3. PICK c \in {0, all[k].command} : t = [all[k] EXCEPT !.command = c, !.about = 0]
      BY <3>2, Zenon
    <3> QED
      BY <3>2, <3>3
  <2> QED
    BY <2>1
<1>4. Torn(tests) = {SubSeq(all, 1, k) : k \in 0..Len(all)} \union UNION {ends(k) : k \in DOMAIN all}
  BY Zenon DEF Torn
<1> QED
  BY <1>1, <1>2, <1>3, <1>4

\* What is written of the registry, whole or in part, are tests with their scripts.
LEMMA TornFacts ==
  ASSUME RegInv, NEW r, r \in Torn(tests) \/ r = Lines(tests)
  PROVE  /\ r \in Seq(Test) /\ Len(r) <= MaxCases
         /\ \A k \in DOMAIN r : r[k].script # NoScript /\ r[k].script \notin foreign
<1> DEFINE all == Lines(tests)
<1>1. /\ all \in Seq(Test) /\ Len(all) <= MaxCases /\ Len(all) \in Nat
      /\ \A k \in DOMAIN all : all[k].script # NoScript /\ all[k].script \notin foreign
  <2>1. /\ all \in Seq(Test) /\ Len(all) <= Len(tests)
        /\ \A k \in DOMAIN all : all[k].script # NoScript /\ \E i \in DOMAIN tests : all[k] = tests[i]
    BY LinesFromTests DEF RegInv, Tests
  <2>2. Len(all) \in Nat /\ Len(tests) \in Nat /\ Len(tests) <= MaxCases
    BY <2>1 DEF RegInv, Tests
  <2> HIDE DEF all
  <2> QED
    BY <2>1, <2>2, Sizes DEF RegInv, Apart
<1>2. \/ r = all
      \/ \E k \in 0..Len(all) : r = SubSeq(all, 1, k)
      \/ \E k \in DOMAIN all : \E c \in {0, all[k].command} :
            r = Append(SubSeq(all, 1, k - 1), [all[k] EXCEPT !.command = c, !.about = 0])
  BY TornShapes
<1> HIDE DEF all
<1>3. ASSUME NEW k \in 0..Len(all)
      PROVE  /\ SubSeq(all, 1, k) \in Seq(Test) /\ Len(SubSeq(all, 1, k)) = k
             /\ \A j \in 1..k : SubSeq(all, 1, k)[j] = all[j]
  BY <1>1
<1>4. ASSUME NEW k \in 0..Len(all), r = SubSeq(all, 1, k)
      PROVE  /\ r \in Seq(Test) /\ Len(r) <= MaxCases
             /\ \A j \in DOMAIN r : r[j].script # NoScript /\ r[j].script \notin foreign
  <2>1. r \in Seq(Test) /\ Len(r) = k /\ DOMAIN r = 1..k /\ \A j \in 1..k : r[j] = all[j]
    BY <1>3, <1>4
  <2> QED
    BY <1>1, <2>1, Sizes
<1>5. ASSUME NEW k \in DOMAIN all, NEW c \in {0, all[k].command},
             r = Append(SubSeq(all, 1, k - 1), [all[k] EXCEPT !.command = c, !.about = 0])
      PROVE  /\ r \in Seq(Test) /\ Len(r) <= MaxCases
             /\ \A j \in DOMAIN r : r[j].script # NoScript /\ r[j].script \notin foreign
  <2> DEFINE s == SubSeq(all, 1, k - 1)
             x == [all[k] EXCEPT !.command = c, !.about = 0]
  <2>1. k \in 1..Len(all) /\ k - 1 \in 0..Len(all)
    BY <1>1
  <2>2. all[k] \in Test /\ all[k].script # NoScript /\ all[k].script \notin foreign
    BY <1>1
  <2>3. x \in Test /\ x.script # NoScript /\ x.script \notin foreign
    BY <2>2, Sizes DEF Test
  <2>4. s \in Seq(Test) /\ Len(s) = k - 1 /\ \A j \in 1..(k - 1) : s[j] = all[j]
    BY <1>3, <2>1
  <2> HIDE DEF s, x
  <2>5. /\ r \in Seq(Test) /\ Len(r) = k /\ r[k] = x
        /\ \A j \in 1..(k - 1) : r[j] = s[j]
    <3>1. r = Append(s, x)
      BY <1>5 DEF s, x
    <3> QED
      BY <2>1, <2>3, <2>4, <3>1, AppendProperties
  <2>6. \A j \in DOMAIN r : j = k \/ j \in 1..(k - 1)
    BY <2>1, <2>5
  <2>7. \A j \in 1..(k - 1) : j \in DOMAIN all
    BY <1>1, <2>1
  <2> QED
    BY <1>1, <2>1, <2>3, <2>4, <2>5, <2>6, <2>7, Sizes
<1>6. CASE r = all
  BY <1>1, <1>6
<1> QED
  BY <1>2, <1>4, <1>5, <1>6

LEMMA SaveRegistryKeeps == ASSUME RegInv, SaveRegistry \/ SaveKilled PROVE RegInv'
<1>1. /\ at = "saving" /\ UNCHANGED <<scripts, ghosts>>
      /\ registry' \in Torn(tests) \union {Lines(tests), registry}
      /\ Gone \/ (at' = back /\ back # "off" /\ UNCHANGED <<tests, sel, filter, cwd, back, editor, pending>>)
  BY DEF SaveRegistry, SaveKilled
<1>2. /\ registry' \in Seq(Test) /\ Len(registry') <= MaxCases
      /\ \A k \in DOMAIN registry' : registry'[k].script # NoScript /\ registry'[k].script \notin foreign
  <2>1. CASE registry' = registry
    BY <2>1 DEF RegInv, Registry, Apart
  <2> QED
    BY <1>1, <2>1, TornFacts
<1>3. Registry'
  BY <1>2 DEF Registry
<1>4. Disk' /\ ForeignSafe' /\ UNCHANGED foreign
  BY <1>1, Unwritten DEF ghosts
<1>5. CASE Gone
  BY <1>1, <1>2, <1>3, <1>4, <1>5, GoneKeeps DEF ghosts
<1>6. CASE at' = back /\ back # "off" /\ UNCHANGED <<tests, sel, filter, cwd, back, editor, pending>>
  <2>1. back \in {"list", "editor"}
    BY <1>1, <1>6 DEF RegInv, Screens
  <2>2. Tests'
    BY <1>1, <1>6, <2>1 DEF RegInv, Tests
  <2>3. Screens'
    BY <1>1, <1>6, <2>1 DEF RegInv, Screens, editor, ghosts
  <2>4. Apart'
    BY <1>2, <1>4, <1>6 DEF RegInv, Apart
  <2> QED
    BY <1>3, <1>4, <2>2, <2>3, <2>4 DEF RegInv
<1> QED
  BY <1>1, <1>5, <1>6

----------------------------------------------------------------------------
(* The program and its directories *)

LEMMA BeginKeeps == ASSUME RegInv, NEW dir \in Dirs, Begin(dir) PROVE RegInv'
<1>1. /\ at = "off" /\ tests' = registry /\ at' = "list" /\ cwd' = dir
      /\ UNCHANGED <<sel, filter, back, editor, pending, disk, ghosts>>
  BY LoadedFacts DEF Begin
<1>2. Tests'
  BY <1>1 DEF RegInv, Tests, Registry, Selects
<1>3. Screens'
  BY <1>1 DEF RegInv, Screens, editor, ghosts
<1> QED
  BY <1>1, <1>2, <1>3, AwayFromDisk DEF disk, ghosts, RegInv, Apart

LEMMA EndKeeps == ASSUME RegInv, Exit \/ Kill PROVE RegInv'
<1>1. Gone /\ UNCHANGED <<disk, ghosts>>
  BY DEF Exit, Kill
<1> QED
  BY <1>1, GoneKeeps, Unwritten DEF disk, ghosts, RegInv, Registry, Apart

LEMMA FilesKeep == ASSUME RegInv, NEW p \in Paths, PutFile(p) \/ RemoveFile(p) PROVE RegInv'
<1>1. UNCHANGED <<app, editor, pending, registry, typed>> /\ UNCHANGED <<tests, at, back>>
  BY DEF PutFile, RemoveFile, app, ghosts
<1>2. Tests' /\ Registry' /\ Screens'
  BY <1>1 DEF RegInv, Tests, Registry, Screens, app, editor
<1>3. CASE PutFile(p)
  <2>1. /\ scripts' = [scripts EXCEPT ![p] = Foreign] /\ foreign' = foreign \union {p} /\ p \notin Named
    BY <1>3 DEF PutFile
  <2>2. Disk' /\ ForeignSafe'
    BY <2>1, BodiesAreFiles DEF RegInv, Disk, ForeignSafe
  <2>3. Apart'
    BY <1>1, <2>1 DEF RegInv, Apart, Named, Range
  <2> QED
    BY <1>2, <2>2, <2>3 DEF RegInv
<1>4. CASE RemoveFile(p)
  <2>1. scripts' = [scripts EXCEPT ![p] = None] /\ foreign' = foreign /\ scripts[p] # Foreign
    BY <1>4 DEF RemoveFile, ghosts
  <2>2. Disk' /\ ForeignSafe'
    BY <2>1, BodiesAreFiles DEF RegInv, Disk, ForeignSafe
  <2>3. Apart'
    BY <1>1, <2>1 DEF RegInv, Apart
  <2> QED
    BY <1>2, <2>2, <2>3 DEF RegInv
<1> QED
  BY <1>3, <1>4

----------------------------------------------------------------------------
LEMMA RegNext == RegInv /\ [Next]_vars => RegInv'
<1> SUFFICES ASSUME RegInv, [Next]_vars PROVE RegInv'
  OBVIOUS
<1>1. CASE UNCHANGED vars
  <2>1. UNCHANGED <<tests, sel, filter, cwd, at, back, text, typed, pending, scripts, registry, foreign>>
    BY <1>1 DEF vars, app, editor, disk, ghosts
  <2> QED
    BY <2>1 DEF RegInv, Tests, Registry, Screens, Disk, ForeignSafe, Apart
<1>2. CASE Next
  BY <1>2, AddKeeps, RenameKeeps, CopyKeeps, OpenKeeps, DeleteKeeps, ListKeeps, MoveKeeps,
     TypeKeeps, SaveCommandKeeps, SaveAboutKeeps, SaveAboutKilledKeeps, LeaveEditorKeeps,
     StartKeeps, RegenerateKeeps, WriteNextKeeps, AllWrittenKeeps, SaveRegistryKeeps,
     BeginKeeps, EndKeeps, FilesKeep
  DEF Next
<1> QED
  BY <1>1, <1>2

LEMMA RegInvariant == Spec => []RegInv
  BY RegInit, RegNext, PTL DEF Spec

\* Whatever is typed, fails or is killed, a file that is not a test's and is there when
\* the program looks, right before it opens the path, is neither overwritten nor removed:
\* for every number of tests, files and faults.
THEOREM OthersFilesAreSafe == Spec => []ForeignSafe
<1>1. RegInv => ForeignSafe
  BY DEF RegInv
<1> QED
  BY <1>1, RegInvariant, PTL
----------------------------------------------------------------------------
(* Memory, registry and scripts agree *)

\* Nothing has gone wrong, and no test was added that the filter hides.
Clean == faults = 0 /\ ~hidden

NamedRight(ts) == \A i \in DOMAIN ts : ts[i].script # NoScript => ts[i].script[2] = Name[ts[i].title]
InFiles(ts) == \A i \in DOMAIN ts : ts[i].script # NoScript => scripts[ts[i].script] = Body(ts[i])
Distinct(ts) ==
    \A i, j \in DOMAIN ts : ts[i].script = ts[j].script /\ ts[i].script # NoScript => i = j

\* Every test that has a script has it to itself, under its name and with what it says.
Whole(ts) == NamedRight(ts) /\ InFiles(ts) /\ Distinct(ts)

\* Every test has a script but the one that the editor is making.
Scripted == \A i \in DOMAIN tests : tests[i].script = NoScript => fresh /\ i = sel

\* The one without is the last.
Unsaved ==
    /\ Scripted
    /\ fresh => sel = Len(tests) /\ tests[sel].script = NoScript

Steps ==
    /\ Whole(tests) /\ Unsaved
    /\ at = "off" => Whole(registry)
    /\ at \notin {"off", "saving"} => registry = Lines(tests)

Sound ==
    /\ faults \in Nat /\ hidden \in BOOLEAN /\ fresh \in BOOLEAN
    /\ fresh => at = "editor" /\ target = "command"

StepInv == Sound /\ (Clean => Steps)

LEMMA NoFault == ASSUME Clean, Clean' PROVE ~Fault
  BY DEF Clean, Fault

\* When every test has a script the lines are the tests.
LEMMA AllSaved ==
  ASSUME RegInv, Scripted, ~fresh
  PROVE  Lines(tests) = tests /\ \A i \in DOMAIN tests : tests[i].script # NoScript
<1>1. tests \in Seq(Test) /\ Len(tests) \in 0..Len(tests) /\ DOMAIN tests = 1..Len(tests)
  BY DEF RegInv, Tests
<1>2. \A i \in 1..Len(tests) : tests[i].script # NoScript
  BY <1>1 DEF Scripted
<1>3. Lines(tests) = SubSeq(tests, 1, Len(tests))
  <2>1. \A i \in 1..Len(tests) : tests[i].script # NoScript <=> i <= Len(tests)
    BY <1>1, <1>2
  <2> QED
    BY <1>1, <2>1, LinesOfSaved
<1> QED
  BY <1>1, <1>2, <1>3

\* A step that leaves tests and files alone.
LEMMA SameTestsStep ==
  ASSUME RegInv, Steps, UNCHANGED <<tests, scripts, registry, fresh>>,
         at \notin {"off", "saving"}, at' # "off", fresh => sel' = sel
  PROVE  Steps'
<1>1. Whole(tests)'
  BY DEF Steps, Whole, NamedRight, InFiles, Distinct
<1>2. Unsaved'
  BY DEF Steps, Unsaved, Scripted
<1> QED
  BY <1>1, <1>2 DEF Steps

\* When a test is saved every other keeps its script and what is in it.
LEMMA OthersKept ==
  ASSUME RegInv, Whole(tests), NEW t \in Test, ~Taken(t), scripts' = Written(t, Body(t)),
         NEW j \in DOMAIN tests, tests[j].script # NoScript,
         t.script # NoScript => \E i \in DOMAIN tests : i # j /\ tests[i].script = t.script
  PROVE  tests[j].script # PathOf(t) /\ scripts'[tests[j].script] = Body(tests[j])
<1> DEFINE p == PathOf(t)
           q == tests[j].script
<1>1. p \in Paths /\ p # NoScript /\ q \in Paths
  <2>1. tests[j] \in Test /\ cwd \in Dirs
    BY DEF RegInv, Tests, Screens
  <2> QED
    BY <2>1, TestFacts
<1>2. scripts[q] = Body(tests[j]) /\ scripts[q] # None
  BY FileFacts DEF Whole, InFiles
<1>3. q # t.script
  BY DEF Whole, Distinct
<1>4. q # p
  <2>1. p = t.script \/ scripts[p] = None
    BY DEF Taken
  <2> QED
    BY <1>2, <1>3, <2>1
<1>5. scripts'[q] = scripts[q]
  BY <1>1, <1>3, <1>4 DEF Written
<1> QED
  BY <1>2, <1>4, <1>5

\* Test i is saved, in its place.
LEMMA WriteWhole ==
  ASSUME RegInv, Steps, NEW i \in DOMAIN tests, NEW t \in Test, t.script = tests[i].script,
         ~Taken(t), scripts' = Written(t, Body(t)), tests' = [tests EXCEPT ![i] = Saved(t)]
  PROVE  Whole(tests)'
<1>1. /\ PathOf(t) \in Paths /\ PathOf(t) # NoScript /\ PathOf(t)[2] = Name[t.title]
      /\ Saved(t) \in Test /\ Saved(t).script = PathOf(t) /\ Saved(t).title = t.title
      /\ Body(Saved(t)) = Body(t)
  BY TestFacts DEF RegInv, Screens
<1>2. scripts'[PathOf(t)] = Body(t)
  BY <1>1 DEF Written
<1>3. ASSUME NEW j \in DOMAIN tests, j # i, tests[j].script # NoScript
      PROVE  tests[j].script # PathOf(t) /\ scripts'[tests[j].script] = Body(tests[j])
  BY <1>3, OthersKept DEF Steps
<1>4. /\ DOMAIN tests' = DOMAIN tests /\ tests'[i] = Saved(t)
      /\ \A j \in DOMAIN tests : j # i => tests'[j] = tests[j]
  BY <1>1, Replaced DEF RegInv, Tests
<1>5. NamedRight(tests)'
  BY <1>1, <1>4 DEF NamedRight, Steps, Whole
<1>6. InFiles(tests)'
  BY <1>1, <1>2, <1>3, <1>4 DEF InFiles
<1>7. Distinct(tests)'
  BY <1>1, <1>3, <1>4 DEF Distinct, Steps, Whole
<1> QED
  BY <1>5, <1>6, <1>7 DEF Whole

LEMMA WriteStep ==
  ASSUME RegInv, Steps, NEW i \in DOMAIN tests, NEW t \in Test, t.script = tests[i].script,
         ~Taken(t), scripts' = Written(t, Body(t)), tests' = [tests EXCEPT ![i] = Saved(t)],
         fresh => i = sel, ~fresh', at' = "saving"
  PROVE  Steps'
<1>1. Whole(tests)'
  BY WriteWhole
<1>2. /\ DOMAIN tests' = DOMAIN tests /\ tests'[i].script # NoScript
      /\ \A j \in DOMAIN tests : j # i => tests'[j] = tests[j]
  BY TestFacts, Replaced DEF RegInv, Tests, Screens
<1>3. Unsaved'
  BY <1>2 DEF Steps, Unsaved, Scripted
<1> QED
  BY <1>1, <1>3 DEF Steps

----------------------------------------------------------------------------
\* A test comes at the end, with a script of its own.
LEMMA CopyStep ==
  ASSUME RegInv, Steps, ~fresh, NEW t \in Test, t.script = NoScript, ~Taken(t),
         scripts' = Written(t, Body(t)), tests' = Append(tests, Saved(t)), ~fresh', at' = "saving"
  PROVE  Steps'
<1> DEFINE n == Len(tests)
<1>1. /\ PathOf(t) \in Paths /\ PathOf(t) # NoScript /\ PathOf(t)[2] = Name[t.title]
      /\ Saved(t) \in Test /\ Saved(t).script = PathOf(t) /\ Saved(t).title = t.title
      /\ Body(Saved(t)) = Body(t)
  BY TestFacts DEF RegInv, Screens
<1>2. scripts'[PathOf(t)] = Body(t)
  BY <1>1 DEF Written
<1>3. n \in Nat /\ DOMAIN tests = 1..n
  BY DEF RegInv, Tests
<1>4. /\ DOMAIN tests' = 1..(n + 1) /\ tests'[n + 1] = Saved(t)
      /\ \A j \in 1..n : tests'[j] = tests[j]
  BY <1>1, AppendProperties DEF RegInv, Tests
<1>5. \A j \in 1..n : /\ tests[j].script # NoScript /\ tests[j].script # PathOf(t)
                      /\ scripts'[tests[j].script] = Body(tests[j])
  <2>1. \A j \in 1..n : tests[j].script # NoScript
    BY <1>3, AllSaved DEF Steps, Unsaved
  <2> QED
    BY <1>3, <2>1, OthersKept DEF Steps
<1> HIDE DEF n
<1>6. NamedRight(tests)'
  BY <1>1, <1>3, <1>4 DEF NamedRight, Steps, Whole
<1>7. InFiles(tests)'
  BY <1>1, <1>2, <1>3, <1>4, <1>5 DEF InFiles
<1>8. Distinct(tests)'
  BY <1>1, <1>3, <1>4, <1>5 DEF Distinct, Steps, Whole
<1>9. Unsaved'
  BY <1>1, <1>3, <1>4, <1>5 DEF Unsaved, Scripted
<1> QED
  BY <1>6, <1>7, <1>8, <1>9 DEF Steps, Whole

\* A test goes, and its script with it.
LEMMA DeleteStep ==
  ASSUME RegInv, Steps, ~fresh, NEW i \in DOMAIN tests, tests' = RemoveAt(tests, i),
         scripts' = [q \in Paths |-> IF q = tests[i].script THEN None ELSE scripts[q]],
         ~fresh', at' = "saving"
  PROVE  Steps'
<1> DEFINE n == Len(tests)
           k(j) == IF j < i THEN j ELSE j + 1
<1>1. n \in Nat /\ DOMAIN tests = 1..n /\ i \in 1..n
  BY DEF RegInv, Tests
<1>2. /\ tests' \in Seq(Test) /\ Len(tests') = n - 1
      /\ \A j \in 1..(n - 1) : tests'[j] = IF j < i THEN tests[j] ELSE tests[j + 1]
  BY <1>1, RemoveAtFacts DEF RegInv, Tests
<1>3. /\ DOMAIN tests' = 1..(n - 1)
      /\ \A j \in 1..(n - 1) : k(j) \in 1..n /\ k(j) # i /\ tests'[j] = tests[k(j)]
      /\ \A j, l \in 1..(n - 1) : k(j) = k(l) => j = l
  BY <1>1, <1>2
<1>4. \A j \in 1..n : j # i => /\ tests[j].script # NoScript /\ tests[j].script \in Paths
                               /\ tests[j].script # tests[i].script
  <2>1. \A j \in 1..n : tests[j].script # NoScript
    BY <1>1, AllSaved DEF Steps, Unsaved
  <2>2. \A j \in 1..n : tests[j] \in Test
    BY <1>1 DEF RegInv, Tests
  <2>3. \A j \in 1..n : tests[j].script \in Paths
    BY <2>1, <2>2 DEF Test
  <2> QED
    BY <1>1, <2>1, <2>3 DEF Steps, Whole, Distinct
<1>5. \A j \in 1..n : j # i => scripts'[tests[j].script] = Body(tests[j])
  BY <1>1, <1>4 DEF Steps, Whole, InFiles
<1> HIDE DEF n, k
<1>6. NamedRight(tests)'
  BY <1>1, <1>3, <1>4 DEF NamedRight, Steps, Whole
<1>7. InFiles(tests)'
  BY <1>1, <1>3, <1>5 DEF InFiles
<1>8. Distinct(tests)'
  BY <1>1, <1>3, <1>4 DEF Distinct, Steps, Whole
<1>9. Unsaved'
  BY <1>3, <1>4 DEF Unsaved, Scripted
<1> QED
  BY <1>6, <1>7, <1>8, <1>9 DEF Steps, Whole

\* A test without a script, and one that goes, leave the scripts of the others whole.
LEMMA AppendWhole ==
  ASSUME RegInv, Whole(tests), NEW t \in Test, t.script = NoScript,
         tests' = Append(tests, t), scripts' = scripts
  PROVE  Whole(tests)'
<1> DEFINE n == Len(tests)
<1>1. n \in Nat /\ DOMAIN tests = 1..n
  BY DEF RegInv, Tests
<1>2. /\ DOMAIN tests' = 1..(n + 1) /\ tests'[n + 1] = t
      /\ \A j \in 1..n : tests'[j] = tests[j]
  BY <1>1, AppendProperties DEF RegInv, Tests
<1> HIDE DEF n
<1>3. NamedRight(tests)'
  BY <1>1, <1>2 DEF NamedRight, Whole
<1>4. InFiles(tests)'
  BY <1>1, <1>2 DEF InFiles, Whole
<1>5. Distinct(tests)'
  BY <1>1, <1>2 DEF Distinct, Whole
<1> QED
  BY <1>3, <1>4, <1>5 DEF Whole

LEMMA ReplaceWhole ==
  ASSUME RegInv, Whole(tests), NEW i \in DOMAIN tests, NEW t \in Test, t.script = NoScript,
         tests' = [tests EXCEPT ![i] = t], scripts' = scripts
  PROVE  Whole(tests)'
<1>1. /\ DOMAIN tests' = DOMAIN tests /\ tests'[i] = t
      /\ \A j \in DOMAIN tests : j # i => tests'[j] = tests[j]
  BY Replaced DEF RegInv, Tests
<1>2. NamedRight(tests)'
  BY <1>1 DEF NamedRight, Whole
<1>3. InFiles(tests)'
  BY <1>1 DEF InFiles, Whole
<1>4. Distinct(tests)'
  BY <1>1 DEF Distinct, Whole
<1> QED
  BY <1>2, <1>3, <1>4 DEF Whole

LEMMA RemoveWhole ==
  ASSUME RegInv, Whole(tests), NEW i \in DOMAIN tests,
         tests' = RemoveAt(tests, i), scripts' = scripts
  PROVE  Whole(tests)'
<1> DEFINE n == Len(tests)
           k(j) == IF j < i THEN j ELSE j + 1
<1>1. n \in Nat /\ DOMAIN tests = 1..n /\ i \in 1..n
  BY DEF RegInv, Tests
<1>2. /\ tests' \in Seq(Test) /\ Len(tests') = n - 1
      /\ \A j \in 1..(n - 1) : tests'[j] = IF j < i THEN tests[j] ELSE tests[j + 1]
  BY <1>1, RemoveAtFacts DEF RegInv, Tests
<1>3. /\ DOMAIN tests' = 1..(n - 1)
      /\ \A j \in 1..(n - 1) : k(j) \in 1..n /\ tests'[j] = tests[k(j)]
      /\ \A j, l \in 1..(n - 1) : k(j) = k(l) => j = l
  BY <1>1, <1>2
<1> HIDE DEF n, k
<1>4. NamedRight(tests)'
  BY <1>1, <1>3 DEF NamedRight, Whole
<1>5. InFiles(tests)'
  BY <1>1, <1>3 DEF InFiles, Whole
<1>6. Distinct(tests)'
  BY <1>1, <1>3 DEF Distinct, Whole
<1> QED
  BY <1>4, <1>5, <1>6 DEF Whole

LEMMA AddStep ==
  ASSUME RegInv, Sound, Steps, NEW title \in Titles, Add(title), ~hidden'
  PROVE  Steps'
<1> DEFINE t == [title |-> title, script |-> NoScript, command |-> 0, about |-> 0]
           n == Len(tests)
<1>1. /\ tests' = Append(tests, t) /\ at = "list" /\ at' = "editor" /\ fresh' = TRUE
      /\ sel' = Len(Append(tests, t)) /\ UNCHANGED <<scripts, registry>>
  BY DEF Add, disk
<1>2. t \in Test /\ t.script = NoScript
  BY Sizes DEF Test
<1>3. n \in Nat /\ DOMAIN tests = 1..n
  BY DEF RegInv, Tests
<1> HIDE DEF t
<1>4. /\ tests' \in Seq(Test) /\ Len(tests') = n + 1 /\ DOMAIN tests' = 1..(n + 1) /\ tests'[n + 1] = t
      /\ \A j \in 1..n : tests'[j] = tests[j]
  BY <1>1, <1>2, AppendProperties DEF RegInv, Tests
<1>5. ~fresh
  BY <1>1 DEF Sound
<1>6. Lines(tests) = tests /\ \A j \in 1..n : tests[j].script # NoScript
  BY <1>3, <1>5, AllSaved DEF Steps, Unsaved
<1>7. Lines(tests') = tests
  <2>1. Lines(tests') = SubSeq(tests', 1, n)
    <3>1. \A j \in 1..Len(tests') : tests'[j].script # NoScript <=> j <= n
      BY <1>2, <1>3, <1>4, <1>6
    <3>2. n \in 0..Len(tests')
      BY <1>3, <1>4
    <3> QED
      BY <1>4, <3>1, <3>2, LinesOfSaved
  <2>2. SubSeq(tests', 1, n) = tests
    BY <1>3, <1>4 DEF RegInv, Tests
  <2> QED
    BY <2>1, <2>2
<1> HIDE DEF n
<1>8. Whole(tests)'
  BY <1>1, <1>2, AppendWhole DEF Steps
<1>9. Unsaved'
  <2>1. sel' = Len(tests')
    BY <1>1
  <2> QED
    BY <1>1, <1>2, <1>3, <1>4, <1>6, <2>1 DEF Unsaved, Scripted
<1>10. registry' = Lines(tests')
  BY <1>1, <1>6, <1>7 DEF Steps
<1> QED
  BY <1>1, <1>8, <1>9, <1>10 DEF Steps

\* The test that was just added is taken out again.
LEMMA DiscardStep == ASSUME RegInv, Sound, Steps, Discard PROVE Steps'
<1>1. /\ at = "editor" /\ at' = "list" /\ UNCHANGED <<scripts, registry>>
      /\ registry = Lines(tests)
  BY DEF Discard, disk, Steps
<1>2. CASE ~fresh
  <2>1. tests' = tests /\ fresh' = fresh
    BY <1>2 DEF Discard, Sound
  <2> QED
    BY <1>1, <1>2, <2>1, SameTestsStep
<1>3. CASE fresh
  <2> DEFINE n == Len(tests)
  <2>1. /\ tests' = RemoveAt(tests, sel) /\ ~fresh' /\ sel = n /\ sel \in DOMAIN tests
        /\ n \in Nat /\ DOMAIN tests = 1..n
    <3>1. target = "command" /\ sel = Len(tests)
      BY <1>3 DEF Sound, Steps, Unsaved, Scripted
    <3>2. tests' = RemoveAt(tests, sel) /\ ~fresh'
      BY <1>3, <3>1 DEF Discard
    <3>3. sel \in DOMAIN tests
      BY <1>1, EditedTest
    <3>4. n \in Nat /\ DOMAIN tests = 1..n
      BY DEF RegInv, Tests
    <3> QED
      BY <3>1, <3>2, <3>3, <3>4
  <2>2. /\ tests' \in Seq(Test) /\ Len(tests') = n - 1 /\ DOMAIN tests' = 1..(n - 1)
        /\ \A j \in 1..(n - 1) : tests'[j] = tests[j]
    BY <2>1, RemoveAtFacts DEF RegInv, Tests
  <2>3. \A j \in 1..n : tests[j].script # NoScript <=> j <= n - 1
    BY <1>3, <2>1 DEF Steps, Unsaved, Scripted
  <2>4. Lines(tests) = SubSeq(tests, 1, n - 1)
    <3>1. tests \in Seq(Test) /\ n - 1 \in 0..Len(tests)
      BY <2>1 DEF RegInv, Tests
    <3>2. \A j \in 1..Len(tests) : tests[j].script # NoScript <=> j <= n - 1
      BY <2>3
    <3> QED
      BY <3>1, <3>2, LinesOfSaved
  <2>5. SubSeq(tests, 1, n - 1) = tests'
    BY <2>1, <2>2 DEF RegInv, Tests
  <2>6. Lines(tests') = tests'
    <3>1. \A j \in 1..Len(tests') : tests'[j].script # NoScript <=> j <= Len(tests')
      BY <2>1, <2>2, <2>3
    <3>2. Lines(tests') = SubSeq(tests', 1, Len(tests'))
      <4>1. Len(tests') \in 0..Len(tests')
        BY <2>2
      <4> QED
        BY <2>2, <3>1, <4>1, LinesOfSaved
    <3> QED
      BY <2>2, <3>2
  <2> HIDE DEF n
  <2>7. Whole(tests)'
    BY <1>1, <2>1, RemoveWhole DEF Steps
  <2>8. Unsaved'
    BY <2>1, <2>2, <2>3 DEF Unsaved, Scripted
  <2> QED
    BY <1>1, <2>4, <2>5, <2>6, <2>7, <2>8 DEF Steps
<1> QED
  BY <1>2, <1>3

----------------------------------------------------------------------------
\* The handlers, when nothing goes wrong.
LEMMA RenameStep ==
  ASSUME RegInv, Sound, Steps, NEW title \in Titles, Rename(title), ~Fault
  PROVE  Steps'
<1> DEFINE t == [tests[sel] EXCEPT !.title = title]
<1>1. tests # <<>> /\ sel \in DOMAIN tests /\ ~fresh
  BY SelectedTest, OnTestHas DEF Rename, OnTest, Sound
<1>2. t \in Test /\ t.script = tests[sel].script
  BY <1>1, SelectedTest DEF Test
<1>3. /\ ~Taken(t) /\ scripts' = Written(t, Body(t)) /\ tests' = [tests EXCEPT ![sel] = Saved(t)]
      /\ at' = "saving" /\ fresh' = fresh
  <2>1. \/ /\ Write(t) /\ tests' = [tests EXCEPT ![sel] = Saved(t)] /\ SaveRegistryThen("list")
           /\ UNCHANGED editor
        \/ ~Taken(t) /\ WriteFails(t)
        \/ WriteKilled(t)
    BY DEF Rename
  <2> HIDE DEF t
  <2> QED
    BY <2>1 DEF Write, WriteFails, WriteKilled, SaveRegistryThen, editor
<1> HIDE DEF t
<1> QED
  BY <1>1, <1>2, <1>3, WriteStep

LEMMA CopyStepped ==
  ASSUME RegInv, Sound, Steps, NEW title \in Titles, Copy(title), ~Fault
  PROVE  Steps'
<1> DEFINE t == [tests[sel] EXCEPT !.title = title, !.script = NoScript]
<1>1. tests # <<>> /\ sel \in DOMAIN tests /\ ~fresh
  BY SelectedTest, OnTestHas DEF Copy, OnTest, Sound
<1>2. t \in Test /\ t.script = NoScript
  BY <1>1, SelectedTest DEF Test
<1>3. /\ ~Taken(t) /\ scripts' = Written(t, Body(t)) /\ tests' = Append(tests, Saved(t))
      /\ at' = "saving" /\ fresh' = fresh
  <2>1. \/ /\ Write(t) /\ tests' = Append(tests, Saved(t)) /\ SaveRegistryThen("list")
           /\ UNCHANGED editor
        \/ ~Taken(t) /\ WriteFails(t)
        \/ WriteKilled(t)
    BY DEF Copy
  <2> HIDE DEF t
  <2> QED
    BY <2>1 DEF Write, WriteFails, WriteKilled, SaveRegistryThen, editor
<1> HIDE DEF t
<1> QED
  BY <1>1, <1>2, <1>3, CopyStep

LEMMA DeleteStepped ==
  ASSUME RegInv, Sound, Steps, Delete, ~Fault
  PROVE  Steps'
<1> DEFINE i == Clamp(tests, sel, filter)
<1>1. OnTest /\ tests # <<>> /\ ~fresh /\ at = "list"
  BY OnTestHas DEF Delete, OnTest, Sound
<1>2. i \in DOMAIN tests
  BY <1>1, ClampSelects DEF RegInv, Tests, Selects
<1>3. /\ tests' = RemoveAt(tests, i)
      /\ scripts' = [q \in Paths |-> IF q = tests[i].script THEN None ELSE scripts[q]]
      /\ at' = "saving" /\ fresh' = fresh
  BY DEF Delete, SaveRegistryThen, editor
<1> HIDE DEF i
<1> QED
  BY <1>1, <1>2, <1>3, DeleteStep

\* A script that is there is always opened again: its name has not changed.
LEMMA NotTaken ==
  ASSUME RegInv, Whole(tests), NEW i \in DOMAIN tests, NEW t, t.script = tests[i].script,
         t.title = tests[i].title, t.script # NoScript
  PROVE  PathOf(t) = t.script /\ ~Taken(t)
<1>1. t.script \in Paths /\ t.script[2] = Name[t.title]
  <2>1. tests[i] \in Test
    BY DEF RegInv, Tests
  <2> QED
    BY <2>1, TestFacts DEF RegInv, Screens, Whole, NamedRight
<1>2. t.script = <<t.script[1], t.script[2]>>
  BY <1>1 DEF Paths
<1>3. PathOf(t) = t.script
  BY <1>1, <1>2 DEF PathOf
<1> QED
  BY <1>3 DEF Taken

LEMMA SaveCommandStep ==
  ASSUME RegInv, Sound, Steps, NEW exit \in BOOLEAN, SaveCommand(exit), ~Fault
  PROVE  Steps'
<1> DEFINE t == [tests[sel] EXCEPT !.command = text]
<1>1. at = "editor" /\ sel \in DOMAIN tests /\ tests # <<>> /\ tests[sel] \in Test
  BY EditedTest DEF SaveCommand
<1>2. t \in Test /\ t.script = tests[sel].script /\ t.title = tests[sel].title
  BY <1>1 DEF Test, RegInv, Screens
<1>3. \/ /\ Write(t) /\ tests' = [tests EXCEPT ![sel] = Saved(t)]
         /\ SaveRegistryThen(IF exit THEN "list" ELSE "editor")
         /\ fresh' = FALSE
      \/ /\ WriteFails(t) /\ tests' = [tests EXCEPT ![sel] = t]
         /\ UNCHANGED <<sel, at, editor, registry>>
      \/ WriteKilled(t)
  BY DEF SaveCommand
<1> HIDE DEF t
<1>4. CASE /\ Write(t) /\ tests' = [tests EXCEPT ![sel] = Saved(t)]
           /\ SaveRegistryThen(IF exit THEN "list" ELSE "editor")
           /\ fresh' = FALSE
  <2>1. ~Taken(t) /\ scripts' = Written(t, Body(t)) /\ at' = "saving"
    BY <1>4 DEF Write, SaveRegistryThen
  <2> QED
    BY <1>1, <1>2, <1>4, <2>1, WriteStep
<1>5. CASE /\ WriteFails(t) /\ tests' = [tests EXCEPT ![sel] = t]
           /\ UNCHANGED <<sel, at, editor, registry>>
  <2> DEFINE n == Len(tests)
  <2>1. Taken(t) /\ scripts' = scripts /\ fresh' = fresh
    BY <1>5 DEF WriteFails, editor
  <2>2. t.script = NoScript
    BY <1>1, <1>2, <2>1, NotTaken DEF Steps
  <2>3. fresh /\ sel = n /\ n \in Nat /\ DOMAIN tests = 1..n
    <3>1. tests[sel].script = NoScript
      BY <1>2, <2>2
    <3>2. fresh
      BY <1>1, <3>1 DEF Steps, Unsaved, Scripted
    <3>3. sel = Len(tests)
      BY <3>2 DEF Steps, Unsaved, Scripted
    <3>4. n \in Nat /\ DOMAIN tests = 1..n
      BY DEF RegInv, Tests
    <3> QED
      BY <3>2, <3>3, <3>4
  <2>4. /\ tests' \in Seq(Test) /\ Len(tests') = n /\ DOMAIN tests' = 1..n
        /\ tests'[n] = t /\ \A j \in 1..(n - 1) : tests'[j] = tests[j]
    BY <1>1, <1>2, <1>5, <2>3, Replaced DEF RegInv, Tests
  <2>5. \A j \in 1..n : tests[j].script # NoScript <=> j <= n - 1
    <3>1. \A j \in 1..n : tests[j].script = NoScript <=> j = n
      <4>1. tests[n].script = NoScript
        BY <1>2, <2>2, <2>3
      <4>2. \A j \in 1..n : tests[j].script = NoScript => j = n
        BY <2>3 DEF Steps, Unsaved, Scripted
      <4> QED
        BY <4>1, <4>2
    <3>2. \A j \in 1..n : j <= n - 1 <=> j # n
      BY <2>3
    <3> QED
      BY <3>1, <3>2
  <2>6. \A j \in 1..n : tests'[j].script # NoScript <=> j <= n - 1
    BY <1>1, <2>2, <2>3, <2>4, <2>5
  <2>7. Lines(tests') = Lines(tests)
    <3>1. tests \in Seq(Test) /\ n - 1 \in 0..Len(tests) /\ n - 1 \in 0..Len(tests')
      BY <1>1, <2>3, <2>4 DEF RegInv, Tests
    <3>2. Lines(tests) = SubSeq(tests, 1, n - 1)
      BY <2>5, <3>1, LinesOfSaved
    <3>3. Lines(tests') = SubSeq(tests', 1, n - 1)
      BY <2>4, <2>6, <3>1, LinesOfSaved
    <3>4. SubSeq(tests, 1, n - 1) = SubSeq(tests', 1, n - 1)
      BY <2>3, <2>4, <3>1
    <3> QED
      BY <3>2, <3>3, <3>4
  <2> HIDE DEF n
  <2>8. Whole(tests)'
    BY <1>1, <1>2, <1>5, <2>1, <2>2, ReplaceWhole DEF Steps
  <2>9. Unsaved'
    BY <1>1, <1>5, <2>1, <2>2, <2>3, <2>4, <2>6 DEF Unsaved, Scripted
  <2>10. registry' = Lines(tests')
    BY <1>1, <1>5, <2>7 DEF Steps
  <2> QED
    BY <1>1, <1>5, <2>8, <2>9, <2>10 DEF Steps
<1>6. CASE WriteKilled(t)
  BY <1>6 DEF WriteKilled
<1> QED
  BY <1>3, <1>4, <1>5, <1>6

LEMMA SaveAboutStep ==
  ASSUME RegInv, Sound, Steps, NEW exit \in BOOLEAN, SaveAbout(exit), ~Fault
  PROVE  Steps'
<1> DEFINE t == [tests[sel] EXCEPT !.about = text]
<1>1. /\ at = "editor" /\ sel \in DOMAIN tests /\ tests # <<>> /\ tests[sel] \in Test
      /\ ~fresh /\ fresh' = fresh /\ at' = "saving"
  BY EditedTest DEF SaveAbout, SaveRegistryThen, Sound
<1>2. t \in Test /\ t.script = tests[sel].script /\ t.title = tests[sel].title
  BY <1>1 DEF Test, RegInv, Screens
<1>3. t.script # NoScript
  BY <1>1, <1>2, AllSaved DEF Steps, Unsaved
<1>4. ~Taken(t)
  BY <1>1, <1>2, <1>3, NotTaken DEF Steps
<1>5. \/ /\ tests' = [tests EXCEPT ![sel] = IF t.script = NoScript \/ Taken(t) THEN t ELSE Saved(t)]
         /\ IF t.script = NoScript THEN UNCHANGED <<scripts, faults>> ELSE Write(t)
      \/ WriteFails(t)
  BY DEF SaveAbout
<1> HIDE DEF t
<1>6. tests' = [tests EXCEPT ![sel] = Saved(t)] /\ scripts' = Written(t, Body(t))
  BY <1>3, <1>4, <1>5 DEF Write, WriteFails
<1> QED
  BY <1>1, <1>2, <1>4, <1>6, WriteStep

\* A test that has its script is written again as it was.
LEMMA WriteNextStep ==
  ASSUME RegInv, Sound, Steps, WriteNext, ~Fault
  PROVE  Steps'
<1> DEFINE i == CHOOSE i \in pending : \A j \in pending : i <= j
           t == tests[i]
<1>1. /\ at = "writing" /\ pending # {} /\ pending \subseteq DOMAIN tests /\ DOMAIN tests \subseteq Nat
      /\ ~fresh
  BY DEF WriteNext, RegInv, Tests, Sound
<1>2. i \in DOMAIN tests
  <2>1. \E m \in pending : \A n \in pending : m <= n
    BY <1>1, Least
  <2> QED
    BY <1>1, <2>1
<1>3. \/ /\ Write(t) /\ tests' = [tests EXCEPT ![i] = Saved(t)]
         /\ UNCHANGED <<sel, at, editor, registry>>
      \/ WriteFails(t)
      \/ WriteKilled(t)
  BY DEF WriteNext
<1> HIDE DEF i
<1>4. t \in Test /\ t.script # NoScript /\ Lines(tests) = tests
  BY <1>1, <1>2, AllSaved DEF RegInv, Tests, Steps, Unsaved
<1>5. ~Taken(t) /\ PathOf(t) = t.script
  BY <1>2, <1>4, NotTaken DEF Steps
<1>6. /\ scripts' = Written(t, Body(t)) /\ tests' = [tests EXCEPT ![i] = Saved(t)]
      /\ UNCHANGED <<sel, at, registry, fresh>>
  BY <1>3, <1>5 DEF Write, WriteFails, WriteKilled, editor
<1>7. Whole(tests)'
  BY <1>2, <1>4, <1>5, <1>6, WriteWhole
<1>8. tests' = tests
  <2>1. Saved(t) = t
    BY <1>4, <1>5 DEF Saved, Test
  <2> QED
    BY <1>2, <1>6, <2>1 DEF RegInv, Tests
<1>9. Unsaved'
  BY <1>6, <1>8 DEF Steps, Unsaved, Scripted
<1> QED
  BY <1>1, <1>6, <1>7, <1>8, <1>9 DEF Steps

LEMMA SaveRegistryStep ==
  ASSUME RegInv, Sound, Steps, SaveRegistry, ~Fault
  PROVE  Steps'
<1>1. /\ at = "saving" /\ ~fresh /\ registry' = Lines(tests) /\ scripts' = scripts
  BY DEF SaveRegistry, Sound
<1>2. registry' = tests
  BY <1>1, AllSaved DEF Steps, Unsaved
<1>3. CASE back = "off"
  <2>1. tests' = <<>> /\ at' = "off" /\ fresh' = FALSE
    BY <1>3 DEF SaveRegistry, Gone
  <2>2. Whole(registry)'
    BY <1>1, <1>2 DEF Steps, Whole, NamedRight, InFiles, Distinct
  <2>3. Whole(tests)' /\ Unsaved'
    BY <2>1 DEF Whole, NamedRight, InFiles, Distinct, Unsaved, Scripted
  <2> QED
    BY <2>1, <2>2, <2>3 DEF Steps
<1>4. CASE back # "off"
  <2>1. UNCHANGED <<tests, sel, fresh>> /\ at' \in {"list", "editor"}
    BY <1>1, <1>4 DEF SaveRegistry, editor, RegInv, Screens
  <2>2. Whole(tests)' /\ Unsaved'
    BY <1>1, <2>1 DEF Steps, Whole, NamedRight, InFiles, Distinct, Unsaved, Scripted
  <2> QED
    BY <1>1, <2>1, <2>2 DEF Steps
<1> QED
  BY <1>3, <1>4

\* The program ends, and its registry tells of all its tests.
LEMMA ExitStep ==
  ASSUME RegInv, Sound, Steps, Gone, at \in {"list", "writing"}, UNCHANGED <<scripts, registry>>
  PROVE  Steps'
<1>1. registry' = tests
  BY AllSaved DEF Sound, Steps, Unsaved
<1>2. tests' = <<>> /\ at' = "off" /\ fresh' = FALSE
  BY DEF Gone
<1>3. Whole(registry)'
  BY <1>1 DEF Steps, Whole, NamedRight, InFiles, Distinct
<1>4. Whole(tests)' /\ Unsaved'
  BY <1>2 DEF Whole, NamedRight, InFiles, Distinct, Unsaved, Scripted
<1> QED
  BY <1>2, <1>3, <1>4 DEF Steps

\* The program begins with what the registry tells.
LEMMA LoadStep ==
  ASSUME RegInv, Sound, Steps, at = "off", tests' = Loaded, at' \in {"list", "writing"},
         UNCHANGED <<scripts, registry, fresh>>
  PROVE  Steps'
<1>1. tests' = registry /\ ~fresh'
  BY LoadedFacts DEF Sound
<1>2. /\ registry \in Seq(Test) /\ Len(registry) \in 0..Len(registry) /\ DOMAIN registry = 1..Len(registry)
      /\ \A k \in 1..Len(registry) : registry[k].script # NoScript
  BY DEF RegInv, Registry
<1>3. Whole(tests)' /\ Unsaved'
  BY <1>1, <1>2 DEF Steps, Whole, NamedRight, InFiles, Distinct, Unsaved, Scripted
<1>4. Lines(registry) = registry
  <2>1. \A k \in 1..Len(registry) : registry[k].script # NoScript <=> k <= Len(registry)
    BY <1>2
  <2>2. Lines(registry) = SubSeq(registry, 1, Len(registry))
    BY <1>2, <2>1, LinesOfSaved
  <2> QED
    BY <1>2, <2>2
<1> QED
  BY <1>1, <1>3, <1>4 DEF Steps

\* A file of someone else's is not at the script of a test.
LEMMA PutFileStep ==
  ASSUME RegInv, Sound, Steps, NEW p \in Paths, PutFile(p)
  PROVE  Steps'
<1>1. /\ UNCHANGED <<tests, sel, at, fresh, registry>> /\ scripts[p] = None
      /\ scripts' = [scripts EXCEPT ![p] = Foreign]
  BY DEF PutFile, app, editor
<1>2. \A t \in Test : scripts[t.script] = Body(t) => scripts'[t.script] = Body(t)
  BY <1>1, FileFacts DEF RegInv, Disk
<1>3. /\ \A i \in DOMAIN tests : tests[i] \in Test
      /\ \A i \in DOMAIN registry : registry[i] \in Test
  BY DEF RegInv, Tests, Registry
<1>4. Whole(tests)'
  BY <1>1, <1>2, <1>3 DEF Steps, Whole, NamedRight, InFiles, Distinct
<1>5. at = "off" => Whole(registry)'
  BY <1>1, <1>2, <1>3 DEF Steps, Whole, NamedRight, InFiles, Distinct
<1>6. Unsaved'
  BY <1>1 DEF Steps, Unsaved, Scripted
<1> QED
  BY <1>1, <1>4, <1>5, <1>6 DEF Steps

----------------------------------------------------------------------------
\* What goes wrong is not undone.
NotUndone == faults <= faults' /\ (hidden => hidden')

LEMMA SoundNext ==
  ASSUME RegInv, Sound, [Next]_vars
  PROVE  Sound' /\ NotUndone
<1> USE DEF Sound, NotUndone
<1> DEFINE Same == UNCHANGED hidden /\ (faults' = faults \/ Fault)
           Shut == fresh' = FALSE
           Kept == fresh' = fresh /\ target' = target /\ (at = "editor" => at' = "editor")
<1>1. Same => faults' \in Nat /\ hidden' \in BOOLEAN /\ NotUndone
  BY BoundsAssumption DEF Fault
<1>2. Same /\ (Shut \/ Kept) => Sound' /\ NotUndone
  <2> HIDE DEF Same
  <2>1. Shut => fresh' \in BOOLEAN /\ (fresh' => at' = "editor" /\ target' = "command")
    OBVIOUS
  <2>2. Kept => fresh' \in BOOLEAN /\ (fresh' => at' = "editor" /\ target' = "command")
    <3>1. CASE fresh = TRUE
      <4>1. at = "editor" /\ target = "command"
        BY <3>1
      <4> QED
        BY <3>1, <4>1
    <3>2. CASE fresh = FALSE
      BY <3>2
    <3> QED
      BY <3>1, <3>2
  <2> HIDE DEF Shut, Kept
  <2> QED
    BY <1>1, <2>1, <2>2
<1>3. Gone => Shut
  BY DEF Gone
<1>4. ASSUME NEW t PROVE /\ Write(t) => faults' = faults \/ Fault
                         /\ WriteFails(t) => faults' = faults \/ Fault
                         /\ WriteKilled(t) => Shut /\ Same
  BY <1>3 DEF Write, WriteFails, WriteKilled, ghosts
<1> HIDE DEF Same, Shut, Kept
<1>5. CASE UNCHANGED vars
  BY <1>2, <1>5 DEF vars, app, editor, ghosts, Same, Kept
<1>6. ASSUME NEW title \in Titles, Add(title) PROVE Sound' /\ NotUndone
  BY <1>6 DEF Add
<1>7. ASSUME NEW title \in Titles, Rename(title) PROVE Sound' /\ NotUndone
  <2>1. at = "list"
    BY <1>7 DEF Rename, OnTest
  <2>2. ASSUME NEW t, \/ Write(t) /\ UNCHANGED <<editor, ghosts>>
                      \/ WriteFails(t) /\ UNCHANGED <<editor, ghosts>>
                      \/ WriteKilled(t)
        PROVE  Sound' /\ NotUndone
    BY <1>2, <1>4, <2>1, <2>2 DEF editor, ghosts, Same, Kept
  <2> QED
    BY <1>7, <2>2 DEF Rename
<1>8. ASSUME NEW title \in Titles, Copy(title) PROVE Sound' /\ NotUndone
  <2>1. at = "list"
    BY <1>8 DEF Copy, OnTest
  <2>2. ASSUME NEW t, \/ Write(t) /\ UNCHANGED <<editor, ghosts>>
                      \/ WriteFails(t) /\ UNCHANGED <<editor, ghosts>>
                      \/ WriteKilled(t)
        PROVE  Sound' /\ NotUndone
    BY <1>2, <1>4, <2>1, <2>2 DEF editor, ghosts, Same, Kept
  <2> QED
    BY <1>8, <2>2 DEF Copy
<1>9. ASSUME NEW what \in {"command", "about"}, Open(what) PROVE Sound' /\ NotUndone
  <2>1. fresh = FALSE /\ fresh' = (fresh /\ what # "command") /\ UNCHANGED <<ghosts, faults>>
    BY <1>9 DEF Open, OnTest
  <2> QED
    BY <1>2, <2>1 DEF Same, Shut, ghosts
<1>10. CASE Delete
  BY <1>2, <1>3, <1>10 DEF Delete, OnTest, editor, ghosts, Same, Kept
<1>11. CASE Toggle
  BY <1>2, <1>11 DEF Toggle, OnTest, editor, ghosts, Same, Kept
<1>12. ASSUME NEW f \in DOMAIN Hits, Filter(f) PROVE Sound' /\ NotUndone
  BY <1>2, <1>12 DEF Filter, editor, ghosts, Same, Kept
<1>13. ASSUME NEW direction \in {-1, 1}, Move(direction) PROVE Sound' /\ NotUndone
  BY <1>2, <1>13 DEF Move, editor, ghosts, Same, Kept
<1>14. CASE Type
  BY <1>2, <1>14 DEF Type, app, Same, Kept
<1>15. ASSUME NEW exit \in BOOLEAN, SaveCommand(exit) PROVE Sound' /\ NotUndone
  <2>1. ASSUME NEW t, \/ Write(t) /\ fresh' = FALSE /\ UNCHANGED hidden
                      \/ WriteFails(t) /\ UNCHANGED <<at, editor, hidden>>
                      \/ WriteKilled(t)
        PROVE  Sound' /\ NotUndone
    BY <1>2, <1>4, <2>1 DEF editor, ghosts, Same, Kept, Shut
  <2> QED
    BY <1>15, <2>1 DEF SaveCommand
<1>16. ASSUME NEW exit \in BOOLEAN, SaveAbout(exit) PROVE Sound' /\ NotUndone
  <2>1. fresh = FALSE /\ fresh' = fresh /\ UNCHANGED hidden
    BY <1>16 DEF SaveAbout
  <2>2. \E t : faults' = faults \/ Write(t) \/ WriteFails(t)
    BY <1>16 DEF SaveAbout
  <2> QED
    BY <1>2, <1>4, <2>1, <2>2 DEF ghosts, Same, Shut
<1>17. CASE SaveAboutKilled
  BY <1>2, <1>4, <1>17 DEF SaveAboutKilled
<1>18. CASE QuitEditor
  <2>1. fresh = FALSE /\ fresh' = fresh /\ UNCHANGED <<ghosts, faults>>
    BY <1>18 DEF QuitEditor
  <2> QED
    BY <1>2, <2>1 DEF ghosts, Same, Shut
<1>19. CASE Discard
  <2>1. fresh' = FALSE /\ UNCHANGED <<hidden, faults>>
    BY <1>19 DEF Discard
  <2> QED
    BY <1>2, <2>1 DEF ghosts, Same, Shut
<1>20. CASE Start
  BY <1>2, <1>20 DEF Start, editor, ghosts, Same, Kept
<1>21. CASE Regenerate
  BY <1>2, <1>21 DEF Regenerate, editor, ghosts, Same, Kept
<1>22. CASE WriteNext
  <2>1. at = "writing"
    BY <1>22 DEF WriteNext
  <2>2. ASSUME NEW t, \/ Write(t) /\ UNCHANGED <<editor, ghosts>>
                      \/ WriteFails(t) /\ UNCHANGED <<editor, ghosts>>
                      \/ WriteKilled(t)
        PROVE  Sound' /\ NotUndone
    BY <1>2, <1>4, <2>1, <2>2 DEF editor, ghosts, Same, Kept
  <2> QED
    BY <1>22, <2>2 DEF WriteNext
<1>23. CASE AllWritten
  BY <1>2, <1>3, <1>23 DEF AllWritten, editor, ghosts, Same, Kept
<1>24. CASE SaveRegistry
  BY <1>2, <1>3, <1>24 DEF SaveRegistry, editor, ghosts, Same, Kept
<1>25. CASE SaveKilled
  BY <1>2, <1>3, <1>25 DEF SaveKilled, ghosts, Same
<1>26. ASSUME NEW dir \in Dirs, Begin(dir) PROVE Sound' /\ NotUndone
  BY <1>2, <1>26 DEF Begin, editor, ghosts, Same, Kept
<1>27. CASE Exit \/ Kill
  BY <1>2, <1>3, <1>27 DEF Exit, Kill, ghosts, Same
<1>28. ASSUME NEW p \in Paths, PutFile(p) \/ RemoveFile(p) PROVE Sound' /\ NotUndone
  BY <1>2, <1>28 DEF PutFile, RemoveFile, app, editor, ghosts, Same, Kept
<1> QED
  BY <1>5, <1>6, <1>7, <1>8, <1>9, <1>10, <1>11, <1>12, <1>13, <1>14, <1>15, <1>16, <1>17,
     <1>18, <1>19, <1>20, <1>21, <1>22, <1>23, <1>24, <1>25, <1>26, <1>27, <1>28 DEF Next

LEMMA StepNext == RegInv /\ StepInv /\ [Next]_vars => StepInv'
<1> SUFFICES ASSUME RegInv, StepInv, [Next]_vars, Clean' PROVE Steps'
  BY SoundNext DEF StepInv, Clean, NotUndone, Sound
<1>1. Sound /\ Steps /\ ~Fault /\ ~hidden'
  BY SoundNext, NoFault DEF StepInv, Clean, NotUndone, Sound
<1>2. CASE UNCHANGED vars
  <2>1. UNCHANGED <<tests, scripts, registry, sel, at, fresh>>
    BY <1>2 DEF vars, app, editor, disk
  <2> QED
    BY <1>1, <2>1 DEF Steps, Whole, NamedRight, InFiles, Distinct, Unsaved, Scripted
<1>3. ASSUME NEW what \in {"command", "about"}, Open(what) PROVE Steps'
  <2>1. at = "list" /\ ~fresh /\ at' = "editor" /\ fresh' = (fresh /\ what # "command")
        /\ UNCHANGED <<tests, disk>>
    BY <1>1, <1>3 DEF Open, OnTest, Sound
  <2>2. fresh' = fresh
    BY <1>1, <2>1 DEF Sound
  <2> QED
    BY <1>1, <2>1, <2>2, SameTestsStep DEF disk
<1>4. CASE Toggle \/ Start \/ (\E f \in DOMAIN Hits : Filter(f)) \/ \E direction \in {-1, 1} : Move(direction)
  <2>1. at = "list" /\ at' # "off" /\ UNCHANGED <<tests, editor, disk>>
    BY <1>4 DEF Toggle, Start, Filter, Move, OnTest, SaveRegistryThen
  <2> QED
    BY <1>1, <2>1, SameTestsStep DEF editor, disk, Sound
<1>5. CASE Type
  <2>1. at = "editor" /\ UNCHANGED <<app, fresh, disk>>
    BY <1>5 DEF Type
  <2> QED
    BY <1>1, <2>1, SameTestsStep DEF app, disk
<1>6. CASE QuitEditor
  <2>1. at = "editor" /\ at' = "list" /\ UNCHANGED <<tests, sel, fresh, disk>>
    BY <1>6 DEF QuitEditor
  <2> QED
    BY <1>1, <2>1, SameTestsStep DEF disk
<1>7. CASE AllWritten
  <2>1. at = "writing" /\ UNCHANGED disk
    BY <1>7 DEF AllWritten
  <2>2. CASE back = "failing"
    BY <1>1, <1>7, <2>1, <2>2, ExitStep DEF AllWritten, disk
  <2>3. CASE back # "failing"
    <3>1. UNCHANGED <<tests, sel, editor>> /\ at' # "off"
      BY <1>7, <2>1, <2>3 DEF AllWritten, SaveRegistryThen, RegInv, Screens
    <3> QED
      BY <1>1, <2>1, <3>1, SameTestsStep DEF editor, disk
  <2> QED
    BY <2>2, <2>3
<1>8. CASE Exit
  BY <1>1, <1>8, ExitStep DEF Exit, disk
<1>9. CASE Regenerate \/ \E dir \in Dirs : Begin(dir)
  <2>1. at = "off" /\ tests' = Loaded /\ at' \in {"list", "writing"} /\ UNCHANGED <<editor, disk>>
    BY <1>9 DEF Regenerate, Begin
  <2> QED
    BY <1>1, <2>1, LoadStep DEF editor, disk
<1>10. CASE SaveKilled \/ Kill \/ SaveAboutKilled \/ \E p \in Paths : RemoveFile(p)
  BY <1>1, <1>10 DEF SaveKilled, Kill, SaveAboutKilled, WriteKilled, RemoveFile
<1> QED
  BY <1>1, <1>2, <1>3, <1>4, <1>5, <1>6, <1>7, <1>8, <1>9, <1>10, AddStep, RenameStep,
     CopyStepped, DeleteStepped, SaveCommandStep, SaveAboutStep, DiscardStep, WriteNextStep,
     SaveRegistryStep, PutFileStep
  DEF Next

LEMMA StepInit == Init => StepInv
<1> SUFFICES ASSUME Init PROVE Sound /\ Steps
  BY DEF StepInv
<1>1. Sound
  BY DEF Init, Sound
<1>2. Steps
  BY DEF Init, Steps, Whole, NamedRight, InFiles, Distinct, Unsaved, Scripted
<1> QED
  BY <1>1, <1>2

\* Between two keys memory, registry and scripts hold the same tests, each with a script
\* of its own, for every number of tests and whatever the names: unless something failed,
\* the program was killed, or a test was added that the filter hides.
THEOREM FilesFollowTests == Spec => []InStep
<1>1. RegInv /\ StepInv => InStep
  <2> SUFFICES ASSUME RegInv, Sound, Steps, at \in {"list", "editor"} PROVE
                   /\ registry = Lines(tests)
                   /\ \A t \in Range(Lines(tests)) : scripts[t.script] = Body(t)
                   /\ \A i, j \in DOMAIN tests :
                          tests[i].script = tests[j].script /\ tests[i].script # NoScript => i = j
                   /\ \A i \in DOMAIN tests : tests[i].script = NoScript => fresh /\ i = sel
    BY DEF InStep, StepInv, Clean
  <2>1. registry = Lines(tests)
    BY DEF Steps
  <2>2. ASSUME NEW t \in Range(Lines(tests)) PROVE scripts[t.script] = Body(t)
    <3>1. PICK k \in DOMAIN Lines(tests) : t = Lines(tests)[k]
      BY DEF Range
    <3>2. tests \in Seq(Test)
      BY DEF RegInv, Tests
    <3>3. t.script # NoScript /\ \E i \in DOMAIN tests : t = tests[i]
      BY <3>1, <3>2, LinesFromTests
    <3> QED
      BY <3>3 DEF Steps, Whole, InFiles
  <2> QED
    BY <2>1, <2>2 DEF Steps, Whole, Distinct, Unsaved, Scripted
<1>2. Spec => [](RegInv /\ StepInv)
  BY RegInit, RegNext, StepInit, StepNext, PTL DEF Spec
<1> QED
  BY <1>1, <1>2, PTL

----------------------------------------------------------------------------
(* No text is lost to one fault *)

\* The texts in a file, and those in the scripts.
TextsAt(f) == IF Len(f) = 4 THEN {f[3], f[4]} ELSE {}
InFile(files, x) == x # 0 /\ \E p \in Paths : x \in TextsAt(files[p])

LEMMA FileTexts ==
  /\ TextsAt(None) = {} /\ TextsAt(Cut) = {} /\ TextsAt(Foreign) = {}
  /\ \A t : TextsAt(Body(t)) = {t.command, t.about}
<1>1. Len(None) = 0 /\ Len(Cut) = 1 /\ Len(Foreign) = 1
  BY DEF None, Cut, Foreign
<1>2. \A t : Len(Body(t)) = 4 /\ Body(t)[3] = t.command /\ Body(t)[4] = t.about
  BY DEF Body
<1> QED
  BY <1>1, <1>2 DEF TextsAt

LEMMA Listing ==
  \A ts, x : x \in TextsIn(ts) <=> x # 0 /\ \E i \in DOMAIN ts : x \in {ts[i].command, ts[i].about}
<1> SUFFICES ASSUME NEW ts, NEW x
             PROVE  x \in TextsIn(ts) <=> x # 0 /\ \E i \in DOMAIN ts : x \in {ts[i].command, ts[i].about}
  OBVIOUS
<1>1. \A t : t \in Range(ts) <=> \E i \in DOMAIN ts : t = ts[i]
  BY DEF Range
<1>2. x \in TextsIn(ts) <=> x # 0 /\ \E t \in Range(ts) : x \in {t.command, t.about}
  <2> DEFINE texts(t) == {t.command, t.about}
             all == UNION {texts(t) : t \in Range(ts)}
  <2>1. TextsIn(ts) = all \ {0}
    BY DEF TextsIn
  <2>2. x \in all <=> \E t \in Range(ts) : x \in texts(t)
    <3> HIDE DEF texts
    <3> QED
      BY Zenon
  <2> HIDE DEF all
  <2> QED
    BY <2>1, <2>2
<1> QED
  BY <1>1, <1>2

LEMMA Found ==
  /\ \A x : x \in OnDisk <=> x \in TextsIn(registry) \/ InFile(scripts, x)
  /\ \A x : x \in OnDisk' <=> x \in TextsIn(registry') \/ InFile(scripts', x)
<1>1. ASSUME NEW x PROVE x \in OnDisk <=> x \in TextsIn(registry) \/ InFile(scripts, x)
  <2>1. \A p : x \in InScript(p) <=> x # 0 /\ x \in TextsAt(scripts[p])
    BY DEF InScript, TextsAt
  <2>2. x \in UNION {InScript(p) : p \in Paths} <=> \E p \in Paths : x \in InScript(p)
    BY Zenon
  <2> QED
    BY <2>1, <2>2 DEF OnDisk, InFile
<1>2. ASSUME NEW x PROVE x \in OnDisk' <=> x \in TextsIn(registry') \/ InFile(scripts', x)
  <2>1. \A p : x \in InScript(p)' <=> x # 0 /\ x \in TextsAt(scripts'[p])
    BY DEF InScript, TextsAt
  <2>2. x \in (UNION {InScript(p) : p \in Paths})' <=> \E p \in Paths : x \in InScript(p)'
    BY Zenon
  <2>3. x \in OnDisk' <=> x \in TextsIn(registry') \/ x \in (UNION {InScript(p) : p \in Paths})'
    BY DEF OnDisk
  <2> QED
    BY <2>1, <2>2, <2>3 DEF InFile
<1> QED
  BY <1>1, <1>2

LEMMA NoText == 0 \notin OnDisk /\ 0 \notin OnDisk'
  BY Found, Listing DEF InFile

\* What the lists say.
LEMMA ReplaceTexts ==
  ASSUME NEW ts \in Seq(Test), NEW i \in DOMAIN ts, NEW t \in Test
  PROVE  TextsIn([ts EXCEPT ![i] = t]) \subseteq TextsIn(ts) \union {t.command, t.about}
<1> DEFINE new == [ts EXCEPT ![i] = t]
<1>1. DOMAIN new = DOMAIN ts /\ \A j \in DOMAIN ts : new[j] = IF j = i THEN t ELSE ts[j]
  BY Replaced
<1> HIDE DEF new
<1>2. TextsIn(new) \subseteq TextsIn(ts) \union {t.command, t.about}
  BY <1>1, Listing
<1> QED
  BY <1>2 DEF new

LEMMA AppendTexts ==
  ASSUME NEW ts \in Seq(Test), NEW t \in Test
  PROVE  TextsIn(Append(ts, t)) \subseteq TextsIn(ts) \union {t.command, t.about}
<1> DEFINE new == Append(ts, t)
<1>1. DOMAIN new = 1..Len(ts) + 1 /\ DOMAIN ts = 1..Len(ts) /\ Len(ts) \in Nat
      /\ new[Len(ts) + 1] = t /\ \A j \in 1..Len(ts) : new[j] = ts[j]
  OBVIOUS
<1> HIDE DEF new
<1>2. \A j \in DOMAIN new : new[j] = t \/ (j \in DOMAIN ts /\ new[j] = ts[j])
  BY <1>1
<1>3. TextsIn(new) \subseteq TextsIn(ts) \union {t.command, t.about}
  BY <1>2, Listing
<1> QED
  BY <1>3 DEF new

LEMMA RemoveTexts ==
  ASSUME NEW ts \in Seq(Test), NEW i \in DOMAIN ts
  PROVE  TextsIn(RemoveAt(ts, i)) \subseteq TextsIn(ts)
<1> DEFINE new == RemoveAt(ts, i)
<1>1. i \in 1..Len(ts) /\ Len(ts) \in Nat /\ DOMAIN ts = 1..Len(ts)
  OBVIOUS
<1>2. new \in Seq(Test) /\ Len(new) = Len(ts) - 1
      /\ \A j \in 1..(Len(ts) - 1) : new[j] = IF j < i THEN ts[j] ELSE ts[j + 1]
  BY <1>1, RemoveAtFacts
<1> HIDE DEF new
<1>3. \A j \in DOMAIN new : \E k \in DOMAIN ts : new[j] = ts[k]
  <2> SUFFICES ASSUME NEW j \in DOMAIN new PROVE \E k \in DOMAIN ts : new[j] = ts[k]
    OBVIOUS
  <2>1. j \in 1..(Len(ts) - 1)
    BY <1>2
  <2>2. j \in DOMAIN ts /\ j + 1 \in DOMAIN ts
    BY <1>1, <2>1
  <2> QED
    BY <1>2, <2>1, <2>2
<1>4. TextsIn(new) \subseteq TextsIn(ts)
  BY <1>3, Listing
<1> QED
  BY <1>4 DEF new

\* The registry says no more than the tests, also when it is cut.
LEMMA TornTexts ==
  ASSUME RegInv, NEW r, r \in Torn(tests) \/ r = Lines(tests)
  PROVE  TextsIn(r) \subseteq TextsIn(tests)
<1> DEFINE all == Lines(tests)
<1>1. all \in Seq(Test) /\ Len(all) \in Nat /\ DOMAIN all = 1..Len(all)
      /\ \A k \in DOMAIN all : \E i \in DOMAIN tests : all[k] = tests[i]
  <2>1. tests \in Seq(Test)
    BY DEF RegInv, Tests
  <2>2. all \in Seq(Test) /\ \A k \in DOMAIN all : \E i \in DOMAIN tests : all[k] = tests[i]
    BY <2>1, LinesFromTests
  <2> HIDE DEF all
  <2> QED
    BY <2>2
<1>2. \/ r = all
      \/ \E k \in 0..Len(all) : r = SubSeq(all, 1, k)
      \/ \E k \in DOMAIN all : \E c \in {0, all[k].command} :
            r = Append(SubSeq(all, 1, k - 1), [all[k] EXCEPT !.command = c, !.about = 0])
  BY TornShapes
<1> HIDE DEF all
<1>3. TextsIn(all) \subseteq TextsIn(tests)
  BY <1>1, Listing
<1>4. ASSUME NEW k \in 0..Len(all)
      PROVE  SubSeq(all, 1, k) \in Seq(Test) /\ TextsIn(SubSeq(all, 1, k)) \subseteq TextsIn(all)
  <2> DEFINE s == SubSeq(all, 1, k)
  <2>1. s \in Seq(Test) /\ Len(s) = k /\ \A j \in 1..k : s[j] = all[j]
    BY <1>1
  <2> HIDE DEF s
  <2>2. \A j \in DOMAIN s : j \in DOMAIN all /\ s[j] = all[j]
    BY <1>1, <2>1
  <2>3. TextsIn(s) \subseteq TextsIn(all)
    BY <2>2, Listing
  <2> QED
    BY <2>1, <2>3 DEF s
<1>5. ASSUME NEW k \in DOMAIN all, NEW c \in {0, all[k].command},
             r = Append(SubSeq(all, 1, k - 1), [all[k] EXCEPT !.command = c, !.about = 0])
      PROVE  TextsIn(r) \subseteq TextsIn(all)
  <2> DEFINE s == SubSeq(all, 1, k - 1)
             t == [all[k] EXCEPT !.command = c, !.about = 0]
  <2>1. k - 1 \in 0..Len(all) /\ all[k] \in Test
    BY <1>1
  <2>2. s \in Seq(Test) /\ TextsIn(s) \subseteq TextsIn(all)
    BY <1>4, <2>1
  <2>3. t \in Test /\ t.command = c /\ t.about = 0
    BY <2>1, Sizes DEF Test
  <2>4. \A x \in {t.command, t.about} : x # 0 => x \in TextsIn(all)
    BY <2>3, Listing
  <2>5. r = Append(s, t)
    BY <1>5
  <2> HIDE DEF s, t
  <2>6. TextsIn(r) \subseteq TextsIn(s) \union {t.command, t.about}
    BY <2>2, <2>3, <2>5, AppendTexts
  <2>7. 0 \notin TextsIn(r)
    BY Listing
  <2> QED
    BY <2>2, <2>4, <2>6, <2>7
<1>6. TextsIn(r) \subseteq TextsIn(all)
  BY <1>2, <1>4, <1>5
<1> QED
  BY <1>3, <1>6

\* What a write puts into files.
LEMMA WriteTexts ==
  ASSUME RegInv, NEW t \in Test,
         \/ scripts' = scripts
         \/ \E body \in {Cut, Body(t)} :
               scripts' = Written(t, body) \/ scripts' = [scripts EXCEPT ![PathOf(t)] = body],
         registry' = registry
  PROVE  OnDisk' \subseteq OnDisk \union {t.command, t.about}
<1>1. PathOf(t) \in Paths /\ scripts \in [Paths -> Files]
  BY TestFacts DEF RegInv, Screens, Disk
<1>2. ASSUME NEW p \in Paths
      PROVE  TextsAt(scripts'[p]) \subseteq TextsAt(scripts[p]) \union {t.command, t.about}
  <2>1. CASE scripts' = scripts
    BY <2>1
  <2>2. ASSUME NEW body \in {Cut, Body(t)}, scripts' = Written(t, body) PROVE
          TextsAt(scripts'[p]) \subseteq TextsAt(scripts[p]) \union {t.command, t.about}
    <3>1. scripts'[p] \in {body, None, scripts[p]}
      BY <2>2 DEF Written
    <3> QED
      BY <3>1, FileTexts
  <2>3. ASSUME NEW body \in {Cut, Body(t)}, scripts' = [scripts EXCEPT ![PathOf(t)] = body] PROVE
          TextsAt(scripts'[p]) \subseteq TextsAt(scripts[p]) \union {t.command, t.about}
    <3>1. scripts'[p] \in {body, scripts[p]}
      BY <1>1, <2>3
    <3> QED
      BY <3>1, FileTexts
  <2> QED
    BY <2>1, <2>2, <2>3
<1>3. \A x : InFile(scripts', x) => InFile(scripts, x) \/ x \in {t.command, t.about}
  BY <1>2 DEF InFile
<1> QED
  BY <1>3, Found

----------------------------------------------------------------------------
\* Nothing shown, listed or on disk was typed later than the last text.
Numbered ==
    /\ text \in 0..typed
    /\ \A x : x \in TextsIn(tests) \/ x \in OnDisk => x \in 0..typed

AtMostOne == faults <= 1 /\ ~hidden

InRegistry == \A x : x \in TextsIn(tests) /\ x \in OnDisk => x \in TextsIn(registry)

\* The editor shows a text of a test, or one that is not on disk yet.
Shown ==
    /\ text = 0 \/ text \in TextsIn(tests) \/ (at = "editor" /\ text \notin OnDisk)
    /\ text # 0 => at = "editor" \/ (at = "saving" /\ back = "editor")

\* Scripts are written in a row of tests that the registry tells of.
Rewrites == at = "writing" /\ pending # {} => \A x \in TextsIn(tests) : x \in TextsIn(registry)

\* What is on disk is in the registry, or, once something failed, in a whole script; and
\* while the registry is rewritten StepInv has the scripts.
Somewhere == at # "saving" => InRegistry \/ (faults # 0 /\ Whole(tests))

Safe == Scripted /\ Shown /\ Rewrites /\ Somewhere
KeepInv == Numbered /\ (AtMostOne => Safe)

NoLoss == \A x : x \in TextsIn(IF at' = "off" THEN tests ELSE tests') /\ x \in OnDisk => x \in OnDisk'
Keeps == Numbered' /\ (faults' <= 1 /\ ~hidden => NoLoss) /\ (AtMostOne' => Safe')

LEMMA KeepInit == Init => KeepInv
<1> SUFFICES ASSUME Init PROVE KeepInv
  OBVIOUS
<1>1. tests = <<>> /\ registry = <<>> /\ text = 0 /\ typed = 0
  BY DEF Init
<1>2. \A p \in Paths : scripts[p] = None
  BY DEF Init
<1>3. \A x : x \notin TextsIn(tests) /\ x \notin TextsIn(registry)
  BY <1>1, Listing
<1>4. \A x : x \notin OnDisk
  BY <1>2, <1>3, Found, FileTexts DEF InFile
<1> QED
  BY <1>1, <1>3, <1>4 DEF Init, KeepInv, Numbered, Safe, Scripted, Shown, Rewrites, Somewhere, InRegistry

\* What holds before the first fault.
LEMMA CleanKept ==
  ASSUME RegInv, StepInv, KeepInv, faults = 0, ~hidden
  PROVE  Whole(tests) /\ Safe /\ (at # "saving" => InRegistry)
  BY DEF StepInv, Clean, Steps, KeepInv, AtMostOne, Safe, Somewhere

LEMMA AllScripted ==
  ASSUME Safe, ~fresh
  PROVE  \A i \in DOMAIN tests : tests[i].script # NoScript
  BY DEF Safe, Scripted

\* What is known when a step is taken.
Before == RegInv /\ StepInv /\ KeepInv /\ NotUndone /\ Sound'

LEMMA Earlier ==
  ASSUME Before
  PROVE  /\ faults \in Nat /\ faults' \in Nat /\ NotUndone
         /\ AtMostOne' => AtMostOne /\ faults' <= 1 /\ ~hidden /\ Safe
         /\ Fault /\ faults' <= 1 => faults = 0
         /\ at = "list" => ~fresh
  BY DEF Before, StepInv, Sound, NotUndone, AtMostOne, KeepInv, Fault

\* Where the editor is shut it shows nothing.
LEMMA NothingShown == Safe /\ at \notin {"editor", "saving"} => text = 0
  BY DEF Safe, Shown

\* A text of a test whose script is whole is in a file.
LEMMA WholeHas ==
  ASSUME RegInv, Whole(tests), NEW i \in DOMAIN tests, tests[i].script # NoScript,
         NEW x \in {tests[i].command, tests[i].about}, x # 0
  PROVE  InFile(scripts, x)
<1>1. tests[i] \in Test
  BY DEF RegInv, Tests
<1>2. tests[i].script \in Paths /\ x \in 1..MaxTexts
  BY <1>1, TestFacts, BoundsAssumption DEF Texts, RegInv, Screens
<1>3. scripts[tests[i].script] = Body(tests[i])
  BY DEF Whole, InFiles
<1> QED
  BY <1>2, <1>3, FileTexts DEF InFile

\* Files that stay, or go.
LEMMA NothingNew ==
  ASSUME registry' = registry,
         \A p \in Paths : scripts'[p] = scripts[p] \/ scripts'[p] = None \/ scripts'[p] = Foreign
  PROVE  \A x : x \in OnDisk' => x \in OnDisk
  BY Found, FileTexts DEF InFile

LEMMA SameDisk ==
  ASSUME registry' = registry, scripts' = scripts
  PROVE  \A x : x \in OnDisk' <=> x \in OnDisk
  BY Found DEF InFile

----------------------------------------------------------------------------
\* Kinds of steps: the program is gone, ...
LEMMA GoneKept ==
  ASSUME Before, Gone, UNCHANGED typed,
         \A x : x \in OnDisk' => x \in OnDisk \/ x \in TextsIn(tests) \/ x = text,
         faults' <= 1 /\ ~hidden => NoLoss
  PROVE  Keeps
<1>1. tests' = <<>> /\ text' = 0 /\ typed' = typed /\ at' = "off"
  BY DEF Gone
<1>2. \A x : x \notin TextsIn(tests')
  BY <1>1, Listing
<1>3. Numbered'
  BY <1>1, <1>2, BoundsAssumption DEF Numbered, Before, KeepInv, RegInv, Screens, Texts
<1>4. Safe'
  BY <1>1, <1>2 DEF Safe, Scripted, Shown, Rewrites, Somewhere, InRegistry
<1> QED
  BY <1>3, <1>4 DEF Keeps

\* ... tests and files stay, ...
LEMMA StillKept ==
  ASSUME Before, at # "saving",
         UNCHANGED <<tests, scripts, registry, fresh, typed>>,
         fresh => sel' = sel,
         \/ text' = text /\ (at' = at \/ at # "editor")
         \/ text' = 0
         \/ text' \in TextsIn(tests) /\ at' = "editor",
         AtMostOne /\ at' = "writing" /\ pending' # {} => at = "writing" /\ pending # {}
  PROVE  Keeps
<1>1. \A x : x \in OnDisk' <=> x \in OnDisk
  BY SameDisk
<1>2. NoLoss
  <2>1. \A x : x \in OnDisk => x \in OnDisk'
    BY <1>1
  <2> QED
    BY <2>1 DEF NoLoss
<1>3. Numbered'
  BY <1>1 DEF Numbered, Before, KeepInv, RegInv, Screens, Texts
<1>4. ASSUME AtMostOne' PROVE Safe'
  <2>1. Safe /\ AtMostOne
    BY <1>4, Earlier
  <2>2. Scripted'
    BY <2>1 DEF Safe, Scripted
  <2>3. Shown'
    BY <1>1, <2>1 DEF Safe, Shown
  <2>4. Rewrites'
    BY <2>1 DEF Safe, Rewrites
  <2>5. Somewhere'
    <3>1. InRegistry => InRegistry'
      BY <1>1 DEF InRegistry
    <3>2. Whole(tests) => Whole(tests)'
      BY DEF Whole, NamedRight, InFiles, Distinct
    <3>3. faults # 0 => faults' # 0
      BY Earlier DEF NotUndone
    <3> QED
      BY <2>1, <3>1, <3>2, <3>3 DEF Safe, Somewhere
  <2> QED
    BY <2>2, <2>3, <2>4, <2>5 DEF Safe
<1> QED
  BY <1>2, <1>3, <1>4 DEF Keeps

\* ... and a handler is about to save the registry.
LEMMA SavingKept ==
  ASSUME Before, UNCHANGED typed, at' = "saving",
         AtMostOne' => \A i \in DOMAIN tests' : tests'[i].script # NoScript,
         \A x : x \in TextsIn(tests') => x \in TextsIn(tests) \/ x = text,
         \A x : x \in OnDisk' => x \in OnDisk \/ x \in TextsIn(tests) \/ x = text,
         \/ text' = 0
         \/ text' = text /\ at \notin {"editor", "saving"}
         \/ text' = text /\ text \in TextsIn(tests') \union {0} /\ back' = "editor",
         faults' <= 1 /\ ~hidden => NoLoss
  PROVE  Keeps
<1>1. Numbered'
  BY BoundsAssumption DEF Numbered, Before, KeepInv, RegInv, Screens, Texts
<1>2. ASSUME AtMostOne' PROVE Safe'
  <2>1. at \notin {"editor", "saving"} => text = 0
    BY <1>2, Earlier, NothingShown
  <2> QED
    BY <1>2, <2>1 DEF Safe, Scripted, Shown, Rewrites, Somewhere
<1> QED
  BY <1>1, <1>2 DEF Keeps

\* Nothing is lost from scripts while everything is in the registry.
LEMMA InRegistryKept ==
  ASSUME InRegistry, registry' = registry,
         \A x : x \in TextsIn(IF at' = "off" THEN tests ELSE tests') =>
            x \in TextsIn(tests) \/ x \notin OnDisk
  PROVE  NoLoss
  BY Found DEF InRegistry, NoLoss

\* A test that is not whole, or might not be, is written at most once.
LEMMA WriteKept ==
  ASSUME RegInv, StepInv, KeepInv, at # "saving", NEW t \in Test, Write(t), registry' = registry,
         at' # "off", faults' <= 1, ~hidden,
         \A x \in {t.command, t.about} : x = 0 \/ x = text \/ x \in TextsIn(tests),
         \A x \in TextsIn(tests') : x \notin {t.command, t.about} =>
             \E j \in DOMAIN tests :
                /\ x \in {tests[j].command, tests[j].about} /\ tests[j].script # NoScript
                /\ t.script # NoScript => \E i \in DOMAIN tests : i # j /\ tests[i].script = t.script
  PROVE  NoLoss
<1>1. Safe /\ (faults = 0 => InRegistry)
  <2>1. faults \in Nat /\ faults <= 1
    BY DEF StepInv, Sound, Write, Fault
  <2> QED
    BY <2>1, CleanKept DEF KeepInv, AtMostOne
<1>2. CASE InRegistry
  <2>1. \A x \in TextsIn(tests') : x \in TextsIn(tests) \/ x = text
    BY Listing
  <2>2. text = 0 \/ text \in TextsIn(tests) \/ text \notin OnDisk
    BY <1>1 DEF Safe, Shown
  <2>3. 0 \notin OnDisk
    BY NoText
  <2> QED
    BY <1>2, <2>1, <2>2, <2>3, InRegistryKept
<1>3. CASE ~InRegistry
  <2>1. Whole(tests) /\ faults # 0 /\ ~Fault
    BY <1>1, <1>3 DEF Safe, Somewhere, Fault, StepInv, Sound
  <2>2. ~Taken(t) /\ scripts' = Written(t, Body(t))
    BY <2>1 DEF Write
  <2>3. ASSUME NEW x \in TextsIn(tests') PROVE x \in OnDisk'
    <3>1. x # 0
      BY Listing
    <3>2. CASE x \in {t.command, t.about}
      <4>1. PathOf(t) \in Paths /\ x \in 1..MaxTexts
        BY <3>1, <3>2, TestFacts, BoundsAssumption DEF Texts, RegInv, Screens
      <4>2. scripts'[PathOf(t)] = Body(t)
        BY <2>2, <4>1 DEF Written
      <4> QED
        BY <3>2, <4>1, <4>2, FileTexts, Found DEF InFile
    <3>3. CASE x \notin {t.command, t.about}
      <4>1. PICK j \in DOMAIN tests :
               /\ x \in {tests[j].command, tests[j].about} /\ tests[j].script # NoScript
               /\ t.script # NoScript => \E i \in DOMAIN tests : i # j /\ tests[i].script = t.script
        BY <3>3
      <4>2. scripts'[tests[j].script] = Body(tests[j])
        BY <2>1, <2>2, <4>1, OthersKept
      <4>3. tests[j] \in Test
        BY DEF RegInv, Tests
      <4>4. tests[j].script \in Paths /\ x \in 1..MaxTexts
        BY <3>1, <4>1, <4>3, TestFacts, BoundsAssumption DEF Texts, RegInv, Screens
      <4> QED
        BY <4>1, <4>2, <4>4, FileTexts, Found DEF InFile
    <3> QED
      BY <3>2, <3>3
  <2> QED
    BY <2>3 DEF NoLoss
<1> QED
  BY <1>2, <1>3

LEMMA AddKept == ASSUME Before, NEW title \in Titles, Add(title) PROVE Keeps
<1> DEFINE t == [title |-> title, script |-> NoScript, command |-> 0, about |-> 0]
           n == Len(tests)
<1>1. /\ tests' = Append(tests, t) /\ at = "list" /\ at' = "editor" /\ fresh' = TRUE /\ text' = 0
      /\ hidden' = (hidden \/ sel' # Len(Append(tests, t)))
      /\ UNCHANGED <<scripts, registry, typed, faults>>
  BY DEF Add, disk
<1>2. t \in Test /\ t.script = NoScript /\ {t.command, t.about} = {0}
  BY Sizes DEF Test
<1>3. RegInv /\ tests \in Seq(Test) /\ n \in Nat /\ DOMAIN tests = 1..n
  BY DEF Before, RegInv, Tests
<1> HIDE DEF t
<1>4. /\ Len(tests') = n + 1 /\ DOMAIN tests' = 1..(n + 1) /\ tests'[n + 1] = t
      /\ \A j \in 1..n : tests'[j] = tests[j]
  BY <1>1, <1>2, <1>3, AppendProperties
<1>5. \A x \in TextsIn(tests') : x \in TextsIn(tests)
  <2>1. TextsIn(Append(tests, t)) \subseteq TextsIn(tests) \union {t.command, t.about}
    BY <1>2, <1>3, AppendTexts
  <2>2. 0 \notin TextsIn(tests')
    BY Listing
  <2> QED
    BY <1>1, <1>2, <2>1, <2>2
<1>6. \A x : x \in OnDisk' <=> x \in OnDisk
  BY <1>1, SameDisk
<1>7. Numbered'
  BY <1>1, <1>5, <1>6 DEF Before, KeepInv, Numbered, RegInv, Screens, Texts
<1>8. NoLoss
  BY <1>6 DEF NoLoss
<1>9. ASSUME AtMostOne' PROVE Safe'
  <2>1. Safe /\ ~fresh
    BY <1>1, <1>9, Earlier
  <2>2. sel' = n + 1
    BY <1>1, <1>4, <1>9 DEF AtMostOne
  <2>3. Scripted'
    BY <1>1, <1>3, <1>4, <2>1, <2>2, AllScripted DEF Scripted
  <2>4. Somewhere'
    <3>1. InRegistry => InRegistry'
      BY <1>1, <1>5, <1>6 DEF InRegistry
    <3>2. Whole(tests) => Whole(tests)'
      BY <1>1, <1>2, <1>3, AppendWhole
    <3> QED
      BY <1>1, <2>1, <3>1, <3>2 DEF Safe, Somewhere
  <2> QED
    BY <1>1, <2>3, <2>4 DEF Safe, Shown, Rewrites
<1> QED
  BY <1>7, <1>8, <1>9 DEF Keeps

\* The steps that leave tests and files alone.
LEMMA OpenKept == ASSUME Before, NEW what \in {"command", "about"}, Open(what) PROVE Keeps
<1>1. /\ UNCHANGED <<tests, scripts, registry, typed>> /\ at = "list" /\ at' = "editor"
      /\ fresh' = (fresh /\ what # "command")
      /\ text' \in {tests[sel].command, tests[sel].about}
  BY DEF Open, OnTest, disk, ghosts
<1>2. ~fresh /\ fresh' = fresh
  BY <1>1, Earlier DEF Before, StepInv, Sound
<1>3. text' = 0 \/ text' \in TextsIn(tests)
  <2>1. tests # <<>>
    BY OnTestHas DEF Open, Before
  <2>2. sel \in DOMAIN tests
    BY <2>1, SelectedTest DEF Before
  <2> QED
    BY <1>1, <2>2, Listing
<1> QED
  BY <1>1, <1>2, <1>3, Earlier, StillKept

LEMMA ListKept ==
  ASSUME Before,
         Toggle \/ (\E f \in DOMAIN Hits : Filter(f)) \/ \E direction \in {-1, 1} : Move(direction)
  PROVE  Keeps
<1>1. at = "list" /\ at' # "writing" /\ UNCHANGED <<tests, scripts, registry, fresh, typed, text>>
  BY DEF Toggle, Filter, Move, OnTest, SaveRegistryThen, editor, disk, ghosts
<1> QED
  BY <1>1, Earlier, StillKept

LEMMA StartKept == ASSUME Before, Start PROVE Keeps
<1>1. at = "list" /\ UNCHANGED <<tests, scripts, registry, fresh, typed, text>>
  BY DEF Start, editor, disk, ghosts
<1>2. AtMostOne => pending' = {}
  <2> SUFFICES ASSUME AtMostOne PROVE pending' = {}
    OBVIOUS
  <2>1. \A i \in DOMAIN tests : tests[i].script # NoScript
    BY <1>1, Earlier, AllScripted DEF Before, KeepInv
  <2>2. PICK selected \in (SUBSET DOMAIN tests) \ {{}} :
           pending' = {i \in selected : tests[i].script = NoScript}
    BY DEF Start
  <2> QED
    BY <2>1, <2>2
<1> QED
  BY <1>1, <1>2, Earlier, StillKept

LEMMA LeaveKept == ASSUME Before, QuitEditor PROVE Keeps
<1>1. /\ at = "editor" /\ at' = "list" /\ text' = 0
      /\ UNCHANGED <<tests, scripts, registry, sel, fresh, typed>>
  BY DEF QuitEditor, Closed, disk, ghosts
<1> QED
  BY <1>1, Earlier, StillKept

LEMMA AllWrittenKept == ASSUME Before, AllWritten PROVE Keeps
<1>1. at = "writing" /\ pending = {} /\ UNCHANGED <<scripts, registry>> /\ UNCHANGED ghosts
  BY DEF AllWritten, disk
<1>2. CASE back = "failing"
  <2>1. Gone
    BY <1>2 DEF AllWritten
  <2>2. \A x : x \in OnDisk' <=> x \in OnDisk
    BY <1>1, SameDisk
  <2>3. NoLoss
    BY <2>2 DEF NoLoss
  <2> QED
    BY <1>1, <2>1, <2>2, <2>3, GoneKept DEF ghosts
<1>3. CASE back # "failing"
  <2>1. /\ UNCHANGED <<tests, sel, fresh, text>> /\ at' # "writing"
    BY <1>1, <1>3 DEF AllWritten, SaveRegistryThen, editor, Before, RegInv, Screens
  <2>2. UNCHANGED typed
    BY <1>1 DEF ghosts
  <2> QED
    BY <1>1, <2>1, <2>2, Earlier, StillKept
<1> QED
  BY <1>2, <1>3

LEMMA StutterKept == ASSUME Before, UNCHANGED vars PROVE Keeps
<1>1. UNCHANGED <<tests, sel, at, back, text, fresh, pending, scripts, registry, typed, faults, hidden>>
  BY DEF vars, app, editor, disk, ghosts
<1>2. \A x : x \in OnDisk' <=> x \in OnDisk
  BY <1>1, SameDisk
<1>3. NoLoss
  BY <1>2 DEF NoLoss
<1>4. Numbered'
  BY <1>1, <1>2 DEF Before, KeepInv, Numbered
<1>5. Safe => Safe'
  BY <1>1, <1>2 DEF Safe, Scripted, Shown, Rewrites, Somewhere, InRegistry, Whole, NamedRight, InFiles, Distinct
<1> QED
  BY <1>3, <1>4, <1>5, Earlier DEF Keeps

LEMMA TypeKept == ASSUME Before, Type PROVE Keeps
<1>1. /\ at = "editor" /\ typed' = typed + 1 /\ text' = typed + 1
      /\ UNCHANGED <<tests, sel, at, back, fresh, pending, scripts, registry, faults, hidden>>
  BY DEF Type, app, disk
<1>2. \A x : x \in OnDisk' <=> x \in OnDisk
  BY <1>1, SameDisk
<1>3. NoLoss
  BY <1>2 DEF NoLoss
<1>4. typed \in Nat
  BY BoundsAssumption DEF Before, RegInv, Screens, Texts
<1>5. Numbered'
  BY <1>1, <1>2, <1>4 DEF Before, KeepInv, Numbered
<1>6. text' \notin OnDisk'
  BY <1>1, <1>2, <1>4 DEF Before, KeepInv, Numbered
<1>7. Safe => Safe'
  <2>1. InRegistry => InRegistry'
    BY <1>1, <1>2 DEF InRegistry
  <2> QED
    BY <1>1, <1>6, <2>1 DEF Safe, Scripted, Shown, Rewrites, Somewhere, Whole, NamedRight, InFiles, Distinct
<1> QED
  BY <1>3, <1>5, <1>7, Earlier DEF Keeps

\* The steps that begin and end the program.
LEMMA LoadKept == ASSUME Before, Regenerate \/ \E dir \in Dirs : Begin(dir) PROVE Keeps
<1>1. /\ at = "off" /\ at' \in {"list", "writing"} /\ tests' = registry
      /\ UNCHANGED <<text, fresh, scripts, registry, typed>>
  BY LoadedFacts DEF Regenerate, Begin, editor, disk, ghosts, Before
<1>2. \A x : x \in OnDisk' <=> x \in OnDisk
  BY <1>1, SameDisk
<1>3. NoLoss
  BY <1>2 DEF NoLoss
<1>4. \A x \in TextsIn(tests') : x \in TextsIn(registry')
  BY <1>1
<1>5. Numbered'
  BY <1>1, <1>2, Found DEF Before, KeepInv, Numbered
<1>6. ASSUME Safe PROVE Safe'
  <2>1. text' = 0
    BY <1>1, <1>6, NothingShown
  <2>2. Scripted'
    BY <1>1 DEF Scripted, Before, RegInv, Registry
  <2>3. InRegistry'
    BY <1>4 DEF InRegistry
  <2> QED
    BY <1>1, <1>4, <2>1, <2>2, <2>3 DEF Safe, Shown, Rewrites, Somewhere
<1> QED
  BY <1>3, <1>5, <1>6, Earlier DEF Keeps

LEMMA EndKept == ASSUME Before, Exit \/ Kill PROVE Keeps
<1>1. Gone /\ UNCHANGED <<scripts, registry>> /\ UNCHANGED ghosts
  BY DEF Exit, Kill, disk
<1>2. \A x : x \in OnDisk' <=> x \in OnDisk
  BY <1>1, SameDisk
<1>3. NoLoss
  BY <1>2 DEF NoLoss
<1> QED
  BY <1>1, <1>2, <1>3, GoneKept DEF ghosts

\* A kill while a script is written: the registry has it all.
LEMMA KilledKept ==
  ASSUME Before, NEW t \in Test, WriteKilled(t), at # "saving",
         \A x \in {t.command, t.about} : x = 0 \/ x = text \/ x \in TextsIn(tests)
  PROVE  Keeps
<1>1. Gone /\ UNCHANGED registry /\ UNCHANGED ghosts /\ Fault /\ at' = "off"
  BY DEF WriteKilled, Gone
<1>2. OnDisk' \subseteq OnDisk \union {t.command, t.about}
  <2>1. \/ scripts' = scripts
        \/ \E body \in {Cut, Body(t)} :
              scripts' = Written(t, body) \/ scripts' = [scripts EXCEPT ![PathOf(t)] = body]
    BY DEF WriteKilled, Partway
  <2> QED
    BY <1>1, <2>1, WriteTexts DEF Before
<1>3. \A x : x \in OnDisk' => x \in OnDisk \/ x \in TextsIn(tests) \/ x = text
  BY <1>2, NoText
<1>4. ASSUME faults' <= 1, ~hidden PROVE NoLoss
  <2>1. InRegistry
    BY <1>1, <1>4, Earlier, CleanKept DEF Before
  <2> QED
    BY <1>1, <2>1, InRegistryKept
<1> QED
  BY <1>1, <1>3, <1>4, GoneKept DEF ghosts

\* What a write leaves on disk.
LEMMA WriteLeaves ==
  ASSUME RegInv, NEW t \in Test, Write(t), registry' = registry,
         \A x \in {t.command, t.about} : x = 0 \/ x = text \/ x \in TextsIn(tests)
  PROVE  \A x : x \in OnDisk' => x \in OnDisk \/ x \in TextsIn(tests) \/ x = text
<1>1. \E body \in {Cut, Body(t)} : scripts' = Written(t, body)
  BY DEF Write
<1>2. OnDisk' \subseteq OnDisk \union {t.command, t.about}
  BY <1>1, WriteTexts
<1> QED
  BY <1>2, NoText

\* Where test i is written in its place.
LEMMA PlaceKept ==
  ASSUME Before, at # "saving", at' # "off", NEW i \in DOMAIN tests, NEW t \in Test, Write(t),
         registry' = registry, t.script = tests[i].script,
         tests' = [tests EXCEPT ![i] = Saved(t)], fresh => i = sel,
         \A x \in {t.command, t.about} : x = 0 \/ x = text \/ x \in TextsIn(tests)
  PROVE  /\ \A x : x \in TextsIn(tests') => x \in TextsIn(tests) \/ x = text
         /\ \A x : x \in OnDisk' => x \in OnDisk \/ x \in TextsIn(tests) \/ x = text
         /\ AtMostOne' => \A j \in DOMAIN tests' : tests'[j].script # NoScript
         /\ faults' <= 1 /\ ~hidden => NoLoss
<1>1. /\ Saved(t) \in Test /\ Saved(t).script # NoScript
      /\ Saved(t).command = t.command /\ Saved(t).about = t.about
  BY TestFacts DEF Saved, Test, Before, RegInv, Screens
<1>2. /\ DOMAIN tests' = DOMAIN tests /\ tests'[i] = Saved(t)
      /\ \A j \in DOMAIN tests : j # i => tests'[j] = tests[j]
  BY <1>1, Replaced DEF Before, RegInv, Tests
<1>3. \A x : x \in TextsIn(tests') => x \in TextsIn(tests) \/ x = text
  <2>1. TextsIn([tests EXCEPT ![i] = Saved(t)]) \subseteq TextsIn(tests) \union {t.command, t.about}
    BY <1>1, ReplaceTexts DEF Before, RegInv, Tests
  <2>2. 0 \notin TextsIn(tests')
    BY Listing
  <2> QED
    BY <2>1, <2>2
<1>4. Safe => \A j \in DOMAIN tests : j # i => tests[j].script # NoScript
  BY DEF Safe, Scripted
<1>5. AtMostOne' => \A j \in DOMAIN tests' : tests'[j].script # NoScript
  BY <1>1, <1>2, <1>4, Earlier
<1>6. ASSUME faults' <= 1, ~hidden PROVE NoLoss
  <2>1. Safe
    BY <1>6, Earlier DEF Before, KeepInv, AtMostOne, NotUndone
  <2>2. ASSUME NEW x \in TextsIn(tests'), x \notin {t.command, t.about}
        PROVE  \E j \in DOMAIN tests :
                  /\ x \in {tests[j].command, tests[j].about} /\ tests[j].script # NoScript
                  /\ t.script # NoScript => \E k \in DOMAIN tests : k # j /\ tests[k].script = t.script
    <3>1. PICK j \in DOMAIN tests' : x \in {tests'[j].command, tests'[j].about}
      BY Listing
    <3>2. j \in DOMAIN tests /\ j # i /\ tests'[j] = tests[j]
      BY <1>1, <1>2, <2>2, <3>1
    <3> QED
      BY <1>4, <2>1, <3>1, <3>2
  <2> QED
    BY <1>6, <2>2, WriteKept DEF Before
<1> QED
  BY <1>3, <1>5, <1>6, WriteLeaves DEF Before

LEMMA RenameKept == ASSUME Before, NEW title \in Titles, Rename(title) PROVE Keeps
<1> DEFINE t == [tests[sel] EXCEPT !.title = title]
<1>1. at = "list" /\ sel \in DOMAIN tests /\ tests[sel] \in Test /\ ~fresh
  BY SelectedTest, OnTestHas, Earlier DEF Rename, OnTest, Before
<1>2. /\ t \in Test /\ t.script = tests[sel].script
      /\ t.command = tests[sel].command /\ t.about = tests[sel].about
  BY <1>1 DEF Test
<1>3. \/ /\ Write(t) /\ tests' = [tests EXCEPT ![sel] = Saved(t)] /\ at' = "saving"
         /\ UNCHANGED <<text, registry, typed>>
      \/ /\ UNCHANGED <<tests, at, text, fresh, pending, scripts, registry, typed>>
      \/ WriteKilled(t)
  BY DEF Rename, SaveRegistryThen, WriteFails, editor, ghosts
<1> HIDE DEF t
<1>4. \A x \in {t.command, t.about} : x = 0 \/ x \in TextsIn(tests)
  BY <1>1, <1>2, Listing
<1>5. CASE /\ Write(t) /\ tests' = [tests EXCEPT ![sel] = Saved(t)] /\ at' = "saving"
           /\ UNCHANGED <<text, registry, typed>>
  <2>1. /\ \A x : x \in TextsIn(tests') => x \in TextsIn(tests) \/ x = text
        /\ \A x : x \in OnDisk' => x \in OnDisk \/ x \in TextsIn(tests) \/ x = text
        /\ AtMostOne' => \A j \in DOMAIN tests' : tests'[j].script # NoScript
        /\ faults' <= 1 /\ ~hidden => NoLoss
    BY <1>1, <1>2, <1>4, <1>5, PlaceKept
  <2> QED
    BY <1>1, <1>5, <2>1, SavingKept
<1>6. CASE UNCHANGED <<tests, at, text, fresh, pending, scripts, registry, typed>>
  BY <1>1, <1>6, Earlier, StillKept
<1>7. CASE WriteKilled(t)
  BY <1>1, <1>2, <1>4, <1>7, KilledKept
<1> QED
  BY <1>3, <1>5, <1>6, <1>7

LEMMA CopyKept == ASSUME Before, NEW title \in Titles, Copy(title) PROVE Keeps
<1> DEFINE t == [tests[sel] EXCEPT !.title = title, !.script = NoScript]
           n == Len(tests)
<1>1. at = "list" /\ sel \in DOMAIN tests /\ tests[sel] \in Test /\ ~fresh
  BY SelectedTest, OnTestHas, Earlier DEF Copy, OnTest, Before
<1>2. /\ t \in Test /\ t.script = NoScript
      /\ t.command = tests[sel].command /\ t.about = tests[sel].about
  BY <1>1 DEF Test
<1>3. \/ /\ Write(t) /\ tests' = Append(tests, Saved(t)) /\ at' = "saving"
         /\ UNCHANGED <<text, registry, typed>>
      \/ UNCHANGED <<tests, at, text, fresh, pending, scripts, registry, typed>>
      \/ WriteKilled(t)
  BY DEF Copy, SaveRegistryThen, WriteFails, editor, ghosts
<1> HIDE DEF t
<1>4. \A x \in {t.command, t.about} : x = 0 \/ x \in TextsIn(tests)
  BY <1>1, <1>2, Listing
<1>5. CASE /\ Write(t) /\ tests' = Append(tests, Saved(t)) /\ at' = "saving"
           /\ UNCHANGED <<text, registry, typed>>
  <2>1. RegInv /\ StepInv /\ KeepInv /\ tests \in Seq(Test) /\ n \in Nat /\ DOMAIN tests = 1..n
    BY DEF Before, RegInv, Tests
  <2>2. /\ Saved(t) \in Test /\ Saved(t).script # NoScript
        /\ Saved(t).command = t.command /\ Saved(t).about = t.about
    BY <1>2, <2>1, TestFacts DEF Saved, Test, RegInv, Screens
  <2>3. /\ DOMAIN tests' = 1..(n + 1) /\ tests'[n + 1] = Saved(t)
        /\ \A j \in 1..n : tests'[j] = tests[j]
    BY <1>5, <2>1, <2>2, AppendProperties
  <2>4. \A x : x \in TextsIn(tests') => x \in TextsIn(tests)
    <3>1. TextsIn(Append(tests, Saved(t))) \subseteq TextsIn(tests) \union {t.command, t.about}
      BY <2>1, <2>2, AppendTexts
    <3>2. 0 \notin TextsIn(tests')
      BY Listing
    <3> QED
      BY <1>4, <1>5, <3>1, <3>2
  <2>5. \A x : x \in OnDisk' => x \in OnDisk \/ x \in TextsIn(tests) \/ x = text
    BY <1>2, <1>4, <1>5, <2>1, WriteLeaves
  <2>6. AtMostOne' => \A j \in DOMAIN tests' : tests'[j].script # NoScript
    BY <1>1, <2>1, <2>2, <2>3, Earlier, AllScripted
  <2>7. ASSUME faults' <= 1, ~hidden PROVE NoLoss
    <3>1. \A j \in DOMAIN tests : tests[j].script # NoScript
      BY <1>1, <2>7, Earlier, AllScripted DEF Before, KeepInv, AtMostOne, NotUndone
    <3>2. \A x \in TextsIn(tests') : \E j \in DOMAIN tests : x \in {tests[j].command, tests[j].about}
      BY <2>4, Listing
    <3> QED
      BY <1>1, <1>2, <1>4, <1>5, <2>1, <2>7, <3>1, <3>2, WriteKept
  <2> QED
    BY <1>1, <1>5, <2>4, <2>5, <2>6, <2>7, SavingKept
<1>6. CASE UNCHANGED <<tests, at, text, fresh, pending, scripts, registry, typed>>
  BY <1>1, <1>6, Earlier, StillKept
<1>7. CASE WriteKilled(t)
  BY <1>1, <1>2, <1>4, <1>7, KilledKept
<1> QED
  BY <1>3, <1>5, <1>6, <1>7

\* What is left when a test goes is another test.
LEMMA RemainingTest ==
  ASSUME tests \in Seq(Test), NEW i \in DOMAIN tests, tests' = RemoveAt(tests, i)
  PROVE  \A j \in DOMAIN tests' : \E k \in DOMAIN tests : k # i /\ tests'[j] = tests[k]
<1> DEFINE n == Len(tests)
<1>1. n \in Nat /\ DOMAIN tests = 1..n /\ i \in 1..n
  OBVIOUS
<1>2. /\ tests' \in Seq(Test) /\ Len(tests') = n - 1
      /\ \A j \in 1..(n - 1) : tests'[j] = IF j < i THEN tests[j] ELSE tests[j + 1]
  BY <1>1, RemoveAtFacts
<1> SUFFICES ASSUME NEW j \in DOMAIN tests'
             PROVE  \E k \in DOMAIN tests : k # i /\ tests'[j] = tests[k]
  OBVIOUS
<1>3. j \in 1..(n - 1)
  BY <1>2
<1>4. CASE j < i
  <2>1. j \in DOMAIN tests /\ j # i /\ tests'[j] = tests[j]
    BY <1>1, <1>2, <1>3, <1>4
  <2> QED
    BY <2>1
<1>5. CASE ~(j < i)
  <2>1. j + 1 \in DOMAIN tests /\ j + 1 # i /\ tests'[j] = tests[j + 1]
    BY <1>1, <1>2, <1>3, <1>5
  <2> QED
    BY <2>1
<1> QED
  BY <1>4, <1>5

LEMMA DeleteKept == ASSUME Before, Delete PROVE Keeps
<1> DEFINE i == Clamp(tests, sel, filter)
           n == Len(tests)
<1>1. at = "list" /\ tests # <<>> /\ ~fresh /\ RegInv /\ StepInv /\ KeepInv
  BY OnTestHas, Earlier DEF Delete, OnTest, Before
<1>2. i \in DOMAIN tests /\ tests \in Seq(Test) /\ n \in Nat /\ DOMAIN tests = 1..n
  BY <1>1, ClampSelects DEF RegInv, Tests, Selects
<1>3. /\ scripts' = [q \in Paths |-> IF q = tests[i].script THEN None ELSE scripts[q]]
      /\ registry' = registry /\ UNCHANGED <<typed, foreign, hidden>>
      /\ \/ tests' = RemoveAt(tests, i) /\ at' = "saving" /\ UNCHANGED <<text, faults>>
         \/ Gone /\ Fault
  BY DEF Delete, SaveRegistryThen, editor
<1> HIDE DEF i
<1>4. \A x : x \in OnDisk' => x \in OnDisk
  BY <1>3, NothingNew
<1>5. CASE tests' = RemoveAt(tests, i) /\ at' = "saving" /\ UNCHANGED <<text, faults>>
  <2>1. \A x : x \in TextsIn(tests') => x \in TextsIn(tests)
    BY <1>2, <1>5, RemoveTexts
  <2>2. \A j \in DOMAIN tests' : \E k \in DOMAIN tests : k # i /\ tests'[j] = tests[k]
    BY <1>2, <1>5, RemainingTest
  <2>3. AtMostOne' => \A j \in DOMAIN tests' : tests'[j].script # NoScript
    BY <1>1, <2>2, Earlier, AllScripted
  <2>4. ASSUME faults' <= 1, ~hidden PROVE NoLoss
    <3>1. Safe /\ \A j \in DOMAIN tests : tests[j].script # NoScript
      BY <1>1, <2>4, Earlier, AllScripted DEF Before, KeepInv, AtMostOne, NotUndone
    <3>2. CASE InRegistry
      BY <1>3, <1>5, <2>1, <3>2, InRegistryKept
    <3>3. CASE Whole(tests)
      <4> SUFFICES ASSUME NEW x \in TextsIn(tests') PROVE x \in OnDisk'
        BY <1>5 DEF NoLoss
      <4>1. PICK k \in DOMAIN tests : k # i /\ x \in {tests[k].command, tests[k].about}
        BY <2>2, Listing
      <4>2. x # 0 /\ tests[k] \in Test /\ tests[k].script \in Paths
        <5>1. x # 0 /\ tests[k] \in Test
          BY <1>2, Listing
        <5> QED
          BY <3>1, <5>1 DEF Test
      <4>3. scripts'[tests[k].script] = Body(tests[k])
        BY <1>2, <1>3, <3>1, <3>3, <4>1, <4>2 DEF Whole, InFiles, Distinct
      <4>4. x \in 1..MaxTexts
        BY <4>1, <4>2, BoundsAssumption DEF Test, Texts
      <4> QED
        BY <4>1, <4>2, <4>3, <4>4, FileTexts, Found DEF InFile
    <3> QED
      BY <1>1, <3>1, <3>2, <3>3 DEF Safe, Somewhere
  <2> QED
    BY <1>1, <1>3, <1>4, <1>5, <2>1, <2>3, <2>4, SavingKept DEF ghosts
<1>6. CASE Gone /\ Fault
  <2>1. ASSUME faults' <= 1, ~hidden PROVE NoLoss
    <3>1. InRegistry
      BY <1>1, <1>6, <2>1, Earlier, CleanKept
    <3>2. at' = "off"
      BY <1>6 DEF Gone
    <3> QED
      BY <1>3, <3>1, <3>2, InRegistryKept
  <2> QED
    BY <1>3, <1>4, <1>6, <2>1, GoneKept
<1> QED
  BY <1>3, <1>5, <1>6

LEMMA SaveCommandKept == ASSUME Before, NEW exit \in BOOLEAN, SaveCommand(exit) PROVE Keeps
<1> DEFINE t == [tests[sel] EXCEPT !.command = text]
<1>1. /\ at = "editor" /\ sel \in DOMAIN tests /\ tests \in Seq(Test) /\ tests[sel] \in Test
      /\ RegInv /\ StepInv /\ KeepInv
  BY EditedTest DEF SaveCommand, Before, RegInv, Tests
<1>2. /\ t \in Test /\ t.script = tests[sel].script /\ t.title = tests[sel].title
      /\ t.command = text /\ t.about = tests[sel].about
  BY <1>1 DEF Test, RegInv, Screens
<1>3. \/ /\ Write(t) /\ tests' = [tests EXCEPT ![sel] = Saved(t)]
         /\ at' = "saving" /\ back' = (IF exit THEN "list" ELSE "editor")
         /\ text' = (IF exit THEN 0 ELSE text)
         /\ UNCHANGED <<registry, typed>>
      \/ /\ WriteFails(t) /\ tests' = [tests EXCEPT ![sel] = t]
         /\ UNCHANGED <<sel, at, text, fresh, scripts, registry, typed>>
      \/ WriteKilled(t)
  BY DEF SaveCommand, SaveRegistryThen, Closed, WriteFails, editor, ghosts
<1> HIDE DEF t
<1>4. \A x \in {t.command, t.about} : x = 0 \/ x = text \/ x \in TextsIn(tests)
  BY <1>1, <1>2, Listing
<1>5. CASE /\ Write(t) /\ tests' = [tests EXCEPT ![sel] = Saved(t)]
           /\ at' = "saving" /\ back' = (IF exit THEN "list" ELSE "editor")
           /\ text' = (IF exit THEN 0 ELSE text)
           /\ UNCHANGED <<registry, typed>>
  <2>1. /\ \A x : x \in TextsIn(tests') => x \in TextsIn(tests) \/ x = text
        /\ \A x : x \in OnDisk' => x \in OnDisk \/ x \in TextsIn(tests) \/ x = text
        /\ AtMostOne' => \A j \in DOMAIN tests' : tests'[j].script # NoScript
        /\ faults' <= 1 /\ ~hidden => NoLoss
    BY <1>1, <1>2, <1>4, <1>5, PlaceKept
  <2>2. text \in TextsIn(tests') \union {0}
    <3>1. Saved(t) \in Test /\ Saved(t).command = text
      BY <1>1, <1>2, TestFacts DEF Saved, Test, RegInv, Screens
    <3>2. sel \in DOMAIN tests' /\ tests'[sel] = Saved(t)
      BY <1>1, <1>5, <3>1, Replaced
    <3> QED
      BY <3>1, <3>2, Listing
  <2> QED
    BY <1>5, <2>1, <2>2, SavingKept
<1>6. CASE /\ WriteFails(t) /\ tests' = [tests EXCEPT ![sel] = t]
           /\ UNCHANGED <<sel, at, text, fresh, scripts, registry, typed>>
  <2>1. /\ DOMAIN tests' = DOMAIN tests /\ tests'[sel] = t
        /\ \A j \in DOMAIN tests : j # sel => tests'[j] = tests[j]
    BY <1>1, <1>2, <1>6, Replaced
  <2>2. \A x : x \in TextsIn(tests') => x \in TextsIn(tests) \/ x = text
    <3>1. TextsIn([tests EXCEPT ![sel] = t]) \subseteq TextsIn(tests) \union {t.command, t.about}
      BY <1>1, <1>2, ReplaceTexts
    <3>2. 0 \notin TextsIn(tests')
      BY Listing
    <3> QED
      BY <1>4, <1>6, <3>1, <3>2
  <2>3. \A x : x \in OnDisk' <=> x \in OnDisk
    BY <1>6, SameDisk
  <2>4. NoLoss
    BY <2>3 DEF NoLoss
  <2>5. Numbered'
    BY <1>1, <1>6, <2>2, <2>3 DEF KeepInv, Numbered
  <2>6. ASSUME AtMostOne' PROVE Safe'
    <3>1. Safe /\ faults' <= 1 /\ ~hidden
      BY <2>6, Earlier
    <3>2. Scripted'
      BY <1>2, <1>6, <2>1, <3>1 DEF Safe, Scripted
    <3>3. text \in TextsIn(tests') \union {0}
      BY <1>1, <1>2, <2>1, Listing
    <3>4. InRegistry => InRegistry'
      <4>1. text = 0 \/ text \in TextsIn(tests) \/ text \notin OnDisk
        BY <3>1 DEF Safe, Shown
      <4>2. 0 \notin OnDisk
        BY NoText
      <4> QED
        BY <1>6, <2>2, <2>3, <4>1, <4>2 DEF InRegistry
    <3>5. ASSUME Whole(tests), faults # 0 PROVE Whole(tests)' /\ faults' # 0
      <4>1. ~Fault
        BY <3>1, <3>5, Earlier
      <4>2. Taken(t) /\ faults' = faults
        BY <1>6, <4>1 DEF WriteFails
      <4>3. t.script = NoScript
        BY <1>1, <1>2, <3>5, <4>2, NotTaken
      <4> QED
        BY <1>1, <1>2, <1>6, <3>5, <4>2, <4>3, ReplaceWhole
    <3>6. Somewhere'
      BY <1>1, <3>1, <3>4, <3>5 DEF Safe, Somewhere
    <3> QED
      BY <1>1, <1>6, <3>2, <3>3, <3>6 DEF Safe, Shown, Rewrites
  <2> QED
    BY <2>4, <2>5, <2>6 DEF Keeps
<1>7. CASE WriteKilled(t)
  BY <1>1, <1>2, <1>4, <1>7, KilledKept
<1> QED
  BY <1>3, <1>5, <1>6, <1>7

LEMMA SaveAboutKept == ASSUME Before, NEW exit \in BOOLEAN, SaveAbout(exit) PROVE Keeps
<1> DEFINE t == [tests[sel] EXCEPT !.about = text]
           u == IF t.script = NoScript \/ Taken(t) THEN t ELSE Saved(t)
<1>1. /\ at = "editor" /\ sel \in DOMAIN tests /\ tests \in Seq(Test) /\ tests[sel] \in Test /\ ~fresh
      /\ RegInv /\ StepInv /\ KeepInv
  BY EditedTest DEF SaveAbout, Before, RegInv, Tests, StepInv, Sound
<1>2. /\ t \in Test /\ t.script = tests[sel].script /\ t.title = tests[sel].title
      /\ t.about = text /\ t.command = tests[sel].command
  BY <1>1 DEF Test, RegInv, Screens
<1>3. /\ \/ /\ tests' = [tests EXCEPT ![sel] = u]
            /\ IF t.script = NoScript THEN UNCHANGED <<scripts, faults>> ELSE Write(t)
         \/ /\ tests' = [tests EXCEPT ![sel] = t] /\ scripts' = scripts
      /\ at' = "saving" /\ back' = (IF exit THEN "list" ELSE "editor")
      /\ text' = (IF exit THEN 0 ELSE text)
      /\ UNCHANGED <<registry, typed>>
  BY DEF SaveAbout, SaveRegistryThen, Closed, WriteFails, ghosts
<1>4. PICK v \in {t, Saved(t)} : /\ tests' = [tests EXCEPT ![sel] = v]
                                 /\ scripts' = scripts \/ (Write(t) /\ v = Saved(t))
  BY <1>3 DEF Write
<1> HIDE DEF t, u
<1>5. \A x \in {t.command, t.about} : x = 0 \/ x = text \/ x \in TextsIn(tests)
  BY <1>1, <1>2, Listing
<1>6. /\ v \in Test /\ v.command = t.command /\ v.about = t.about
      /\ t.script # NoScript => v.script # NoScript
  BY <1>1, <1>2, <1>4, TestFacts DEF Saved, Test, RegInv, Screens
<1>7. /\ DOMAIN tests' = DOMAIN tests /\ tests'[sel] = v
      /\ \A j \in DOMAIN tests : j # sel => tests'[j] = tests[j]
  BY <1>1, <1>4, <1>6, Replaced
<1>8. \A x : x \in TextsIn(tests') => x \in TextsIn(tests) \/ x = text
  <2>1. TextsIn([tests EXCEPT ![sel] = v]) \subseteq TextsIn(tests) \union {v.command, v.about}
    BY <1>1, <1>6, ReplaceTexts
  <2>2. 0 \notin TextsIn(tests')
    BY Listing
  <2> QED
    BY <1>4, <1>5, <1>6, <2>1, <2>2
<1>9. text \in TextsIn(tests') \union {0}
  BY <1>1, <1>2, <1>6, <1>7, Listing
<1>10. AtMostOne' => \A j \in DOMAIN tests' : tests'[j].script # NoScript
  BY <1>1, <1>2, <1>6, <1>7, Earlier, AllScripted
<1>11. CASE scripts' = scripts
  <2>1. \A x : x \in OnDisk' <=> x \in OnDisk
    BY <1>3, <1>11, SameDisk
  <2>2. NoLoss
    BY <2>1 DEF NoLoss
  <2> QED
    BY <1>3, <1>8, <1>9, <1>10, <2>1, <2>2, SavingKept
<1>12. CASE Write(t) /\ v = Saved(t)
  <2>1. /\ \A x : x \in OnDisk' => x \in OnDisk \/ x \in TextsIn(tests) \/ x = text
        /\ faults' <= 1 /\ ~hidden => NoLoss
    BY <1>1, <1>2, <1>3, <1>4, <1>5, <1>12, PlaceKept
  <2> QED
    BY <1>3, <1>8, <1>9, <1>10, <2>1, SavingKept
<1> QED
  BY <1>4, <1>11, <1>12

LEMMA SaveAboutKilledKept == ASSUME Before, SaveAboutKilled PROVE Keeps
<1> DEFINE t == [tests[sel] EXCEPT !.about = text]
<1>1. at = "editor" /\ sel \in DOMAIN tests /\ tests[sel] \in Test /\ RegInv
  BY EditedTest DEF SaveAboutKilled, Before
<1>2. t \in Test /\ t.about = text /\ t.command = tests[sel].command
  BY <1>1 DEF Test, RegInv, Screens
<1>3. WriteKilled(t)
  BY DEF SaveAboutKilled
<1> HIDE DEF t
<1>4. \A x \in {t.command, t.about} : x = 0 \/ x = text \/ x \in TextsIn(tests)
  BY <1>1, <1>2, Listing
<1> QED
  BY <1>1, <1>2, <1>3, <1>4, KilledKept

LEMMA DiscardKept == ASSUME Before, Discard PROVE Keeps
<1> DEFINE n == Len(tests)
<1>1. /\ at = "editor" /\ at' = "list" /\ text' = 0
      /\ UNCHANGED <<scripts, registry, typed, hidden>>
  BY DEF Discard, Closed, disk
<1>2. CASE ~fresh
  <2>1. UNCHANGED <<tests, sel, fresh>>
    BY <1>2 DEF Discard, Before, StepInv, Sound
  <2> QED
    BY <1>1, <2>1, Earlier, StillKept
<1>3. CASE fresh
  <2>1. /\ tests' = RemoveAt(tests, sel) /\ ~fresh'
        /\ RegInv /\ KeepInv /\ sel \in DOMAIN tests /\ tests \in Seq(Test) /\ n \in Nat /\ DOMAIN tests = 1..n
    <3>1. target = "command"
      BY <1>3 DEF Before, StepInv, Sound
    <3>2. tests' = RemoveAt(tests, sel) /\ ~fresh'
      BY <1>3, <3>1 DEF Discard
    <3> QED
      BY <1>1, <3>2, EditedTest DEF Before, RegInv, Tests
  <2>2. \A x : x \in TextsIn(tests') => x \in TextsIn(tests)
    BY <2>1, RemoveTexts
  <2>3. \A x : x \in OnDisk' <=> x \in OnDisk
    BY <1>1, SameDisk
  <2>4. NoLoss
    BY <2>3 DEF NoLoss
  <2>5. Numbered'
    BY <1>1, <2>1, <2>2, <2>3 DEF KeepInv, Numbered, RegInv, Screens, Texts
  <2>6. ASSUME AtMostOne' PROVE Safe'
    <3>1. Safe
      BY <2>6, Earlier
    <3>2. \A j \in DOMAIN tests' : \E k \in DOMAIN tests : k # sel /\ tests'[j] = tests[k]
      BY <2>1, RemainingTest
    <3>3. Scripted'
      BY <3>1, <3>2 DEF Safe, Scripted
    <3>4. InRegistry => InRegistry'
      BY <1>1, <2>2, <2>3 DEF InRegistry
    <3>5. Whole(tests) => Whole(tests)'
      BY <1>1, <2>1, RemoveWhole
    <3>6. faults' = faults
      BY DEF Discard
    <3> QED
      BY <1>1, <3>1, <3>3, <3>4, <3>5, <3>6 DEF Safe, Shown, Rewrites, Somewhere
  <2> QED
    BY <2>4, <2>5, <2>6 DEF Keeps
<1> QED
  BY <1>2, <1>3

LEMMA WriteNextKept == ASSUME Before, WriteNext PROVE Keeps
<1> DEFINE i == CHOOSE i \in pending : \A j \in pending : i <= j
           t == tests[i]
<1>1. /\ at = "writing" /\ pending # {} /\ pending \subseteq DOMAIN tests /\ DOMAIN tests \subseteq Nat
      /\ ~fresh /\ RegInv /\ StepInv /\ KeepInv /\ tests \in Seq(Test)
  <2>1. at = "writing" /\ pending # {}
    BY DEF WriteNext
  <2> QED
    BY <2>1 DEF Before, RegInv, Tests, StepInv, Sound
<1>2. i \in DOMAIN tests
  <2>1. \E m \in pending : \A n \in pending : m <= n
    BY <1>1, Least
  <2> QED
    BY <1>1, <2>1
<1>3. \/ /\ Write(t) /\ tests' = [tests EXCEPT ![i] = Saved(t)]
         /\ UNCHANGED <<sel, at, back, fresh, text, registry, typed>>
      \/ UNCHANGED <<tests, fresh, text, scripts, registry, typed>>
      \/ WriteKilled(t)
  BY DEF WriteNext, WriteFails, editor, ghosts
<1> HIDE DEF i
<1>4. t \in Test /\ \A x \in {t.command, t.about} : x = 0 \/ x \in TextsIn(tests)
  BY <1>1, <1>2, Listing
<1>5. CASE /\ Write(t) /\ tests' = [tests EXCEPT ![i] = Saved(t)]
           /\ UNCHANGED <<sel, at, back, fresh, text, registry, typed>>
  <2>1. /\ \A x : x \in TextsIn(tests') => x \in TextsIn(tests) \/ x = text
        /\ \A x : x \in OnDisk' => x \in OnDisk \/ x \in TextsIn(tests) \/ x = text
        /\ AtMostOne' => \A j \in DOMAIN tests' : tests'[j].script # NoScript
        /\ faults' <= 1 /\ ~hidden => NoLoss
    BY <1>1, <1>2, <1>4, <1>5, PlaceKept
  <2>2. Numbered'
    BY <1>1, <1>5, <2>1 DEF KeepInv, Numbered
  <2>3. ASSUME AtMostOne' PROVE Safe'
    <3>1. Safe /\ text = 0
      BY <1>1, <2>3, Earlier, NothingShown
    <3>2. \A x \in TextsIn(tests') : x \in TextsIn(tests)
      BY <2>1, <3>1, Listing
    <3>3. \A x \in TextsIn(tests') : x \in TextsIn(registry')
      BY <1>1, <1>5, <3>1, <3>2 DEF Safe, Rewrites
    <3> QED
      BY <1>1, <1>5, <2>1, <2>3, <3>1, <3>3 DEF Safe, Scripted, Shown, Rewrites, Somewhere, InRegistry
  <2> QED
    BY <2>1, <2>2, <2>3 DEF Keeps
<1>6. CASE UNCHANGED <<tests, fresh, text, scripts, registry, typed>>
  BY <1>1, <1>6, StillKept
<1>7. CASE WriteKilled(t)
  BY <1>1, <1>4, <1>7, KilledKept
<1> QED
  BY <1>3, <1>5, <1>6, <1>7

\* The registry is rewritten when every test has a script, and the scripts are whole until
\* the first fault.
LEMMA SaveRegistryKept == ASSUME Before, SaveRegistry \/ SaveKilled PROVE Keeps
<1>1. /\ at = "saving" /\ scripts' = scripts /\ UNCHANGED ghosts /\ UNCHANGED typed
      /\ ~fresh /\ RegInv /\ StepInv /\ KeepInv
  BY DEF SaveRegistry, SaveKilled, Before, StepInv, Sound, ghosts
<1>2. \/ registry' = Lines(tests) /\ faults' = faults
      \/ registry' \in Torn(tests) \union {registry} /\ Fault
  BY DEF SaveRegistry, SaveKilled
<1>3. \A x \in TextsIn(registry') : x \in TextsIn(tests) \/ x \in OnDisk
  <2>1. registry' = Lines(tests) \/ registry' \in Torn(tests) => TextsIn(registry') \subseteq TextsIn(tests)
    BY <1>1, TornTexts
  <2> QED
    BY <1>2, <2>1, Found
<1>4. \A x : x \in OnDisk' => x \in OnDisk \/ x \in TextsIn(tests)
  BY <1>1, <1>3, Found DEF InFile
<1>5. ASSUME faults' <= 1, ~hidden, Fault PROVE Whole(tests)
  BY <1>1, <1>5, Earlier, CleanKept
<1>6. ASSUME faults' <= 1, ~hidden PROVE \A i \in DOMAIN tests : tests[i].script # NoScript
  BY <1>1, <1>6, Earlier, AllScripted DEF KeepInv, AtMostOne, NotUndone
<1>7. ASSUME faults' <= 1, ~hidden, registry' = Lines(tests) PROVE registry' = tests
  BY <1>1, <1>6, <1>7, Earlier, AllSaved DEF Safe, KeepInv, AtMostOne, NotUndone
<1>8. ASSUME faults' <= 1, ~hidden PROVE \A x \in TextsIn(tests) : x \in OnDisk'
  <2>1. CASE registry' = Lines(tests)
    BY <1>7, <1>8, <2>1, Found
  <2>2. CASE Fault
    <3> SUFFICES ASSUME NEW x \in TextsIn(tests) PROVE InFile(scripts, x)
      BY <1>1, Found
    <3>1. PICK i \in DOMAIN tests : x \in {tests[i].command, tests[i].about} /\ x # 0
      BY Listing
    <3> QED
      BY <1>1, <1>5, <1>6, <1>8, <2>2, <3>1, WholeHas
  <2> QED
    BY <1>2, <2>1, <2>2
<1>9. Gone \/ (back # "off" /\ at' = back /\ UNCHANGED <<tests, sel, back, text, fresh, pending>>)
  BY DEF SaveRegistry, SaveKilled, editor
<1>10. CASE Gone
  <2>1. at' = "off"
    BY <1>10 DEF Gone
  <2> QED
    BY <1>1, <1>4, <1>8, <1>10, <2>1, GoneKept DEF NoLoss
<1>11. CASE back # "off" /\ at' = back /\ UNCHANGED <<tests, sel, back, text, fresh, pending>>
  <2>1. at' \in {"list", "editor"}
    BY <1>1, <1>11 DEF RegInv, Screens
  <2>2. Numbered'
    BY <1>1, <1>4, <1>11 DEF KeepInv, Numbered
  <2>3. faults' <= 1 /\ ~hidden => NoLoss
    BY <1>8, <1>11, <2>1 DEF NoLoss
  <2>4. ASSUME AtMostOne' PROVE Safe'
    <3>1. Safe /\ faults' <= 1 /\ ~hidden
      BY <2>4, Earlier
    <3>2. Scripted' /\ Shown' /\ Rewrites'
      BY <1>1, <1>11, <2>1, <3>1 DEF Safe, Scripted, Shown, Rewrites
    <3>3. registry' = tests => InRegistry'
      BY <1>11 DEF InRegistry
    <3>4. Fault => Whole(tests)' /\ faults' # 0
      <4>1. Fault => faults' # 0
        BY Earlier DEF Fault
      <4> QED
        BY <1>1, <1>5, <1>11, <3>1, <4>1 DEF Whole, NamedRight, InFiles, Distinct
    <3>5. Somewhere'
      BY <1>2, <1>7, <3>1, <3>3, <3>4 DEF Somewhere
    <3> QED
      BY <3>2, <3>5 DEF Safe
  <2> QED
    BY <2>2, <2>3, <2>4 DEF Keeps
<1> QED
  BY <1>9, <1>10, <1>11

\* Files that others put and take away.
LEMMA FilesKept == ASSUME Before, NEW p \in Paths, PutFile(p) \/ RemoveFile(p) PROVE Keeps
<1>1. /\ UNCHANGED <<tests, sel, at, back, text, fresh, pending, registry, typed>>
      /\ RegInv /\ StepInv /\ KeepInv
  BY DEF PutFile, RemoveFile, app, editor, ghosts, Before
<1>2. /\ scripts' = [scripts EXCEPT ![p] = None] \/ scripts' = [scripts EXCEPT ![p] = Foreign]
      /\ scripts \in [Paths -> Files]
  BY <1>1 DEF PutFile, RemoveFile, RegInv, Disk
<1>3. \A q \in Paths : scripts'[q] = scripts[q] \/ scripts'[q] = None \/ scripts'[q] = Foreign
  BY <1>2
<1>4. \A x : x \in OnDisk' => x \in OnDisk
  BY <1>1, <1>3, NothingNew
<1>5. Numbered'
  BY <1>1, <1>4 DEF KeepInv, Numbered
<1>6. ASSUME InRegistry PROVE InRegistry' /\ NoLoss
  BY <1>1, <1>4, <1>6, InRegistryKept DEF InRegistry
<1>7. ASSUME Safe PROVE Scripted' /\ Shown' /\ Rewrites'
  BY <1>1, <1>4, <1>7 DEF Safe, Scripted, Shown, Rewrites
<1>8. CASE PutFile(p)
  <2>1. scripts[p] = None /\ scripts' = [scripts EXCEPT ![p] = Foreign] /\ faults' = faults
    BY <1>8 DEF PutFile
  <2>2. \A x : InFile(scripts, x) => InFile(scripts', x)
    BY <1>2, <2>1, FileTexts DEF InFile
  <2>3. NoLoss
    BY <1>1, <2>2, Found DEF NoLoss
  <2>4. Whole(tests) => Whole(tests)'
    <3>1. \A t \in Test : scripts[t.script] = Body(t) => scripts'[t.script] = Body(t)
      BY <1>2, <2>1, FileFacts
    <3>2. \A i \in DOMAIN tests : tests[i] \in Test
      BY <1>1 DEF RegInv, Tests
    <3> QED
      BY <1>1, <3>1, <3>2 DEF Whole, NamedRight, InFiles, Distinct
  <2>5. Safe => Safe'
    BY <1>1, <1>6, <1>7, <2>1, <2>4 DEF Safe, Somewhere
  <2> QED
    BY <1>5, <2>3, <2>5, Earlier DEF Keeps
<1>9. CASE RemoveFile(p)
  <2>1. faults' <= 1 /\ ~hidden => InRegistry
    <3>1. at # "saving" /\ at # "writing" /\ Fault
      BY <1>9 DEF RemoveFile, Idle
    <3> QED
      BY <1>1, <3>1, Earlier, CleanKept
  <2>2. AtMostOne' => Safe'
    BY <1>1, <1>6, <1>7, <2>1, Earlier DEF Safe, Somewhere
  <2> QED
    BY <1>5, <1>6, <2>1, <2>2 DEF Keeps
<1> QED
  BY <1>8, <1>9

----------------------------------------------------------------------------
LEMMA KeepNext == ASSUME RegInv, StepInv, KeepInv, [Next]_vars PROVE Keeps
<1>1. Before
  BY SoundNext DEF Before, StepInv
<1> QED
  BY <1>1, StutterKept, AddKept, RenameKept, CopyKept, OpenKept, DeleteKept, ListKept, TypeKept,
     SaveCommandKept, SaveAboutKept, SaveAboutKilledKept, LeaveKept, DiscardKept, StartKept,
     LoadKept, WriteNextKept, AllWrittenKept, SaveRegistryKept, EndKept, FilesKept
  DEF Next

----------------------------------------------------------------------------
(* What leaves the disk *)

\* The texts that go from the tests are given up, and what was given up stays so as long
\* as it is on disk.
LEMMA HandedOn ==
  ASSUME RegInv, Sound, [Next]_vars, at # "off", at' # "off"
  PROVE  \/ GivesUp
         \/ givenUp' = givenUp /\ TextsIn(tests) \subseteq TextsIn(tests')
<1> DEFINE Same == givenUp' = givenUp /\ TextsIn(tests) \subseteq TextsIn(tests')
<1>1. tests' = tests /\ givenUp' = givenUp => Same
  OBVIOUS
<1>2. ASSUME NEW t \in Test, tests' = Append(tests, t), givenUp' = givenUp PROVE Same
  <2>1. \A j \in DOMAIN tests : j \in DOMAIN tests' /\ tests'[j] = tests[j]
    BY <1>2 DEF RegInv, Tests
  <2>2. ASSUME NEW x \in TextsIn(tests) PROVE x \in TextsIn(tests')
    <3>1. PICK j \in DOMAIN tests : x # 0 /\ x \in {tests[j].command, tests[j].about}
      BY Listing
    <3> QED
      BY <2>1, <3>1, Listing
  <2> QED
    BY <1>2, <2>2
<1>3. ASSUME NEW i \in DOMAIN tests, NEW t \in Test, tests' = [tests EXCEPT ![i] = t],
             t.command = tests[i].command, t.about = tests[i].about, givenUp' = givenUp
      PROVE  Same
  <2>1. /\ DOMAIN tests' = DOMAIN tests
        /\ \A j \in DOMAIN tests : tests'[j] = IF j = i THEN t ELSE tests[j]
    BY <1>3, Replaced DEF RegInv, Tests
  <2>2. ASSUME NEW x \in TextsIn(tests) PROVE x \in TextsIn(tests')
    <3>1. PICK j \in DOMAIN tests : x # 0 /\ x \in {tests[j].command, tests[j].about}
      BY Listing
    <3>2. x \in {tests'[j].command, tests'[j].about}
      BY <1>3, <2>1, <3>1
    <3> QED
      BY <2>1, <3>1, <3>2, Listing
  <2> QED
    BY <1>3, <2>2
<1>4. ASSUME NEW t \in Test
      PROVE  Saved(t) \in Test /\ Saved(t).command = t.command /\ Saved(t).about = t.about
  BY TestFacts DEF RegInv, Screens, Saved, Test
<1>5. ASSUME NEW title \in Titles, Add(title) PROVE Same
  <2>1. [title |-> title, script |-> NoScript, command |-> 0, about |-> 0] \in Test
    BY Sizes DEF Test
  <2> QED
    BY <1>2, <1>5, <2>1 DEF Add
<1> HIDE DEF Same
<1>6. ASSUME NEW title \in Titles, Rename(title) PROVE Same
  <2> DEFINE t == [tests[sel] EXCEPT !.title = title]
  <2>1. sel \in DOMAIN tests /\ tests[sel] \in Test
    BY <1>6, OnTestHas, SelectedTest DEF Rename
  <2>2. t \in Test /\ t.command = tests[sel].command /\ t.about = tests[sel].about
    BY <2>1 DEF Test
  <2>3. tests' \in {tests, [tests EXCEPT ![sel] = Saved(t)]} /\ givenUp' = givenUp
    BY <1>6 DEF Rename, WriteKilled, Gone, ghosts
  <2> HIDE DEF t
  <2> QED
    BY <1>1, <1>3, <1>4, <2>1, <2>2, <2>3
<1>7. ASSUME NEW title \in Titles, Copy(title) PROVE Same
  <2> DEFINE t == [tests[sel] EXCEPT !.title = title, !.script = NoScript]
  <2>1. sel \in DOMAIN tests /\ tests[sel] \in Test
    BY <1>7, OnTestHas, SelectedTest DEF Copy
  <2>2. t \in Test
    BY <2>1 DEF Test
  <2>3. tests' \in {tests, Append(tests, Saved(t))} /\ givenUp' = givenUp
    BY <1>7 DEF Copy, WriteKilled, Gone, ghosts
  <2> HIDE DEF t
  <2> QED
    BY <1>1, <1>2, <1>4, <2>2, <2>3
<1>8. ASSUME WriteNext PROVE Same
  <2> DEFINE i == CHOOSE i \in pending : \A j \in pending : i <= j
             t == tests[i]
  <2>1. i \in DOMAIN tests
    <3>1. pending # {} /\ pending \subseteq DOMAIN tests /\ DOMAIN tests \subseteq Nat
      BY <1>8 DEF WriteNext, RegInv, Tests
    <3>2. \E m \in pending : \A n \in pending : m <= n
      BY <3>1, Least
    <3> QED
      BY <3>1, <3>2
  <2>2. t \in Test
    BY <2>1 DEF RegInv, Tests
  <2>3. tests' \in {tests, [tests EXCEPT ![i] = Saved(t)]} /\ givenUp' = givenUp
    BY <1>8 DEF WriteNext, WriteKilled, Gone, ghosts
  <2> HIDE DEF i
  <2>4. Saved(t) \in Test /\ Saved(t).command = tests[i].command /\ Saved(t).about = tests[i].about
    BY <1>4, <2>2
  <2>5. CASE tests' = tests
    BY <1>1, <2>3, <2>5
  <2>6. CASE tests' = [tests EXCEPT ![i] = Saved(t)]
    <3> DEFINE u == Saved(t)
    <3>1. /\ u \in Test /\ tests' = [tests EXCEPT ![i] = u] /\ givenUp' = givenUp
          /\ u.command = tests[i].command /\ u.about = tests[i].about
      BY <2>3, <2>4, <2>6
    <3> HIDE DEF u
    <3> QED
      BY <1>3, <2>1, <3>1
  <2> QED
    BY <2>3, <2>5, <2>6
<1>9. CASE Delete
  BY <1>9 DEF Delete, Gone
<1>10. ASSUME NEW exit \in BOOLEAN, SaveCommand(exit) PROVE GivesUp
  BY <1>10 DEF SaveCommand, WriteKilled, Gone
<1>11. ASSUME NEW exit \in BOOLEAN, SaveAbout(exit) PROVE GivesUp
  BY <1>11 DEF SaveAbout
<1>12. CASE Discard
  BY <1>12 DEF Discard
<1>13. CASE \/ UNCHANGED vars \/ (\E what \in {"command", "about"} : Open(what))
            \/ Toggle \/ (\E f \in DOMAIN Hits : Filter(f))
            \/ (\E direction \in {-1, 1} : Move(direction)) \/ Type
            \/ QuitEditor \/ Start
            \/ (\E p \in Paths : PutFile(p) \/ RemoveFile(p))
  <2>1. tests' = tests /\ givenUp' = givenUp
    BY <1>13 DEF vars, app, editor, ghosts, Open, Toggle, Filter, Move, Type, QuitEditor, Start,
                 PutFile, RemoveFile
  <2> QED
    BY <1>1, <2>1
<1>14. CASE SaveRegistry \/ AllWritten
  <2>1. tests' = tests /\ givenUp' = givenUp
    BY <1>14 DEF SaveRegistry, AllWritten, Gone, ghosts
  <2> QED
    BY <1>1, <2>1
<1>15. /\ ~SaveAboutKilled /\ ~SaveKilled /\ ~Exit /\ ~Kill /\ ~Regenerate
       /\ \A dir \in Dirs : ~Begin(dir)
  BY DEF SaveAboutKilled, WriteKilled, SaveKilled, Exit, Kill, Gone, Regenerate, Begin
<1> QED
  BY <1>5, <1>6, <1>7, <1>8, <1>9, <1>10, <1>11, <1>12, <1>13, <1>14, <1>15 DEF Next, Same

\* What the registry says and the program has not, the user has given up.
Remembered == at # "off" => TextsIn(registry) \subseteq TextsIn(tests) \union givenUp

LEMMA RememberedInit == Init => Remembered
  BY DEF Init, Remembered

LEMMA RegistryChanges ==
  ASSUME [Next]_vars, registry' # registry
  PROVE  /\ SaveRegistry \/ SaveKilled
         /\ at = "saving" /\ UNCHANGED <<scripts, givenUp>>
         /\ registry' \in Torn(tests) \union {Lines(tests)}
         /\ at' = "off" \/ tests' = tests
<1>1. SaveRegistry \/ SaveKilled
  BY DEF Next, vars, disk, Add, Rename, Copy, Open, Delete, Toggle, Filter, Move, Type, SaveCommand,
         SaveAbout, SaveAboutKilled, WriteKilled, QuitEditor, Discard, Start, Regenerate, WriteNext,
         AllWritten, Begin, Exit, Kill, PutFile, RemoveFile
<1> QED
  BY <1>1 DEF SaveRegistry, SaveKilled, Gone, ghosts

LEMMA RememberedNext ==
  ASSUME RegInv, Sound, Remembered, [Next]_vars
  PROVE  Remembered'
<1> SUFFICES ASSUME at' # "off", NEW x \in TextsIn(registry')
             PROVE  x \in TextsIn(tests') \/ x \in givenUp'
  BY DEF Remembered
<1>1. CASE registry' # registry
  <2>1. tests' = tests /\ TextsIn(registry') \subseteq TextsIn(tests)
    BY <1>1, RegistryChanges, TornTexts
  <2> QED
    BY <2>1
<1>2. CASE registry' = registry /\ at = "off"
  <2>1. CASE tests' = Loaded
    BY <1>2, <2>1, LoadedFacts
  <2>2. CASE \E p \in Paths : PutFile(p) \/ RemoveFile(p)
    BY <1>2, <2>2 DEF PutFile, RemoveFile, app
  <2>3. CASE UNCHANGED vars
    BY <1>2, <2>3 DEF vars, app
  <2> QED
    BY <1>2, <2>1, <2>2, <2>3
    DEF Next, Add, Rename, Copy, Open, OnTest, Delete, Toggle, Filter, Move, Type, SaveCommand,
        SaveAbout, SaveAboutKilled, QuitEditor, Discard, Start, Regenerate, WriteNext, AllWritten,
        SaveRegistry, SaveKilled, Begin, Exit, Kill
<1>3. CASE registry' = registry /\ at # "off"
  <2>1. x \in TextsIn(tests) \/ x \in givenUp
    BY <1>3 DEF Remembered
  <2>2. x \in OnDisk
    BY <1>3, Found
  <2> QED
    BY <1>3, <2>1, <2>2, HandedOn DEF GivesUp
<1> QED
  BY <1>1, <1>2, <1>3

----------------------------------------------------------------------------
\* A script of a test that is in memory or, while the program is off, in the registry.
Owner(ts, p) == \E i \in DOMAIN ts : ts[i].script = p
Owned == \A p \in Paths : Len(scripts[p]) = 4 => Owner(IF at = "off" THEN registry ELSE tests, p)

LEMMA OwnedInit == Init => Owned
<1>1. Len(None) = 0
  BY DEF None
<1> QED
  BY <1>1 DEF Init, Owned

LEMMA BodyLength == Len(None) # 4 /\ Len(Foreign) # 4
  BY DEF None, Foreign

\* Test i is written, in its place.
LEMMA OwnedWrite ==
  ASSUME RegInv, Owned, at # "off", at' # "off", NEW i \in DOMAIN tests, NEW t \in Test,
         t.script = tests[i].script, Write(t), ~Fault, tests' = [tests EXCEPT ![i] = Saved(t)]
  PROVE  Owned'
<1>1. scripts' = Written(t, Body(t)) /\ Saved(t) \in Test /\ Saved(t).script = PathOf(t)
  BY TestFacts DEF Write, RegInv, Screens
<1>2. /\ DOMAIN tests' = DOMAIN tests
      /\ \A j \in DOMAIN tests : tests'[j] = IF j = i THEN Saved(t) ELSE tests[j]
  BY <1>1, Replaced DEF RegInv, Tests
<1> SUFFICES ASSUME NEW p \in Paths, Len(scripts'[p]) = 4 PROVE Owner(tests', p)
  BY DEF Owned
<1>3. CASE p = PathOf(t)
  BY <1>1, <1>2, <1>3 DEF Owner
<1>4. CASE p # PathOf(t)
  <2>1. p # t.script /\ scripts'[p] = scripts[p]
    BY <1>1, <1>4, BodyLength DEF Written
  <2>2. PICK j \in DOMAIN tests : tests[j].script = p
    BY <2>1 DEF Owned, Owner
  <2>3. j # i
    BY <2>1, <2>2
  <2> QED
    BY <1>2, <2>2, <2>3 DEF Owner
<1> QED
  BY <1>3, <1>4

\* No script comes, and none loses its test.
LEMMA OwnedStays ==
  ASSUME Owned, at # "off", at' # "off",
         \A p \in Paths : Len(scripts'[p]) = 4 => Len(scripts[p]) = 4,
         \A p \in Paths : Len(scripts'[p]) = 4 /\ Owner(tests, p) => Owner(tests', p)
  PROVE  Owned'
  BY DEF Owned

\* Between the program and its registry nothing goes.
LEMMA OwnedLoaded ==
  ASSUME Owned, UNCHANGED scripts,
         \/ at = "off" /\ at' # "off" /\ tests' = registry
         \/ at # "off" /\ at' = "off" /\ registry' = tests
  PROVE  Owned'
  BY DEF Owned

\* A test takes the place of another, or comes at the end.
LEMMA OwnersReplaced ==
  ASSUME RegInv, NEW i \in DOMAIN tests, NEW t \in Test, t.script = tests[i].script,
         tests' = [tests EXCEPT ![i] = t]
  PROVE  \A p : Owner(tests, p) => Owner(tests', p)
<1>1. /\ DOMAIN tests' = DOMAIN tests
      /\ \A j \in DOMAIN tests : tests'[j] = IF j = i THEN t ELSE tests[j]
  BY Replaced DEF RegInv, Tests
<1>2. \A j \in DOMAIN tests : tests'[j].script = tests[j].script
  BY <1>1
<1> QED
  BY <1>1, <1>2 DEF Owner

LEMMA OwnersAppended ==
  ASSUME RegInv, NEW t \in Test, tests' = Append(tests, t)
  PROVE  Owner(tests', t.script) /\ \A p : Owner(tests, p) => Owner(tests', p)
<1>1. /\ \A j \in DOMAIN tests : j \in DOMAIN tests' /\ tests'[j] = tests[j]
      /\ Len(tests) + 1 \in DOMAIN tests' /\ tests'[Len(tests) + 1] = t
  BY DEF RegInv, Tests
<1> QED
  BY <1>1 DEF Owner

LEMMA OwnersLeft ==
  ASSUME RegInv, NEW i \in DOMAIN tests, tests' = RemoveAt(tests, i)
  PROVE  \A p : p # tests[i].script /\ Owner(tests, p) => Owner(tests', p)
<1> DEFINE n == Len(tests)
<1>1. tests \in Seq(Test) /\ n \in Nat /\ DOMAIN tests = 1..n /\ i \in 1..n
  BY DEF RegInv, Tests
<1>2. /\ DOMAIN tests' = 1..(n - 1)
      /\ \A j \in 1..(n - 1) : tests'[j] = IF j < i THEN tests[j] ELSE tests[j + 1]
  <2>1. tests' \in Seq(Test) /\ Len(tests') = n - 1
    BY <1>1, RemoveAtFacts
  <2> QED
    BY <1>1, <2>1, RemoveAtFacts
<1> SUFFICES ASSUME NEW p, p # tests[i].script, NEW k \in 1..n, tests[k].script = p
             PROVE  Owner(tests', p)
  BY <1>1 DEF Owner
<1>3. k # i
  OBVIOUS
<1>4. CASE k < i
  <2>1. k \in 1..(n - 1) /\ tests'[k] = tests[k]
    BY <1>1, <1>2, <1>4
  <2> QED
    BY <1>2, <2>1 DEF Owner
<1>5. CASE k > i
  <2>1. k - 1 \in 1..(n - 1) /\ ~(k - 1 < i) /\ (k - 1) + 1 = k
    BY <1>1, <1>5
  <2>2. tests'[k - 1] = tests[k]
    BY <1>2, <2>1
  <2> QED
    BY <1>2, <2>1, <2>2 DEF Owner
<1> QED
  BY <1>1, <1>3, <1>4, <1>5

\* As long as nothing fails every script has its test.
LEMMA OwnedNext ==
  ASSUME RegInv, StepInv, Clean, Clean', Owned, [Next]_vars
  PROVE  Owned'
<1>1. Sound /\ Steps /\ ~Fault /\ (at # "editor" => ~fresh)
  BY NoFault DEF StepInv, Sound
<1>2. \A t : ~WriteKilled(t) /\ (WriteFails(t) => Taken(t) /\ UNCHANGED scripts)
  BY <1>1 DEF WriteKilled, WriteFails
<1>3. ASSUME UNCHANGED <<tests, scripts>>, at # "off", at' # "off" PROVE Owned'
  BY <1>3, OwnedStays
<1>4. ASSUME NEW title \in Titles, Add(title) PROVE Owned'
  <2> DEFINE t == [title |-> title, script |-> NoScript, command |-> 0, about |-> 0]
  <2>1. t \in Test
    BY Sizes DEF Test
  <2>2. tests' = Append(tests, t) /\ UNCHANGED scripts /\ at = "list" /\ at' = "editor"
    BY <1>4 DEF Add, disk
  <2> HIDE DEF t
  <2> QED
    BY <2>1, <2>2, OwnersAppended, OwnedStays
<1>5. ASSUME NEW title \in Titles, Rename(title) PROVE Owned'
  <2> DEFINE t == [tests[sel] EXCEPT !.title = title]
  <2>1. sel \in DOMAIN tests /\ tests[sel] \in Test /\ at = "list"
    BY <1>5, OnTestHas, SelectedTest DEF Rename, OnTest
  <2>2. t \in Test /\ t.script = tests[sel].script
    BY <2>1 DEF Test
  <2>3. \/ Write(t) /\ tests' = [tests EXCEPT ![sel] = Saved(t)] /\ at' = "saving"
        \/ UNCHANGED <<tests, scripts, at>>
    BY <1>2, <1>5 DEF Rename, SaveRegistryThen
  <2> HIDE DEF t
  <2> QED
    BY <1>1, <1>3, <2>1, <2>2, <2>3, OwnedWrite
<1>6. ASSUME NEW title \in Titles, Copy(title) PROVE Owned'
  <2> DEFINE t == [tests[sel] EXCEPT !.title = title, !.script = NoScript]
  <2>1. sel \in DOMAIN tests /\ tests[sel] \in Test /\ at = "list"
    BY <1>6, OnTestHas, SelectedTest DEF Copy, OnTest
  <2>2. t \in Test /\ t.script = NoScript
    BY <2>1 DEF Test
  <2>3. \/ Write(t) /\ tests' = Append(tests, Saved(t)) /\ at' = "saving"
        \/ UNCHANGED <<tests, scripts, at>>
    BY <1>2, <1>6 DEF Copy, SaveRegistryThen
  <2> HIDE DEF t
  <2>4. CASE Write(t) /\ tests' = Append(tests, Saved(t)) /\ at' = "saving"
    <3>1. Saved(t) \in Test /\ Saved(t).script = PathOf(t) /\ scripts' = Written(t, Body(t))
      BY <1>1, <2>2, <2>4, TestFacts DEF Write, RegInv, Screens
    <3>2. Owner(tests', PathOf(t)) /\ \A p : Owner(tests, p) => Owner(tests', p)
      BY <2>4, <3>1, OwnersAppended
    <3>3. ASSUME NEW p \in Paths, Len(scripts'[p]) = 4, p # PathOf(t) PROVE Len(scripts[p]) = 4
      BY <3>1, <3>3, BodyLength DEF Written
    <3> QED
      BY <2>1, <2>4, <3>2, <3>3 DEF Owned
  <2> QED
    BY <1>3, <2>1, <2>3, <2>4
<1>7. CASE Delete
  <2> DEFINE i == Clamp(tests, sel, filter)
  <2>1. at = "list" /\ tests # <<>>
    BY <1>7, OnTestHas DEF Delete, OnTest
  <2>2. i \in DOMAIN tests
    <3>1. Selects(i, tests)
      BY ClampSelects DEF RegInv, Tests, Selects
    <3> HIDE DEF i
    <3> QED
      BY <2>1, <3>1 DEF Selects, RegInv, Tests
  <2>3. /\ scripts' = [q \in Paths |-> IF q = tests[i].script THEN None ELSE scripts[q]]
        /\ tests' = RemoveAt(tests, i) /\ at' = "saving"
    BY <1>1, <1>7 DEF Delete, SaveRegistryThen
  <2> HIDE DEF i
  <2>4. \A p \in Paths : Len(scripts'[p]) = 4 => p # tests[i].script /\ Len(scripts[p]) = 4
    BY <2>3, BodyLength
  <2> QED
    BY <2>1, <2>2, <2>3, <2>4, OwnersLeft, OwnedStays
<1>8. ASSUME NEW exit \in BOOLEAN, SaveCommand(exit) PROVE Owned'
  <2> DEFINE t == [tests[sel] EXCEPT !.command = text]
  <2>1. at = "editor" /\ sel \in DOMAIN tests /\ tests[sel] \in Test
    BY <1>8, EditedTest DEF SaveCommand
  <2>2. t \in Test /\ t.script = tests[sel].script
    BY <2>1 DEF Test, RegInv, Screens
  <2>3. \/ Write(t) /\ tests' = [tests EXCEPT ![sel] = Saved(t)] /\ at' = "saving"
        \/ tests' = [tests EXCEPT ![sel] = t] /\ UNCHANGED <<scripts, at>>
    BY <1>2, <1>8 DEF SaveCommand, SaveRegistryThen
  <2> HIDE DEF t
  <2> QED
    BY <1>1, <2>1, <2>2, <2>3, OwnersReplaced, OwnedStays, OwnedWrite
<1>9. ASSUME NEW exit \in BOOLEAN, SaveAbout(exit) PROVE Owned'
  <2> DEFINE t == [tests[sel] EXCEPT !.about = text]
  <2>1. at = "editor" /\ sel \in DOMAIN tests /\ tests[sel] \in Test
    BY <1>9, EditedTest DEF SaveAbout
  <2>2. t \in Test /\ t.script = tests[sel].script
    BY <2>1 DEF Test, RegInv, Screens
  <2>3. /\ \/ /\ tests' = [tests EXCEPT ![sel] = IF t.script = NoScript \/ Taken(t) THEN t ELSE Saved(t)]
              /\ IF t.script = NoScript THEN UNCHANGED scripts ELSE Write(t)
           \/ t.script # NoScript /\ WriteFails(t) /\ tests' = [tests EXCEPT ![sel] = t]
        /\ at' = "saving"
    BY <1>9 DEF SaveAbout, SaveRegistryThen
  <2> HIDE DEF t
  <2>4. \/ Write(t) /\ tests' = [tests EXCEPT ![sel] = Saved(t)]
        \/ tests' = [tests EXCEPT ![sel] = t] /\ UNCHANGED scripts
    BY <1>2, <2>3 DEF Write
  <2> QED
    BY <1>1, <2>1, <2>2, <2>3, <2>4, OwnersReplaced, OwnedStays, OwnedWrite
<1>10. CASE Discard
  <2>1. at = "editor" /\ at' = "list" /\ UNCHANGED scripts /\ sel \in DOMAIN tests
    BY <1>10, EditedTest DEF Discard, disk
  <2>2. CASE tests' = tests
    BY <1>3, <2>1, <2>2
  <2>3. CASE tests' = RemoveAt(tests, sel) /\ fresh
    <3>1. tests[sel].script = NoScript
      BY <1>1, <2>3 DEF Steps, Unsaved
    <3>2. \A p \in Paths : p # NoScript
      BY PathFacts
    <3> QED
      BY <2>1, <2>3, <3>1, <3>2, OwnersLeft, OwnedStays
  <2> QED
    BY <1>10, <2>2, <2>3 DEF Discard
<1>11. CASE WriteNext
  <2> DEFINE i == CHOOSE i \in pending : \A j \in pending : i <= j
             t == tests[i]
  <2>1. at = "writing" /\ pending # {} /\ pending \subseteq DOMAIN tests /\ DOMAIN tests \subseteq Nat
    BY <1>11 DEF WriteNext, RegInv, Tests
  <2>2. i \in DOMAIN tests
    <3>1. \E m \in pending : \A n \in pending : m <= n
      BY <2>1, Least
    <3> QED
      BY <2>1, <3>1
  <2>3. \/ Write(t) /\ tests' = [tests EXCEPT ![i] = Saved(t)] /\ at' = at
        \/ UNCHANGED <<tests, scripts>> /\ at' \in {at, "list"}
    BY <1>2, <1>11 DEF WriteNext
  <2> HIDE DEF i
  <2>4. t \in Test
    BY <2>2 DEF RegInv, Tests
  <2> QED
    BY <1>1, <1>3, <2>1, <2>2, <2>3, <2>4, OwnedWrite
<1>12. CASE SaveRegistry
  <2>1. at = "saving" /\ registry' = Lines(tests) /\ UNCHANGED scripts
    BY <1>1, <1>12 DEF SaveRegistry
  <2>2. registry' = tests
    BY <1>1, <2>1, AllSaved DEF Steps, Unsaved
  <2>3. CASE at' = "off"
    BY <2>1, <2>2, <2>3, OwnedLoaded
  <2>4. CASE at' # "off"
    <3>1. tests' = tests
      BY <1>12, <2>4 DEF SaveRegistry, Gone
    <3> QED
      BY <1>3, <2>1, <2>4, <3>1
  <2> QED
    BY <2>3, <2>4
<1>13. CASE AllWritten \/ Exit
  <2>1. at \in {"list", "writing"} /\ UNCHANGED <<scripts, registry>>
    BY <1>13 DEF AllWritten, Exit, disk
  <2>2. registry' = tests
    BY <1>1, <2>1, AllSaved DEF Steps, Unsaved
  <2>3. CASE at' = "off"
    BY <2>1, <2>2, <2>3, OwnedLoaded
  <2>4. CASE at' # "off"
    <3>1. tests' = tests
      BY <1>13, <2>4 DEF AllWritten, Exit, Gone
    <3> QED
      BY <1>3, <2>1, <2>4, <3>1
  <2> QED
    BY <2>3, <2>4
<1>14. CASE Regenerate \/ \E dir \in Dirs : Begin(dir)
  <2>1. at = "off" /\ at' # "off" /\ tests' = registry /\ UNCHANGED scripts
    BY <1>14, LoadedFacts DEF Regenerate, Begin, disk
  <2> QED
    BY <2>1, OwnedLoaded
<1>15. ASSUME NEW p \in Paths, PutFile(p) PROVE Owned'
  <2>1. scripts' = [scripts EXCEPT ![p] = Foreign] /\ UNCHANGED <<tests, registry, at>>
    BY <1>15 DEF PutFile, app
  <2>2. \A q \in Paths : Len(scripts'[q]) = 4 => Len(scripts[q]) = 4
    BY <2>1, BodyLength DEF RegInv, Disk
  <2> QED
    BY <2>1, <2>2 DEF Owned
<1>16. CASE UNCHANGED vars
  BY <1>16 DEF vars, app, disk, Owned
<1>17. CASE \/ (\E what \in {"command", "about"} : Open(what))
            \/ Toggle \/ (\E f \in DOMAIN Hits : Filter(f))
            \/ (\E direction \in {-1, 1} : Move(direction)) \/ Type
            \/ QuitEditor \/ Start
  <2>1. tests' = tests /\ scripts' = scripts /\ at # "off" /\ at' # "off"
    BY <1>17 DEF app, disk, Open, OnTest, Toggle, SaveRegistryThen, Filter, Move, Type, QuitEditor, Start
  <2> QED
    BY <1>3, <2>1
<1>18. /\ ~SaveAboutKilled /\ ~SaveKilled /\ ~Kill
       /\ \A p \in Paths : ~RemoveFile(p)
  BY <1>1, <1>2 DEF SaveAboutKilled, SaveKilled, Kill, RemoveFile
<1> QED
  BY <1>4, <1>5, <1>6, <1>7, <1>8, <1>9, <1>10, <1>11, <1>12, <1>13, <1>14, <1>15, <1>16, <1>17, <1>18
  DEF Next

OwnedInv == Clean => Owned

LEMMA OwnedStep == ASSUME RegInv, StepInv, OwnedInv, [Next]_vars PROVE OwnedInv'
<1>1. Clean' => Clean
  <2>1. NotUndone /\ faults \in Nat /\ faults' \in Nat
    BY SoundNext DEF StepInv, Sound
  <2> QED
    BY <2>1 DEF NotUndone, Clean
<1> QED
  BY <1>1, OwnedNext DEF OwnedInv

----------------------------------------------------------------------------
\* A text that leaves the registry is in no test.
LEMMA LeavesRegistry ==
  ASSUME RegInv, Sound, Remembered, [Next]_vars, NEW x \in TextsIn(registry), x \notin OnDisk',
         x \notin TextsIn(Current)
  PROVE  x \in givenUp'
<1>1. registry' # registry
  BY Found
<1>2. at = "saving" /\ givenUp' = givenUp /\ (at' = "off" \/ tests' = tests)
  BY <1>1, RegistryChanges
<1>3. x \in TextsIn(tests) \/ x \in givenUp
  BY <1>2 DEF Remembered
<1> QED
  BY <1>2, <1>3 DEF Current

\* What a step does to the scripts: it writes at the script of a test or where nothing was,
\* and removes by hand.
LEMMA WriteTouches ==
  ASSUME NEW t, Write(t) \/ WriteKilled(t), NEW p \in Paths, scripts \in [Paths -> Files],
         scripts'[p] # scripts[p]
  PROVE  p = t.script \/ scripts[p] = None
<1>1. ~Taken(t)
  BY DEF Write, WriteKilled
<1>2. p = PathOf(t) \/ p = t.script
  BY DEF Write, WriteKilled, Partway, Written
<1> QED
  BY <1>1, <1>2 DEF Taken

LEMMA ScriptChanges ==
  ASSUME RegInv, [Next]_vars, NEW p \in Paths, scripts'[p] # scripts[p]
  PROVE  scripts[p] = None \/ Owner(tests, p) \/ RemoveFile(p)
<1> DEFINE Fine == scripts[p] = None \/ Owner(tests, p) \/ RemoveFile(p)
<1>1. scripts \in [Paths -> Files] /\ p # NoScript
  BY PathFacts DEF RegInv, Disk
<1>2. ASSUME NEW i \in DOMAIN tests, NEW t, t.script = tests[i].script, Write(t) \/ WriteKilled(t)
      PROVE  Fine
  BY <1>1, <1>2, WriteTouches DEF Owner
<1>3. ASSUME NEW t, t.script = NoScript, Write(t) \/ WriteKilled(t) PROVE Fine
  BY <1>1, <1>3, WriteTouches
<1> HIDE DEF Fine
<1>4. ASSUME NEW title \in Titles, Rename(title) PROVE Fine
  <2> DEFINE t == [tests[sel] EXCEPT !.title = title]
  <2>1. sel \in DOMAIN tests /\ tests[sel] \in Test
    BY <1>4, OnTestHas, SelectedTest DEF Rename
  <2>2. t.script = tests[sel].script
    BY <2>1 DEF Test
  <2>3. Write(t) \/ WriteKilled(t)
    BY <1>4 DEF Rename, WriteFails
  <2> HIDE DEF t
  <2> QED
    BY <1>2, <2>1, <2>2, <2>3
<1>5. ASSUME NEW title \in Titles, Copy(title) PROVE Fine
  <2> DEFINE t == [tests[sel] EXCEPT !.title = title, !.script = NoScript]
  <2>1. tests[sel] \in Test
    BY <1>5, OnTestHas, SelectedTest DEF Copy
  <2>2. t.script = NoScript
    BY <2>1 DEF Test
  <2>3. Write(t) \/ WriteKilled(t)
    BY <1>5 DEF Copy, WriteFails
  <2> HIDE DEF t
  <2> QED
    BY <1>3, <2>2, <2>3
<1>6. CASE Delete
  <2> DEFINE i == Clamp(tests, sel, filter)
  <2>1. tests # <<>>
    BY <1>6, OnTestHas DEF Delete
  <2>2. i \in DOMAIN tests
    <3>1. Selects(i, tests)
      BY ClampSelects DEF RegInv, Tests, Selects
    <3> HIDE DEF i
    <3> QED
      BY <2>1, <3>1 DEF Selects, RegInv, Tests
  <2>3. scripts' = [q \in Paths |-> IF q = tests[i].script THEN None ELSE scripts[q]]
    BY <1>6 DEF Delete
  <2> HIDE DEF i
  <2>4. p = tests[i].script
    BY <2>3
  <2> QED
    BY <2>2, <2>4 DEF Fine, Owner
<1>7. ASSUME NEW exit \in BOOLEAN, SaveCommand(exit) PROVE Fine
  <2> DEFINE t == [tests[sel] EXCEPT !.command = text]
  <2>1. sel \in DOMAIN tests /\ tests[sel] \in Test
    BY <1>7, EditedTest DEF SaveCommand
  <2>2. t.script = tests[sel].script
    BY <2>1 DEF Test
  <2>3. Write(t) \/ WriteKilled(t)
    BY <1>7 DEF SaveCommand, WriteFails
  <2> HIDE DEF t
  <2> QED
    BY <1>2, <2>1, <2>2, <2>3
<1>8. ASSUME (\E exit \in BOOLEAN : SaveAbout(exit)) \/ SaveAboutKilled PROVE Fine
  <2> DEFINE t == [tests[sel] EXCEPT !.about = text]
  <2>1. sel \in DOMAIN tests /\ tests[sel] \in Test
    BY <1>8, EditedTest DEF SaveAbout, SaveAboutKilled
  <2>2. t.script = tests[sel].script
    BY <2>1 DEF Test
  <2>3. Write(t) \/ WriteKilled(t)
    BY <1>8 DEF SaveAbout, SaveAboutKilled, WriteFails
  <2> HIDE DEF t
  <2> QED
    BY <1>2, <2>1, <2>2, <2>3
<1>9. ASSUME WriteNext PROVE Fine
  <2> DEFINE i == CHOOSE i \in pending : \A j \in pending : i <= j
             t == tests[i]
  <2>1. pending # {} /\ pending \subseteq DOMAIN tests /\ DOMAIN tests \subseteq Nat
    BY <1>9 DEF WriteNext, RegInv, Tests
  <2>2. i \in DOMAIN tests
    <3>1. \E m \in pending : \A n \in pending : m <= n
      BY <2>1, Least
    <3> QED
      BY <2>1, <3>1
  <2>3. Write(t) \/ WriteKilled(t)
    BY <1>9 DEF WriteNext, WriteFails
  <2> HIDE DEF i
  <2> QED
    BY <1>2, <2>2, <2>3
<1>10. ASSUME NEW q \in Paths, PutFile(q) \/ RemoveFile(q) PROVE Fine
  <2>1. p = q
    BY <1>1, <1>10 DEF PutFile, RemoveFile
  <2> QED
    BY <1>10, <2>1 DEF Fine, PutFile
<1>11. UNCHANGED scripts \/ ~(\/ UNCHANGED vars \/ (\E title \in Titles : Add(title))
                              \/ (\E what \in {"command", "about"} : Open(what))
                              \/ Toggle \/ (\E f \in DOMAIN Hits : Filter(f))
                              \/ (\E direction \in {-1, 1} : Move(direction)) \/ Type
                              \/ QuitEditor \/ Discard \/ Start \/ Regenerate \/ AllWritten
                              \/ SaveRegistry \/ SaveKilled \/ Exit \/ Kill
                              \/ (\E dir \in Dirs : Begin(dir)))
  BY DEF vars, disk, Add, Open, Toggle, Filter, Move, Type, QuitEditor, Discard, Start, Regenerate,
         AllWritten, SaveRegistry, SaveKilled, Exit, Kill, Begin
<1> QED
  BY <1>4, <1>5, <1>6, <1>7, <1>8, <1>9, <1>10, <1>11 DEF Next, Fine

\* A text that leaves the scripts is in no test, or the program has not read it.
LEMMA LeavesScripts ==
  ASSUME RegInv, StepInv, OwnedInv, [Next]_vars, faults' <= 1, ~hidden,
         NEW x, x # 0, x \notin OnDisk', x \notin TextsIn(Current),
         NEW p \in Paths, x \in TextsAt(scripts[p])
  PROVE  x \in givenUp' \/ Unread(x)
<1>1. scripts'[p] # scripts[p]
  BY Found DEF InFile
<1>2. scripts[p] # None /\ Len(scripts[p]) = 4 /\ p # NoScript
  BY FileTexts, PathFacts DEF TextsAt
<1>3. x \in InScript(p) /\ x \in OnDisk
  <2>1. x \in InScript(p)
    BY <1>2 DEF InScript, TextsAt
  <2> QED
    BY <2>1, Found DEF InFile
<1>4. ASSUME NEW i \in DOMAIN tests, tests[i].script = p, scripts[p] = Body(tests[i])
      PROVE  x \in givenUp'
  <2>1. x \in TextsIn(tests)
    BY <1>4, FileTexts, Listing
  <2>2. at' # "off" /\ x \notin TextsIn(tests')
    BY <2>1 DEF Current
  <2>3. at # "off"
    BY DEF RegInv, Tests
  <2> QED
    BY <1>3, <2>1, <2>2, <2>3, HandedOn DEF GivesUp, StepInv
<1>5. ASSUME Owner(tests, p) PROVE x \in givenUp' \/ Unread(x)
  <2>1. PICK i \in DOMAIN tests : tests[i].script = p
    BY <1>5 DEF Owner
  <2>2. CASE scripts[p] = Body(tests[i])
    BY <1>4, <2>1, <2>2
  <2>3. CASE scripts[p] # Body(tests[i])
    BY <1>2, <1>3, <2>1, <2>3 DEF Unread, Range
  <2> QED
    BY <2>2, <2>3
<1>6. CASE RemoveFile(p)
  <2>1. Clean /\ UNCHANGED <<tests, registry, at>>
    BY <1>6 DEF RemoveFile, Fault, Clean, app, StepInv, Sound
  <2>2. Owner(IF at = "off" THEN registry ELSE tests, p)
    BY <1>2, <2>1 DEF OwnedInv, Owned
  <2>3. CASE at = "off"
    <3>1. PICK k \in DOMAIN registry : registry[k].script = p
      BY <2>2, <2>3 DEF Owner
    <3>2. scripts[p] = Body(registry[k])
      BY <1>2, <2>1, <2>3, <3>1 DEF StepInv, Steps, Whole, InFiles
    <3>3. x \in TextsIn(registry)
      BY <3>2, FileTexts, Listing
    <3> QED
      BY <2>1, <3>3, Found
  <2> QED
    BY <1>5, <2>2, <2>3
<1> QED
  BY <1>1, <1>2, <1>5, <1>6, ScriptChanges

\* One kill, full disk, file that cannot be opened or script removed by hand, anywhere in
\* a save, takes no text from the disk that a test has or that the user has not given up,
\* unless the program was started from a torn or an old line of the registry and writes
\* over what only the script has: whatever the number of tests, directories and texts, and
\* however many faults the model allows.
THEOREM NoTextIsLost == Spec => TextKept
<1> DEFINE Inv == RegInv /\ StepInv /\ KeepInv /\ OwnedInv /\ Remembered
<1>1. Init => Inv
  BY RegInit, StepInit, KeepInit, OwnedInit, RememberedInit DEF OwnedInv
<1>2. Inv /\ [Next]_vars => Inv'
  <2> SUFFICES ASSUME Inv, [Next]_vars PROVE Inv'
    OBVIOUS
  <2>1. RegInv' /\ StepInv' /\ OwnedInv'
    BY RegNext, StepNext, OwnedStep
  <2>2. KeepInv'
    BY KeepNext DEF Keeps, KeepInv
  <2>3. Remembered'
    BY RememberedNext DEF StepInv
  <2> QED
    BY <2>1, <2>2, <2>3
<1>3. Inv /\ [Next]_vars =>
        [faults' <= 1 /\ ~hidden =>
            \A x \in OnDisk \ OnDisk' : x \notin TextsIn(Current) /\ (x \in givenUp' \/ Unread(x))]_vars
  <2> SUFFICES ASSUME Inv, [Next]_vars, faults' <= 1, ~hidden, NEW x \in OnDisk \ OnDisk'
               PROVE  x \notin TextsIn(Current) /\ (x \in givenUp' \/ Unread(x))
    OBVIOUS
  <2>1. x \notin TextsIn(Current)
    BY KeepNext DEF Keeps, NoLoss, Current
  <2>2. CASE x \in TextsIn(registry)
    BY <2>1, <2>2, LeavesRegistry DEF StepInv
  <2>3. CASE InFile(scripts, x)
    <3>1. PICK p \in Paths : x # 0 /\ x \in TextsAt(scripts[p])
      BY <2>3 DEF InFile
    <3> QED
      BY <2>1, <3>1, LeavesScripts
  <2> QED
    BY <2>1, <2>2, <2>3, Found
<1> HIDE DEF Inv
<1>4. Spec => []Inv
  BY <1>1, <1>2, PTL DEF Spec
<1> QED
  BY <1>3, <1>4, PTL DEF Spec, TextKept
=============================================================================
