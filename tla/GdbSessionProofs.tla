-------------------------- MODULE GdbSessionProofs --------------------------
(***************************************************************************)
(* That gd never loses track of the program: the state it goes by is the   *)
(* program's once it has heard all that GDB has to say, a program that has *)
(* stopped is not started over, and what is shown is of the last stop, for *)
(* any number of stops and keys and wherever read cuts the stream.         *)
(***************************************************************************)
EXTENDS GdbSession, SequenceTheorems, WellFoundedInduction, TLAPS

\* What GDB has said and gd has not handled.
Pending == readbuf \o outbox

\* What a state becomes with the lines of a buffer; StateAfter applies it to gd's state.
After(s, buf) == IF Told(buf) = {} THEN s ELSE buf[Max(Told(buf))].kind

\* The state gd comes to when it has heard everything.
Heard == After(state, Pending)

\* Buffer q is p without its first k records.
Drops(p, q, k) ==
    /\ p \in Seq(Records) /\ q \in Seq(Records) /\ k \in 0..Len(p)
    /\ Len(q) = Len(p) - k
    /\ \A i \in 1..Len(q) : q[i] = p[i + k]

\* The first k records of p are those of h, and perhaps an answer.
Begins(p, h, k) ==
    /\ p \in Seq(Records) /\ h \in Seq(Records) /\ k \in 0..Len(p) /\ Len(h) <= k
    /\ \A i \in 1..Len(h) : h[i] = p[i]
    /\ \A i \in 1..k : i > Len(h) => p[i].kind = "result"

----------------------------------------------------------------------------
(* Least and greatest places *)

LEMMA Least == \A T \in SUBSET Nat : T # {} => \E x \in T : \A y \in T : x <= y
<1> SUFFICES ASSUME NEW T \in SUBSET Nat, T # {}
             PROVE  \E x \in T : \A y \in T : x <= y
  OBVIOUS
<1> DEFINE R == {ss \in Nat \X Nat : ss[1] < ss[2]}
<1>1. IsWellFoundedOn(R, Nat)
  BY NatLessThanWellFounded, Zenon DEF OpToRel
<1> HIDE DEF R
<1>2. PICK x \in T : \A y \in T : <<y, x>> \notin R
  BY <1>1, WFMin
<1>3. ASSUME NEW y \in T PROVE x <= y
  <2>1. y \in Nat /\ x \in Nat /\ <<y, x>> \notin R
    BY <1>2
  <2> QED
    BY <2>1 DEF R
<1> QED
  BY <1>3

LEMMA MaxProperties ==
  ASSUME NEW n \in Nat, NEW S \in SUBSET (1..n), S # {}
  PROVE  Max(S) \in S /\ \A j \in S : j <= Max(S)
<1> DEFINE T == {d \in Nat : n - d \in S}
<1>1. T # {}
  <2>1. PICK i \in S : TRUE
    OBVIOUS
  <2>2. n - i \in T
    BY <2>1
  <2> QED
    BY <2>2
<1>2. PICK x \in T : \A y \in T : x <= y
  BY <1>1, Least
<1>3. \A j \in S : n - j \in T
  OBVIOUS
<1>4. n - x \in S /\ \A j \in S : n - x >= j
  BY <1>2, <1>3
<1>5. Max(S) \in S /\ \A j \in S : Max(S) >= j
  BY <1>4 DEF Max
<1> QED
  BY <1>5

LEMMA AtProperties ==
  ASSUME NEW buf \in Seq(Records), AnswersIn(buf) # {}
  PROVE  At(buf) \in AnswersIn(buf) /\ \A i \in AnswersIn(buf) : At(buf) <= i
<1>1. AnswersIn(buf) \in SUBSET Nat
  BY DEF AnswersIn
<1>2. \E i \in AnswersIn(buf) : \A j \in AnswersIn(buf) : i <= j
  BY <1>1, Least
<1> QED
  BY <1>2 DEF At

----------------------------------------------------------------------------
(* What the lines of a buffer do to the state *)

LEMMA ToldIn == \A p \in Seq(Records) : Told(p) \in SUBSET (1..Len(p)) /\ Len(p) \in Nat
  BY DEF Told

LEMMA AfterLast ==
  ASSUME NEW s, NEW p \in Seq(Records), NEW i \in Told(p), \A j \in Told(p) : j <= i
  PROVE  After(s, p) = p[i].kind
<1>1. Max(Told(p)) \in Told(p) /\ \A j \in Told(p) : j <= Max(Told(p))
  BY ToldIn, MaxProperties
<1>2. Max(Told(p)) = i
  BY <1>1, ToldIn
<1> QED
  BY <1>2 DEF After

LEMMA AfterTold ==
  ASSUME NEW s, NEW p \in Seq(Records), Told(p) # {}
  PROVE  \E i \in Told(p) : After(s, p) = p[i].kind /\ \A j \in Told(p) : j <= i
  BY ToldIn, MaxProperties DEF After

LEMMA AfterNone ==
  ASSUME NEW s, NEW p, Told(p) = {}
  PROVE  After(s, p) = s
  BY DEF After

\* What is told in a buffer is told in its first records or in the rest.
LEMMA ToldSplit ==
  ASSUME NEW p, NEW q, NEW h, NEW k, Drops(p, q, k), Begins(p, h, k)
  PROVE  /\ \A i \in Told(q) : i + k \in Told(p)
         /\ \A i \in Told(h) : i \in Told(p) /\ i <= k
         /\ \A i \in Told(p) : (i <= k /\ i \in Told(h)) \/ (k < i /\ i - k \in Told(q))
<1> USE DEF Told, Drops, Begins
<1>1. \A i \in Told(q) : i + k \in Told(p)
  OBVIOUS
<1>2. \A i \in Told(h) : i \in Told(p) /\ i <= k
  OBVIOUS
<1>3. ASSUME NEW i \in Told(p) PROVE (i <= k /\ i \in Told(h)) \/ (k < i /\ i - k \in Told(q))
  <2>1. i \in 1..Len(p) /\ k \in Nat /\ Len(p) \in Nat
    OBVIOUS
  <2>2. CASE i <= k
    BY <2>1, <2>2
  <2>3. CASE k < i
    <3>1. i - k \in 1..Len(q)
      BY <2>1, <2>3
    <3>2. q[i - k] = p[(i - k) + k] /\ (i - k) + k = i
      BY <2>1, <3>1
    <3> QED
      BY <2>3, <3>1, <3>2
  <2> QED
    BY <2>1, <2>2, <2>3
<1> QED
  BY <1>1, <1>2, <1>3

\* The state does not depend on where the stream is cut.
LEMMA AfterSplit ==
  ASSUME NEW s, NEW p, NEW q, NEW h, NEW k, Drops(p, q, k), Begins(p, h, k)
  PROVE  After(After(s, h), q) = After(s, p)
<1>1. /\ \A i \in Told(q) : i + k \in Told(p)
      /\ \A i \in Told(h) : i \in Told(p) /\ i <= k
      /\ \A i \in Told(p) : (i <= k /\ i \in Told(h)) \/ (k < i /\ i - k \in Told(q))
  BY ToldSplit
<1>2. p \in Seq(Records) /\ q \in Seq(Records) /\ h \in Seq(Records) /\ k \in Nat
  BY DEF Drops, Begins
<1>3. CASE Told(q) # {}
  <2>1. PICK i \in Told(q) : After(After(s, h), q) = q[i].kind /\ \A j \in Told(q) : j <= i
    BY <1>2, <1>3, AfterTold
  <2>2. i + k \in Told(p) /\ q[i] = p[i + k]
    BY <1>1 DEF Drops, Told
  <2>3. \A j \in Told(p) : j <= i + k
    BY <1>1, <1>2, <2>1, ToldIn
  <2> QED
    BY <1>2, <2>1, <2>2, <2>3, AfterLast
<1>4. CASE Told(q) = {} /\ Told(h) # {}
  <2>1. PICK i \in Told(h) : After(s, h) = h[i].kind /\ \A j \in Told(h) : j <= i
    BY <1>2, <1>4, AfterTold
  <2>2. i \in Told(p) /\ h[i] = p[i]
    BY <1>1 DEF Begins, Told
  <2>3. \A j \in Told(p) : j <= i
    BY <1>1, <1>4, <2>1
  <2> QED
    BY <1>2, <1>4, <2>1, <2>2, <2>3, AfterLast, AfterNone
<1>5. CASE Told(q) = {} /\ Told(h) = {}
  <2>1. Told(p) = {}
    BY <1>1, <1>5
  <2> QED
    BY <1>5, <2>1, AfterNone
<1> QED
  BY <1>3, <1>4, <1>5

----------------------------------------------------------------------------
(* What GDB adds to the stream *)

LEMMA PendingAppend ==
  ASSUME NEW a \in Seq(Records), NEW b \in Seq(Records), NEW r \in Records
  PROVE  a \o Append(b, r) = Append(a \o b, r)
<1>1. a \o Append(b, r) \in Seq(Records) /\ Append(a \o b, r) \in Seq(Records)
  OBVIOUS
<1>2. Len(a \o Append(b, r)) = Len(Append(a \o b, r))
  OBVIOUS
<1>3. ASSUME NEW i \in 1..Len(Append(a \o b, r))
      PROVE  (a \o Append(b, r))[i] = Append(a \o b, r)[i]
  OBVIOUS
<1> QED
  BY <1>1, <1>2, <1>3, SeqEqual

LEMMA ToldAppend ==
  ASSUME NEW p \in Seq(Records), NEW r \in Records
  PROVE  /\ r.kind = "result" => Told(Append(p, r)) = Told(p)
         /\ r.kind # "result" => Told(Append(p, r)) = Told(p) \cup {Len(p) + 1}
         /\ Append(p, r)[Len(p) + 1] = r /\ \A i \in 1..Len(p) : Append(p, r)[i] = p[i]
  BY DEF Told

LEMMA AfterAppend ==
  ASSUME NEW s, NEW p \in Seq(Records), NEW r \in Records
  PROVE  After(s, Append(p, r)) = IF r.kind = "result" THEN After(s, p) ELSE r.kind
<1> DEFINE q == Append(p, r)
<1>1. q \in Seq(Records) /\ Len(p) \in Nat
  OBVIOUS
<1>2. /\ r.kind = "result" => Told(q) = Told(p)
      /\ r.kind # "result" => Told(q) = Told(p) \cup {Len(p) + 1}
      /\ q[Len(p) + 1] = r /\ \A i \in 1..Len(p) : q[i] = p[i]
  BY ToldAppend
<1> HIDE DEF q
<1>3. CASE r.kind # "result"
  <2>1. Len(p) + 1 \in Told(q) /\ \A j \in Told(q) : j <= Len(p) + 1
    BY <1>1, <1>2, <1>3, ToldIn
  <2> QED
    BY <1>1, <1>2, <1>3, <2>1, AfterLast DEF q
<1>4. CASE r.kind = "result" /\ Told(p) # {}
  <2>1. PICK i \in Told(p) : After(s, p) = p[i].kind /\ \A j \in Told(p) : j <= i
    BY <1>4, AfterTold
  <2>2. i \in Told(q) /\ q[i] = p[i] /\ \A j \in Told(q) : j <= i
    BY <1>2, <1>4, <2>1, ToldIn
  <2> QED
    BY <1>1, <1>4, <2>1, <2>2, AfterLast DEF q
<1>5. CASE r.kind = "result" /\ Told(p) = {}
  BY <1>2, <1>5, AfterNone DEF q
<1> QED
  BY <1>3, <1>4, <1>5

----------------------------------------------------------------------------
(* What gd takes from the stream *)

LEMMA BufferProperties ==
  ASSUME readbuf \in Seq(Records), outbox \in Seq(Records), NEW n \in 0..Len(outbox)
  PROVE  /\ Buffer(n) \in Seq(Records)
         /\ Len(Buffer(n)) = Len(readbuf) + n
         /\ \A i \in 1..Len(Buffer(n)) : Buffer(n)[i] = Pending[i]
         /\ Pending \in Seq(Records) /\ Len(Pending) = Len(readbuf) + Len(outbox)
<1>1. /\ SubSeq(outbox, 1, n) \in Seq(Records) /\ Len(SubSeq(outbox, 1, n)) = n
      /\ \A i \in 1..n : SubSeq(outbox, 1, n)[i] = outbox[i]
  OBVIOUS
<1>2. Buffer(n) \in Seq(Records) /\ Len(Buffer(n)) = Len(readbuf) + n
  BY <1>1 DEF Buffer
<1>3. Pending \in Seq(Records) /\ Len(Pending) = Len(readbuf) + Len(outbox)
  BY DEF Pending
<1>4. ASSUME NEW i \in 1..Len(Buffer(n)) PROVE Buffer(n)[i] = Pending[i]
  <2>1. CASE i <= Len(readbuf)
    BY <1>1, <1>2, <2>1 DEF Buffer, Pending
  <2>2. CASE Len(readbuf) < i
    <3>1. i - Len(readbuf) \in 1..n
      BY <1>2, <2>2
    <3>2. Buffer(n)[i] = SubSeq(outbox, 1, n)[i - Len(readbuf)]
      BY <1>1, <1>2, <2>2 DEF Buffer
    <3>3. Pending[i] = outbox[i - Len(readbuf)]
      BY <1>2, <2>2, <3>1 DEF Pending
    <3> QED
      BY <1>1, <3>1, <3>2, <3>3
  <2> QED
    BY <1>2, <2>1, <2>2
<1> QED
  BY <1>2, <1>3, <1>4

\* A buffer that is handled to its end.
LEMMA TakesAll ==
  ASSUME readbuf \in Seq(Records), outbox \in Seq(Records),
         NEW n \in 0..Len(outbox), Chunk(n), readbuf' = <<>>
  PROVE  Drops(Pending, Pending', Len(Buffer(n))) /\ Begins(Pending, Buffer(n), Len(Buffer(n)))
<1>1. /\ Buffer(n) \in Seq(Records) /\ Len(Buffer(n)) = Len(readbuf) + n
      /\ \A i \in 1..Len(Buffer(n)) : Buffer(n)[i] = Pending[i]
      /\ Pending \in Seq(Records) /\ Len(Pending) = Len(readbuf) + Len(outbox)
  BY BufferProperties
<1>2. /\ outbox' \in Seq(Records) /\ Len(outbox') = Len(outbox) - n
      /\ \A i \in 1..Len(outbox') : outbox'[i] = outbox[i + n]
  BY DEF Chunk
<1>3. Pending' = outbox'
  BY <1>2, ConcatEmptySeq DEF Pending
<1>4. ASSUME NEW i \in 1..Len(Pending') PROVE Pending'[i] = Pending[i + Len(Buffer(n))]
  <2>1. Pending'[i] = outbox[i + n]
    BY <1>2, <1>3
  <2>2. i + Len(Buffer(n)) \in Len(readbuf) + 1..Len(Pending)
    BY <1>1, <1>2, <1>3
  <2>3. Pending[i + Len(Buffer(n))] = outbox[(i + Len(Buffer(n))) - Len(readbuf)]
    BY <1>1, <2>2 DEF Pending
  <2>4. (i + Len(Buffer(n))) - Len(readbuf) = i + n
    BY <1>1, <1>2, <1>3
  <2> QED
    BY <2>1, <2>3, <2>4
<1> QED
  BY <1>1, <1>2, <1>3, <1>4 DEF Drops, Begins

\* Places of the stream, before and after its first k records are handled.
LEMMA Shifted ==
  ASSUME NEW i \in Nat, NEW k \in Nat, NEW n \in Nat, NEW left \in Nat, NEW had \in Nat, NEW out \in Nat,
         (i - left) + n = (i + k) - had, i - left >= 1, i - left <= out - n
  PROVE  i + k \in had + 1..had + out
  OBVIOUS

\* A buffer that is handled up to its answer.
LEMMA TakesAnswer ==
  ASSUME readbuf \in Seq(Records), outbox \in Seq(Records),
         NEW n \in 0..Len(outbox), Chunk(n), AnswersIn(Buffer(n)) # {},
         readbuf' = Split(Buffer(n)).left
  PROVE  LET k == At(Buffer(n)) IN
         /\ Drops(Pending, Pending', k) /\ Begins(Pending, Split(Buffer(n)).handled, k)
         /\ k \in AnswersIn(Pending) /\ Buffer(n)[k] = Pending[k]
         /\ \A i \in AnswersIn(Pending) : k <= i
<1> DEFINE buf == Buffer(n)
           k == At(Buffer(n))
<1>1. /\ buf \in Seq(Records) /\ Len(buf) = Len(readbuf) + n
      /\ \A i \in 1..Len(buf) : buf[i] = Pending[i]
      /\ Pending \in Seq(Records) /\ Len(Pending) = Len(readbuf) + Len(outbox)
  BY BufferProperties
<1>2. /\ outbox' \in Seq(Records) /\ Len(outbox') = Len(outbox) - n
      /\ \A i \in 1..Len(outbox') : outbox'[i] = outbox[i + n]
  BY DEF Chunk
<1>3. k \in 1..Len(buf) /\ IsAnswer(buf[k]) /\ \A i \in AnswersIn(buf) : k <= i
  BY <1>1, AtProperties DEF AnswersIn
<1>4. /\ readbuf' \in Seq(Records) /\ Len(readbuf') = Len(buf) - k
      /\ \A i \in 1..Len(readbuf') : readbuf'[i] = buf[i + k]
  <2>1. readbuf' = SubSeq(buf, k + 1, Len(buf))
    BY DEF Split
  <2> HIDE DEF buf, k
  <2> QED
    BY <1>1, <1>3, <2>1
<1>5. /\ Split(buf).handled \in Seq(Records) /\ Len(Split(buf).handled) = k - 1
      /\ \A i \in 1..k - 1 : Split(buf).handled[i] = buf[i]
  <2>1. Split(buf).handled = SubSeq(buf, 1, k - 1)
    BY DEF Split
  <2> HIDE DEF buf, k
  <2> QED
    BY <1>1, <1>3, <2>1
<1>6. k \in AnswersIn(Pending) /\ buf[k] = Pending[k] /\ \A i \in AnswersIn(Pending) : k <= i
  <2> HIDE DEF buf, k
  <2>1. \A i \in AnswersIn(Pending) : i <= Len(buf) => i \in AnswersIn(buf)
    BY <1>1 DEF AnswersIn
  <2>2. AnswersIn(Pending) \in SUBSET (1..Len(Pending)) /\ k \in AnswersIn(Pending)
    BY <1>1, <1>3 DEF AnswersIn
  <2>3. ASSUME NEW i \in AnswersIn(Pending) PROVE k <= i
    <3>1. i \in Nat /\ Len(buf) \in Nat /\ k <= Len(buf)
      BY <1>1, <1>3, <2>2
    <3> QED
      BY <1>3, <2>1, <3>1
  <2> QED
    BY <1>1, <1>3, <2>2, <2>3
<1> HIDE DEF buf, k
<1>7. /\ Pending' \in Seq(Records) /\ Len(Pending') = Len(readbuf') + Len(outbox')
      /\ \A i \in 1..Len(readbuf') + Len(outbox') :
            Pending'[i] = IF i <= Len(readbuf') THEN readbuf'[i] ELSE outbox'[i - Len(readbuf')]
  <2>1. Pending' = readbuf' \o outbox' /\ readbuf' \in Seq(Records) /\ outbox' \in Seq(Records)
    BY <1>2, <1>4 DEF Pending
  <2> QED
    BY <2>1, ConcatProperties
<1>8. ASSUME NEW i \in 1..Len(Pending') PROVE Pending'[i] = Pending[i + k]
  <2>1. CASE i <= Len(readbuf')
    <3>1. Pending'[i] = readbuf'[i]
      BY <1>7, <2>1
    <3>2. Len(readbuf') \in Nat /\ Len(outbox') \in Nat /\ Len(buf) \in Nat /\ k \in Nat
      BY <1>1, <1>2, <1>3, <1>4
    <3>3. i \in 1..Len(readbuf')
      BY <1>7, <2>1, <3>2
    <3>4. readbuf'[i] = buf[i + k]
      BY <1>4, <3>3
    <3>5. Len(readbuf') = Len(buf) - k
      BY <1>4
    <3>6. i + k \in 1..Len(buf)
      BY <3>2, <3>3, <3>5
    <3>7. buf[i + k] = Pending[i + k]
      BY <1>1, <3>6
    <3> QED
      BY <3>1, <3>4, <3>7
  <2>2. CASE Len(readbuf') < i
    <3>0. Len(readbuf') \in Nat /\ Len(outbox') \in Nat
      BY <1>2, <1>4
    <3>1. i - Len(readbuf') \in 1..Len(outbox')
      BY <1>7, <2>2, <3>0
    <3>2. Pending'[i] = outbox'[i - Len(readbuf')]
      BY <1>7, <2>2, <3>0
    <3>3. outbox'[i - Len(readbuf')] = outbox[(i - Len(readbuf')) + n]
      BY <1>2, <3>1
    <3>4. (i - Len(readbuf')) + n = (i + k) - Len(readbuf)
      BY <1>1, <1>3, <1>4, <3>1
    <3>5. i + k \in Len(readbuf) + 1..Len(Pending)
      <4>1. Len(outbox) \in Nat /\ Len(readbuf) \in Nat /\ n \in Nat
        OBVIOUS
      <4>2. Len(Pending) = Len(readbuf) + Len(outbox) /\ Len(outbox') = Len(outbox) - n
        BY <1>1, <1>2
      <4>3. k \in Nat /\ i \in Nat
        BY <1>1, <1>3, <1>7, <3>0
      <4>4. i - Len(readbuf') >= 1 /\ i - Len(readbuf') <= Len(outbox) - n
        BY <3>1, <4>2
      <4>5. i + k \in Len(readbuf) + 1..Len(readbuf) + Len(outbox)
        BY <3>0, <3>4, <4>1, <4>3, <4>4, Shifted
      <4> QED
        BY <4>2, <4>5
    <3>6. Pending[i + k] = outbox[(i + k) - Len(readbuf)]
      BY <1>1, <3>5 DEF Pending
    <3> QED
      BY <3>2, <3>3, <3>4, <3>6
  <2> QED
    BY <1>4, <1>7, <2>1, <2>2
<1>9. Drops(Pending, Pending', k)
  BY <1>1, <1>2, <1>3, <1>4, <1>7, <1>8 DEF Drops
<1>10. Begins(Pending, Split(buf).handled, k)
  BY <1>1, <1>3, <1>5 DEF Begins, IsAnswer
<1> QED
  BY <1>6, <1>9, <1>10 DEF buf, k

LEMMA TakesNothing ==
  ASSUME readbuf \in Seq(Records), outbox \in Seq(Records), UNCHANGED <<readbuf, outbox>>
  PROVE  Drops(Pending, Pending', 0) /\ Begins(Pending, <<>>, 0)
  BY DEF Pending, Drops, Begins

LEMMA TakesBuffered ==
  ASSUME readbuf \in Seq(Records), outbox \in Seq(Records), outbox' = outbox, readbuf' = <<>>
  PROVE  Drops(Pending, Pending', Len(readbuf)) /\ Begins(Pending, readbuf, Len(readbuf))
<1>1. Pending' = outbox
  BY ConcatEmptySeq DEF Pending
<1>2. \A i \in 1..Len(outbox) : outbox[i] = Pending[i + Len(readbuf)]
  BY DEF Pending
<1>3. \A i \in 1..Len(readbuf) : readbuf[i] = Pending[i]
  BY DEF Pending
<1>4. Pending \in Seq(Records) /\ Len(Pending) = Len(readbuf) + Len(outbox)
  BY DEF Pending
<1> QED
  BY <1>1, <1>2, <1>3, <1>4 DEF Drops, Begins

----------------------------------------------------------------------------
(* Types *)

\* No record tells of a stop the program has not made.
Bounded == \A i \in 1..Len(Pending) : Pending[i].stop <= stops

Typed == TypeOK /\ Bounded

GdTypeOK ==
    /\ inbox \in Seq(Commands) /\ state \in GdbStates
    /\ where \in 0..MaxStops /\ panes \in 0..MaxStops /\ view \in 0..MaxStops
    /\ token \in Nat /\ asked \in [token : Nat, kind : Kinds, then : {"key", "poll"}]
    /\ pc \in {"poll", "wait", "key", "reap", "done", "killed"}

LEMMA RecordFields ==
  ASSUME NEW r \in Records
  PROVE  /\ r.kind \in {"running", "stopped", "exited", "result"} /\ r.stop \in Nat
         /\ r.kind = "result" => r.token \in Nat /\ r.ok \in BOOLEAN
  BY DEF Records

LEMMA AfterTyped ==
  ASSUME NEW s \in GdbStates, NEW p \in Seq(Records)
  PROVE  After(s, p) \in GdbStates
<1>1. CASE Told(p) = {}
  BY <1>1, AfterNone
<1>2. CASE Told(p) # {}
  <2>1. PICK i \in Told(p) : After(s, p) = p[i].kind
    BY <1>2, AfterTold
  <2>2. p[i] \in Records /\ p[i].kind # "result"
    BY DEF Told
  <2> QED
    BY <2>1, <2>2, RecordFields DEF GdbStates
<1> QED
  BY <1>1, <1>2

LEMMA PendingTyped == TypeOK => Pending \in Seq(Records)
  BY DEF TypeOK, Pending

LEMMA BeginsBounded ==
  ASSUME Typed, NEW h, NEW k, Begins(Pending, h, k)
  PROVE  /\ \A i \in 1..Len(h) : h[i].stop \in 0..MaxStops
         /\ StateAfter(h) \in GdbStates /\ WhereAfter(h) \in 0..MaxStops
<1>1. h \in Seq(Records) /\ Pending \in Seq(Records)
  BY DEF Begins
<1>2. ASSUME NEW i \in 1..Len(h) PROVE h[i].stop \in 0..MaxStops
  <2>1. i \in 1..Len(Pending) /\ h[i] = Pending[i] /\ h[i] \in Records
    BY <1>1 DEF Begins
  <2>2. h[i].stop <= stops /\ stops \in 0..MaxStops /\ MaxStops \in Nat
    BY <2>1, BoundsAssumption DEF Typed, Bounded, TypeOK
  <2>3. h[i].stop \in Nat
    BY <2>1, RecordFields
  <2> QED
    BY <2>2, <2>3
<1>3. StateAfter(h) \in GdbStates
  BY <1>1, AfterTyped DEF StateAfter, After, Typed, TypeOK
<1>4. WhereAfter(h) \in 0..MaxStops
  <2>1. CASE StopsIn(h) = {}
    BY <2>1 DEF WhereAfter, Typed, TypeOK
  <2>2. CASE StopsIn(h) # {}
    <3>1. StopsIn(h) \in SUBSET (1..Len(h)) /\ Len(h) \in Nat
      BY <1>1 DEF StopsIn
    <3>2. Max(StopsIn(h)) \in 1..Len(h)
      BY <2>2, <3>1, MaxProperties
    <3> QED
      BY <1>2, <2>2, <3>2 DEF WhereAfter
  <2> QED
    BY <2>1, <2>2
<1> QED
  BY <1>2, <1>3, <1>4

LEMMA BoundedDrops ==
  ASSUME Bounded, NEW k, Drops(Pending, Pending', k), stops' = stops
  PROVE  Bounded'
<1>1. ASSUME NEW i \in 1..Len(Pending') PROVE Pending'[i].stop <= stops
  <2>1. i + k \in 1..Len(Pending) /\ Pending'[i] = Pending[i + k]
    BY DEF Drops
  <2> QED
    BY <2>1 DEF Bounded
<1> QED
  BY <1>1 DEF Bounded

LEMMA BoundedAppend ==
  ASSUME Typed, NEW r \in Records, Pending' = Append(Pending, r), r.stop <= stops',
         stops' \in Nat, stops <= stops'
  PROVE  Bounded'
<1>1. Pending \in Seq(Records) /\ Len(Pending) \in Nat
  BY PendingTyped DEF Typed
<1>0. /\ Len(Pending') = Len(Pending) + 1 /\ Pending'[Len(Pending) + 1] = r
      /\ \A i \in 1..Len(Pending) : Pending'[i] = Pending[i] /\ Pending[i] \in Records
  BY <1>1, AppendProperties
<1>2. ASSUME NEW i \in 1..Len(Pending') PROVE Pending'[i].stop <= stops'
  <2>1. CASE i = Len(Pending) + 1
    BY <1>0, <2>1
  <2>2. CASE i \in 1..Len(Pending)
    <3>1. Pending'[i] = Pending[i] /\ Pending[i] \in Records
      BY <1>0, <2>2
    <3>2. Pending[i].stop <= stops
      BY <2>2 DEF Typed, Bounded
    <3>3. stops \in Nat
      BY DEF Typed, TypeOK
    <3>4. Pending[i].stop \in Nat
      BY <3>1, RecordFields
    <3> QED
      BY <3>1, <3>2, <3>3, <3>4
  <2> QED
    BY <1>0, <1>1, <2>1, <2>2
<1> QED
  BY <1>2 DEF Bounded

LEMMA SendTyped ==
  ASSUME TypeOK, NEW kind \in Kinds, NEW then \in {"key", "poll"}, Send(kind, then)
  PROVE  /\ token' \in Nat /\ inbox' \in Seq(Commands) /\ pc' \in {"wait", "killed"}
         /\ asked' \in [token : Nat, kind : Kinds, then : {"key", "poll"}]
<1>1. CASE alive
  <2>1. [token |-> token + 1, kind |-> kind] \in Commands
    BY DEF TypeOK, Commands
  <2>2. /\ inbox' = Append(inbox, [token |-> token + 1, kind |-> kind])
        /\ token' = token + 1 /\ pc' = "wait"
        /\ asked' = [token |-> token + 1, kind |-> kind, then |-> then]
    BY <1>1 DEF Send
  <2>3. inbox' \in Seq(Commands) /\ token' \in Nat
    BY <2>1, <2>2 DEF TypeOK
  <2> QED
    BY <2>2, <2>3 DEF TypeOK
<1>2. CASE ~alive
  BY <1>2 DEF Send, TypeOK
<1> QED
  BY <1>1, <1>2

LEMMA HandleTyped ==
  ASSUME Typed, NEW h, NEW k, Begins(Pending, h, k), Handle(h)
  PROVE  GdTypeOK' /\ before' \in [state : GdbStates, where : 0..MaxStops]
<1>1. StateAfter(h) \in GdbStates /\ WhereAfter(h) \in 0..MaxStops
  BY BeginsBounded
<1>2. state' = StateAfter(h) /\ before' = Here /\ 0 \in 0..MaxStops
  BY BoundsAssumption DEF Handle
<1>3. CASE Told(h) # {} /\ StateAfter(h) = "stopped"
  <2>1. Send("frame", "key") /\ where' = 0 /\ UNCHANGED <<panes, view>>
    BY <1>3 DEF Handle
  <2> QED
    BY <1>1, <1>2, <2>1, SendTyped DEF Typed, TypeOK, GdTypeOK, Here, Kinds
<1>4. CASE ~(Told(h) # {} /\ StateAfter(h) = "stopped")
  <2>1. /\ where' = WhereAfter(h) /\ ToKey(Here, StateAfter(h), WhereAfter(h))
        /\ UNCHANGED <<inbox, token, asked, panes>>
    BY <1>4 DEF Handle
  <2> QED
    BY <1>1, <1>2, <2>1 DEF Typed, TypeOK, GdTypeOK, Here, ToKey
<1> QED
  BY <1>3, <1>4

LEMMA DoneTyped ==
  ASSUME TypeOK, NEW ok, NEW stop \in 0..MaxStops, NEW now \in GdbStates,
         NEW place \in 0..MaxStops, Done(ok, stop, now, place)
  PROVE  GdTypeOK'
<1> USE DEF TypeOK, GdTypeOK, Kinds
<1>1. CASE ExecDone(ok, now, place)
  BY <1>1 DEF ExecDone, GdbStates
<1>2. CASE AskDone(now, place)
  BY <1>2 DEF AskDone
<1>3. CASE SelectDone(ok, now, place)
  <2>1. CASE ok
    BY <1>3, <2>1, SendTyped, BoundsAssumption DEF SelectDone
  <2>2. CASE ~ok
    BY <1>3, <2>2 DEF SelectDone
  <2> QED
    BY <2>1, <2>2
<1>4. CASE FrameDone(ok, stop, now, place)
  BY <1>4, SendTyped DEF FrameDone
<1>5. CASE RestDone(ok, stop, now, place)
  BY <1>5, BoundsAssumption DEF RestDone, ToKey
<1>6. CASE QuitDone(now, place)
  BY <1>6 DEF QuitDone
<1> QED
  BY <1>1, <1>2, <1>3, <1>4, <1>5, <1>6 DEF Done

LEMMA TypedInit == Init => Typed
<1> SUFFICES ASSUME Init PROVE Typed
  OBVIOUS
<1>1. TypeOK
  BY BoundsAssumption DEF Init, TypeOK, GdbStates, Kinds
<1>2. Bounded
  BY DEF Init, Bounded, Pending
<1> QED
  BY <1>1, <1>2 DEF Typed

\* The steps of gd leave GDB alone, except for the commands and what is read.
LEMMA GdTyped == Typed /\ Gd /\ UNCHANGED seen => Typed'
<1> SUFFICES ASSUME Typed, Gd, UNCHANGED seen PROVE Typed'
  OBVIOUS
<1>1. readbuf \in Seq(Records) /\ outbox \in Seq(Records)
  BY DEF Typed, TypeOK
<1>2. CASE PollBuffered
  <2>1. /\ Handle(readbuf) /\ readbuf' = <<>>
        /\ UNCHANGED <<alive, target, stops, outbox, keys>>
    BY <1>2 DEF PollBuffered
  <2>2. Drops(Pending, Pending', Len(readbuf)) /\ Begins(Pending, readbuf, Len(readbuf))
    BY <1>1, <2>1, TakesBuffered
  <2>3. GdTypeOK' /\ before' \in [state : GdbStates, where : 0..MaxStops]
    BY <2>1, <2>2, HandleTyped
  <2>4. Bounded'
    BY <2>1, <2>2, BoundedDrops DEF Typed
  <2> QED
    BY <2>1, <2>3, <2>4 DEF Typed, TypeOK, GdTypeOK
<1>3. CASE PollReads
  <2>1. PICK n \in 1..Len(outbox) : Chunk(n) /\ Handle(Buffer(n))
    BY <1>3 DEF PollReads
  <2>2. readbuf' = <<>> /\ UNCHANGED <<alive, target, stops, keys>>
    BY <1>3 DEF PollReads
  <2>3. /\ Drops(Pending, Pending', Len(Buffer(n)))
        /\ Begins(Pending, Buffer(n), Len(Buffer(n)))
    BY <1>1, <2>1, <2>2, TakesAll
  <2>4. GdTypeOK' /\ before' \in [state : GdbStates, where : 0..MaxStops]
    BY <2>1, <2>3, HandleTyped
  <2>5. Bounded'
    BY <2>2, <2>3, BoundedDrops DEF Typed
  <2>6. outbox' \in Seq(Records)
    BY <1>1, <2>1 DEF Chunk
  <2> QED
    BY <2>2, <2>4, <2>5, <2>6 DEF Typed, TypeOK, GdTypeOK
<1>4. CASE PollNothing \/ Reap \/ OtherKey
  <2>1. TypeOK'
    <3>1. CASE PollNothing
      BY <3>1 DEF Typed, TypeOK, PollNothing, gdbVars, shownVars, Here, GdbStates
    <3>2. CASE Reap
      BY <3>2 DEF Typed, TypeOK, Reap, shownVars
    <3>3. CASE OtherKey
      BY <3>3 DEF Typed, TypeOK, OtherKey, gdbVars, shownVars
    <3> QED
      BY <1>4, <3>1, <3>2, <3>3
  <2>2. Bounded'
    BY <1>4 DEF Typed, Bounded, Pending, PollNothing, Reap, OtherKey, gdbVars
  <2> QED
    BY <2>1, <2>2 DEF Typed
<1>5. CASE WaitReads
  <2>1. PICK n \in 1..Len(outbox) :
           Chunk(n) /\ state' = StateAfter(Buffer(n)) /\ where' = WhereAfter(Buffer(n))
    BY <1>5 DEF WaitReads
  <2>2. /\ readbuf' = <<>>
        /\ UNCHANGED <<alive, target, stops, inbox, panes, view, token, asked, before, pc, keys>>
    BY <1>5 DEF WaitReads
  <2>3. /\ Drops(Pending, Pending', Len(Buffer(n)))
        /\ Begins(Pending, Buffer(n), Len(Buffer(n)))
    BY <1>1, <2>1, <2>2, TakesAll
  <2>4. state' \in GdbStates /\ where' \in 0..MaxStops
    BY <2>1, <2>3, BeginsBounded
  <2>5. Bounded'
    BY <2>2, <2>3, BoundedDrops DEF Typed
  <2>6. outbox' \in Seq(Records)
    BY <1>1, <2>1 DEF Chunk
  <2> QED
    BY <2>2, <2>4, <2>5, <2>6 DEF Typed, TypeOK
<1>6. CASE Answered
  <2>1. PICK n \in 1..Len(outbox) :
           /\ AnswersIn(Buffer(n)) # {} /\ Chunk(n)
           /\ readbuf' = Split(Buffer(n)).left
           /\ Done(Buffer(n)[At(Buffer(n))].ok, Buffer(n)[At(Buffer(n))].stop,
                   StateAfter(Split(Buffer(n)).handled), WhereAfter(Split(Buffer(n)).handled))
    BY <1>6 DEF Answered
  <2>2. UNCHANGED <<alive, target, stops, before, keys>>
    BY <1>6 DEF Answered
  <2> DEFINE k == At(Buffer(n))
             h == Split(Buffer(n)).handled
  <2>3. /\ Drops(Pending, Pending', k) /\ Begins(Pending, h, k)
        /\ k \in AnswersIn(Pending) /\ Buffer(n)[k] = Pending[k]
    BY <1>1, <2>1, TakesAnswer
  <2> HIDE DEF h
  <2>4. StateAfter(h) \in GdbStates /\ WhereAfter(h) \in 0..MaxStops
    BY <2>3, BeginsBounded
  <2>5. Pending[k].stop \in 0..MaxStops
    <3>1. k \in 1..Len(Pending) /\ Pending[k] \in Records
      BY <2>3 DEF AnswersIn, Drops
    <3> QED
      BY <3>1, RecordFields, BoundsAssumption DEF Typed, Bounded, TypeOK
  <2>6. GdTypeOK'
    BY <2>1, <2>3, <2>4, <2>5, DoneTyped DEF Typed, h
  <2>7. Bounded'
    BY <2>2, <2>3, BoundedDrops DEF Typed
  <2>8. outbox' \in Seq(Records)
    BY <1>1, <2>1 DEF Chunk
  <2>9. readbuf' \in Seq(Records)
    <3>1. Buffer(n) \in Seq(Records)
      <4>1. n \in 0..Len(outbox)
        BY <1>1
      <4> QED
        BY <1>1, <4>1, BufferProperties
    <3>2. k \in 1..Len(Buffer(n))
      BY <2>1, <3>1, AtProperties DEF AnswersIn
    <3>3. readbuf' = SubSeq(Buffer(n), k + 1, Len(Buffer(n)))
      BY <2>1 DEF Split
    <3> HIDE DEF k
    <3> QED
      BY <3>1, <3>2, <3>3
  <2> QED
    BY <2>2, <2>6, <2>7, <2>8, <2>9 DEF Typed, TypeOK, GdTypeOK
<1>7. CASE GivesUp
  <2>1. Done(FALSE, 0, state, where)
        /\ UNCHANGED <<alive, target, stops, outbox, readbuf, before, keys>>
    BY <1>7 DEF GivesUp
  <2>2. GdTypeOK'
    <3>1. 0 \in 0..MaxStops /\ state \in GdbStates /\ where \in 0..MaxStops /\ TypeOK
      BY BoundsAssumption DEF Typed, TypeOK
    <3> QED
      BY <2>1, <3>1, DoneTyped
  <2>3. Bounded'
    BY <2>1 DEF Typed, Bounded, Pending
  <2> QED
    BY <2>1, <2>2, <2>3 DEF Typed, TypeOK, GdTypeOK
<1>8. ASSUME NEW kind \in Kinds, Press(kind) PROVE Typed'
  <2>1. Send(kind, "poll") /\ keys' \in 0..MaxKeys
    BY <1>8, BoundsAssumption DEF Press, Typed, TypeOK
  <2>2. UNCHANGED <<alive, target, stops, outbox, state, shownVars, readbuf, before>>
    BY <1>8 DEF Press
  <2>3. Bounded'
    BY <2>2 DEF Typed, Bounded, Pending
  <2>4. /\ token' \in Nat /\ inbox' \in Seq(Commands) /\ pc' \in {"wait", "killed"}
        /\ asked' \in [token : Nat, kind : Kinds, then : {"key", "poll"}]
    BY <2>1, SendTyped DEF Typed
  <2> QED
    BY <2>1, <2>2, <2>3, <2>4 DEF Typed, TypeOK, shownVars
<1>9. CASE Run \/ Resume \/ Ask \/ Select
  BY <1>8, <1>9 DEF Run, Resume, Ask, Select, Kinds, Execs
<1>10. CASE Quit
  <2>1. UNCHANGED <<alive, target, stops, outbox, state, shownVars, readbuf, before, keys>>
    BY <1>10 DEF Quit
  <2>2. Bounded'
    BY <2>1 DEF Typed, Bounded, Pending
  <2>3. Send("quit", "poll")
    BY <1>10 DEF Quit
  <2>4. /\ token' \in Nat /\ inbox' \in Seq(Commands) /\ pc' \in {"wait", "killed"}
        /\ asked' \in [token : Nat, kind : Kinds, then : {"key", "poll"}]
    BY <2>3, SendTyped DEF Typed, Kinds
  <2> QED
    BY <2>1, <2>2, <2>4 DEF Typed, TypeOK, shownVars
<1> QED
  BY <1>2, <1>3, <1>4, <1>5, <1>6, <1>7, <1>9, <1>10 DEF Gd, Poll, Wait, Key

LEMMA OneRecordTyped ==
  ASSUME Typed, NEW r \in Records, outbox' = Append(outbox, r), r.stop <= stops',
         stops' \in 0..MaxStops, stops <= stops', inbox' \in Seq(Commands),
         alive' \in BOOLEAN, target' \in {"none", "running", "stopped"},
         UNCHANGED <<gdVars, seen>>
  PROVE  Typed' /\ Pending' = Append(Pending, r)
<1>1. outbox' \in Seq(Records)
  BY DEF Typed, TypeOK
<1>2. Pending' = Append(Pending, r)
  BY PendingAppend DEF Typed, TypeOK, Pending, gdVars
<1>3. Bounded'
  BY <1>2, BoundedAppend, BoundsAssumption
<1> QED
  BY <1>1, <1>2, <1>3 DEF Typed, TypeOK, gdVars, shownVars

----------------------------------------------------------------------------
(* The invariant *)

AnswersTo(t, p) == { i \in 1..Len(p) : p[i].kind = "result" /\ p[i].token = t }

\* The state gd will have heard of is the program's.
Agrees ==
    /\ target = "running" <=> Heard = "running"
    /\ target = "stopped" => Heard = "stopped"
    /\ "signals" \notin seen => (Heard = "stopped" => target = "stopped")

\* The request gd waits for is the last, and its token tells it from all earlier ones.
Tokens ==
    /\ \A i \in 1..Len(inbox) : inbox[i].token <= token
    /\ \A i \in 1..Len(Pending) : Pending[i].kind = "result" => Pending[i].token <= token
    /\ pc = "wait" => asked.token = token
    /\ pc = "wait" =>
          \A i \in 1..Len(inbox) :
              IF i = Len(inbox) THEN inbox[i].token = token /\ inbox[i].kind = asked.kind
              ELSE inbox[i].token < token

\* gd waits for the program to be run or resumed.
Starting == pc = "wait" /\ asked.kind \in Execs

\* An answer that says so is followed by the record that says so too.
Acked ==
    Starting =>
        \A i \in AnswersTo(asked.token, Pending) :
            Pending[i].ok => \E j \in Told(Pending) : i < j

Unread == pc = "wait" => AnswersTo(asked.token, readbuf) = {}

Idle == target # "running" /\ Told(Pending) = {}
ExecsIn == { i \in 1..Len(inbox) : inbox[i].kind \in Execs }

\* Once the program stands still nothing more is told.
Latest ==
    \A i \in Told(Pending) :
        Pending[i].kind # "running" => target # "running" /\ \A j \in Told(Pending) : j <= i

\* If GDB runs and resumes the program in time: only one request to do so is ever under
\* way, and while gd takes the program to stand still, it does, and nothing is untold.
Prompt ==
    /\ \A i \in ExecsIn : Starting /\ i = Len(inbox)
    /\ state # "running" /\ ~Starting => Idle
    /\ Starting => state # "running"
    /\ Starting /\ ExecsIn # {} =>
          Idle /\ AnswersTo(asked.token, Pending) = {} /\ (asked.kind = "run" => target = "none")
    /\ Starting /\ ExecsIn = {} => AnswersTo(asked.token, Pending) # {}
    /\ Starting => \A i \in AnswersTo(asked.token, Pending) :
                       /\ \A j \in Told(Pending) : i < j
                       /\ ~Pending[i].ok => Idle /\ target # "stopped"
    /\ Latest

Refreshing == pc = "wait" /\ asked.kind \in {"frame", "rest"}
Leaving == pc = "reap" \/ (pc = "wait" /\ asked.kind = "quit")

\* What is shown of stop s, or nothing, may be shown now.
Now(s) == IF "slow" \in seen THEN s \in {0, stops} ELSE s = stops

\* If moreover no key makes a request while the program runs: at a stop that gd knows of
\* the panes are of that stop, or being refreshed.
Shown ==
    /\ pc = "wait" /\ state = "running" => asked.kind = "quit"
    /\ Refreshing /\ asked.then = "key" => before.state # "stopped"
    /\ state = "stopped" /\ target = "stopped" /\ ~Starting /\ ~Leaving =>
          IF Refreshing
          THEN /\ IF asked.kind = "frame" THEN where = 0 ELSE Now(where)
               /\ \A i \in AnswersTo(asked.token, Pending) :
                     Pending[i].ok /\ Pending[i].stop = stops
          ELSE Now(where) /\ Now(panes) /\ Now(view)

Core ==
    /\ Agrees /\ Tokens /\ Acked /\ Unread
    /\ "slowstart" \notin seen => Prompt
    /\ seen \cap {"asking", "slowstart"} = {} => Shown

GdbInv == Typed /\ (alive => Core)

----------------------------------------------------------------------------
(* What is pending before and after a step *)

LEMMA AnswersSplit ==
  ASSUME NEW t, NEW p, NEW q, NEW k, Drops(p, q, k)
  PROVE  /\ \A i \in AnswersTo(t, q) : i + k \in AnswersTo(t, p) /\ q[i] = p[i + k]
         /\ \A i \in AnswersTo(t, p) : k < i => i - k \in AnswersTo(t, q)
<1>1. /\ p \in Seq(Records) /\ q \in Seq(Records) /\ k \in 0..Len(p) /\ Len(q) = Len(p) - k
      /\ \A i \in 1..Len(q) : q[i] = p[i + k]
  BY DEF Drops
<1>2. ASSUME NEW i \in AnswersTo(t, q) PROVE i + k \in AnswersTo(t, p) /\ q[i] = p[i + k]
  <2>1. i \in 1..Len(q) /\ q[i].kind = "result" /\ q[i].token = t
    BY DEF AnswersTo
  <2>2. q[i] = p[i + k] /\ i + k \in 1..Len(p)
    BY <1>1, <2>1
  <2> QED
    BY <2>1, <2>2 DEF AnswersTo
<1>3. ASSUME NEW i \in AnswersTo(t, p), k < i PROVE i - k \in AnswersTo(t, q)
  <2>1. i \in 1..Len(p) /\ p[i].kind = "result" /\ p[i].token = t
    BY DEF AnswersTo
  <2>2. i - k \in 1..Len(q) /\ (i - k) + k = i
    BY <1>1, <1>3, <2>1
  <2>3. q[i - k] = p[i]
    BY <1>1, <2>2
  <2> QED
    BY <2>1, <2>2, <2>3 DEF AnswersTo
<1> QED
  BY <1>2, <1>3

LEMMA AnswersAppend ==
  ASSUME NEW t, NEW p \in Seq(Records), NEW r \in Records
  PROVE  AnswersTo(t, Append(p, r)) =
           IF r.kind = "result" /\ r.token = t THEN AnswersTo(t, p) \cup {Len(p) + 1}
           ELSE AnswersTo(t, p)
<1> DEFINE q == Append(p, r)
<1>1. Len(p) \in Nat /\ Len(q) = Len(p) + 1 /\ q[Len(p) + 1] = r
      /\ \A i \in 1..Len(p) : q[i] = p[i]
  OBVIOUS
<1> HIDE DEF q
<1>2. \A i \in 1..Len(q) : i \in 1..Len(p) \/ i = Len(p) + 1
  BY <1>1
<1>3. \A i : i \in 1..Len(p) \/ i = Len(p) + 1 => i \in 1..Len(q)
  BY <1>1
<1>4. Len(p) + 1 \notin 1..Len(p)
  BY <1>1
<1>5. \A i : i \in AnswersTo(t, q) <=>
           i \in AnswersTo(t, p) \/ (i = Len(p) + 1 /\ r.kind = "result" /\ r.token = t)
  BY <1>1, <1>2, <1>3, <1>4 DEF AnswersTo
<1>6. AnswersTo(t, q) =
        IF r.kind = "result" /\ r.token = t THEN AnswersTo(t, p) \cup {Len(p) + 1}
        ELSE AnswersTo(t, p)
  BY <1>5
<1> QED
  BY <1>6 DEF q

LEMMA CommandFields == \A c \in Commands : c.token \in Nat /\ c.kind \in Kinds
  BY DEF Commands

LEMMA HeardKept ==
  ASSUME NEW h, NEW k, Drops(Pending, Pending', k), Begins(Pending, h, k),
         state' = StateAfter(h)
  PROVE  Heard' = Heard
<1>1. state' = After(state, h)
  BY DEF StateAfter, After
<1>2. Heard' = After(state', Pending')
  BY DEF Heard
<1> QED
  BY <1>1, <1>2, AfterSplit DEF Heard

\* Nothing pending is an answer to a request that is made now.
LEMMA NoAnswers ==
  ASSUME Tokens, TypeOK, NEW k, Drops(Pending, Pending', k)
  PROVE  AnswersTo(token + 1, Pending') = {}
<1>1. ASSUME NEW i \in AnswersTo(token + 1, Pending') PROVE FALSE
  <2>1. i + k \in AnswersTo(token + 1, Pending)
    BY AnswersSplit
  <2>2. i + k \in 1..Len(Pending) /\ Pending[i + k].kind = "result"
        /\ Pending[i + k].token = token + 1
    BY <2>1 DEF AnswersTo
  <2>3. token + 1 <= token /\ token \in Nat
    BY <2>2 DEF Tokens, TypeOK
  <2> QED
    BY <2>3
<1> QED
  BY <1>1

\* What is in readbuf is pending.
LEMMA Buffered ==
  ASSUME readbuf \in Seq(Records), outbox \in Seq(Records), NEW t,
         AnswersTo(t, Pending) = {}
  PROVE  AnswersTo(t, readbuf) = {}
<1>1. \A i \in 1..Len(readbuf) : i \in 1..Len(Pending) /\ Pending[i] = readbuf[i]
  BY DEF Pending
<1> QED
  BY <1>1 DEF AnswersTo

LEMMA BufferedPrime ==
  ASSUME TypeOK', NEW t, AnswersTo(t, Pending') = {}
  PROVE  AnswersTo(t, readbuf') = {}
<1>1. readbuf' \in Seq(Records) /\ outbox' \in Seq(Records) /\ Pending' = readbuf' \o outbox'
  BY DEF TypeOK, Pending
<1>2. \A i \in 1..Len(readbuf') : i \in 1..Len(Pending') /\ Pending'[i] = readbuf'[i]
  BY <1>1
<1> QED
  BY <1>2 DEF AnswersTo

----------------------------------------------------------------------------
(* The part of the invariant that always holds, in the steps of gd *)

LEMMA AgreesKept ==
  ASSUME Agrees, Heard' = Heard, UNCHANGED <<target, seen>>
  PROVE  Agrees'
  BY DEF Agrees

\* gd makes a request, having handled what it has taken.
LEMMA SendKept ==
  ASSUME TypeOK, TypeOK', Tokens, alive, NEW k, Drops(Pending, Pending', k),
         NEW kind, NEW then, Send(kind, then)
  PROVE  /\ Tokens' /\ Acked' /\ Unread' /\ AnswersTo(asked.token, Pending)' = {}
         /\ pc' = "wait" /\ asked'.kind = kind /\ asked'.then = then
         /\ inbox' = Append(inbox, [token |-> token + 1, kind |-> kind])
<1>1. /\ token' = token + 1 /\ pc' = "wait"
      /\ inbox' = Append(inbox, [token |-> token + 1, kind |-> kind])
      /\ asked' = [token |-> token + 1, kind |-> kind, then |-> then]
  BY DEF Send
<1>2. AnswersTo(token + 1, Pending') = {}
  BY NoAnswers
<1>3. inbox \in Seq(Commands) /\ token \in Nat /\ inbox' \in Seq(Commands)
  BY DEF TypeOK
<1>4. Len(inbox) \in Nat /\ Len(inbox') = Len(inbox) + 1
      /\ (\A i \in 1..Len(inbox) : inbox'[i] = inbox[i] /\ inbox[i].token \in Nat)
      /\ inbox'[Len(inbox')] = [token |-> token + 1, kind |-> kind]
  <2>1. \A i \in 1..Len(inbox) : inbox[i].token \in Nat
    BY <1>3, CommandFields
  <2>2. [token |-> token + 1, kind |-> kind] = inbox'[Len(inbox')] /\ Len(inbox') = Len(inbox) + 1
    BY <1>1, <1>3
  <2> QED
    BY <1>1, <1>3, <2>1, <2>2
<1>5. ASSUME NEW i \in 1..Len(inbox')
      PROVE  IF i = Len(inbox') THEN inbox'[i].token = token' /\ inbox'[i].kind = asked'.kind
             ELSE inbox'[i].token < token'
  <2>1. CASE i = Len(inbox')
    BY <1>1, <1>4, <2>1
  <2>2. CASE i # Len(inbox')
    <3>1. i \in 1..Len(inbox)
      BY <1>4, <2>2
    <3>2. inbox[i].token <= token /\ inbox'[i] = inbox[i] /\ inbox[i].token \in Nat
      BY <1>4, <3>1 DEF Tokens
    <3> QED
      BY <1>1, <1>3, <2>2, <3>2
  <2> QED
    BY <2>1, <2>2
<1>6. \A i \in 1..Len(inbox') : inbox'[i].token <= token'
  <2>1. TAKE i \in 1..Len(inbox')
  <2>2. inbox'[i].token \in Nat
    BY <1>3, CommandFields
  <2>3. token' \in Nat
    BY <1>1, <1>3
  <2> QED
    BY <1>5, <2>2, <2>3
<1>7. ASSUME NEW i \in 1..Len(Pending'), Pending'[i].kind = "result"
      PROVE  Pending'[i].token <= token'
  <2>1. i + k \in 1..Len(Pending) /\ Pending'[i] = Pending[i + k] /\ Pending[i + k] \in Records
    BY DEF Drops
  <2>2. Pending[i + k].token <= token /\ Pending[i + k].token \in Nat
    BY <1>7, <2>1, RecordFields DEF Tokens
  <2>3. token' = token + 1 /\ token \in Nat
    BY <1>1, <1>3
  <2> QED
    BY <2>1, <2>2, <2>3
<1>8. Tokens'
  BY <1>1, <1>5, <1>6, <1>7 DEF Tokens
<1>9. AnswersTo(asked.token, Pending)' = {}
  BY <1>1, <1>2
<1>10. Acked'
  BY <1>9 DEF Acked
<1>11. Unread'
  <2>1. AnswersTo(token + 1, readbuf') = {}
    BY <1>2, BufferedPrime
  <2> QED
    BY <1>1, <2>1 DEF Unread
<1> QED
  BY <1>1, <1>8, <1>9, <1>10, <1>11

\* gd makes no request and waits for none.
LEMMA RestKept ==
  ASSUME Tokens, NEW k, Drops(Pending, Pending', k), pc' # "wait", UNCHANGED <<inbox, token>>
  PROVE  Tokens' /\ Acked' /\ Unread'
<1>1. ASSUME NEW i \in 1..Len(Pending'), Pending'[i].kind = "result"
      PROVE  Pending'[i].token <= token
  <2>1. i + k \in 1..Len(Pending) /\ Pending'[i] = Pending[i + k]
    BY DEF Drops
  <2> QED
    BY <1>1, <2>1 DEF Tokens
<1>2. Tokens'
  BY <1>1 DEF Tokens
<1> QED
  BY <1>2 DEF Acked, Unread, Starting

\* gd waits on.
LEMMA WaitKept ==
  ASSUME Typed, Tokens, Acked, NEW k, Drops(Pending, Pending', k), readbuf' = <<>>,
         UNCHANGED <<inbox, token, asked, pc>>
  PROVE  Tokens' /\ Acked' /\ Unread'
<1>1. ASSUME NEW i \in 1..Len(Pending'), Pending'[i].kind = "result"
      PROVE  Pending'[i].token <= token
  <2>1. i + k \in 1..Len(Pending) /\ Pending'[i] = Pending[i + k]
    BY DEF Drops
  <2> QED
    BY <1>1, <2>1 DEF Tokens
<1>2. Tokens'
  BY <1>1 DEF Tokens
<1>3. ASSUME Starting, NEW i \in AnswersTo(asked.token, Pending'), Pending'[i].ok
      PROVE  \E j \in Told(Pending') : i < j
  <2>1. i + k \in AnswersTo(asked.token, Pending) /\ Pending'[i] = Pending[i + k]
    BY AnswersSplit
  <2>2. PICK j \in Told(Pending) : i + k < j
    BY <1>3, <2>1 DEF Acked
  <2>3. /\ j \in 1..Len(Pending) /\ Pending[j].kind # "result"
        /\ k \in 0..Len(Pending) /\ Pending \in Seq(Records)
        /\ Len(Pending') = Len(Pending) - k /\ i \in 1..Len(Pending')
    BY DEF Told, Drops, AnswersTo
  <2>4. j - k \in 1..Len(Pending') /\ (j - k) + k = j /\ i < j - k
    BY <2>2, <2>3
  <2>5. Pending'[j - k] = Pending[j]
    BY <2>4 DEF Drops
  <2> QED
    BY <2>3, <2>4, <2>5 DEF Told
<1>4. Acked'
  BY <1>3 DEF Acked, Starting
<1>5. Unread'
  BY DEF Unread, AnswersTo
<1> QED
  BY <1>2, <1>4, <1>5

----------------------------------------------------------------------------
(* Prompt, in the steps of gd *)

LEMMA ToldDrops ==
  ASSUME NEW p, NEW q, NEW k, Drops(p, q, k)
  PROVE  /\ \A i \in Told(q) : i + k \in Told(p) /\ q[i] = p[i + k] /\ i \in Nat
         /\ Told(p) = {} => Told(q) = {}
<1>1. ASSUME NEW i \in Told(q)
      PROVE  i + k \in Told(p) /\ q[i] = p[i + k] /\ i \in Nat
  <2>1. i \in 1..Len(q) /\ q[i].kind # "result"
    BY DEF Told
  <2>2. i + k \in 1..Len(p) /\ q[i] = p[i + k]
    BY <2>1 DEF Drops
  <2> QED
    BY <2>1, <2>2 DEF Told
<1> QED
  BY <1>1

LEMMA ToldBegins ==
  ASSUME NEW p, NEW h, NEW k, Begins(p, h, k)
  PROVE  \A i \in Told(h) : i \in Told(p) /\ i <= k /\ h[i] = p[i]
  BY DEF Told, Begins

\* Nothing is told: the lines change nothing.
LEMMA TellsNothing ==
  ASSUME NEW h, Told(h) = {}
  PROVE  StateAfter(h) = state /\ WhereAfter(h) = where
<1>1. StopsIn(h) \subseteq Told(h)
  BY DEF StopsIn, Told
<1> QED
  BY <1>1 DEF StateAfter, WhereAfter

LEMMA Still ==
  ASSUME Prompt, state # "running", ~Starting, NEW h, NEW k, Begins(Pending, h, k)
  PROVE  Told(h) = {} /\ Told(Pending) = {} /\ StateAfter(h) = state /\ WhereAfter(h) = where
<1>1. Told(Pending) = {}
  BY DEF Prompt, Idle
<1>2. Told(h) = {}
  BY <1>1, ToldBegins
<1> QED
  BY <1>1, <1>2, TellsNothing

LEMMA IdleAfter ==
  ASSUME Prompt, ~Starting, NEW h, NEW k, Drops(Pending, Pending', k), Begins(Pending, h, k),
         StateAfter(h) # "running", target' = target
  PROVE  Idle'
<1>1. CASE state # "running"
  BY <1>1, ToldDrops DEF Prompt, Idle
<1>2. CASE state = "running"
  <2>1. Told(h) # {} /\ h \in Seq(Records) /\ Pending \in Seq(Records) /\ k \in Nat
    BY <1>2, TellsNothing DEF Begins
  <2>2. PICK i \in Told(h) : After(state, h) = h[i].kind
    BY <2>1, AfterTold
  <2>3. i \in Told(Pending) /\ i <= k /\ h[i] = Pending[i]
    BY ToldBegins
  <2>4. Pending[i].kind # "running"
    BY <2>2, <2>3 DEF StateAfter, After
  <2>5. target # "running" /\ \A j \in Told(Pending) : j <= i
    BY <2>3, <2>4 DEF Prompt, Latest
  <2>6. ASSUME NEW j \in Told(Pending') PROVE FALSE
    <3>1. j + k \in Told(Pending) /\ j \in 1..Len(Pending') /\ i \in Nat
      BY <2>1, <2>3, ToldDrops, ToldIn DEF Told
    <3>2. j + k <= i
      BY <2>5, <3>1
    <3>3. j \in Nat /\ 1 <= j
      BY <3>1 DEF Drops
    <3> QED
      BY <2>1, <2>3, <3>1, <3>2, <3>3
  <2> QED
    BY <2>5, <2>6 DEF Idle
<1> QED
  BY <1>1, <1>2

LEMMA LatestKept ==
  ASSUME Latest, NEW k, Drops(Pending, Pending', k), target' = target
  PROVE  Latest'
<1>1. ASSUME NEW i \in Told(Pending'), Pending'[i].kind # "running"
      PROVE  target # "running" /\ \A j \in Told(Pending') : j <= i
  <2>0. k \in Nat
    BY DEF Drops
  <2>1. i + k \in Told(Pending) /\ Pending'[i] = Pending[i + k] /\ i \in Nat
    BY ToldDrops
  <2>2. target # "running" /\ \A j \in Told(Pending) : j <= i + k
    BY <1>1, <2>1 DEF Latest
  <2>3. ASSUME NEW j \in Told(Pending') PROVE j <= i
    <3>1. j + k <= i + k /\ j \in Nat
      BY <2>2, ToldDrops
    <3> QED
      BY <2>0, <2>1, <3>1
  <2> QED
    BY <2>2, <2>3
<1> QED
  BY <1>1 DEF Latest

\* gd neither waits for the program to be run or resumed nor begins to.
LEMMA PromptOtherwise ==
  ASSUME Prompt, ~Starting, ~Starting', NEW h, NEW k,
         Drops(Pending, Pending', k), Begins(Pending, h, k), state' = StateAfter(h),
         ExecsIn' = {}, target' = target
  PROVE  Prompt'
<1>1. state' # "running" => Idle'
  BY IdleAfter
<1>2. Latest'
  BY LatestKept DEF Prompt
<1> QED
  BY <1>1, <1>2 DEF Prompt

LEMMA NoExecs ==
  ASSUME TypeOK, Prompt, ~Starting
  PROVE  /\ ExecsIn = {}
         /\ UNCHANGED inbox => ExecsIn' = {}
         /\ \A t, kind : inbox' = Append(inbox, [token |-> t, kind |-> kind]) =>
               \A i \in ExecsIn' : i = Len(inbox') /\ kind \in Execs
<1>1. ExecsIn = {}
  BY DEF Prompt
<1>2. UNCHANGED inbox => ExecsIn' = {}
  BY <1>1 DEF ExecsIn
<1>3. ASSUME NEW t, NEW kind, inbox' = Append(inbox, [token |-> t, kind |-> kind]),
             NEW i \in ExecsIn'
      PROVE  i = Len(inbox') /\ kind \in Execs
  <2>1. i \in 1..Len(inbox') /\ inbox'[i].kind \in Execs
    BY DEF ExecsIn
  <2>2. inbox \in Seq(Commands)
    BY DEF TypeOK
  <2>3. CASE i = Len(inbox')
    <3>1. inbox'[i] = [token |-> t, kind |-> kind]
      BY <1>3, <2>2, <2>3
    <3> QED
      BY <2>1, <2>3, <3>1
  <2>4. CASE i # Len(inbox')
    <3>1. i \in 1..Len(inbox) /\ inbox'[i] = inbox[i]
      BY <1>3, <2>1, <2>2, <2>4
    <3> QED
      BY <1>1, <2>1, <3>1 DEF ExecsIn
  <2> QED
    BY <2>3, <2>4
<1> QED
  BY <1>1, <1>2, <1>3

\* gd asks for the program to be run or resumed.
LEMMA PromptStarts ==
  ASSUME TypeOK, Agrees, Prompt, ~Starting, Starting',
         UNCHANGED <<state, readbuf, outbox, target>>, state # "running",
         asked'.kind = "run" => state # "stopped", NEW t, NEW kind,
         inbox' = Append(inbox, [token |-> t, kind |-> kind]), kind \in Execs,
         AnswersTo(asked.token, Pending)' = {}
  PROVE  Prompt'
<1>1. Pending' = Pending
  BY DEF Pending
<1>2. Idle /\ Idle' /\ Told(Pending) = {}
  BY <1>1 DEF Prompt, Idle
<1>3. Heard = state
  BY <1>2, AfterNone DEF Heard
<1>4. asked'.kind = "run" => target' = "none"
  BY <1>2, <1>3 DEF Agrees, Idle, TypeOK
<1>5. \A i \in ExecsIn' : i = Len(inbox')
  BY NoExecs
<1>6. ExecsIn' # {}
  <2>1. inbox \in Seq(Commands)
    BY DEF TypeOK
  <2>2. Len(inbox') \in 1..Len(inbox') /\ inbox'[Len(inbox')] = [token |-> t, kind |-> kind]
    BY <2>1
  <2> QED
    BY <2>2 DEF ExecsIn
<1>7. Latest'
  BY <1>1, <1>2 DEF Latest
<1> QED
  BY <1>2, <1>4, <1>5, <1>6, <1>7 DEF Prompt

\* GDB has answered that it runs or resumes the program, or that it cannot.
LEMMA PromptStarted ==
  ASSUME Prompt, Starting, ~Starting', NEW h, NEW k,
         Drops(Pending, Pending', k), Begins(Pending, h, k),
         k \in AnswersTo(asked.token, Pending),
         Pending[k].ok => state' = "running", UNCHANGED <<inbox, target>>
  PROVE  Prompt' /\ (~Pending[k].ok => target # "stopped")
<1>1. ExecsIn' = {}
  BY DEF Prompt, ExecsIn
<1>2. ~Pending[k].ok => Idle /\ target # "stopped"
  BY DEF Prompt
<1>3. state' # "running" => Idle'
  BY <1>2, ToldDrops DEF Idle
<1>4. Latest'
  BY LatestKept DEF Prompt
<1> QED
  BY <1>1, <1>2, <1>3, <1>4 DEF Prompt

\* GDB answers in time.
LEMMA PromptAnswers ==
  ASSUME Typed, Prompt, Unread, Starting, outbox = <<>>
  PROVE  Idle
<1>1. Pending = readbuf
  BY ConcatEmptySeq DEF Typed, TypeOK, Pending
<1>2. AnswersTo(asked.token, Pending) = {}
  BY <1>1 DEF Unread, Starting
<1> QED
  BY <1>2 DEF Prompt

\* Nothing is told before the answer.
LEMMA StartingStill ==
  ASSUME Prompt, Starting, NEW h, NEW k, Begins(Pending, h, k),
         \A i \in AnswersTo(asked.token, Pending) : k <= i
  PROVE  Told(h) = {} /\ StateAfter(h) = state /\ WhereAfter(h) = where
<1>1. ASSUME NEW i \in Told(h) PROVE FALSE
  <2>1. i \in Told(Pending) /\ i <= k
    BY ToldBegins
  <2>2. ExecsIn = {} /\ AnswersTo(asked.token, Pending) # {}
    BY <2>1 DEF Prompt, Idle
  <2>3. PICK a \in AnswersTo(asked.token, Pending) : TRUE
    BY <2>2
  <2>4. a < i /\ k <= a
    BY <2>1, <2>3 DEF Prompt
  <2>5. a \in Nat /\ i \in Nat /\ k \in Nat
    BY <2>1 DEF AnswersTo, Told, Begins
  <2> QED
    BY <2>1, <2>4, <2>5
<1> QED
  BY <1>1, TellsNothing

\* gd waits on.
LEMMA PromptWaits ==
  ASSUME Prompt, Starting, NEW h, NEW k,
         Drops(Pending, Pending', k), Begins(Pending, h, k), state' = StateAfter(h),
         \A i \in AnswersTo(asked.token, Pending) : k < i,
         UNCHANGED <<inbox, target, asked, pc>>
  PROVE  Prompt'
<1>1. k \in Nat /\ \A i \in AnswersTo(asked.token, Pending) : i \in Nat
  BY DEF Drops, AnswersTo
<1>2. state' = state
  BY <1>1, StartingStill
<1>3. Idle => Idle'
  BY ToldDrops DEF Idle
<1>4. ExecsIn' = ExecsIn
  BY DEF ExecsIn
<1>5. Starting'
  BY DEF Starting
<1>6. \A i \in AnswersTo(asked.token, Pending') :
         i + k \in AnswersTo(asked.token, Pending) /\ Pending'[i] = Pending[i + k]
  BY AnswersSplit
<1>7. AnswersTo(asked.token, Pending) # {} => AnswersTo(asked.token, Pending') # {}
  BY AnswersSplit
<1>8. ASSUME NEW i \in AnswersTo(asked.token, Pending')
      PROVE  /\ \A j \in Told(Pending') : i < j
             /\ ~Pending'[i].ok => Idle' /\ target' # "stopped"
  <2>1. /\ \A j \in Told(Pending) : i + k < j
        /\ ~Pending[i + k].ok => Idle /\ target # "stopped"
    BY <1>6 DEF Prompt
  <2>2. ASSUME NEW j \in Told(Pending') PROVE i < j
    <3>1. i + k < j + k /\ j \in Nat /\ i \in Nat
      BY <2>1, ToldDrops DEF AnswersTo
    <3> QED
      BY <1>1, <3>1
  <2> QED
    BY <1>3, <1>6, <2>1, <2>2
<1>9. Latest'
  BY LatestKept DEF Prompt
<1>10. \A i \in ExecsIn' : i = Len(inbox')
  BY <1>4 DEF Prompt
<1>11. ExecsIn' # {} =>
         Idle' /\ AnswersTo(asked.token, Pending') = {} /\ (asked.kind = "run" => target = "none")
  BY <1>3, <1>4, <1>6 DEF Prompt
<1>12. ExecsIn' = {} => AnswersTo(asked.token, Pending') # {}
  BY <1>4, <1>7 DEF Prompt
<1>13. state' # "running"
  BY <1>2 DEF Prompt
<1> QED
  BY <1>5, <1>8, <1>9, <1>10, <1>11, <1>12, <1>13 DEF Prompt

----------------------------------------------------------------------------
(* The steps of gd keep the invariant *)

LEMMA SendCore ==
  ASSUME Typed, Typed', Core, alive, UNCHANGED <<seen, target, stops>>, ~Starting,
         NEW h, NEW k, Drops(Pending, Pending', k), Begins(Pending, h, k),
         state' = StateAfter(h), NEW kind, kind \notin Execs, NEW then, Send(kind, then)
  PROVE  /\ Agrees' /\ Tokens' /\ Acked' /\ Unread' /\ ("slowstart" \notin seen' => Prompt')
         /\ AnswersTo(asked.token, Pending)' = {}
         /\ pc' = "wait" /\ asked'.kind = kind /\ asked'.then = then
<1>1. TypeOK /\ TypeOK' /\ Agrees /\ Tokens
  BY DEF Typed, Core
<1>2. /\ Tokens' /\ Acked' /\ Unread' /\ AnswersTo(asked.token, Pending)' = {}
      /\ pc' = "wait" /\ asked'.kind = kind /\ asked'.then = then
      /\ inbox' = Append(inbox, [token |-> token + 1, kind |-> kind])
  BY <1>1, SendKept
<1>3. Agrees'
  BY <1>1, HeardKept, AgreesKept
<1>4. ASSUME "slowstart" \notin seen' PROVE Prompt'
  <2>1. Prompt
    BY <1>4 DEF Core
  <2>2. ExecsIn' = {}
    BY <1>1, <1>2, <2>1, NoExecs
  <2>3. ~Starting'
    BY <1>2 DEF Starting
  <2> QED
    BY <2>1, <2>2, <2>3, PromptOtherwise
<1> QED
  BY <1>2, <1>3, <1>4

LEMMA RestCore ==
  ASSUME Typed, Core, UNCHANGED <<seen, target, stops>>, ~Starting,
         NEW h, NEW k, Drops(Pending, Pending', k), Begins(Pending, h, k),
         state' = StateAfter(h), pc' # "wait", UNCHANGED <<inbox, token>>
  PROVE  Agrees' /\ Tokens' /\ Acked' /\ Unread' /\ ("slowstart" \notin seen' => Prompt')
<1>1. TypeOK /\ Agrees /\ Tokens
  BY DEF Typed, Core
<1>2. Tokens' /\ Acked' /\ Unread'
  BY <1>1, RestKept
<1>3. Agrees'
  BY <1>1, HeardKept, AgreesKept
<1>4. ASSUME "slowstart" \notin seen' PROVE Prompt'
  <2>1. Prompt
    BY <1>4 DEF Core
  <2>2. ExecsIn' = {}
    BY <1>1, <2>1, NoExecs
  <2>3. ~Starting'
    BY DEF Starting
  <2> QED
    BY <2>1, <2>2, <2>3, PromptOtherwise
<1> QED
  BY <1>2, <1>3, <1>4

\* What is shown of the stop is as before.
LEMMA ShownRests ==
  ASSUME Shown, ~Starting, ~Leaving, ~Refreshing, pc' # "wait" \/ asked'.kind \in {"ask", "select"},
         state' = state, state # "running", UNCHANGED <<seen, target, stops, where, panes, view>>
  PROVE  Shown'
<1>1. ~Refreshing'
  BY DEF Refreshing
<1>2. state' = "stopped" /\ target' = "stopped" => Now(where)' /\ Now(panes)' /\ Now(view)'
  BY DEF Shown, Now
<1> QED
  BY <1>1, <1>2 DEF Shown

LEMMA ShownAway ==
  ASSUME pc' # "wait", state' # "stopped" \/ target' # "stopped" \/ Leaving'
  PROVE  Shown'
  BY DEF Shown, Refreshing

\* A refresh begins.
LEMMA ShownRefresh ==
  ASSUME pc' = "wait", asked'.kind = "frame", AnswersTo(asked.token, Pending)' = {},
         state' # "running", where' = 0, asked'.then = "key" => before'.state # "stopped"
  PROVE  Shown'
  BY DEF Shown, Refreshing

LEMMA HandleKept ==
  ASSUME Typed, Typed', Core, alive, UNCHANGED <<seen, target, stops>>, pc = "poll",
         NEW h, NEW k, Drops(Pending, Pending', k), Begins(Pending, h, k), Handle(h)
  PROVE  Core'
<1>1. state' = StateAfter(h) /\ before' = Here
  BY DEF Handle
<1>2. ~Starting /\ ~Leaving /\ ~Refreshing
  BY DEF Starting, Leaving, Refreshing
<1>3. CASE Told(h) # {} /\ StateAfter(h) = "stopped"
  <2>1. Send("frame", "key") /\ where' = 0
    BY <1>3 DEF Handle
  <2>2. /\ Agrees' /\ Tokens' /\ Acked' /\ Unread' /\ ("slowstart" \notin seen' => Prompt')
        /\ AnswersTo(asked.token, Pending)' = {}
        /\ pc' = "wait" /\ asked'.kind = "frame" /\ asked'.then = "key"
    <3>1. "frame" \notin Execs
      BY DEF Execs
    <3> QED
      BY <1>1, <1>2, <2>1, <3>1, SendCore
  <2>3. ASSUME seen' \cap {"asking", "slowstart"} = {} PROVE Shown'
    <3>1. Prompt
      BY <2>3 DEF Core
    <3>2. state = "running"
      BY <1>2, <1>3, <3>1, Still
    <3>3. before'.state # "stopped"
      BY <1>1, <3>2 DEF Here
    <3> QED
      BY <1>1, <1>3, <2>1, <2>2, <3>3, ShownRefresh
  <2> QED
    BY <2>2, <2>3 DEF Core
<1>4. CASE ~(Told(h) # {} /\ StateAfter(h) = "stopped")
  <2>1. /\ where' = WhereAfter(h) /\ ToKey(Here, StateAfter(h), WhereAfter(h))
        /\ UNCHANGED <<inbox, token, asked, panes>>
    BY <1>4 DEF Handle
  <2>2. pc' = "key"
    BY <2>1 DEF ToKey
  <2>3. Agrees' /\ Tokens' /\ Acked' /\ Unread' /\ ("slowstart" \notin seen' => Prompt')
    BY <1>1, <1>2, <2>1, <2>2, RestCore
  <2>4. ASSUME seen' \cap {"asking", "slowstart"} = {} PROVE Shown'
    <3>1. CASE state' = "stopped"
      <4>1. Told(h) = {}
        BY <1>1, <1>4, <3>1
      <4>2. StateAfter(h) = state /\ WhereAfter(h) = where
        BY <4>1, TellsNothing
      <4>3. state' = state /\ where' = where /\ view' = view
        BY <1>1, <2>1, <3>1, <4>2 DEF ToKey, Here
      <4>4. Shown
        BY <2>4 DEF Core
      <4> QED
        BY <1>2, <2>1, <2>2, <3>1, <4>3, <4>4, ShownRests
    <3>2. CASE state' # "stopped"
      BY <2>2, <3>2, ShownAway
    <3> QED
      BY <3>1, <3>2
  <2> QED
    BY <2>3, <2>4 DEF Core
<1> QED
  BY <1>3, <1>4

\* Nothing is handled and gd does not wait.
LEMMA NothingKept ==
  ASSUME Typed, Core, pc # "wait", pc # "reap", pc' # "wait",
         UNCHANGED <<gdbVars, seen, state, shownVars, readbuf, token>>
  PROVE  Core'
<1>1. ~Starting /\ ~Leaving /\ ~Refreshing
  BY DEF Starting, Leaving, Refreshing
<1>2. Drops(Pending, Pending', 0) /\ Begins(Pending, <<>>, 0)
  BY TakesNothing DEF gdbVars, Typed, TypeOK
<1>3. state' = StateAfter(<<>>)
  <2>1. Told(<<>>) = {}
    BY DEF Told
  <2> QED
    BY <2>1, TellsNothing
<1>4. Agrees' /\ Tokens' /\ Acked' /\ Unread' /\ ("slowstart" \notin seen' => Prompt')
  BY <1>1, <1>2, <1>3, RestCore DEF gdbVars
<1>5. ASSUME seen' \cap {"asking", "slowstart"} = {} PROVE Shown'
  <2>1. Shown
    BY <1>5 DEF Core
  <2>2. CASE state' = "stopped"
    BY <1>1, <2>1, <2>2, ShownRests DEF gdbVars, shownVars
  <2>3. CASE state' # "stopped"
    BY <2>3, ShownAway
  <2> QED
    BY <2>2, <2>3
<1> QED
  BY <1>4, <1>5 DEF Core

LEMMA WaitReadsKept ==
  ASSUME Typed, Typed', Core, UNCHANGED <<seen, target, stops>>, pc = "wait",
         NEW h, NEW k, Drops(Pending, Pending', k), Begins(Pending, h, k),
         \A i \in AnswersTo(asked.token, Pending) : k < i,
         state' = StateAfter(h), where' = WhereAfter(h), readbuf' = <<>>,
         UNCHANGED <<inbox, panes, view, token, asked, before, pc>>
  PROVE  Core'
<1>1. Agrees'
  BY HeardKept, AgreesKept DEF Core
<1>2. Tokens' /\ Acked' /\ Unread'
  BY WaitKept DEF Core
<1>3. ASSUME "slowstart" \notin seen' PROVE Prompt'
  <2>1. Prompt
    BY <1>3 DEF Core
  <2>2. CASE Starting
    BY <2>1, <2>2, PromptWaits
  <2>3. CASE ~Starting
    <3>1. ExecsIn' = {}
      BY <2>1, <2>3, NoExecs DEF Typed
    <3>2. ~Starting'
      BY <2>3 DEF Starting
    <3> QED
      BY <2>1, <2>3, <3>1, <3>2, PromptOtherwise
  <2> QED
    BY <2>2, <2>3
<1>4. ASSUME seen' \cap {"asking", "slowstart"} = {} PROVE Shown'
  <2>1. Prompt /\ Shown
    BY <1>4 DEF Core
  <2>2. CASE asked.kind = "quit"
    BY <2>2 DEF Shown, Refreshing, Leaving
  <2>3. CASE asked.kind # "quit"
    <3>1. state # "running"
      BY <2>1, <2>3 DEF Shown
    <3>2. state' = state /\ where' = where
      <4>1. CASE Starting
        <5>1. \A i \in AnswersTo(asked.token, Pending) : k <= i
          BY DEF AnswersTo, Drops
        <5> QED
          BY <2>1, <4>1, <5>1, StartingStill
      <4>2. CASE ~Starting
        BY <2>1, <3>1, <4>2, Still
      <4> QED
        BY <4>1, <4>2
    <3>3. \A i \in AnswersTo(asked.token, Pending') :
             i + k \in AnswersTo(asked.token, Pending) /\ Pending'[i] = Pending[i + k]
      BY AnswersSplit
    <3>4. UNCHANGED <<Refreshing, Leaving, Starting>>
      BY DEF Refreshing, Leaving, Starting
    <3>5. ASSUME state' = "stopped", target' = "stopped", ~Starting', ~Leaving'
          PROVE  IF Refreshing'
                 THEN /\ IF asked'.kind = "frame" THEN where' = 0 ELSE Now(where)'
                      /\ \A i \in AnswersTo(asked'.token, Pending') :
                            Pending'[i].ok /\ Pending'[i].stop = stops'
                 ELSE Now(where)' /\ Now(panes)' /\ Now(view)'
      <4>1. IF Refreshing
            THEN /\ IF asked.kind = "frame" THEN where = 0 ELSE Now(where)
                 /\ \A i \in AnswersTo(asked.token, Pending) :
                       Pending[i].ok /\ Pending[i].stop = stops
            ELSE Now(where) /\ Now(panes) /\ Now(view)
        BY <2>1, <3>2, <3>4, <3>5 DEF Shown
      <4>2. (Now(where) <=> Now(where)') /\ (Now(panes) <=> Now(panes)') /\ (Now(view) <=> Now(view)')
        BY <3>2 DEF Now
      <4> QED
        BY <3>2, <3>3, <3>4, <4>1, <4>2
    <3>6. state' # "running" /\ (Refreshing' /\ asked'.then = "key" => before'.state # "stopped")
      BY <2>1, <3>1, <3>2, <3>4 DEF Shown
    <3> QED
      BY <3>5, <3>6 DEF Shown
  <2> QED
    BY <2>2, <2>3
<1> QED
  BY <1>1, <1>2, <1>3, <1>4 DEF Core

\* wait_result ends: with the first answer, which is record k of what is pending, or late.
Ends(k, ok, stop) ==
    \/ /\ k \in AnswersTo(asked.token, Pending)
       /\ \A i \in AnswersTo(asked.token, Pending) : k <= i
       /\ ok = Pending[k].ok /\ stop = Pending[k].stop
    \/ k = 0 /\ ok = FALSE /\ outbox = <<>> /\ Late

LEMMA EndsFirst ==
  ASSUME NEW k, NEW ok, NEW stop, Ends(k, ok, stop)
  PROVE  \A i \in AnswersTo(asked.token, Pending) : k <= i
<1>1. \A i \in AnswersTo(asked.token, Pending) : 0 <= i
  BY DEF AnswersTo
<1> QED
  BY <1>1 DEF Ends

\* Told, what gd takes its state to be does not matter.
LEMMA HeardTold ==
  ASSUME Told(Pending') # {}, NEW h, NEW k, Drops(Pending, Pending', k), Begins(Pending, h, k)
  PROVE  Heard' = Heard
<1>1. Heard = After(After(state, h), Pending')
  BY AfterSplit DEF Heard
<1>2. Heard' = After(state', Pending')
  BY DEF Heard
<1> QED
  BY <1>1, <1>2 DEF After

LEMMA ExecDoneKept ==
  ASSUME Typed, Core, UNCHANGED <<seen, target, stops>>, pc = "wait",
         NEW h, NEW k, Drops(Pending, Pending', k), Begins(Pending, h, k),
         NEW ok, NEW stop, Ends(k, ok, stop), ExecDone(ok, StateAfter(h), WhereAfter(h))
  PROVE  Core'
<1>1. /\ asked.kind \in Execs /\ pc' = "poll" /\ UNCHANGED <<inbox, token>>
      /\ state' = IF ok THEN "running" ELSE StateAfter(h)
  BY DEF ExecDone
<1>2. Starting /\ ~Starting'
  BY <1>1 DEF Starting
<1>3. Heard' = Heard
  <2>1. CASE ok
    <3>1. k \in AnswersTo(asked.token, Pending) /\ Pending[k].ok
      BY <2>1 DEF Ends
    <3>2. PICK j \in Told(Pending) : k < j
      BY <1>2, <3>1 DEF Core, Acked
    <3>3. /\ \A i \in Told(h) : i \in Told(Pending) /\ i <= k
          /\ (j <= k /\ j \in Told(h)) \/ (k < j /\ j - k \in Told(Pending'))
      BY ToldSplit
    <3>4. j \in Nat /\ k \in Nat
      BY DEF Told, Drops
    <3>5. j - k \in Told(Pending')
      BY <3>2, <3>3, <3>4
    <3> QED
      BY <3>5, HeardTold
  <2>2. CASE ~ok
    BY <1>1, <2>2, HeardKept
  <2> QED
    BY <2>1, <2>2
<1>4. Agrees'
  BY <1>3, AgreesKept DEF Core
<1>5. Tokens' /\ Acked' /\ Unread'
  BY <1>1, RestKept DEF Core
<1>6. ASSUME "slowstart" \notin seen'
      PROVE  Prompt' /\ (~ok => target # "stopped")
  <2>1. Prompt /\ Unread
    BY <1>6 DEF Core
  <2>2. CASE k = 0 /\ ok = FALSE /\ outbox = <<>> /\ Late
    <3>1. Idle
      BY <1>2, <2>1, <2>2, PromptAnswers
    <3> QED
      BY <1>1, <1>6, <2>2, <3>1 DEF Idle, Late
  <2>3. CASE /\ k \in AnswersTo(asked.token, Pending)
             /\ ok = Pending[k].ok /\ stop = Pending[k].stop
    BY <1>1, <1>2, <2>1, <2>3, PromptStarted
  <2> QED
    BY <2>2, <2>3 DEF Ends
<1>7. ASSUME seen' \cap {"asking", "slowstart"} = {} PROVE Shown'
  <2>1. ~ok => target' # "stopped"
    BY <1>6, <1>7
  <2> QED
    BY <1>1, <2>1, ShownAway
<1> QED
  BY <1>4, <1>5, <1>6, <1>7 DEF Core

LEMMA OtherDoneKept ==
  ASSUME Typed, Typed', Core, alive, UNCHANGED <<seen, target, stops, before>>, pc = "wait",
         asked.kind \notin Execs,
         NEW h, NEW k, Drops(Pending, Pending', k), Begins(Pending, h, k),
         NEW ok, NEW stop, Ends(k, ok, stop), Done(ok, stop, StateAfter(h), WhereAfter(h))
  PROVE  Core'
<1>1. ~Starting
  BY DEF Starting
<1>2. asked.kind # "quit" /\ seen \cap {"asking", "slowstart"} = {} =>
        /\ Shown /\ state # "running"
        /\ StateAfter(h) = state /\ WhereAfter(h) = where
  <2> SUFFICES ASSUME asked.kind # "quit", seen \cap {"asking", "slowstart"} = {}
               PROVE  /\ Shown /\ state # "running"
                      /\ StateAfter(h) = state /\ WhereAfter(h) = where
    OBVIOUS
  <2>1. Prompt /\ Shown
    BY DEF Core
  <2>2. state # "running"
    BY <2>1 DEF Shown
  <2> QED
    BY <1>1, <2>1, <2>2, Still
<1>3. "frame" \notin Execs /\ "rest" \notin Execs
  BY DEF Execs
<1>4. CASE AskDone(StateAfter(h), WhereAfter(h))
  <2>1. /\ asked.kind = "ask" /\ state' = StateAfter(h) /\ where' = WhereAfter(h)
        /\ pc' = "poll" /\ UNCHANGED <<inbox, token, asked, panes, view>>
    BY <1>4 DEF AskDone
  <2>2. Agrees' /\ Tokens' /\ Acked' /\ Unread' /\ ("slowstart" \notin seen' => Prompt')
    BY <1>1, <2>1, RestCore
  <2>3. ASSUME seen' \cap {"asking", "slowstart"} = {} PROVE Shown'
    BY <1>1, <1>2, <2>1, <2>3, ShownRests DEF Leaving, Refreshing
  <2> QED
    BY <2>2, <2>3 DEF Core
<1>5. CASE SelectDone(ok, StateAfter(h), WhereAfter(h)) /\ ok
  <2>1. /\ asked.kind = "select" /\ state' = StateAfter(h) /\ where' = 0
        /\ Send("frame", "poll") /\ UNCHANGED <<panes, view>>
    BY <1>5 DEF SelectDone
  <2>2. /\ Agrees' /\ Tokens' /\ Acked' /\ Unread' /\ ("slowstart" \notin seen' => Prompt')
        /\ AnswersTo(asked.token, Pending)' = {}
        /\ pc' = "wait" /\ asked'.kind = "frame" /\ asked'.then = "poll"
    BY <1>1, <1>3, <2>1, SendCore
  <2>3. ASSUME seen' \cap {"asking", "slowstart"} = {} PROVE Shown'
    BY <1>2, <2>1, <2>2, <2>3, ShownRefresh
  <2> QED
    BY <2>2, <2>3 DEF Core
<1>6. CASE SelectDone(ok, StateAfter(h), WhereAfter(h)) /\ ~ok
  <2>1. /\ asked.kind = "select" /\ state' = StateAfter(h) /\ where' = WhereAfter(h)
        /\ pc' = "poll" /\ UNCHANGED <<inbox, token, asked, panes, view>>
    BY <1>6 DEF SelectDone
  <2>2. Agrees' /\ Tokens' /\ Acked' /\ Unread' /\ ("slowstart" \notin seen' => Prompt')
    BY <1>1, <2>1, RestCore
  <2>3. ASSUME seen' \cap {"asking", "slowstart"} = {} PROVE Shown'
    BY <1>1, <1>2, <2>1, <2>3, ShownRests DEF Leaving, Refreshing
  <2> QED
    BY <2>2, <2>3 DEF Core
<1>7. CASE FrameDone(ok, stop, StateAfter(h), WhereAfter(h))
  <2>1. /\ asked.kind = "frame" /\ state' = StateAfter(h)
        /\ where' = IF ok THEN stop ELSE WhereAfter(h)
        /\ Send("rest", asked.then) /\ UNCHANGED <<panes, view>>
    BY <1>7 DEF FrameDone
  <2>2. /\ Agrees' /\ Tokens' /\ Acked' /\ Unread' /\ ("slowstart" \notin seen' => Prompt')
        /\ AnswersTo(asked.token, Pending)' = {}
        /\ pc' = "wait" /\ asked'.kind = "rest" /\ asked'.then = asked.then
    BY <1>1, <1>3, <2>1, SendCore
  <2>3. ASSUME seen' \cap {"asking", "slowstart"} = {} PROVE Shown'
    <3>1. /\ Shown /\ state # "running" /\ state' = state
          /\ WhereAfter(h) = where /\ Refreshing /\ ~Leaving /\ Refreshing'
      BY <1>2, <2>1, <2>2, <2>3 DEF Refreshing, Leaving
    <3>2. asked'.then = "key" => before'.state # "stopped"
      BY <2>2, <3>1 DEF Shown
    <3>3. ASSUME state' = "stopped", target' = "stopped" PROVE Now(where)'
      <4>1. /\ where = 0
            /\ \A i \in AnswersTo(asked.token, Pending) : Pending[i].ok /\ Pending[i].stop = stops
        BY <1>1, <2>1, <3>1, <3>3 DEF Shown
      <4>2. CASE k \in AnswersTo(asked.token, Pending) /\ ok = Pending[k].ok /\ stop = Pending[k].stop
        <5>1. where' = stops
          BY <2>1, <4>1, <4>2
        <5> QED
          BY <5>1 DEF Now
      <4>3. CASE k = 0 /\ ok = FALSE /\ outbox = <<>> /\ Late
        <5>1. "slow" \in seen
          BY <2>1, <2>3, <3>3, <4>3 DEF Late
        <5>2. where' = 0
          BY <2>1, <3>1, <4>1, <4>3
        <5> QED
          BY <5>1, <5>2 DEF Now
      <4> QED
        BY <4>2, <4>3 DEF Ends
    <3> QED
      BY <2>2, <3>1, <3>2, <3>3 DEF Shown
  <2> QED
    BY <2>2, <2>3 DEF Core
<1>8. CASE RestDone(ok, stop, StateAfter(h), WhereAfter(h))
  <2>1. /\ asked.kind = "rest" /\ state' = StateAfter(h) /\ where' = WhereAfter(h)
        /\ panes' = IF ok THEN stop ELSE 0
        /\ IF asked.then = "key" THEN ToKey(before, StateAfter(h), WhereAfter(h))
           ELSE pc' = "poll" /\ view' = WhereAfter(h)
        /\ UNCHANGED <<inbox, token, asked>>
    BY <1>8 DEF RestDone
  <2>2. pc' # "wait" /\ pc' # "reap"
    BY <2>1 DEF ToKey
  <2>3. Agrees' /\ Tokens' /\ Acked' /\ Unread' /\ ("slowstart" \notin seen' => Prompt')
    BY <1>1, <2>1, <2>2, RestCore
  <2>4. ASSUME seen' \cap {"asking", "slowstart"} = {} PROVE Shown'
    <3>1. /\ Shown /\ state # "running" /\ state' = state /\ StateAfter(h) = state
          /\ WhereAfter(h) = where /\ Refreshing /\ ~Leaving
      BY <1>2, <2>1, <2>4 DEF Refreshing, Leaving
    <3>2. ASSUME state' = "stopped", target' = "stopped"
          PROVE  Now(where)' /\ Now(panes)' /\ Now(view)'
      <4>1. /\ Now(where)
            /\ \A i \in AnswersTo(asked.token, Pending) : Pending[i].ok /\ Pending[i].stop = stops
        BY <1>1, <2>1, <3>1, <3>2 DEF Shown
      <4>2. where' = where /\ Now(where)'
        BY <2>1, <3>1, <4>1 DEF Now
      <4>3. asked.then = "key" => before.state # "stopped"
        BY <3>1 DEF Shown
      <4>4. view' = where
        BY <2>1, <3>1, <3>2, <4>3 DEF ToKey
      <4>5. Now(panes)'
        <5>1. CASE k \in AnswersTo(asked.token, Pending) /\ ok = Pending[k].ok /\ stop = Pending[k].stop
          <6>1. panes' = stops
            BY <2>1, <4>1, <5>1
          <6> QED
            BY <6>1 DEF Now
        <5>2. CASE k = 0 /\ ok = FALSE /\ outbox = <<>> /\ Late
          <6>1. "slow" \in seen
            BY <2>1, <2>4, <3>2, <5>2 DEF Late
          <6>2. panes' = 0
            BY <2>1, <5>2
          <6> QED
            BY <6>1, <6>2 DEF Now
        <5> QED
          BY <5>1, <5>2 DEF Ends
      <4> QED
        BY <4>2, <4>4, <4>5 DEF Now
    <3> QED
      BY <2>2, <3>2 DEF Shown, Refreshing
  <2> QED
    BY <2>3, <2>4 DEF Core
<1>9. CASE QuitDone(StateAfter(h), WhereAfter(h))
  <2>1. state' = StateAfter(h) /\ pc' = "reap" /\ UNCHANGED <<inbox, token>>
    BY <1>9 DEF QuitDone
  <2>2. Agrees' /\ Tokens' /\ Acked' /\ Unread' /\ ("slowstart" \notin seen' => Prompt')
    BY <1>1, <2>1, RestCore
  <2>3. Shown'
    BY <2>1, ShownAway DEF Leaving
  <2> QED
    BY <2>2, <2>3 DEF Core
<1>10. ~ExecDone(ok, StateAfter(h), WhereAfter(h))
  BY DEF ExecDone
<1> QED
  BY <1>4, <1>5, <1>6, <1>7, <1>8, <1>9, <1>10 DEF Done

LEMMA DoneKept ==
  ASSUME Typed, Typed', Core, alive, UNCHANGED <<seen, target, stops, before>>, pc = "wait",
         NEW h, NEW k, Drops(Pending, Pending', k), Begins(Pending, h, k),
         NEW ok, NEW stop, Ends(k, ok, stop), Done(ok, stop, StateAfter(h), WhereAfter(h))
  PROVE  Core'
<1>1. CASE asked.kind \in Execs
  <2>1. ExecDone(ok, StateAfter(h), WhereAfter(h))
    BY <1>1 DEF Done, AskDone, SelectDone, FrameDone, RestDone, QuitDone, Execs
  <2> QED
    BY <2>1, ExecDoneKept
<1>2. CASE asked.kind \notin Execs
  BY <1>2, OtherDoneKept
<1> QED
  BY <1>1, <1>2

\* A key makes a request.
LEMMA PressKept ==
  ASSUME Typed, Typed', Core, alive, pc = "key",
         UNCHANGED <<seen, target, stops, outbox, state, shownVars, readbuf, before>>,
         NEW kind \in {"run", "resume", "ask", "select", "quit"}, Send(kind, "poll"),
         kind = "run" => state \notin {"running", "stopped"},
         kind \in {"resume", "select"} => state = "stopped",
         kind = "ask" => state # "running" \/ "asking" \in seen
  PROVE  Core'
<1>1. ~Starting /\ ~Leaving /\ ~Refreshing
  BY DEF Starting, Leaving, Refreshing
<1>2. Drops(Pending, Pending', 0) /\ Begins(Pending, <<>>, 0)
  BY TakesNothing DEF Typed, TypeOK
<1>3. state' = StateAfter(<<>>)
  <2>1. Told(<<>>) = {}
    BY DEF Told
  <2> QED
    BY <2>1, TellsNothing
<1>4. CASE kind \in Execs
  <2>1. /\ Tokens' /\ Acked' /\ Unread' /\ AnswersTo(asked.token, Pending)' = {}
        /\ pc' = "wait" /\ asked'.kind = kind
        /\ inbox' = Append(inbox, [token |-> token + 1, kind |-> kind])
    BY <1>2, SendKept DEF Typed, Core
  <2>2. Agrees'
    BY <1>2, <1>3, HeardKept, AgreesKept DEF Core
  <2>3. Starting' /\ state # "running"
    BY <1>4, <2>1 DEF Starting, Execs
  <2>4. ASSUME "slowstart" \notin seen' PROVE Prompt'
    <3>1. Prompt /\ TypeOK /\ Agrees
      BY <2>4 DEF Core, Typed
    <3> QED
      BY <1>1, <1>4, <2>1, <2>3, <3>1, PromptStarts
  <2>5. Shown'
    BY <1>4, <2>1, <2>3 DEF Shown, Refreshing, Execs
  <2> QED
    BY <2>1, <2>2, <2>4, <2>5 DEF Core
<1>5. CASE kind \notin Execs
  <2>1. /\ Agrees' /\ Tokens' /\ Acked' /\ Unread' /\ ("slowstart" \notin seen' => Prompt')
        /\ pc' = "wait" /\ asked'.kind = kind
    BY <1>1, <1>2, <1>3, <1>5, SendCore
  <2>2. ASSUME seen' \cap {"asking", "slowstart"} = {} PROVE Shown'
    <3>1. CASE kind = "quit"
      BY <2>1, <3>1 DEF Shown, Refreshing, Leaving
    <3>2. CASE kind \in {"ask", "select"}
      <4>1. state # "running" /\ Shown
        BY <2>2, <3>2 DEF Core
      <4> QED
        BY <1>1, <2>1, <3>2, <4>1, ShownRests DEF shownVars
    <3> QED
      BY <1>5, <3>1, <3>2 DEF Execs
  <2> QED
    BY <2>1, <2>2 DEF Core
<1> QED
  BY <1>4, <1>5

LEMMA AnswersOf ==
  AnswersIn(Pending) = AnswersTo(asked.token, Pending)
  BY DEF AnswersIn, AnswersTo, IsAnswer

LEMMA GdKept ==
  ASSUME Typed, Typed', Core, alive, alive', Gd, UNCHANGED seen
  PROVE  Core'
<1>1. readbuf \in Seq(Records) /\ outbox \in Seq(Records)
  BY DEF Typed, TypeOK
<1>2. CASE PollBuffered
  <2>1. /\ Handle(readbuf) /\ readbuf' = <<>> /\ pc = "poll"
        /\ UNCHANGED <<target, stops, outbox>>
    BY <1>2 DEF PollBuffered
  <2>2. Drops(Pending, Pending', Len(readbuf)) /\ Begins(Pending, readbuf, Len(readbuf))
    BY <1>1, <2>1, TakesBuffered
  <2> QED
    BY <2>1, <2>2, HandleKept
<1>3. CASE PollReads
  <2>1. PICK n \in 1..Len(outbox) : Chunk(n) /\ Handle(Buffer(n))
    BY <1>3 DEF PollReads
  <2>2. readbuf' = <<>> /\ UNCHANGED <<target, stops>> /\ pc = "poll"
    BY <1>3 DEF PollReads
  <2>3. /\ Drops(Pending, Pending', Len(Buffer(n)))
        /\ Begins(Pending, Buffer(n), Len(Buffer(n)))
    BY <1>1, <2>1, <2>2, TakesAll
  <2> QED
    BY <2>1, <2>2, <2>3, HandleKept
<1>4. CASE PollNothing
  BY <1>4, NothingKept DEF PollNothing
<1>5. CASE OtherKey
  BY <1>5, NothingKept DEF OtherKey
<1>6. CASE WaitReads
  <2>1. PICK n \in 1..Len(outbox) :
           /\ Chunk(n) /\ AnswersIn(Buffer(n)) = {}
           /\ state' = StateAfter(Buffer(n)) /\ where' = WhereAfter(Buffer(n))
    BY <1>6 DEF WaitReads
  <2>2. /\ readbuf' = <<>> /\ pc = "wait"
        /\ UNCHANGED <<target, stops, inbox, panes, view, token, asked, before, pc>>
    BY <1>6 DEF WaitReads
  <2>3. /\ Drops(Pending, Pending', Len(Buffer(n)))
        /\ Begins(Pending, Buffer(n), Len(Buffer(n)))
    BY <1>1, <2>1, <2>2, TakesAll
  <2>4. ASSUME NEW i \in AnswersTo(asked.token, Pending) PROVE Len(Buffer(n)) < i
    <3>1. /\ Buffer(n) \in Seq(Records)
          /\ \A j \in 1..Len(Buffer(n)) : Buffer(n)[j] = Pending[j]
      BY <1>1, BufferProperties
    <3>2. i \in Nat /\ 1 <= i /\ IsAnswer(Pending[i])
      BY DEF AnswersTo, IsAnswer
    <3>3. i \notin 1..Len(Buffer(n))
      BY <2>1, <3>1, <3>2 DEF AnswersIn
    <3> QED
      BY <3>1, <3>2, <3>3
  <2> QED
    BY <2>1, <2>2, <2>3, <2>4, WaitReadsKept
<1>7. CASE Answered
  <2>1. PICK n \in 1..Len(outbox) :
           /\ AnswersIn(Buffer(n)) # {} /\ Chunk(n)
           /\ readbuf' = Split(Buffer(n)).left
           /\ Done(Buffer(n)[At(Buffer(n))].ok, Buffer(n)[At(Buffer(n))].stop,
                   StateAfter(Split(Buffer(n)).handled), WhereAfter(Split(Buffer(n)).handled))
    BY <1>7 DEF Answered
  <2>2. pc = "wait" /\ UNCHANGED <<target, stops, before>>
    BY <1>7 DEF Answered
  <2> DEFINE k == At(Buffer(n))
             h == Split(Buffer(n)).handled
  <2>3. /\ Drops(Pending, Pending', k) /\ Begins(Pending, h, k)
        /\ k \in AnswersIn(Pending) /\ Buffer(n)[k] = Pending[k]
        /\ \A i \in AnswersIn(Pending) : k <= i
    BY <1>1, <2>1, TakesAnswer
  <2> HIDE DEF k, h
  <2>4. Done(Pending[k].ok, Pending[k].stop, StateAfter(h), WhereAfter(h))
    BY <2>1, <2>3 DEF k, h
  <2>5. Ends(k, Pending[k].ok, Pending[k].stop)
    BY <2>3, AnswersOf DEF Ends
  <2> QED
    BY <2>2, <2>3, <2>4, <2>5, DoneKept
<1>8. CASE GivesUp
  <2>1. /\ Done(FALSE, 0, state, where) /\ pc = "wait" /\ outbox = <<>> /\ Late
        /\ UNCHANGED <<target, stops, outbox, readbuf, before>>
    BY <1>8 DEF GivesUp
  <2>2. Drops(Pending, Pending', 0) /\ Begins(Pending, <<>>, 0)
    BY <1>1, <2>1, TakesNothing
  <2>3. StateAfter(<<>>) = state /\ WhereAfter(<<>>) = where
    <3>1. Told(<<>>) = {}
      BY DEF Told
    <3> QED
      BY <3>1, TellsNothing
  <2>4. Ends(0, FALSE, 0)
    BY <2>1 DEF Ends
  <2>5. Done(FALSE, 0, StateAfter(<<>>), WhereAfter(<<>>))
    BY <2>1, <2>3
  <2> QED
    BY <2>1, <2>2, <2>4, <2>5, DoneKept
<1>9. CASE Run \/ Resume \/ Ask \/ Select
  <2>1. PICK kind \in {"run", "resume", "ask", "select"} :
           /\ Press(kind)
           /\ kind = "run" => state \notin {"running", "stopped"}
           /\ kind \in {"resume", "select"} => state = "stopped"
           /\ kind = "ask" => state # "running" \/ "asking" \in seen
    BY <1>9 DEF Run, Resume, Ask, Select
  <2>2. /\ pc = "key" /\ Send(kind, "poll")
        /\ UNCHANGED <<target, stops, outbox, state, shownVars, readbuf, before>>
    BY <2>1 DEF Press
  <2> QED
    BY <2>1, <2>2, PressKept
<1>10. CASE Quit
  <2>1. /\ pc = "key" /\ Send("quit", "poll")
        /\ UNCHANGED <<target, stops, outbox, state, shownVars, readbuf, before>>
    BY <1>10 DEF Quit
  <2> QED
    BY <2>1, PressKept
<1>11. ~Reap
  BY DEF Reap
<1> QED
  BY <1>2, <1>3, <1>4, <1>5, <1>6, <1>7, <1>8, <1>9, <1>10, <1>11 DEF Gd, Poll, Wait, Key

----------------------------------------------------------------------------
(* The steps of GDB keep the invariant *)

LEMMA TakesCommand ==
  ASSUME TypeOK, inbox # <<>>, inbox' = Tail(inbox)
  PROVE  /\ Head(inbox) \in Commands /\ Head(inbox) = inbox[1] /\ Len(inbox) \in Nat \ {0}
         /\ inbox' \in Seq(Commands) /\ Len(inbox') = Len(inbox) - 1
         /\ \A i \in 1..Len(inbox') : i + 1 \in 1..Len(inbox) /\ inbox'[i] = inbox[i + 1]
  BY DEF TypeOK

LEMMA ReadTyped ==
  ASSUME NEW c \in Commands, NEW ok \in BOOLEAN, NEW s \in Nat
  PROVE  /\ Answer(c, ok, s) \in Records
         /\ Answer(c, ok, s).kind = "result" /\ Answer(c, ok, s).token = c.token
         /\ Answer(c, ok, s).ok = ok /\ Answer(c, ok, s).stop = s
<1>1. c.token \in Nat
  BY CommandFields
<1> QED
  BY <1>1 DEF Answer, Records

LEMMA AsyncTyped ==
  ASSUME NEW kind \in {"running", "stopped", "exited"}, NEW s \in Nat
  PROVE  Async(kind, s) \in Records /\ Async(kind, s).kind = kind /\ Async(kind, s).stop = s
  BY DEF Async, Records

\* GDB runs or resumes the program.
Resumes ==
    /\ target # "running" /\ inbox # <<>> /\ inbox' = Tail(inbox)
    /\ CanResume(Head(inbox).kind) /\ target' = "running"
    /\ outbox' = outbox \o <<Answer(Head(inbox), TRUE, 0), Async("running", 0)>>
    /\ UNCHANGED <<alive, stops, gdVars>>

\* GDB answers, and nothing else.
Refuses ==
    /\ target # "running" /\ inbox # <<>> /\ inbox' = Tail(inbox)
    /\ ~CanResume(Head(inbox).kind)
    /\ outbox' = Append(outbox, Answer(Head(inbox),
                    Head(inbox).kind \in {"ask", "quit"} \/ target = "stopped", stops))
    /\ UNCHANGED <<stops, gdVars>>
    /\ IF Head(inbox).kind = "quit" THEN alive' = FALSE /\ target' = "none"
       ELSE UNCHANGED <<alive, target>>

LEMMA ReadsSplit == GdbReads => Resumes \/ Refuses
  BY DEF GdbReads, Resumes, Refuses

LEMMA ResumesTyped ==
  ASSUME Typed, Resumes, UNCHANGED seen
  PROVE  /\ Typed'
         /\ Pending' = Append(Append(Pending, Answer(Head(inbox), TRUE, 0)), Async("running", 0))
<1> DEFINE a == Answer(Head(inbox), TRUE, 0)
           b == Async("running", 0)
<1>1. inbox' \in Seq(Commands) /\ Head(inbox) \in Commands
  BY TakesCommand DEF Typed, Resumes
<1>2. a \in Records /\ b \in Records /\ a.stop = 0 /\ b.stop = 0
  <2>1. a \in Records /\ a.stop = 0
    <3>1. TRUE \in BOOLEAN /\ 0 \in Nat
      OBVIOUS
    <3> HIDE DEF a
    <3> QED
      BY <1>1, <3>1, ReadTyped DEF a
  <2>2. b \in Records /\ b.stop = 0
    BY AsyncTyped
  <2> QED
    BY <2>1, <2>2
<1>3. outbox' = outbox \o <<a, b>>
  BY DEF Resumes
<1> HIDE DEF a, b
<1>4. outbox' = Append(Append(outbox, a), b)
  BY <1>2, <1>3 DEF Typed, TypeOK
<1>5. readbuf \in Seq(Records) /\ outbox \in Seq(Records) /\ Append(outbox, a) \in Seq(Records)
  BY <1>2 DEF Typed, TypeOK
<1>6. readbuf' = readbuf
  BY DEF Resumes, gdVars
<1>7. Pending' = Append(Append(Pending, a), b)
  <2>1. readbuf \o Append(Append(outbox, a), b) = Append(readbuf \o Append(outbox, a), b)
    BY <1>2, <1>5, PendingAppend
  <2>2. readbuf \o Append(outbox, a) = Append(readbuf \o outbox, a)
    BY <1>2, <1>5, PendingAppend
  <2>3. Pending' = readbuf \o Append(Append(outbox, a), b)
    BY <1>4, <1>6 DEF Pending
  <2> QED
    BY <2>1, <2>2, <2>3 DEF Pending
<1>8. Bounded'
  <2>1. Pending \in Seq(Records)
    BY PendingTyped DEF Typed
  <2>2. ASSUME NEW i \in 1..Len(Pending') PROVE Pending'[i].stop <= stops
    <3>1. stops \in Nat
      BY BoundsAssumption DEF Typed, TypeOK
    <3>2. CASE i \in 1..Len(Pending)
      <4>1. Pending'[i] = Pending[i]
        BY <1>2, <1>7, <2>1, <3>2
      <4> QED
        BY <3>2, <4>1 DEF Typed, Bounded
    <3>3. CASE i \notin 1..Len(Pending)
      <4>1. Pending'[i] = a \/ Pending'[i] = b
        BY <1>2, <1>7, <2>1, <3>3
      <4> QED
        BY <1>2, <3>1, <4>1
    <3> QED
      BY <3>2, <3>3
  <2>3. stops' = stops
    BY DEF Resumes
  <2> QED
    BY <2>2, <2>3 DEF Bounded
<1>9. outbox' \in Seq(Records)
  BY <1>2, <1>4, <1>5
<1>10. TypeOK'
  BY <1>1, <1>9 DEF Typed, TypeOK, Resumes, gdVars, shownVars
<1> QED
  BY <1>7, <1>8, <1>10 DEF Typed, a, b

LEMMA RefusesTyped ==
  ASSUME Typed, Refuses, UNCHANGED seen
  PROVE  /\ Typed'
         /\ Pending' = Append(Pending, Answer(Head(inbox),
                          Head(inbox).kind \in {"ask", "quit"} \/ target = "stopped", stops))
<1> DEFINE r == Answer(Head(inbox),
                   Head(inbox).kind \in {"ask", "quit"} \/ target = "stopped", stops)
<1>1. inbox' \in Seq(Commands) /\ Head(inbox) \in Commands
  BY TakesCommand DEF Typed, Refuses
<1>2. stops \in 0..MaxStops /\ stops \in Nat
  BY BoundsAssumption DEF Typed, TypeOK
<1>3. r \in Records /\ r.stop = stops
  BY <1>1, <1>2, ReadTyped
<1>4. outbox' = Append(outbox, r) /\ UNCHANGED <<stops, gdVars, seen>>
  BY DEF Refuses
<1> HIDE DEF r
<1>5. alive' \in BOOLEAN /\ target' \in {"none", "running", "stopped"}
  BY DEF Refuses, Typed, TypeOK
<1>6. Typed' /\ Pending' = Append(Pending, r)
  BY <1>1, <1>2, <1>3, <1>4, <1>5, OneRecordTyped
<1> QED
  BY <1>6 DEF r

LEMMA HaltsTyped ==
  ASSUME Typed, TargetStops \/ TargetExits \/ TargetKilled, UNCHANGED seen
  PROVE  \E r \in Records :
            /\ Typed' /\ Pending' = Append(Pending, r)
            /\ r.kind \in {"stopped", "exited"} /\ target = "running"
            /\ target' = "stopped" => r.kind = "stopped"
            /\ "signals" \notin seen /\ r.kind = "stopped" => target' = "stopped"
            /\ target' # "running"
            /\ UNCHANGED <<alive, inbox, gdVars>>
<1>1. MaxStops \in Nat /\ stops \in 0..MaxStops /\ inbox \in Seq(Commands) /\ alive \in BOOLEAN
  BY BoundsAssumption DEF Typed, TypeOK
<1>2. CASE TargetStops
  <2> DEFINE r == Async("stopped", stops')
  <2>1. /\ target = "running" /\ target' = "stopped" /\ stops' = stops + 1 /\ stops < MaxStops
        /\ outbox' = Append(outbox, r) /\ UNCHANGED <<alive, inbox, gdVars>>
    BY <1>2 DEF TargetStops
  <2>2. stops' \in 0..MaxStops /\ stops <= stops' /\ stops' \in Nat
    BY <1>1, <2>1
  <2>3. r \in Records /\ r.kind = "stopped" /\ r.stop = stops'
    BY <2>2, AsyncTyped
  <2> HIDE DEF r
  <2>4. Typed' /\ Pending' = Append(Pending, r)
    BY <1>1, <2>1, <2>2, <2>3, OneRecordTyped
  <2> QED
    BY <2>1, <2>3, <2>4
<1>3. CASE TargetExits
  <2> DEFINE r == Async("exited", 0)
  <2>1. /\ target = "running" /\ target' = "none" /\ stops' = stops
        /\ outbox' = Append(outbox, r) /\ UNCHANGED <<alive, inbox, gdVars>>
    BY <1>3 DEF TargetExits
  <2>2. r \in Records /\ r.kind = "exited" /\ r.stop = 0
    BY AsyncTyped
  <2> HIDE DEF r
  <2>3. Typed' /\ Pending' = Append(Pending, r)
    BY <1>1, <2>1, <2>2, OneRecordTyped
  <2> QED
    BY <2>1, <2>2, <2>3
<1>4. CASE TargetKilled
  <2> DEFINE r == Async("stopped", 0)
  <2>1. /\ target = "running" /\ target' = "none" /\ stops' = stops /\ "signals" \in seen
        /\ outbox' = Append(outbox, r) /\ UNCHANGED <<alive, inbox, gdVars>>
    BY <1>4 DEF TargetKilled
  <2>2. r \in Records /\ r.kind = "stopped" /\ r.stop = 0
    BY AsyncTyped
  <2> HIDE DEF r
  <2>3. Typed' /\ Pending' = Append(Pending, r)
    BY <1>1, <2>1, <2>2, OneRecordTyped
  <2> QED
    BY <2>1, <2>2, <2>3
<1> QED
  BY <1>2, <1>3, <1>4

LEMMA GdbTyped == Typed /\ Gdb /\ UNCHANGED seen => Typed'
<1> SUFFICES ASSUME Typed, Gdb, UNCHANGED seen PROVE Typed'
  OBVIOUS
<1>1. CASE GdbReads
  BY <1>1, ReadsSplit, ResumesTyped, RefusesTyped
<1>2. CASE TargetStops \/ TargetExits \/ TargetKilled
  BY <1>2, HaltsTyped
<1>3. CASE GdbDies
  <2>1. TypeOK'
    <3>1. inbox' \in Seq(Commands) /\ alive' \in BOOLEAN /\ target' = "none"
      BY <1>3, EmptySeq DEF GdbDies
    <3>2. UNCHANGED <<stops, outbox, state, where, panes, view, readbuf, token, asked, before,
                      pc, keys>>
      BY <1>3 DEF GdbDies, gdVars, shownVars
    <3> QED
      BY <3>1, <3>2 DEF Typed, TypeOK
  <2>2. Bounded'
    BY <1>3 DEF Typed, Bounded, Pending, GdbDies, gdVars
  <2> QED
    BY <2>1, <2>2 DEF Typed
<1> QED
  BY <1>1, <1>2, <1>3 DEF Gdb

\* The program stops or exits.
LEMMA HaltsKept ==
  ASSUME Typed, Core, NEW r \in Records, Pending' = Append(Pending, r),
         r.kind \in {"stopped", "exited"}, target = "running",
         target' = "stopped" => r.kind = "stopped",
         "signals" \notin seen /\ r.kind = "stopped" => target' = "stopped",
         target' # "running", UNCHANGED <<inbox, gdVars, seen>>
  PROVE  Core'
<1>1. Pending \in Seq(Records) /\ Len(Pending) \in Nat
  BY PendingTyped DEF Typed
<1>2. /\ Told(Pending') = Told(Pending) \cup {Len(Pending) + 1}
      /\ Pending'[Len(Pending) + 1] = r /\ \A i \in 1..Len(Pending) : Pending'[i] = Pending[i]
  BY <1>1, ToldAppend
<1>3. \A t : AnswersTo(t, Pending') = AnswersTo(t, Pending)
  BY <1>1, AnswersAppend
<1>4. UNCHANGED <<state, where, panes, view, readbuf, token, asked, before, pc>>
  BY DEF gdVars, shownVars
<1>5. Heard' = r.kind
  <2>1. Heard' = After(state', Append(Pending, r))
    BY DEF Heard
  <2> QED
    BY <1>1, <2>1, AfterAppend
<1>6. Agrees'
  BY <1>5 DEF Agrees
<1>7. Tokens'
  <2>1. ASSUME NEW i \in 1..Len(Pending'), Pending'[i].kind = "result"
        PROVE  Pending'[i].token <= token
    <3>1. i \in 1..Len(Pending) \/ i = Len(Pending) + 1
      BY <1>1
    <3>2. i \in 1..Len(Pending)
      BY <1>2, <2>1, <3>1
    <3> QED
      BY <1>2, <2>1, <3>2 DEF Core, Tokens
  <2> QED
    BY <1>4, <2>1 DEF Core, Tokens
<1>8. AnswersTo(asked.token, Pending) \subseteq 1..Len(Pending)
  BY DEF AnswersTo
<1>9. Acked'
  BY <1>2, <1>3, <1>4, <1>8 DEF Core, Acked, Starting
<1>10. Unread'
  BY <1>4 DEF Core, Unread
<1>11. ~Idle /\ UNCHANGED <<Starting, ExecsIn>>
  BY <1>4 DEF Idle, Starting, ExecsIn
<1>12. ASSUME "slowstart" \notin seen' PROVE Prompt'
  <2>1. Prompt
    BY <1>12 DEF Core
  <2>2. Latest'
    <3>1. \A i \in Told(Pending) : i \in 1..Len(Pending) /\ Pending'[i].kind = "running"
      BY <1>2, <2>1 DEF Prompt, Latest, Told
    <3>2. \A i \in Told(Pending') : i <= Len(Pending) + 1
      BY <1>1, <1>2, <3>1
    <3>3. \A i \in Told(Pending') : Pending'[i].kind # "running" => i = Len(Pending) + 1
      BY <1>2, <3>1
    <3> QED
      BY <3>2, <3>3 DEF Latest
  <2>3. \A i \in AnswersTo(asked.token, Pending) : i < Len(Pending) + 1
    BY <1>1, <1>8
  <2>4. ~(Starting /\ ExecsIn # {}) /\ (~Starting => state = "running")
    BY <1>11, <2>1 DEF Prompt
  <2>5. ASSUME Starting, NEW i \in AnswersTo(asked.token, Pending)
        PROVE  Pending'[i].ok /\ \A j \in Told(Pending') : i < j
    <3>1. Pending[i].ok /\ \A j \in Told(Pending) : i < j
      BY <1>11, <2>1, <2>5 DEF Prompt
    <3> QED
      BY <1>2, <1>8, <2>3, <3>1
  <2> QED
    BY <1>3, <1>4, <1>11, <2>1, <2>2, <2>4, <2>5 DEF Prompt
<1>13. ASSUME seen' \cap {"asking", "slowstart"} = {} PROVE Shown'
  <2>1. Prompt /\ Shown
    BY <1>13 DEF Core
  <2>2. ~Starting => state = "running"
    BY <1>11, <2>1 DEF Prompt
  <2> QED
    BY <1>4, <1>11, <2>1, <2>2 DEF Shown, Refreshing
<1> QED
  BY <1>6, <1>7, <1>9, <1>10, <1>12, <1>13 DEF Core

\* The request gd waits for is the last, and the others are no requests to run or resume.
LEMMA CommandRead ==
  ASSUME Typed, Core, inbox # <<>>, inbox' = Tail(inbox),
         UNCHANGED <<token, asked, pc>>
  PROVE  /\ Head(inbox).token <= token
         /\ \A i \in 1..Len(inbox') : inbox'[i].token <= token
         /\ pc = "wait" => asked.token = token
         /\ pc = "wait" => \A i \in 1..Len(inbox') :
               IF i = Len(inbox') THEN inbox'[i].token = token /\ inbox'[i].kind = asked.kind
               ELSE inbox'[i].token < token
         /\ pc = "wait" /\ Head(inbox).token = token =>
               inbox' = <<>> /\ Head(inbox).kind = asked.kind
         /\ pc = "wait" /\ inbox' = <<>> =>
               Head(inbox).token = token /\ Head(inbox).kind = asked.kind
<1>1. /\ Head(inbox) = inbox[1] /\ Len(inbox) \in Nat \ {0} /\ inbox' \in Seq(Commands)
      /\ Len(inbox') = Len(inbox) - 1
      /\ \A i \in 1..Len(inbox') : i + 1 \in 1..Len(inbox) /\ inbox'[i] = inbox[i + 1]
  BY TakesCommand DEF Typed
<1>2. 1 \in 1..Len(inbox) /\ (inbox' = <<>> <=> Len(inbox) = 1)
  <2>1. Len(inbox) = 1 <=> Len(inbox') = 0
    BY <1>1
  <2>2. inbox' = <<>> <=> Len(inbox') = 0
    BY <1>1, EmptySeq
  <2> QED
    BY <1>1, <2>1, <2>2
<1>3. \A i \in 1..Len(inbox') : i = Len(inbox') <=> i + 1 = Len(inbox)
  BY <1>1
<1>4. token \in Nat
  BY DEF Typed, TypeOK
<1>5. Tokens
  BY DEF Core
<1>6. Head(inbox).token <= token /\ \A i \in 1..Len(inbox') : inbox'[i].token <= token
  BY <1>1, <1>2, <1>5 DEF Tokens
<1>7. pc = "wait" => asked.token = token
  BY <1>5 DEF Tokens
<1>8. ASSUME pc = "wait", NEW i \in 1..Len(inbox')
      PROVE  IF i = Len(inbox') THEN inbox'[i].token = token /\ inbox'[i].kind = asked.kind
             ELSE inbox'[i].token < token
  BY <1>1, <1>3, <1>5, <1>8 DEF Tokens
<1>9. pc = "wait" => IF Len(inbox) = 1
                     THEN inbox[1].token = token /\ inbox[1].kind = asked.kind
                     ELSE inbox[1].token < token
  BY <1>2, <1>5 DEF Tokens
<1>10. pc = "wait" /\ Head(inbox).token = token =>
          inbox' = <<>> /\ Head(inbox).kind = asked.kind
  BY <1>1, <1>2, <1>4, <1>9
<1>11. pc = "wait" /\ inbox' = <<>> => Head(inbox).token = token /\ Head(inbox).kind = asked.kind
  BY <1>1, <1>2, <1>9
<1> QED
  BY <1>6, <1>7, <1>8, <1>10, <1>11

LEMMA ExecsRead ==
  ASSUME Typed, Prompt, inbox # <<>>, inbox' = Tail(inbox)
  PROVE  /\ \A i \in ExecsIn' : i = Len(inbox') /\ i + 1 \in ExecsIn /\ Starting
         /\ Head(inbox).kind \in Execs => Starting /\ ExecsIn # {} /\ inbox' = <<>> /\ ExecsIn' = {}
         /\ Head(inbox).kind \notin Execs /\ ExecsIn # {} => ExecsIn' # {}
<1>1. /\ Head(inbox) = inbox[1] /\ Len(inbox) \in Nat \ {0} /\ inbox' \in Seq(Commands)
      /\ Len(inbox') = Len(inbox) - 1
      /\ \A i \in 1..Len(inbox') : i + 1 \in 1..Len(inbox) /\ inbox'[i] = inbox[i + 1]
  BY TakesCommand DEF Typed
<1>2. ASSUME NEW i \in ExecsIn' PROVE i = Len(inbox') /\ i + 1 \in ExecsIn /\ Starting
  <2>1. i \in 1..Len(inbox') /\ i + 1 \in ExecsIn
    BY <1>1 DEF ExecsIn
  <2>2. i + 1 = Len(inbox) /\ Starting
    BY <2>1 DEF Prompt
  <2>3. Len(inbox) \in Nat /\ Len(inbox') = Len(inbox) - 1 /\ i \in Nat
    BY <1>1, <2>1
  <2> QED
    BY <2>1, <2>2, <2>3
<1>3. ASSUME Head(inbox).kind \in Execs
      PROVE  Starting /\ ExecsIn # {} /\ inbox' = <<>> /\ ExecsIn' = {}
  <2>1. 1 \in ExecsIn
    BY <1>1, <1>3 DEF ExecsIn
  <2>2. Len(inbox) = 1 /\ Starting
    BY <2>1 DEF Prompt
  <2>3. inbox' = <<>> /\ Len(inbox') = 0
    BY <1>1, <2>2
  <2>4. ExecsIn' = {}
    BY <2>3 DEF ExecsIn
  <2> QED
    BY <2>1, <2>2, <2>3, <2>4
<1>4. ASSUME Head(inbox).kind \notin Execs, NEW i \in ExecsIn PROVE ExecsIn' # {}
  <2>1. i \in 1..Len(inbox) /\ inbox[i].kind \in Execs /\ i # 1
    BY <1>1, <1>4 DEF ExecsIn
  <2>2. i - 1 \in 1..Len(inbox') /\ (i - 1) + 1 = i
    BY <1>1, <2>1
  <2>3. inbox'[i - 1] = inbox[i]
    BY <1>1, <2>2
  <2> QED
    BY <2>1, <2>2, <2>3 DEF ExecsIn
<1> QED
  BY <1>2, <1>3, <1>4

\* GDB answers and the state of the program stays.
LEMMA RefusesKept ==
  ASSUME Typed, Core, alive', Refuses, UNCHANGED seen,
         NEW r \in Records, Pending' = Append(Pending, r), r.kind = "result",
         r.token = Head(inbox).token, r.stop = stops,
         r.ok = (Head(inbox).kind \in {"ask", "quit"} \/ target = "stopped")
  PROVE  Core'
<1>1. Pending \in Seq(Records) /\ Len(Pending) \in Nat
  BY PendingTyped DEF Typed
<1>2. /\ inbox # <<>> /\ inbox' = Tail(inbox) /\ target # "running"
      /\ UNCHANGED <<state, where, panes, view, readbuf, token, asked, before, pc, stops, target>>
  BY DEF Refuses, gdVars, shownVars
<1>3. /\ Told(Pending') = Told(Pending)
      /\ Pending'[Len(Pending) + 1] = r /\ \A i \in 1..Len(Pending) : Pending'[i] = Pending[i]
  BY <1>1, ToldAppend
<1>4. \A t : AnswersTo(t, Pending') = IF Head(inbox).token = t
                                       THEN AnswersTo(t, Pending) \cup {Len(Pending) + 1}
                                       ELSE AnswersTo(t, Pending)
  BY <1>1, AnswersAppend
<1>5. /\ Head(inbox).token <= token
      /\ \A i \in 1..Len(inbox') : inbox'[i].token <= token
      /\ pc = "wait" => asked.token = token
      /\ pc = "wait" => \A i \in 1..Len(inbox') :
            IF i = Len(inbox') THEN inbox'[i].token = token /\ inbox'[i].kind = asked.kind
            ELSE inbox'[i].token < token
      /\ pc = "wait" /\ Head(inbox).token = token => inbox' = <<>> /\ Head(inbox).kind = asked.kind
      /\ pc = "wait" /\ inbox' = <<>> => Head(inbox).token = token /\ Head(inbox).kind = asked.kind
  BY <1>2, CommandRead
<1>6. Heard' = Heard
  <2>1. Heard' = After(state', Append(Pending, r))
    BY DEF Heard
  <2>2. After(state, Append(Pending, r)) = After(state, Pending)
    BY <1>1, AfterAppend
  <2> QED
    BY <1>2, <2>1, <2>2 DEF Heard
<1>7. Agrees'
  BY <1>2, <1>6, AgreesKept DEF Core
<1>8. Tokens'
  <2>1. ASSUME NEW i \in 1..Len(Pending'), Pending'[i].kind = "result"
        PROVE  Pending'[i].token <= token
    <3>1. CASE i \in 1..Len(Pending)
      BY <1>3, <2>1, <3>1 DEF Core, Tokens
    <3>2. CASE i = Len(Pending) + 1
      BY <1>3, <1>5, <3>2
    <3> QED
      BY <1>1, <3>1, <3>2
  <2> QED
    BY <1>2, <1>5, <2>1 DEF Tokens
<1>9. /\ AnswersTo(asked.token, Pending) \subseteq 1..Len(Pending)
      /\ Told(Pending) \subseteq 1..Len(Pending)
  BY DEF AnswersTo, Told
\* An answer to the request that gd waits for.
<1>10. ASSUME pc = "wait", NEW i \in AnswersTo(asked.token, Pending'), i \notin AnswersTo(asked.token, Pending)
       PROVE  i = Len(Pending) + 1 /\ Pending'[i] = r /\ Head(inbox).kind = asked.kind /\ inbox' = <<>>
  <2>1. i = Len(Pending) + 1 /\ Head(inbox).token = asked.token
    BY <1>4, <1>10
  <2> QED
    BY <1>3, <1>5, <1>10, <2>1
<1>11. ASSUME Starting, Head(inbox).kind = asked.kind
       PROVE  ~r.ok /\ target # "stopped"
  BY <1>2, <1>11 DEF Starting, Execs, Refuses, CanResume
<1>12. Acked'
  <2>1. ASSUME Starting, NEW i \in AnswersTo(asked.token, Pending'), Pending'[i].ok
        PROVE  \E j \in Told(Pending) : i < j
    <3>1. CASE i \in AnswersTo(asked.token, Pending)
      BY <1>3, <1>9, <2>1, <3>1 DEF Core, Acked
    <3>2. CASE i \notin AnswersTo(asked.token, Pending)
      BY <1>10, <1>11, <2>1, <3>2 DEF Starting
    <3> QED
      BY <3>1, <3>2
  <2> QED
    BY <1>2, <1>3, <2>1 DEF Acked, Starting
<1>13. Unread'
  BY <1>2 DEF Core, Unread
<1>14. UNCHANGED <<Idle, Starting, Refreshing, Leaving>>
  BY <1>2, <1>3 DEF Idle, Starting, Refreshing, Leaving
<1>15. ASSUME "slowstart" \notin seen' PROVE Prompt'
  <2>1. Prompt
    BY <1>15 DEF Core
  <2>2. /\ \A i \in ExecsIn' : i = Len(inbox') /\ i + 1 \in ExecsIn /\ Starting
        /\ Head(inbox).kind \in Execs => Starting /\ ExecsIn # {} /\ inbox' = <<>> /\ ExecsIn' = {}
        /\ Head(inbox).kind \notin Execs /\ ExecsIn # {} => ExecsIn' # {}
    BY <1>2, <2>1, ExecsRead
  <2>3. Latest'
    BY <1>2, <1>3, <1>9, <2>1 DEF Prompt, Latest
  <2>4. ASSUME Starting, ExecsIn' # {}
        PROVE  Idle /\ AnswersTo(asked.token, Pending') = {} /\ (asked.kind = "run" => target = "none")
    <3>1. ExecsIn # {} /\ inbox' # <<>>
      <4>1. PICK i \in ExecsIn' : TRUE
        BY <2>4
      <4>2. i + 1 \in ExecsIn /\ i \in 1..Len(inbox')
        BY <2>2, <4>1 DEF ExecsIn
      <4> QED
        BY <4>2
    <3>2. Idle /\ AnswersTo(asked.token, Pending) = {} /\ (asked.kind = "run" => target = "none")
      BY <2>1, <2>4, <3>1 DEF Prompt
    <3>3. AnswersTo(asked.token, Pending') = {}
      BY <1>10, <2>4, <3>1, <3>2 DEF Starting
    <3> QED
      BY <3>2, <3>3
  <2>5. ASSUME Starting, ExecsIn' = {} PROVE AnswersTo(asked.token, Pending') # {}
    <3>1. CASE ExecsIn = {}
      <4>1. AnswersTo(asked.token, Pending) # {}
        BY <2>1, <2>5, <3>1 DEF Prompt
      <4> QED
        BY <1>4, <4>1
    <3>2. CASE ExecsIn # {}
      <4>1. inbox' = <<>>
        BY <2>2, <2>5, <3>2
      <4>2. Head(inbox).token = asked.token
        BY <1>5, <2>5, <4>1 DEF Starting
      <4> QED
        BY <1>4, <4>2
    <3> QED
      BY <3>1, <3>2
  <2>6. ASSUME Starting, NEW i \in AnswersTo(asked.token, Pending')
        PROVE  /\ \A j \in Told(Pending) : i < j
               /\ ~Pending'[i].ok => Idle /\ target # "stopped"
    <3>1. CASE i \in AnswersTo(asked.token, Pending)
      <4>1. /\ \A j \in Told(Pending) : i < j
            /\ ~Pending[i].ok => Idle /\ target # "stopped"
        BY <2>1, <2>6, <3>1 DEF Prompt
      <4> QED
        BY <1>3, <1>9, <3>1, <4>1
    <3>2. CASE i \notin AnswersTo(asked.token, Pending)
      <4>1. Head(inbox).kind = asked.kind
        BY <1>10, <2>6, <3>2 DEF Starting
      <4>2. target # "stopped" /\ Head(inbox).kind \in Execs
        BY <1>11, <2>6, <4>1 DEF Starting
      <4>3. Idle
        BY <2>1, <2>2, <2>6, <4>2 DEF Prompt
      <4> QED
        BY <4>2, <4>3 DEF Idle
    <3> QED
      BY <3>1, <3>2
  <2> QED
    BY <1>2, <1>3, <1>14, <2>1, <2>2, <2>3, <2>4, <2>5, <2>6 DEF Prompt
<1>16. ASSUME seen' \cap {"asking", "slowstart"} = {} PROVE Shown'
  <2>1. Shown
    BY <1>16 DEF Core
  <2>2. ASSUME Refreshing, target = "stopped", NEW i \in AnswersTo(asked.token, Pending'),
               \A j \in AnswersTo(asked.token, Pending) : Pending[j].ok /\ Pending[j].stop = stops
        PROVE  Pending'[i].ok /\ Pending'[i].stop = stops
    <3>1. CASE i \in AnswersTo(asked.token, Pending)
      BY <1>3, <1>9, <2>2, <3>1
    <3>2. CASE i \notin AnswersTo(asked.token, Pending)
      <4>1. Pending'[i] = r
        BY <1>10, <2>2, <3>2 DEF Refreshing
      <4> QED
        BY <2>2, <4>1
    <3> QED
      BY <3>1, <3>2
  <2>3. (Now(where) <=> Now(where)') /\ (Now(panes) <=> Now(panes)') /\ (Now(view) <=> Now(view)')
    BY <1>2 DEF Now
  <2> QED
    BY <1>2, <1>14, <2>1, <2>2, <2>3 DEF Shown
<1> QED
  BY <1>7, <1>8, <1>12, <1>13, <1>15, <1>16 DEF Core

\* GDB runs or resumes the program.
LEMMA ResumesKept ==
  ASSUME Typed, Core, Resumes, UNCHANGED seen,
         NEW a \in Records, NEW b \in Records, Pending' = Append(Append(Pending, a), b),
         a.kind = "result", a.token = Head(inbox).token, a.ok = TRUE, b.kind = "running"
  PROVE  Core'
<1> DEFINE p == Append(Pending, a)
           n == Len(Pending)
<1>1. Pending \in Seq(Records) /\ p \in Seq(Records) /\ n \in Nat /\ Len(p) = n + 1
      /\ Len(Pending') = n + 2
  BY PendingTyped DEF Typed
<1>2. /\ inbox # <<>> /\ inbox' = Tail(inbox) /\ target # "running" /\ target' = "running"
      /\ CanResume(Head(inbox).kind)
      /\ UNCHANGED <<state, where, panes, view, readbuf, token, asked, before, pc, stops>>
  BY DEF Resumes, gdVars, shownVars
<1>3. Told(p) = Told(Pending) /\ p[n + 1] = a /\ \A i \in 1..n : p[i] = Pending[i]
  BY <1>1, ToldAppend
<1>4. /\ Told(Pending') = Told(p) \cup {Len(p) + 1}
      /\ Pending'[Len(p) + 1] = b /\ \A i \in 1..Len(p) : Pending'[i] = p[i]
  BY <1>1, ToldAppend
<1>5. \A t : AnswersTo(t, p) = IF Head(inbox).token = t THEN AnswersTo(t, Pending) \cup {n + 1}
                                ELSE AnswersTo(t, Pending)
  BY <1>1, AnswersAppend
<1>6. \A t : AnswersTo(t, Pending') = AnswersTo(t, p)
  BY <1>1, AnswersAppend
<1>7. Heard' = "running"
  <2>1. Heard' = After(state', Append(p, b))
    BY DEF Heard
  <2> HIDE DEF p
  <2> QED
    BY <1>1, <2>1, AfterAppend
<1> HIDE DEF p, n
<1>8. /\ Told(Pending') = Told(Pending) \cup {n + 2} /\ Pending'[n + 1] = a /\ Pending'[n + 2] = b
      /\ \A i \in 1..n : Pending'[i] = Pending[i]
      /\ \A t : AnswersTo(t, Pending') = IF Head(inbox).token = t
                                         THEN AnswersTo(t, Pending) \cup {n + 1}
                                         ELSE AnswersTo(t, Pending)
  <2>1. (n + 1) + 1 = n + 2 /\ n + 1 \in 1..Len(p) /\ \A i \in 1..n : i \in 1..Len(p)
    BY <1>1
  <2>2. Told(Pending') = Told(Pending) \cup {n + 2}
    BY <1>1, <1>3, <1>4, <2>1
  <2>3. /\ Pending'[n + 1] = a /\ Pending'[n + 2] = b
        /\ \A i \in 1..n : Pending'[i] = Pending[i]
    BY <1>1, <1>3, <1>4, <2>1
  <2> QED
    BY <1>5, <1>6, <2>2, <2>3
<1>9. /\ AnswersTo(asked.token, Pending) \subseteq 1..n /\ Told(Pending) \subseteq 1..n
  BY DEF AnswersTo, Told, n
<1>10. /\ Head(inbox).token <= token
       /\ \A i \in 1..Len(inbox') : inbox'[i].token <= token
       /\ pc = "wait" => asked.token = token
       /\ pc = "wait" => \A i \in 1..Len(inbox') :
             IF i = Len(inbox') THEN inbox'[i].token = token /\ inbox'[i].kind = asked.kind
             ELSE inbox'[i].token < token
       /\ pc = "wait" /\ inbox' = <<>> => Head(inbox).token = token /\ Head(inbox).kind = asked.kind
  BY <1>2, CommandRead
<1>11. Agrees'
  BY <1>2, <1>7 DEF Agrees
<1>12. Tokens'
  <2>1. ASSUME NEW i \in 1..Len(Pending'), Pending'[i].kind = "result"
        PROVE  Pending'[i].token <= token
    <3>1. CASE i \in 1..n
      BY <1>8, <2>1, <3>1 DEF Core, Tokens, n
    <3>2. CASE i = n + 1
      BY <1>8, <1>10, <3>2
    <3>3. i # n + 2
      BY <1>8, <2>1
    <3> QED
      BY <1>1, <3>1, <3>2, <3>3
  <2> QED
    BY <1>2, <1>10, <2>1 DEF Tokens
<1>13. \A i \in AnswersTo(asked.token, Pending') : i < n + 2
  <2>1. \A i \in AnswersTo(asked.token, Pending') : i \in 1..n \/ i = n + 1
    BY <1>8, <1>9
  <2> QED
    BY <1>1, <2>1
<1>14. Acked'
  BY <1>2, <1>8, <1>13 DEF Acked
<1>15. Unread'
  BY <1>2 DEF Core, Unread
<1>16. UNCHANGED Starting
  BY <1>2 DEF Starting
<1>17. ASSUME "slowstart" \notin seen' PROVE Prompt' /\ Starting
  <2>1. Prompt
    BY <1>17 DEF Core
  <2>2. Head(inbox).kind \in Execs
    BY <1>2 DEF CanResume, Execs
  <2>3. Starting /\ ExecsIn # {} /\ inbox' = <<>> /\ ExecsIn' = {}
    BY <1>2, <2>1, <2>2, ExecsRead
  <2>4. Told(Pending) = {} /\ AnswersTo(asked.token, Pending) = {} /\ state # "running"
    BY <2>1, <2>3 DEF Prompt, Idle
  <2>5. Head(inbox).token = asked.token
    BY <1>10, <2>3 DEF Starting
  <2>6. AnswersTo(asked.token, Pending') = {n + 1}
    BY <1>8, <2>4, <2>5
  <2>7. Told(Pending') = {n + 2}
    BY <1>8, <2>4
  <2>8. Latest'
    BY <1>8, <2>7 DEF Latest
  <2>9. n + 1 < n + 2
    BY <1>1
  <2> QED
    BY <1>2, <1>8, <1>16, <2>3, <2>4, <2>6, <2>7, <2>8, <2>9 DEF Prompt
<1>18. ASSUME seen' \cap {"asking", "slowstart"} = {} PROVE Shown'
  <2>1. Shown /\ Starting
    BY <1>17, <1>18 DEF Core
  <2> QED
    BY <1>2, <1>16, <2>1 DEF Shown, Refreshing
<1> QED
  BY <1>11, <1>12, <1>14, <1>15, <1>17, <1>18 DEF Core

LEMMA GdbKept ==
  ASSUME Typed, Typed', Core, alive, alive', Gdb, UNCHANGED seen
  PROVE  Core'
<1>1. CASE Resumes
  <2>1. Head(inbox) \in Commands
    BY <1>1, TakesCommand DEF Typed, Resumes
  <2> DEFINE a == Answer(Head(inbox), TRUE, 0)
             b == Async("running", 0)
  <2>2. /\ a \in Records /\ a.kind = "result" /\ a.token = Head(inbox).token /\ a.ok = TRUE
    <3>1. TRUE \in BOOLEAN /\ 0 \in Nat
      OBVIOUS
    <3> HIDE DEF a
    <3> QED
      BY <2>1, <3>1, ReadTyped DEF a
  <2>3. b \in Records /\ b.kind = "running"
    BY AsyncTyped
  <2>4. Pending' = Append(Append(Pending, a), b)
    BY <1>1, ResumesTyped
  <2> HIDE DEF a, b
  <2> QED
    BY <1>1, <2>2, <2>3, <2>4, ResumesKept
<1>2. CASE Refuses
  <2>1. Head(inbox) \in Commands /\ stops \in Nat
    BY <1>2, TakesCommand, BoundsAssumption DEF Typed, TypeOK, Refuses
  <2> DEFINE ok == Head(inbox).kind \in {"ask", "quit"} \/ target = "stopped"
             r == Answer(Head(inbox), ok, stops)
  <2>2. ok \in BOOLEAN
    OBVIOUS
  <2>3. Pending' = Append(Pending, r)
    BY <1>2, RefusesTyped
  <2> HIDE DEF ok
  <2>4. /\ r \in Records /\ r.kind = "result" /\ r.token = Head(inbox).token
        /\ r.stop = stops /\ r.ok = ok
    BY <2>1, <2>2, ReadTyped
  <2> HIDE DEF r
  <2> QED
    BY <1>2, <2>3, <2>4, RefusesKept DEF ok
<1>3. CASE TargetStops \/ TargetExits \/ TargetKilled
  BY <1>3, HaltsTyped, HaltsKept
<1>4. ~GdbDies
  BY DEF GdbDies
<1> QED
  BY <1>1, <1>2, <1>3, <1>4, ReadsSplit DEF Gdb

LEMMA InvInit == Init => GdbInv
<1> SUFFICES ASSUME Init PROVE GdbInv
  OBVIOUS
<1>1. Typed
  BY TypedInit
<1>2. /\ Pending = <<>> /\ inbox = <<>> /\ readbuf = <<>> /\ Len(Pending) = 0
      /\ pc = "poll" /\ state = "not_started" /\ target = "none"
  BY DEF Init, Pending
<1>3. Told(Pending) = {} /\ ExecsIn = {}
  BY <1>2 DEF Told, ExecsIn
<1>4. Heard = "not_started"
  BY <1>2, <1>3, AfterNone DEF Heard
<1>5. Agrees
  BY <1>2, <1>4 DEF Agrees
<1>6. Tokens /\ Acked /\ Unread
  BY <1>2 DEF Tokens, Acked, Unread, Starting
<1>7. Prompt
  BY <1>2, <1>3 DEF Prompt, Starting, Idle, Latest
<1>8. Shown
  BY <1>2 DEF Shown, Refreshing
<1> QED
  BY <1>1, <1>5, <1>6, <1>7, <1>8 DEF GdbInv, Core

LEMMA InvNext == GdbInv /\ [Next]_vars => GdbInv'
<1>1. GdbInv /\ Next => GdbInv'
  <2> SUFFICES ASSUME GdbInv, Next PROVE GdbInv'
    OBVIOUS
  <2>1. Typed /\ UNCHANGED seen /\ (Gd \/ Gdb)
    BY DEF GdbInv, Next
  <2>2. Typed'
    BY <2>1, GdTyped, GdbTyped
  <2>3. ASSUME alive' PROVE alive
    <3>1. CASE Gd
      BY <2>3, <3>1 DEF Gd, Poll, PollBuffered, PollReads, PollNothing, Wait, WaitReads,
                        Answered, GivesUp, Key, OtherKey, Run, Resume, Ask, Select, Quit,
                        Press, Reap, gdbVars
    <3>2. CASE Gdb
      BY <2>3, <3>2 DEF Gdb, GdbReads, TargetStops, TargetExits, TargetKilled, GdbDies,
                  Typed, TypeOK
    <3> QED
      BY <2>1, <3>1, <3>2
  <2>4. ASSUME alive' PROVE Core'
    BY <2>1, <2>2, <2>3, <2>4, GdKept, GdbKept DEF GdbInv
  <2> QED
    BY <2>2, <2>4 DEF GdbInv
<1>2. GdbInv /\ UNCHANGED vars => GdbInv'
  <2> SUFFICES ASSUME GdbInv, UNCHANGED vars PROVE GdbInv'
    OBVIOUS
  <2>1. UNCHANGED <<seen, alive, target, stops, inbox, outbox, state, where, panes, view,
                    readbuf, token, asked, before, pc, keys>>
    BY DEF vars, gdbVars, shownVars
  <2>2. UNCHANGED <<Pending, Typed>>
    BY <2>1 DEF Typed, TypeOK, Bounded, Pending
  <2>3. UNCHANGED <<Agrees, Tokens, Acked, Unread>>
    BY <2>1, <2>2 DEF Agrees, Tokens, Acked, Unread, Heard, Starting
  <2>4. UNCHANGED Prompt
    BY <2>1, <2>2 DEF Prompt, Starting, Idle, Latest, ExecsIn
  <2>5. UNCHANGED Shown
    BY <2>1, <2>2 DEF Shown, Refreshing, Leaving, Starting, Now
  <2> QED
    BY <2>1, <2>2, <2>3, <2>4, <2>5 DEF GdbInv, Core
<1> QED
  BY <1>1, <1>2

LEMMA InvAlways == Spec => []GdbInv
  BY InvInit, InvNext, PTL DEF Spec

----------------------------------------------------------------------------
(* Theorems *)

\* Neither answers that come too late nor requests made while the program runs lead gd
\* away from the state of the program (wait_result, handle_async).
THEOREM GoesByTheProgram == Spec => []StateAgrees
<1>1. GdbInv => StateAgrees
  <2> SUFFICES ASSUME GdbInv PROVE StateAgrees
    OBVIOUS
  <2>1. TypeOK
    BY DEF GdbInv, Typed
  <2>2. ASSUME "signals" \notin seen, Quiet 
        PROVE  (state = "running" <=> target = "running") /\ (state = "stopped" <=> target = "stopped")
    <3>1. Agrees /\ Pending = <<>>
      BY <2>2 DEF Quiet, GdbInv, Core, Pending
    <3>2. Told(Pending) = {}
      BY <3>1 DEF Told
    <3>3. Heard = state
      BY <3>2, AfterNone DEF Heard
    <3> QED
      BY <2>2, <3>1, <3>3 DEF Agrees
  <2> QED
    BY <2>1, <2>2 DEF StateAgrees, RightState, Without
<1> QED
  BY <1>1, InvAlways, PTL

\* r never starts a program over that has stopped (gdb_run's guard in main.c), if GDB was
\* in time when it was run.
THEOREM NeverStartsOver == Spec => []NeverRestarted
<1>1. GdbInv => NeverRestarted
  <2> SUFFICES ASSUME GdbInv, "slowstart" \notin seen, alive, target = "stopped",
                      inbox # <<>>, Head(inbox).kind = "run"
               PROVE  FALSE
    BY DEF NeverRestarted, NoRestart, Without
  <2>1. Prompt /\ Tokens /\ inbox \in Seq(Commands)
    BY DEF GdbInv, Core, Typed, TypeOK
  <2>2. 1 \in 1..Len(inbox) /\ inbox[1].kind = "run"
    BY <2>1
  <2>3. 1 \in ExecsIn
    BY <2>2 DEF ExecsIn, Execs
  <2>4. Starting /\ 1 = Len(inbox) /\ (asked.kind = "run" => target = "none")
    BY <2>1, <2>3 DEF Prompt
  <2>5. asked.kind = "run"
    BY <2>1, <2>2, <2>4 DEF Tokens, Starting
  <2> QED
    BY <2>4, <2>5
<1> QED
  BY <1>1, InvAlways, PTL

\* Wherever read cuts the stream of records and however late GDB answers, what gd shows at
\* a stop is of that stop, or nothing (gdb_refresh, gdb_poll).
THEOREM ShowsTheStop == Spec => []PanesFresh
<1>1. GdbInv => PanesFresh
  <2> SUFFICES ASSUME GdbInv, seen \cap {"asking", "slowstart"} = {}, Quiet, target = "stopped"
               PROVE  Now(panes) /\ Now(view)
    BY DEF PanesFresh, RightPanes, Without, Now
  <2>1. Agrees /\ Shown /\ Pending = <<>> /\ pc = "key"
    BY DEF Quiet, GdbInv, Core, Pending
  <2>2. Told(Pending) = {}
    BY <2>1 DEF Told
  <2>3. state = "stopped"
    BY <2>1, <2>2, AfterNone DEF Heard, Agrees
  <2> QED
    BY <2>1, <2>3 DEF Shown, Starting, Refreshing, Leaving
<1> QED
  BY <1>1, InvAlways, PTL
=============================================================================
