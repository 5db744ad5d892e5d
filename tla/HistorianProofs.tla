-------------------------- MODULE HistorianProofs --------------------------
(***************************************************************************)
(* CircularArray and Historian, for every capacity, interval, content and  *)
(* sequence of dates.                                                      *)
(***************************************************************************)
EXTENDS Historian, TLAPS

-----------------------------------------------------------------------------
(***************************************************************************)
(* The operators of CircularArray                                          *)
(***************************************************************************)

(***************************************************************************)
(* Index rotates by Offset: it adds, and subtracts the capacity on leaving *)
(* the slice.                                                              *)
(***************************************************************************)
LEMMA Wrap ==
  ASSUME NEW n \in Nat \ {0}, NEW i \in 0 .. 2 * n - 1
  PROVE  i % n = IF i < n THEN i ELSE i - n
<1>1. CASE i < n
  BY <1>1
<1>2. CASE i >= n
  <2>1. i \in n .. 2 * n - 1
    BY <1>2
  <2>2. i % n = i - n
    BY <2>1
  <2> QED
    BY <1>2, <2>2
<1> QED
  BY <1>1, <1>2

LEMMA IndexRotates ==
  ASSUME NEW n \in Nat \ {0}, NEW S, NEW a \in CircularArrays(S, n),
         NEW i \in 0 .. n - 1
  PROVE  Index(a, i) = IF i + a.Offset < n THEN i + a.Offset
                                           ELSE i + a.Offset - n
<1> DEFINE k == i + a.Offset
<1>1. a.cap = n /\ a.Offset \in 0 .. n - 1
  BY DEF CircularArrays
<1>2. k \in 0 .. 2 * n - 1
  BY <1>1
<1> HIDE DEF k
<1>3. k % n = IF k < n THEN k ELSE k - n
  BY <1>2, Wrap
<1> QED
  BY <1>1, <1>3 DEF Index, k

(***************************************************************************)
(* Pushing onto an array that is not full appends, and does not rotate it. *)
(***************************************************************************)
LEMMA PushGrows ==
  ASSUME NEW n \in Nat \ {0}, NEW S, NEW a \in CircularArrays(S, n), NEW x \in S,
         Len(a.xs) < n
  PROVE  /\ Push(a, x) \in CircularArrays(S, n)
         /\ Floats(Push(a, x)) = Append(Floats(a), x)
<1> DEFINE b == Push(a, x)
<1>1. /\ a = [Offset |-> 0, xs |-> a.xs, cap |-> n]
      /\ a.xs \in Seq(S)
  BY DEF CircularArrays
<1>2. b = [Offset |-> 0, xs |-> Append(a.xs, x), cap |-> n]
  <2> DEFINE ys == Append(a.xs, x)
  <2>1. a.cap = n
    BY <1>1
  <2>2. b = [a EXCEPT !.xs = ys]
    BY <2>1 DEF Push
  <2> HIDE DEF b, ys
  <2>3. [a EXCEPT !.xs = ys] = [Offset |-> 0, xs |-> ys, cap |-> n]
    BY <1>1
  <2> QED
    BY <2>2, <2>3 DEF ys
<1>3. /\ b.Offset = 0 /\ b.xs = Append(a.xs, x)
      /\ Append(a.xs, x) \in Seq(S) /\ Len(Append(a.xs, x)) \in 0 .. n
  BY <1>1, <1>2
<1>4. b \in CircularArrays(S, n)
  BY <1>2, <1>3 DEF CircularArrays
<1>5. ASSUME NEW c \in CircularArrays(S, n), c.Offset = 0
      PROVE  Floats(c) = c.xs
  <2>1. c.xs \in Seq(S) /\ Len(c.xs) \in 0 .. n
    BY DEF CircularArrays
  <2>2. \A i \in 1 .. Len(c.xs) : At(c, i - 1) = c.xs[i]
    BY <1>5, <2>1, IndexRotates DEF At
  <2>3. c.xs = [i \in 1 .. Len(c.xs) |-> c.xs[i]]
    BY <2>1
  <2>4. Floats(c) = [i \in 1 .. Len(c.xs) |-> c.xs[i]]
    BY <2>2 DEF Floats
  <2> QED
    BY <2>3, <2>4
<1>6. Floats(a) = a.xs /\ Floats(b) = b.xs
  BY <1>1, <1>3, <1>4, <1>5
<1> QED
  BY <1>3, <1>4, <1>6

(***************************************************************************)
(* Pushing onto a full array drops its oldest element and appends.         *)
(***************************************************************************)
LEMMA PushForgets ==
  ASSUME NEW n \in Nat \ {0}, NEW S, NEW a \in CircularArrays(S, n), NEW x \in S,
         Len(a.xs) = n
  PROVE  /\ Push(a, x) \in CircularArrays(S, n)
         /\ Floats(Push(a, x)) = Append(Tail(Floats(a)), x)
<1> DEFINE o == a.Offset
           p == (o + 1) % n
           r == [a EXCEPT !.Offset = p]
           b == Push(a, x)
<1>1. /\ a = [Offset |-> o, xs |-> a.xs, cap |-> n]
      /\ a.xs \in Seq(S) /\ a.cap = n /\ o \in 0 .. n - 1
  BY DEF CircularArrays
<1>2. p = IF o + 1 < n THEN o + 1 ELSE 0
  <2>1. o + 1 \in 0 .. 2 * n - 1
    BY <1>1
  <2> QED
    BY <1>1, <2>1, Wrap
<1>3. r = [Offset |-> p, xs |-> a.xs, cap |-> n]
  BY <1>1
<1>4. b = [r EXCEPT !.xs = [a.xs EXCEPT ![LastIndex(r) + 1] = x]]
  BY <1>1, <1>3 DEF Push
<1> HIDE DEF p, r, b
<1>5. p \in 0 .. n - 1
  BY <1>1, <1>2
<1>6. r \in CircularArrays(S, n) /\ r.Offset = p /\ r.xs = a.xs
  BY <1>1, <1>3, <1>5 DEF CircularArrays
<1>7. LastIndex(r) = o
  <2>1. n - 1 \in 0 .. n - 1
    OBVIOUS
  <2>2. Index(r, n - 1) = IF n - 1 + p < n THEN n - 1 + p ELSE n - 1 + p - n
    BY <1>6, <2>1, IndexRotates
  <2> QED
    BY <1>1, <1>2, <1>6, <2>2 DEF LastIndex
<1>8. b = [Offset |-> p, xs |-> [a.xs EXCEPT ![o + 1] = x], cap |-> n]
  BY <1>3, <1>4, <1>7
<1>9. [a.xs EXCEPT ![o + 1] = x] \in Seq(S) /\ Len([a.xs EXCEPT ![o + 1] = x]) = n
  BY <1>1
<1>10. b.Offset = p /\ b.xs = [a.xs EXCEPT ![o + 1] = x] /\ Len(b.xs) = n
  BY <1>8, <1>9
<1>11. b \in CircularArrays(S, n)
  BY <1>5, <1>8, <1>9, <1>10 DEF CircularArrays
<1>12. ASSUME NEW i \in 0 .. n - 1
       PROVE  /\ Index(b, i) = IF i + p < n THEN i + p ELSE i + p - n
              /\ Index(a, i) = IF i + o < n THEN i + o ELSE i + o - n
  BY <1>10, <1>11, IndexRotates
<1>13. At(b, n - 1) = x
  <2>1. n - 1 \in 0 .. n - 1
    OBVIOUS
  <2>2. Index(b, n - 1) = o
    BY <1>1, <1>2, <1>12, <2>1
  <2>3. o + 1 \in 1 .. Len(a.xs)
    BY <1>1
  <2> QED
    BY <1>1, <1>10, <2>2, <2>3 DEF At
<1>14. ASSUME NEW i \in 1 .. n - 1
       PROVE  At(b, i - 1) = At(a, i)
  <2>1. i - 1 \in 0 .. n - 1 /\ i \in 0 .. n - 1
    OBVIOUS
  <2>2. Index(b, i - 1) = IF i - 1 + p < n THEN i - 1 + p ELSE i - 1 + p - n
    BY <1>12, <2>1
  <2>3. Index(a, i) = IF i + o < n THEN i + o ELSE i + o - n
    BY <1>12, <2>1
  <2>4. Index(b, i - 1) = Index(a, i) /\ Index(a, i) \in 0 .. n - 1 /\ Index(a, i) # o
    BY <1>1, <1>2, <2>2, <2>3
  <2>5. Index(a, i) + 1 \in 1 .. Len(a.xs) /\ Index(a, i) + 1 # o + 1
    BY <1>1, <2>4
  <2>6. [a.xs EXCEPT ![o + 1] = x][Index(a, i) + 1] = a.xs[Index(a, i) + 1]
    BY <1>1, <2>5
  <2> QED
    BY <1>10, <2>4, <2>6 DEF At
<1>15. Floats(a) \in Seq(S) /\ Len(Floats(a)) = n
  <2>1. ASSUME NEW i \in 1 .. n
        PROVE  At(a, i - 1) \in S
    <3>1. i - 1 \in 0 .. n - 1
      OBVIOUS
    <3>2. Index(a, i - 1) = IF i - 1 + o < n THEN i - 1 + o ELSE i - 1 + o - n
      BY <1>12, <3>1
    <3>3. Index(a, i - 1) + 1 \in 1 .. n
      BY <1>1, <3>2
    <3> QED
      BY <1>1, <3>3 DEF At
  <2> QED
    BY <2>1 DEF Floats
<1>16. Floats(b) = Append(Tail(Floats(a)), x)
  <2> DEFINE w == Append(Tail(Floats(a)), x)
  <2>1. w \in Seq(S) /\ Len(w) = n
    BY <1>15
  <2>2. \A i \in 1 .. n - 1 : w[i] = Floats(a)[i + 1]
    BY <1>15
  <2>3. \A i \in 1 .. n - 1 : w[i] = At(a, i)
    <3> TAKE i \in 1 .. n - 1
    <3>1. i + 1 \in 1 .. Len(a.xs) /\ (i + 1) - 1 = i
      OBVIOUS
    <3>2. Floats(a)[i + 1] = At(a, (i + 1) - 1)
      BY <3>1 DEF Floats
    <3> QED
      BY <2>2, <3>1, <3>2
  <2>4. w[n] = x
    BY <1>15
  <2> HIDE DEF w
  <2>5. ASSUME NEW i \in 1 .. n
        PROVE  w[i] = At(b, i - 1)
    <3>1. CASE i = n
      BY <1>13, <2>4, <3>1
    <3>2. CASE i # n
      BY <1>14, <2>3, <3>2
    <3> QED
      BY <3>1, <3>2
  <2>6. Floats(b) = [i \in 1 .. n |-> At(b, i - 1)]
    BY <1>10 DEF Floats
  <2>7. w = [i \in 1 .. n |-> w[i]]
    BY <2>1
  <2> QED
    BY <2>5, <2>6, <2>7 DEF w
<1> QED
  BY <1>11, <1>16 DEF b

(***************************************************************************)
(* What an array shows is a sequence of its elements that ends with Last.  *)
(***************************************************************************)
LEMMA FloatsEndWithLast ==
  ASSUME NEW n \in Nat \ {0}, NEW S, NEW a \in CircularArrays(S, n)
  PROVE  /\ Floats(a) \in Seq(S) /\ Len(Floats(a)) <= n
         /\ Floats(a) # <<>> => Last(a) = Floats(a)[Len(Floats(a))]
<1>1. a.xs \in Seq(S) /\ Len(a.xs) \in 0 .. n
  BY DEF CircularArrays
<1>2. ASSUME NEW i \in 1 .. Len(a.xs) PROVE At(a, i - 1) \in S
  <2>1. i - 1 \in 0 .. n - 1
    BY <1>1
  <2>2. a.Offset \in 0 .. n - 1 /\ (Len(a.xs) < n => a.Offset = 0)
    BY DEF CircularArrays
  <2>3. Index(a, i - 1) = IF i - 1 + a.Offset < n THEN i - 1 + a.Offset
                                                  ELSE i - 1 + a.Offset - n
    BY <2>1, IndexRotates
  <2>4. Index(a, i - 1) + 1 \in 1 .. Len(a.xs)
    BY <1>1, <2>2, <2>3
  <2> QED
    BY <1>1, <2>4 DEF At
<1>3. Floats(a) \in Seq(S) /\ Len(Floats(a)) = Len(a.xs)
  BY <1>1, <1>2 DEF Floats
<1>4. ASSUME Floats(a) # <<>> PROVE Last(a) = Floats(a)[Len(Floats(a))]
  <2>1. Len(a.xs) \in 1 .. Len(a.xs)
    BY <1>1, <1>3, <1>4
  <2> QED
    BY <1>3, <2>1 DEF Floats, Last
<1> QED
  BY <1>1, <1>3, <1>4

-----------------------------------------------------------------------------
(***************************************************************************)
(* Historian                                                               *)
(***************************************************************************)

USE IntervalsAssumption, StateLengthAssumption, TimesAssumption

(***************************************************************************)
(* Epochs are integers.                                                    *)
(***************************************************************************)
LEMMA EpochIsInt ==
  ASSUME NEW n \in Nat \ {0}, NEW t \in Times PROVE EpochOf(t, n) \in Int
  BY DEF EpochOf

(***************************************************************************)
(* EpochOf, although it truncates, never decreases as time passes.         *)
(***************************************************************************)
LEMMA EpochMonotone ==
  ASSUME NEW n \in Nat \ {0}, NEW s \in Times, NEW t \in Times, s <= t
  PROVE  EpochOf(s, n) <= EpochOf(t, n)
<1>1. n \in Nat \ {0} /\ s \in Int /\ t \in Int
  OBVIOUS
<1>2. ASSUME NEW i \in Int, NEW j \in Int, i <= j
      PROVE  i \div n <= j \div n
  BY <1>1, <1>2
<1>3. ASSUME NEW i \in Int, i >= 0
      PROVE  i \div n >= 0 /\ i \div n \in Int
  <2>1. 0 \div n = 0
    BY <1>1
  <2> QED
    BY <1>1, <1>2, <1>3, <2>1
<1>4. CASE s >= 0
  BY <1>1, <1>2, <1>4 DEF EpochOf
<1>5. CASE s < 0 /\ t < 0
  <2>1. -t <= -s /\ -t \in Int /\ -s \in Int
    BY <1>1
  <2>2. (-t) \div n <= (-s) \div n
    BY <1>2, <2>1
  <2> QED
    BY <1>1, <1>5, <2>2 DEF EpochOf
<1>6. CASE s < 0 /\ t >= 0
  <2>1. (-s) \div n >= 0 /\ (-s) \div n \in Int
    BY <1>1, <1>3, <1>6
  <2>2. t \div n >= 0
    BY <1>1, <1>3, <1>6
  <2> QED
    BY <1>1, <1>6, <2>1, <2>2 DEF EpochOf
<1> QED
  BY <1>1, <1>4, <1>5, <1>6

-----------------------------------------------------------------------------

(***************************************************************************)
(* What recording a sample does to the array and to what it shows.         *)
(***************************************************************************)
LEMMA PushSampleRecords ==
  ASSUME NEW t \in Times, state \in CircularArrays(Times, StateLength),
         PushSample(t)
  PROVE  /\ state' \in CircularArrays(Times, StateLength)
         /\ Window' = IF Len(Window) < StateLength THEN Append(Window, t)
                                                   ELSE Append(Tail(Window), t)
         /\ LN!Record(t)
<1>1. Len(state.xs) \in 0 .. StateLength /\ Len(Window) = Len(state.xs)
  BY DEF CircularArrays, Window, Floats
<1>2. CASE Len(state.xs) < StateLength
  BY <1>1, <1>2, PushGrows DEF PushSample, Window, LN!Record
<1>3. CASE Len(state.xs) = StateLength
  BY <1>1, <1>3, PushForgets DEF PushSample, Window, LN!Record
<1> QED
  BY <1>1, <1>2, <1>3

(***************************************************************************)
(* Every step keeps the state well typed.                                  *)
(***************************************************************************)
LEMMA TypeStep == TypeOK /\ [Next]_vars => TypeOK'
<1> SUFFICES ASSUME TypeOK, [Next]_vars PROVE TypeOK'
  OBVIOUS
<1> USE DEF TypeOK
<1>1. ASSUME NEW t \in Times, Update(t) PROVE TypeOK'
  <2>1. /\ interval' = interval /\ clock' = t /\ ordered' \in BOOLEAN
        /\ PushSample(t) \/ UNCHANGED state
        /\ epoch' = epoch \/ (interval # 0 /\ epoch' = EpochOf(t, interval))
    BY <1>1 DEF Update
  <2>2. state' \in CircularArrays(Times, StateLength)
    BY <2>1, PushSampleRecords
  <2>3. epoch' \in Int
    BY <2>1, EpochIsInt
  <2> QED
    BY <2>1, <2>2, <2>3
<1>2. ASSUME NEW t \in Times, PushOnly(t) PROVE TypeOK'
  BY <1>2, PushSampleRecords DEF PushOnly
<1>3. CASE UNCHANGED vars
  BY <1>3 DEF vars
<1> QED
  BY <1>1, <1>2, <1>3 DEF Next

(***************************************************************************)
(* The array a historian holds is well formed: only a full one is rotated. *)
(***************************************************************************)
THEOREM TypeCorrect == Spec => []TypeOK
<1>1. Init => TypeOK
  BY DEF Init, TypeOK, NewCircularArray, CircularArrays
<1> QED
  BY <1>1, TypeStep, PTL DEF Spec

(***************************************************************************)
(* However a historian is used, its state shows the last StateLength       *)
(* samples recorded, oldest first: it implements LastN.                    *)
(***************************************************************************)
THEOREM ImplementsLastN == Spec => ShowsLastSamples
<1>1. Init => LN!Init
  BY DEF Init, LN!Init, Window, NewCircularArray, Floats
<1>2. TypeOK /\ [Next]_vars => [LN!Next]_Window
  <2> SUFFICES ASSUME TypeOK, [Next]_vars PROVE [LN!Next]_Window
    OBVIOUS
  <2>1. ASSUME NEW t \in Times, Update(t) PROVE [LN!Next]_Window
    <3>1. CASE PushSample(t)
      BY <3>1, PushSampleRecords DEF TypeOK, LN!Next
    <3>2. CASE UNCHANGED state
      BY <3>2 DEF Window
    <3> QED
      BY <2>1, <3>1, <3>2 DEF Update
  <2>2. ASSUME NEW t \in Times, PushOnly(t) PROVE [LN!Next]_Window
    BY <2>2, PushSampleRecords DEF TypeOK, PushOnly, LN!Next
  <2>3. CASE UNCHANGED vars
    BY <2>3 DEF vars, Window
  <2> QED
    BY <2>1, <2>2, <2>3 DEF Next
<1> QED
  BY <1>1, <1>2, TypeCorrect, PTL DEF Spec, ShowsLastSamples, LN!Spec
-----------------------------------------------------------------------------

(***************************************************************************)
(* TimeLine is not inductive by itself: the last update must also not lie  *)
(* in an interval after the one of the last sample fed.                    *)
(***************************************************************************)
EpochNotAhead == interval # 0 /\ ordered /\ Window # <<>> => epoch <= EpochOf(clock, interval)

OrderedInv == TypeOK /\ TimeLine /\ EpochNotAhead

(***************************************************************************)
(* Appending a sample of a later interval keeps a sequence of samples a    *)
(* time line, and so does forgetting the oldest one.                       *)
(***************************************************************************)
LEMMA TimeLineGrows ==
  ASSUME NEW n \in Nat \ {0}, NEW t \in Times,
         NEW w \in Seq(Times),
         \A i, j \in 1 .. Len(w) : i < j => EpochOf(w[i], n) < EpochOf(w[j], n),
         w # <<>> => EpochOf(w[Len(w)], n) < EpochOf(t, n),
         NEW v, v = Append(w, t) \/ (w # <<>> /\ v = Append(Tail(w), t))
  PROVE  /\ \A i, j \in 1 .. Len(v) : i < j => EpochOf(v[i], n) < EpochOf(v[j], n)
         /\ v \in Seq(Times) /\ v # <<>> /\ v[Len(v)] = t
<1>1. ASSUME NEW i \in 1 .. Len(w) PROVE EpochOf(w[i], n) < EpochOf(t, n)
  <2>1. w # <<>> /\ Len(w) \in 1 .. Len(w) /\ w[i] \in Times /\ w[Len(w)] \in Times
    BY <1>1
  <2>2. EpochOf(w[i], n) \in Int /\ EpochOf(w[Len(w)], n) \in Int /\ EpochOf(t, n) \in Int
    BY <2>1, EpochIsInt
  <2>3. i = Len(w) \/ EpochOf(w[i], n) < EpochOf(w[Len(w)], n)
    BY <2>1
  <2> QED
    BY <2>1, <2>2, <2>3
<1>2. CASE v = Append(w, t)
  <2>1. Len(v) = Len(w) + 1 /\ v[Len(v)] = t /\ \A i \in 1 .. Len(w) : v[i] = w[i]
    BY <1>2
  <2>2. ASSUME NEW i \in 1 .. Len(v), NEW j \in 1 .. Len(v), i < j
        PROVE  EpochOf(v[i], n) < EpochOf(v[j], n)
    <3>1. i \in 1 .. Len(w) /\ (j = Len(v) \/ j \in 1 .. Len(w))
      BY <2>1, <2>2
    <3> QED
      BY <1>1, <2>1, <2>2, <3>1
  <2> QED
    BY <1>2, <2>1, <2>2
<1>3. CASE w # <<>> /\ v = Append(Tail(w), t)
  <2>1. Len(v) = Len(w) /\ v[Len(v)] = t /\ \A i \in 1 .. Len(w) - 1 : v[i] = w[i + 1]
    BY <1>3
  <2>2. ASSUME NEW i \in 1 .. Len(v), NEW j \in 1 .. Len(v), i < j
        PROVE  EpochOf(v[i], n) < EpochOf(v[j], n)
    <3>1. /\ i \in 1 .. Len(w) - 1 /\ i + 1 \in 1 .. Len(w)
          /\ j = Len(v) \/ (j \in 1 .. Len(w) - 1 /\ j + 1 \in 1 .. Len(w))
      BY <2>1, <2>2
    <3>2. v[i] = w[i + 1]
      BY <2>1, <3>1
    <3>3. CASE j = Len(v)
      BY <1>1, <2>1, <3>1, <3>2, <3>3
    <3>4. CASE j \in 1 .. Len(w) - 1 /\ j + 1 \in 1 .. Len(w)
      <4>1. v[j] = w[j + 1] /\ i + 1 < j + 1
        BY <2>1, <2>2, <3>4
      <4> QED
        BY <3>1, <3>2, <3>4, <4>1
    <3> QED
      BY <3>1, <3>3, <3>4
  <2>3. v \in Seq(Times) /\ v # <<>>
    <3>1. Tail(w) \in Seq(Times)
      BY <1>3
    <3> QED
      BY <1>3, <3>1
  <2> QED
    BY <2>1, <2>2, <2>3
<1> QED
  BY <1>2, <1>3

(***************************************************************************)
(* Once per interval, in order: as long as dates do not run backwards the  *)
(* state is a time line of at most one sample per interval, for every      *)
(* interval, capacity and set of dates.                                    *)
(***************************************************************************)
THEOREM TimeLineCorrect == Spec => []TimeLine
<1>1. Init => OrderedInv
  <2>1. Init => TypeOK /\ Window = <<>>
    BY DEF Init, TypeOK, NewCircularArray, CircularArrays, Window, Floats
  <2> QED
    BY <2>1 DEF OrderedInv, TimeLine, EpochNotAhead
<1>2. OrderedInv /\ [Next]_vars => OrderedInv'
  <2> SUFFICES ASSUME OrderedInv, [Next]_vars PROVE OrderedInv'
    OBVIOUS
  <2> USE DEF OrderedInv
  <2>0. interval \in Nat
    BY DEF TypeOK
  <2>1. ASSUME NEW t \in Times, t >= clock, ordered, Update(t), interval # 0,
               EpochOf(t, interval) # epoch
        PROVE  OrderedInv'
    <3>1. /\ PushSample(t) /\ epoch' = EpochOf(t, interval) /\ clock' = t
          /\ interval' = interval /\ ordered' \in BOOLEAN
      BY <2>1 DEF Update
    <3>2. /\ Window \in Seq(Times) /\ Len(Window) <= StateLength
          /\ Window # <<>> => Last(state) = Window[Len(Window)]
      BY FloatsEndWithLast DEF TypeOK, Window
    <3>3. /\ state' \in CircularArrays(Times, StateLength)
          /\ Window' = Append(Window, t)
               \/ (Window # <<>> /\ Window' = Append(Tail(Window), t))
      BY <3>1, <3>2, PushSampleRecords DEF TypeOK
    <3>4. Window # <<>> => EpochOf(Window[Len(Window)], interval) < EpochOf(t, interval)
      <4>1. /\ EpochOf(t, interval) \in Int /\ EpochOf(clock, interval) \in Int
            /\ epoch \in Int
        BY <2>0, <2>1, EpochIsInt DEF TypeOK
      <4>2. EpochOf(clock, interval) <= EpochOf(t, interval)
        BY <2>0, <2>1, EpochMonotone DEF TypeOK
      <4>3. Window # <<>> => epoch <= EpochOf(clock, interval)
        BY <2>1 DEF EpochNotAhead
      <4>4. Window # <<>> => EpochOf(Window[Len(Window)], interval) = epoch
        BY <2>1, <3>2 DEF TimeLine
      <4> QED
        BY <2>1, <4>1, <4>2, <4>3, <4>4
    <3>5. \A i, j \in 1 .. Len(Window) :
            i < j => EpochOf(Window[i], interval) < EpochOf(Window[j], interval)
      BY <2>1 DEF TimeLine
    <3>6. /\ \A i, j \in 1 .. Len(Window') :
               i < j => EpochOf(Window'[i], interval) < EpochOf(Window'[j], interval)
          /\ Window' # <<>> /\ Window'[Len(Window')] = t
      BY <2>0, <2>1, <3>2, <3>3, <3>4, <3>5, TimeLineGrows
    <3>7. Last(state)' = t
      <4>1. Window' # <<>> => Last(state') = Window'[Len(Window')]
        BY <3>3, FloatsEndWithLast DEF Window
      <4> QED
        BY <3>6, <4>1
    <3>8. TypeOK'
      BY <2>0, <2>1, <3>1, <3>3, EpochIsInt DEF TypeOK
    <3>9. TimeLine' /\ EpochNotAhead'
      BY <2>0, <2>1, <3>1, <3>6, <3>7, EpochIsInt DEF TimeLine, EpochNotAhead
    <3> QED
      BY <3>8, <3>9
  <2>2. ASSUME NEW t \in Times, t >= clock, ordered, Update(t), interval # 0,
               EpochOf(t, interval) = epoch
        PROVE  OrderedInv'
    <3>1. /\ UNCHANGED <<interval, epoch, state>> /\ clock' = t
          /\ ordered' \in BOOLEAN
      BY <2>2 DEF Update
    <3>2. EpochOf(t, interval) \in Int
      BY <2>0, <2>2, EpochIsInt
    <3> QED
      BY <2>2, <3>1, <3>2 DEF TypeOK, TimeLine, EpochNotAhead, Window
  <2>3. ASSUME TypeOK', ~ ordered' \/ interval' = 0 PROVE OrderedInv'
    BY <2>3 DEF TimeLine, EpochNotAhead
  <2>4. ASSUME NEW t \in Times, Update(t) PROVE OrderedInv'
    <3>1. ~ (ordered /\ t >= clock) => ~ ordered'
      BY <2>4 DEF Update
    <3>2. interval' = interval
      BY <2>4 DEF Update
    <3>3. TypeOK'
      BY <2>4, TypeStep DEF Next
    <3> QED
      BY <2>1, <2>2, <2>3, <2>4, <3>1, <3>2, <3>3
  <2>5. ASSUME NEW t \in Times, PushOnly(t) PROVE OrderedInv'
    <3>1. ~ ordered'
      BY <2>5 DEF PushOnly
    <3>2. TypeOK'
      BY <2>5, TypeStep DEF Next
    <3> QED
      BY <2>3, <3>1, <3>2
  <2>6. CASE UNCHANGED vars
    BY <2>6 DEF vars, TypeOK, TimeLine, EpochNotAhead, Window
  <2> QED
    BY <2>4, <2>5, <2>6 DEF Next
<1> QED
  BY <1>1, <1>2, PTL DEF Spec, OrderedInv
=============================================================================
