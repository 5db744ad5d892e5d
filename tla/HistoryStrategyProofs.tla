------------------------ MODULE HistoryStrategyProofs ------------------------
(***************************************************************************)
(* The historians of any number of exchanges and of goroutines that add    *)
(* them, up to the first accesses to a map that meet.                      *)
(***************************************************************************)
EXTENDS HistoryStrategy, SequenceTheorems, TLAPS

USE GoroutinesAssumption

Distinct(s) == \A i, j \in DOMAIN s : s[i] = s[j] => i = j

(***************************************************************************)
(* The mutex is held by who initializes or adds, and by nobody else.       *)
(***************************************************************************)
MutexInv ==
  /\ \A p \in Goroutines : pc[p] \in Locked <=> mu = p
  /\ \A e \in Exchanges : pc[e] \notin {"add read", "add write", "added"}
  /\ \A p \in Adders : pc[p] \in {"start", "add read", "add write", "added"}

(***************************************************************************)
(* A map holds a historian once, under its key, from its append on; and    *)
(* the slice that is about to be extended is the one in the map.           *)
(***************************************************************************)
UnitsInv ==
  /\ \A m \in Maps, e \in Exchanges :
       /\ Distinct(units[m][e])
       /\ \A p \in Elements(units[m][e]) : pc[p] = "added"
  /\ \A p \in Adders : pc[p] = "add write" => xs[p] = units[map[p]][key[p]]
  /\ \A p \in kept :
       /\ pc[p] = "added" /\ InitDone(key[p])
       /\ p \in Elements(units[map[p]][key[p]])

(***************************************************************************)
(* A pass has updated a beginning of the slice that fire has read, which   *)
(* holds all that was in the map when the event arrived.                   *)
(***************************************************************************)
PassInv ==
  \A e \in Exchanges :
    /\ ~ InitDone(e) => due[e] = {} /\ updated[e] = <<>>
    /\ pc[e] = "fire" => due[e] \subseteq Elements(units[map[e]][e]) /\ updated[e] = <<>>
    /\ pc[e] = "pass" =>
         /\ due[e] \subseteq Elements(xs[e])
         /\ Distinct(xs[e])
         /\ Len(updated[e]) <= Len(xs[e])
         /\ \A i \in DOMAIN updated[e] : updated[e][i] = xs[e][i]
    /\ Distinct(updated[e])
    /\ pc[e] = "loop" => due[e] \subseteq Elements(updated[e])

HistoryInv == Types /\ MutexInv /\ UnitsInv /\ PassInv

-----------------------------------------------------------------------------
(***************************************************************************)
(* The elements of a sequence are of its type, those of the empty one      *)
(* none.                                                                   *)
(***************************************************************************)
LEMMA ElementsOf ==
  /\ \A S : \A s \in Seq(S) : Elements(s) \subseteq S
  /\ Elements(<<>>) = {} /\ Distinct(<<>>)
<1>1. ASSUME NEW S, NEW s \in Seq(S) PROVE Elements(s) \subseteq S
  <2>1. \A i \in DOMAIN s : s[i] \in S
    OBVIOUS
  <2> QED
    BY <2>1 DEF Elements
<1>2. Elements(<<>>) = {} /\ Distinct(<<>>)
  BY DEF Elements, Distinct
<1> QED
  BY <1>1, <1>2

(***************************************************************************)
(* Appending a new element keeps the elements of a sequence distinct.      *)
(***************************************************************************)
LEMMA AppendNew ==
  ASSUME NEW S, NEW s \in Seq(S), NEW x \in S, Distinct(s), x \notin Elements(s)
  PROVE  /\ Append(s, x) \in Seq(S) /\ Distinct(Append(s, x))
         /\ Elements(Append(s, x)) = Elements(s) \cup {x}
<1> DEFINE t == Append(s, x)
<1>1. t \in Seq(S) /\ Len(t) = Len(s) + 1 /\ Len(s) \in Nat
      /\ DOMAIN s = 1 .. Len(s) /\ DOMAIN t = 1 .. Len(t)
  OBVIOUS
<1>2. t[Len(t)] = x /\ \A i \in 1 .. Len(s) : t[i] = s[i]
  OBVIOUS
<1> HIDE DEF t
<1>3. \A i \in 1 .. Len(s) : s[i] # x
  BY <1>1 DEF Elements
<1>4. Distinct(t)
  BY <1>1, <1>2, <1>3 DEF Distinct
<1>5. Elements(t) = Elements(s) \cup {x}
  <2>1. DOMAIN t = DOMAIN s \cup {Len(t)}
    BY <1>1
  <2> QED
    BY <1>1, <1>2, <2>1 DEF Elements
<1> QED
  BY <1>1, <1>4, <1>5 DEF t

(***************************************************************************)
(* What is left of a pass: the slice from after what has been updated on.  *)
(***************************************************************************)
LEMMA RestOfPass ==
  ASSUME NEW e \in Exchanges, xs[e] \in Seq(Adders), updated[e] \in Seq(Adders),
         Len(updated[e]) <= Len(xs[e])
  PROVE  /\ Rest(e) = <<>> <=> Len(updated[e]) = Len(xs[e])
         /\ Rest(e) # <<>> => Head(Rest(e)) = xs[e][Len(updated[e]) + 1]
<1> DEFINE n == Len(xs[e])
           m == Len(updated[e]) + 1
<1>1. n \in Nat /\ m \in 1 .. n + 1 /\ \A i \in 1 .. n : xs[e][i] \in Adders
  OBVIOUS
<1>2. Rest(e) = SubSeq(xs[e], m, n)
  BY DEF Rest
<1> HIDE DEF n, m
<1>3. CASE m = n + 1
  <2>1. m \in Int /\ n \in Int /\ n < m
    BY <1>1, <1>3
  <2>2. Rest(e) = <<>>
    BY <1>2, <2>1, SubSeqEmpty
  <2> QED
    BY <1>3, <2>2 DEF m, n
<1>4. CASE m \in 1 .. n
  <2>1. Head(SubSeq(xs[e], m, n)) = xs[e][m]
    BY <1>4, HeadTailOfSubSeq DEF n
  <2>2. Len(SubSeq(xs[e], m, n)) = n - m + 1
    BY <1>1, <1>4, SubSeqProperties
  <2>3. n - m + 1 # 0 /\ n + 1 # m
    BY <1>1, <1>4
  <2>4. Len(<<>>) = 0
    OBVIOUS
  <2>5. SubSeq(xs[e], m, n) # <<>>
    BY <2>2, <2>3, <2>4
  <2>6. Rest(e) # <<>> /\ Head(Rest(e)) = xs[e][m]
    BY <1>2, <2>1, <2>5
  <2>7. Len(updated[e]) # Len(xs[e])
    BY <2>3 DEF m, n
  <2> QED
    BY <2>6, <2>7 DEF m
<1> QED
  BY <1>1, <1>3, <1>4

(***************************************************************************)
(* A write of a map changes the slice under one key.                       *)
(***************************************************************************)
LEMMA UnitsAfter ==
  ASSUME Types, NEW m \in Maps, NEW e \in Exchanges, NEW s \in Seq(Adders),
         units' = [units EXCEPT ![m][e] = s]
  PROVE  /\ units' \in [Maps -> [Exchanges -> Seq(Adders)]]
         /\ \A n \in Maps, f \in Exchanges :
              units'[n][f] = IF n = m /\ f = e THEN s ELSE units[n][f]
<1>1. units \in [Maps -> [Exchanges -> Seq(Adders)]]
  BY DEF Types
<1> DEFINE row == [units[m] EXCEPT ![e] = s]
<1>2. row \in [Exchanges -> Seq(Adders)] /\ units' = [units EXCEPT ![m] = row]
  BY <1>1
<1>3. \A f \in Exchanges : row[f] = IF f = e THEN s ELSE units[m][f]
  BY <1>1
<1> HIDE DEF row
<1> QED
  BY <1>1, <1>2, <1>3

-----------------------------------------------------------------------------
(***************************************************************************)
(* Init of an exchange empties its own slices only, before its events.     *)
(***************************************************************************)
LEMMA InitSteps ==
  ASSUME HistoryInv, NEW e \in Exchanges, InitLock(e) \/ InitPrice(e) \/ InitOrder(e)
  PROVE  HistoryInv'
<1> DEFINE label == pc'[e]
<1>0. Types /\ MutexInv /\ UnitsInv /\ PassInv
  BY DEF HistoryInv
<1>1. /\ pc[e] \in {"start", "init price", "init order"}
      /\ \/ pc[e] = "start" /\ label = "init price" /\ mu = NoOne /\ mu' = e
         \/ pc[e] = "init price" /\ label = "init order" /\ mu' = mu
         \/ pc[e] = "init order" /\ label = "loop" /\ mu' = NoOne
      /\ pc' = [pc EXCEPT ![e] = label]
      /\ pc[e] # "start" => mu = e
      /\ UNCHANGED <<key, xs, updated, due, kept>>
  BY <1>0 DEF InitLock, InitPrice, InitOrder, Goto, Lock, Unlock, Types, MutexInv, Goroutines, Locked
<1>2. /\ units' \in [Maps -> [Exchanges -> Seq(Adders)]]
      /\ \A n \in Maps, f \in Exchanges : units'[n][f] \in {units[n][f], <<>>}
      /\ \A n \in Maps, f \in Exchanges \ {e} : units'[n][f] = units[n][f]
      /\ \A p \in Goroutines \ {e} : map'[p] = map[p]
      /\ map' \in [Goroutines -> Maps]
  <2>1. CASE InitLock(e)
    BY <1>0, <2>1 DEF InitLock, Types
  <2>2. CASE InitPrice(e) \/ InitOrder(e)
    <3>1. units' = [units EXCEPT ![map[e]][e] = <<>>]
      BY <2>2 DEF InitPrice, InitOrder, Clear
    <3>3. map[e] \in Maps
      BY <1>0 DEF Types, Goroutines
    <3>4. <<>> \in Seq(Adders)
      OBVIOUS
    <3>5. /\ units' \in [Maps -> [Exchanges -> Seq(Adders)]]
          /\ \A n \in Maps, f \in Exchanges :
               units'[n][f] = IF n = map[e] /\ f = e THEN <<>> ELSE units[n][f]
      BY <1>0, <3>1, <3>3, <3>4, UnitsAfter
    <3>2. map' \in [Goroutines -> Maps] /\ \A p \in Goroutines \ {e} : map'[p] = map[p]
      BY <1>0, <2>2 DEF InitPrice, InitOrder, Types, Maps
    <3> QED
      BY <3>2, <3>5
  <2> QED
    BY <2>1, <2>2
<1> HIDE DEF label
<1>3. Types'
  BY <1>0, <1>1, <1>2 DEF Types, Goroutines
<1>4. MutexInv'
  BY <1>0, <1>1 DEF MutexInv, Types, Locked, Goroutines
<1>5. UnitsInv'
  <2>1. \A m \in Maps, f \in Exchanges :
          /\ Distinct(units'[m][f])
          /\ Elements(units'[m][f]) \subseteq Elements(units[m][f])
    <3> TAKE m \in Maps, f \in Exchanges
    <3>1. CASE units'[m][f] = units[m][f]
      BY <1>0, <3>1 DEF UnitsInv
    <3>2. CASE units'[m][f] = <<>>
      BY <3>2, ElementsOf
    <3> QED
      BY <1>2, <3>1, <3>2
  <2>2. \A p \in Adders : p # e /\ pc'[p] = pc[p] /\ map'[p] = map[p]
    BY <1>0, <1>1, <1>2 DEF Types, Goroutines
  <2>3. \A m \in Maps, f \in Exchanges :
          \A p \in Elements(units'[m][f]) : pc'[p] = "added"
    <3> TAKE m \in Maps, f \in Exchanges
    <3>1. units \in [Maps -> [Exchanges -> Seq(Adders)]]
      BY <1>0 DEF Types
    <3>2. Elements(units[m][f]) \subseteq Adders
      BY <3>1, ElementsOf
    <3>3. \A p \in Elements(units[m][f]) : pc[p] = "added"
      BY <1>0 DEF UnitsInv
    <3> QED
      BY <2>1, <2>2, <3>2, <3>3
  <2>4. ASSUME NEW p \in Adders, pc'[p] = "add write"
        PROVE  xs'[p] = units'[map'[p]][key'[p]]
    <3>1. pc[p] = "add write" /\ mu = p /\ p # e
      BY <1>0, <2>2, <2>4 DEF MutexInv, Locked, Goroutines
    <3>2. InitLock(e) => FALSE
      BY <1>0, <3>1 DEF InitLock, Lock, Goroutines
    <3>3. mu = e
      BY <1>1, <3>1, <3>2 DEF Goroutines
    <3> QED
      BY <3>1, <3>3
  <2>5. ASSUME NEW p \in kept'
        PROVE  /\ pc'[p] = "added" /\ pc'[key'[p]] \in {"loop", "fire", "pass"}
               /\ p \in Elements(units'[map'[p]][key'[p]])
    <3>1. /\ p \in kept /\ p \in Adders /\ key'[p] = key[p] /\ key[p] \in Exchanges
          /\ map[p] \in Maps /\ map'[p] = map[p] /\ pc'[p] = pc[p]
      BY <1>0, <1>1, <2>2, <2>5 DEF Types, Goroutines
    <3>2. InitDone(key[p]) /\ key[p] # e
      BY <1>0, <1>1, <3>1 DEF UnitsInv, InitDone
    <3>3. pc'[key[p]] = pc[key[p]]
      BY <1>0, <1>1, <3>1, <3>2 DEF Types, Goroutines
    <3>4. units'[map[p]][key[p]] = units[map[p]][key[p]]
      BY <1>2, <3>1, <3>2
    <3>5. pc[p] = "added" /\ p \in Elements(units[map[p]][key[p]])
      BY <1>0, <3>1 DEF UnitsInv
    <3> QED
      BY <3>1, <3>2, <3>3, <3>4, <3>5 DEF InitDone
  <2> QED
    BY <2>1, <2>3, <2>4, <2>5 DEF UnitsInv, InitDone
<1>6. PassInv'
  <2>1. due[e] = {} /\ updated[e] = <<>> /\ label \notin {"fire", "pass"} /\ pc'[e] = label
    BY <1>0, <1>1 DEF PassInv, InitDone, Types, Goroutines
  <2>2. \A f \in Exchanges \ {e} :
          /\ pc'[f] = pc[f] /\ map'[f] = map[f] /\ map[f] \in Maps
          /\ \A m \in Maps : units'[m][f] = units[m][f]
    BY <1>0, <1>1, <1>2 DEF Types, Goroutines
  <2>3. \A f \in Exchanges : UNCHANGED <<due[f], updated[f], xs[f]>>
    BY <1>1
  <2> DEFINE P(f) ==
         /\ pc'[f] \notin {"loop", "fire", "pass"} => due'[f] = {} /\ updated'[f] = <<>>
         /\ pc'[f] = "fire" => due'[f] \subseteq Elements(units'[map'[f]][f]) /\ updated'[f] = <<>>
         /\ pc'[f] = "pass" =>
              /\ due'[f] \subseteq Elements(xs'[f])
              /\ Distinct(xs'[f])
              /\ Len(updated'[f]) <= Len(xs'[f])
              /\ \A i \in DOMAIN updated'[f] : updated'[f][i] = xs'[f][i]
         /\ Distinct(updated'[f])
         /\ pc'[f] = "loop" => due'[f] \subseteq Elements(updated'[f])
  <2>4. P(e)
    BY <2>1, <2>3, ElementsOf
  <2>5. ASSUME NEW f \in Exchanges \ {e} PROVE P(f)
    BY <1>0, <2>2, <2>3 DEF PassInv, InitDone
  <2> QED
    BY <2>4, <2>5 DEF PassInv, InitDone
<1> QED
  BY <1>3, <1>4, <1>5, <1>6 DEF HistoryInv

(***************************************************************************)
(* AddHistorian, holding the mutex, appends itself to what the map holds.  *)
(***************************************************************************)
LEMMA AddSteps ==
  ASSUME HistoryInv, NEW p \in Adders, AddLock(p) \/ AddRead(p) \/ AddWrite(p)
  PROVE  HistoryInv'
<1> DEFINE label == pc'[p]
           m == map[p]
           e == key[p]
<1>0. Types /\ MutexInv /\ UnitsInv /\ PassInv
  BY DEF HistoryInv
<1>1. /\ \/ pc[p] = "start" /\ label = "add read" /\ mu = NoOne /\ mu' = p /\ UNCHANGED xs
         \/ pc[p] = "add read" /\ label = "add write" /\ mu' = mu /\ xs' = [xs EXCEPT ![p] = units[m][e]]
         \/ pc[p] = "add write" /\ label = "added" /\ mu' = NoOne /\ UNCHANGED xs
      /\ pc' = [pc EXCEPT ![p] = label]
      /\ pc[p] # "start" => mu = p
      /\ UNCHANGED <<map, key, updated, due>>
  BY <1>0 DEF AddLock, AddRead, AddWrite, Goto, Lock, Unlock, Types, MutexInv, Goroutines, Locked
<1>2. /\ p \in Goroutines /\ m \in Maps /\ e \in Exchanges /\ units[m][e] \in Seq(Adders)
      /\ Distinct(units[m][e]) /\ p \notin Exchanges
  <2>1. units \in [Maps -> [Exchanges -> Seq(Adders)]]
    BY <1>0 DEF Types
  <2>2. m \in Maps /\ e \in Exchanges /\ p \in Goroutines /\ p \notin Exchanges
    BY <1>0 DEF Types, Goroutines
  <2> QED
    BY <1>0, <2>1, <2>2 DEF UnitsInv
<1> HIDE DEF label, m, e
\* What the append, if it is one, makes of the slice.
<1>3. \/ /\ pc[p] # "add write" /\ units' = units /\ kept' = kept
      \/ /\ pc[p] = "add write"
         /\ units' \in [Maps -> [Exchanges -> Seq(Adders)]]
         /\ \A n \in Maps, f \in Exchanges :
              n # m \/ f # e => units'[n][f] = units[n][f]
         /\ Distinct(units'[m][e])
         /\ Elements(units'[m][e]) = Elements(units[m][e]) \cup {p}
         /\ kept' = IF InitDone(e) THEN kept \cup {p} ELSE kept
  <2>1. CASE AddLock(p) \/ AddRead(p)
    BY <2>1 DEF AddLock, AddRead
  <2>2. CASE AddWrite(p)
    <3> DEFINE t == Append(units[m][e], p)
    <3>1. pc[p] = "add write" /\ xs[p] = units[m][e]
      BY <1>0, <2>2 DEF AddWrite, UnitsInv, m, e
    <3>2. units' = [units EXCEPT ![m][e] = t]
      BY <2>2, <3>1 DEF AddWrite, m, e
    <3>3. p \notin Elements(units[m][e])
      BY <1>0, <1>2, <3>1 DEF UnitsInv
    <3>4. t \in Seq(Adders) /\ Distinct(t) /\ Elements(t) = Elements(units[m][e]) \cup {p}
      BY <1>2, <3>3, AppendNew
    <3> HIDE DEF t
    <3>5. Types /\ m \in Maps /\ e \in Exchanges /\ t \in Seq(Adders)
      BY <1>0, <1>2, <3>4
    <3>6. /\ units' \in [Maps -> [Exchanges -> Seq(Adders)]]
          /\ \A n \in Maps, f \in Exchanges :
               units'[n][f] = IF n = m /\ f = e THEN t ELSE units[n][f]
      BY <3>2, <3>5, UnitsAfter, ZenonT(60)
    <3>7. units'[m][e] = t
      BY <1>2, <3>6
    <3>8. kept' = IF InitDone(e) THEN kept \cup {p} ELSE kept
      BY <2>2 DEF AddWrite, e
    <3> QED
      BY <3>1, <3>4, <3>6, <3>7, <3>8
  <2> QED
    BY <2>1, <2>2
<1>4. /\ units' \in [Maps -> [Exchanges -> Seq(Adders)]]
      /\ \A n \in Maps, f \in Exchanges :
           /\ Distinct(units'[n][f])
           /\ Elements(units[n][f]) \subseteq Elements(units'[n][f])
           /\ Elements(units'[n][f]) \subseteq
                Elements(units[n][f]) \cup (IF pc[p] = "add write" THEN {p} ELSE {})
  <2>1. units \in [Maps -> [Exchanges -> Seq(Adders)]]
    BY <1>0 DEF Types
  <2>2. \A n \in Maps, f \in Exchanges : Distinct(units[n][f])
    BY <1>0 DEF UnitsInv
  <2> QED
    BY <1>3, <2>1, <2>2
<1>5. Types'
  <2>1. kept' \subseteq Adders
    <3>1. kept' \subseteq kept \cup {p}
      BY <1>3
    <3> QED
      BY <1>0, <3>1 DEF Types
  <2>2. xs' \in [Goroutines -> Seq(Adders)]
    BY <1>0, <1>1, <1>2 DEF Types
  <2> QED
    BY <1>0, <1>1, <1>2, <1>4, <2>1, <2>2 DEF Types
<1>6. MutexInv'
  BY <1>0, <1>1, <1>2 DEF MutexInv, Types, Locked, Goroutines
<1>7. UnitsInv'
  <2>1. \A q \in Goroutines \ {p} : pc'[q] = pc[q] /\ xs'[q] = xs[q]
    BY <1>0, <1>1 DEF Types
  <2>2. \A n \in Maps, f \in Exchanges :
          \A q \in Elements(units'[n][f]) : pc'[q] = "added"
    <3> TAKE n \in Maps, f \in Exchanges
    <3>1. units \in [Maps -> [Exchanges -> Seq(Adders)]]
      BY <1>0 DEF Types
    <3>2. Elements(units[n][f]) \subseteq Adders
      BY <3>1, ElementsOf
    <3>5. \A q \in Elements(units[n][f]) : pc[q] = "added"
      BY <1>0 DEF UnitsInv
    <3>3. \A q \in Elements(units[n][f]) : pc'[q] = "added" /\ q # p
      BY <1>1, <2>1, <3>2, <3>5 DEF Goroutines
    <3>4. pc[p] = "add write" => pc'[p] = "added"
      BY <1>0, <1>1, <1>2 DEF Types, label
    <3>6. Elements(units'[n][f]) \subseteq
            Elements(units[n][f]) \cup (IF pc[p] = "add write" THEN {p} ELSE {})
      BY <1>4
    <3> QED
      BY <3>3, <3>4, <3>6
  <2>3. ASSUME NEW q \in Adders, pc'[q] = "add write"
        PROVE  xs'[q] = units'[map'[q]][key'[q]]
    <3>1. CASE q = p
      <4>1. pc[p] = "add read"
        BY <1>0, <1>1, <1>2, <2>3, <3>1 DEF Types, label
      <4> QED
        BY <1>0, <1>1, <1>2, <1>3, <3>1, <4>1 DEF Types, m, e
    <3>2. CASE q # p
      <4>1. pc[q] = "add write" /\ mu = q
        BY <1>0, <2>1, <2>3, <3>2 DEF MutexInv, Goroutines, Locked
      <4> QED
        BY <1>1, <1>2, <3>2, <4>1, GoroutinesAssumption
    <3> QED
      BY <3>1, <3>2
  <2>4. ASSUME NEW q \in kept'
        PROVE  /\ pc'[q] = "added" /\ pc'[key'[q]] \in {"loop", "fire", "pass"}
               /\ q \in Elements(units'[map'[q]][key'[q]])
    <3>1. /\ key'[q] = key[q] /\ key[q] \in Exchanges /\ map'[q] = map[q] /\ map[q] \in Maps
          /\ q \in Adders
      BY <1>0, <1>1, <2>4, <1>5 DEF Types, Goroutines
    <3>2. pc'[key[q]] = pc[key[q]]
      BY <1>2, <2>1, <3>1 DEF Goroutines
    <3>3. CASE q \in kept
      <4>1. pc[q] = "added" /\ InitDone(key[q]) /\ q \in Elements(units[map[q]][key[q]])
        BY <1>0, <3>3 DEF UnitsInv
      <4>2. q # p
        BY <1>1, <4>1
      <4>3. pc'[q] = "added"
        BY <2>1, <3>1, <4>1, <4>2 DEF Goroutines
      <4>4. q \in Elements(units'[map[q]][key[q]])
        BY <1>4, <3>1, <4>1
      <4> QED
        BY <3>1, <3>2, <4>1, <4>3, <4>4 DEF InitDone
    <3>4. CASE q \notin kept
      <4>1. q = p /\ pc[p] = "add write" /\ InitDone(e) /\ p \in Elements(units'[m][e])
        BY <1>3, <2>4, <3>4
      <4>2. pc'[p] = "added"
        BY <1>0, <1>1, <1>2, <4>1 DEF Types, label
      <4> QED
        BY <3>1, <3>2, <4>1, <4>2 DEF InitDone, m, e
    <3> QED
      BY <3>3, <3>4
  <2> QED
    BY <1>4, <2>2, <2>3, <2>4 DEF UnitsInv, InitDone
<1>8. PassInv'
  <2>1. \A f \in Exchanges :
          /\ UNCHANGED <<pc[f], map[f], due[f], updated[f], xs[f]>>
          /\ map[f] \in Maps
    BY <1>0, <1>1, <1>2 DEF Types, Goroutines
  <2>2. ASSUME NEW f \in Exchanges
        PROVE  Elements(units[map[f]][f]) \subseteq Elements(units'[map'[f]][f])
    BY <1>4, <2>1
  <2> QED
    BY <1>0, <2>1, <2>2 DEF PassInv, InitDone
<1> QED
  BY <1>5, <1>6, <1>7, <1>8 DEF HistoryInv

(***************************************************************************)
(* An event touches no map and nothing of another goroutine: it reads its  *)
(* slice, and goes through what it has read.                               *)
(***************************************************************************)
LEMMA FireSteps ==
  ASSUME HistoryInv, NEW e \in Exchanges,
         (\E m \in Maps : FireBegin(e, m)) \/ FireRead(e) \/ FireUpdate(e) \/ FireEnd(e)
  PROVE  HistoryInv'
<1>0. /\ Types /\ MutexInv /\ UnitsInv /\ PassInv
      /\ e \in Goroutines /\ e \notin Adders
  BY DEF HistoryInv, Goroutines
<1>1. /\ UNCHANGED <<units, mu, key, kept>>
      /\ pc[e] \in {"loop", "fire", "pass"} /\ pc'[e] \in {"loop", "fire", "pass"}
      /\ \A p \in Goroutines \ {e} : UNCHANGED <<pc[p], map[p], xs[p]>>
      /\ \A f \in Exchanges \ {e} : UNCHANGED <<due[f], updated[f]>>
  BY <1>0 DEF FireBegin, FireRead, FireUpdate, FireEnd, Goto, Types
<1>2. units \in [Maps -> [Exchanges -> Seq(Adders)]] /\ map[e] \in Maps
  BY <1>0 DEF Types
\* What each of the four steps does to its own pass.
<1>3. ASSUME NEW m \in Maps, FireBegin(e, m)
      PROVE  /\ Types'
             /\ pc'[e] = "fire" /\ updated'[e] = <<>>
             /\ due'[e] = Elements(units[m][e]) /\ map'[e] = m
  <2>1. units[m][e] \in Seq(Adders) /\ <<>> \in Seq(Adders)
    BY <1>2
  <2>2. Elements(units[m][e]) \subseteq Adders
    BY <2>1, ElementsOf
  <2> QED
    BY <1>0, <1>3, <2>1, <2>2 DEF FireBegin, Goto, Types
<1>4. ASSUME FireRead(e)
      PROVE  /\ Types'
             /\ pc[e] = "fire" /\ pc'[e] = "pass" /\ xs'[e] = units[map[e]][e]
             /\ UNCHANGED <<due, updated>>
  <2>1. units[map[e]][e] \in Seq(Adders)
    BY <1>2
  <2> QED
    BY <1>0, <1>4, <2>1 DEF FireRead, Goto, Types
<1>5. ASSUME FireUpdate(e)
      PROVE  /\ Types'
             /\ pc[e] = "pass" /\ pc'[e] = "pass" /\ Len(updated[e]) < Len(xs[e])
             /\ updated'[e] = Append(updated[e], xs[e][Len(updated[e]) + 1])
             /\ UNCHANGED <<due, xs>>
  <2>1. pc[e] = "pass" /\ Rest(e) # <<>> /\ Len(updated[e]) <= Len(xs[e])
    BY <1>0, <1>5 DEF FireUpdate, PassInv
  <2>2. xs[e] \in Seq(Adders) /\ updated[e] \in Seq(Adders)
    BY <1>0 DEF Types
  <2>3. Len(updated[e]) # Len(xs[e]) /\ Head(Rest(e)) = xs[e][Len(updated[e]) + 1]
    BY <2>1, <2>2, RestOfPass
  <2>4. Len(updated[e]) + 1 \in 1 .. Len(xs[e])
    BY <2>1, <2>2, <2>3
  <2>5. Append(updated[e], xs[e][Len(updated[e]) + 1]) \in Seq(Adders)
    BY <2>2, <2>4
  <2>6. /\ updated' = [updated EXCEPT ![e] = Append(updated[e], xs[e][Len(updated[e]) + 1])]
        /\ UNCHANGED <<units, mu, pc, map, key, xs, due, kept>>
    BY <1>5, <2>3 DEF FireUpdate
  <2>7. updated \in [Exchanges -> Seq(Adders)]
    BY <1>0 DEF Types
  <2>8. updated'[e] = Append(updated[e], xs[e][Len(updated[e]) + 1])
    BY <2>6, <2>7
  <2> DEFINE v == Append(updated[e], xs[e][Len(updated[e]) + 1])
  <2>9. updated' \in [Exchanges -> Seq(Adders)]
    <3>1. v \in Seq(Adders) /\ updated' = [updated EXCEPT ![e] = v]
      BY <2>5, <2>6
    <3> HIDE DEF v
    <3> QED
      BY <2>7, <3>1
  <2>10. Types'
    BY <1>0, <2>6, <2>9 DEF Types
  <2>11. Len(updated[e]) < Len(xs[e])
    BY <2>2, <2>4
  <2> QED
    BY <2>1, <2>6, <2>8, <2>10, <2>11
<1>6. ASSUME FireEnd(e)
      PROVE  /\ Types'
             /\ pc[e] = "pass" /\ pc'[e] = "loop" /\ Len(updated[e]) = Len(xs[e])
             /\ UNCHANGED <<due, updated, xs>>
  <2>1. pc[e] = "pass" /\ Rest(e) = <<>> /\ Len(updated[e]) <= Len(xs[e])
    BY <1>0, <1>6 DEF FireEnd, PassInv
  <2>2. xs[e] \in Seq(Adders) /\ updated[e] \in Seq(Adders)
    BY <1>0 DEF Types
  <2> QED
    BY <1>0, <1>6, <2>1, <2>2, RestOfPass DEF FireEnd, Goto, Types
<1>7. Types'
  BY <1>3, <1>4, <1>5, <1>6
<1>8. MutexInv'
  BY <1>0, <1>1 DEF MutexInv, Locked, Goroutines
<1>9. UnitsInv'
  <2>1. \A p \in Adders : UNCHANGED <<pc[p], map[p], xs[p]>>
    BY <1>0, <1>1 DEF Goroutines
  <2>2. \A n \in Maps, f \in Exchanges : Elements(units[n][f]) \subseteq Adders
    BY <1>2, ElementsOf
  <2>3. kept \subseteq Adders /\ \A p \in Adders : key[p] \in Exchanges
    BY <1>0 DEF Types
  <2>4. \A f \in Exchanges : InitDone(f) => pc'[f] \in {"loop", "fire", "pass"}
    BY <1>1 DEF InitDone, Goroutines
  <2>5. ASSUME NEW n \in Maps, NEW f \in Exchanges
        PROVE  Distinct(units'[n][f]) /\ \A p \in Elements(units'[n][f]) : pc'[p] = "added"
    <3>1. Distinct(units[n][f]) /\ \A p \in Elements(units[n][f]) : pc[p] = "added"
      BY <1>0 DEF UnitsInv
    <3>2. \A p \in Elements(units[n][f]) : pc'[p] = pc[p]
      BY <2>1, <2>2
    <3> QED
      BY <1>1, <3>1, <3>2
  <2>6. ASSUME NEW p \in Adders, pc'[p] = "add write"
        PROVE  xs'[p] = units'[map'[p]][key'[p]]
    <3>1. pc[p] = "add write" /\ map'[p] = map[p] /\ xs'[p] = xs[p]
      BY <2>1, <2>6
    <3>2. xs[p] = units[map[p]][key[p]]
      BY <1>0, <3>1 DEF UnitsInv
    <3> QED
      BY <1>1, <3>1, <3>2
  <2>7. ASSUME NEW p \in kept'
        PROVE  /\ pc'[p] = "added" /\ pc'[key'[p]] \in {"loop", "fire", "pass"}
               /\ p \in Elements(units'[map'[p]][key'[p]])
    BY <1>0, <1>1, <2>1, <2>3, <2>4, <2>7 DEF UnitsInv
  <2> QED
    BY <2>5, <2>6, <2>7 DEF UnitsInv, InitDone
<1>10. PassInv'
  <2> DEFINE P(f) ==
         /\ pc'[f] \notin {"loop", "fire", "pass"} => due'[f] = {} /\ updated'[f] = <<>>
         /\ pc'[f] = "fire" => due'[f] \subseteq Elements(units'[map'[f]][f]) /\ updated'[f] = <<>>
         /\ pc'[f] = "pass" =>
              /\ due'[f] \subseteq Elements(xs'[f])
              /\ Distinct(xs'[f])
              /\ Len(updated'[f]) <= Len(xs'[f])
              /\ \A i \in DOMAIN updated'[f] : updated'[f][i] = xs'[f][i]
         /\ Distinct(updated'[f])
         /\ pc'[f] = "loop" => due'[f] \subseteq Elements(updated'[f])
  <2>1. ASSUME NEW f \in Exchanges \ {e} PROVE P(f)
    <3>1. UNCHANGED <<units, pc[f], map[f], xs[f], due[f], updated[f]>>
      BY <1>1, <2>1 DEF Goroutines
    <3> QED
      BY <1>0, <3>1 DEF PassInv, InitDone
  <2>2. ASSUME NEW m \in Maps, FireBegin(e, m) PROVE P(e)
    BY <1>1, <1>3, <2>2, ElementsOf
  <2>3. ASSUME FireRead(e) PROVE P(e)
    <3>1. Distinct(units[map[e]][e]) /\ due[e] \subseteq Elements(units[map[e]][e]) /\ updated[e] = <<>>
      BY <1>0, <1>2, <1>4, <2>3 DEF UnitsInv, PassInv
    <3>2. xs'[e] \in Seq(Adders) /\ Len(<<>>) = 0 /\ DOMAIN <<>> = {}
      BY <1>2, <1>4, <2>3
    <3>3. Len(updated'[e]) <= Len(xs'[e])
      BY <1>4, <2>3, <3>1, <3>2
    <3> QED
      BY <1>4, <2>3, <3>1, <3>2, <3>3, ElementsOf
  <2>4. ASSUME FireUpdate(e) PROVE P(e)
    <3> DEFINE u == updated[e]
               n == Len(updated[e]) + 1
               v == Append(u, xs[e][n])
    <3>1. /\ xs[e] \in Seq(Adders) /\ u \in Seq(Adders) /\ Distinct(xs[e])
          /\ due[e] \subseteq Elements(xs[e]) /\ \A i \in DOMAIN u : u[i] = xs[e][i]
      BY <1>0, <1>5, <2>4 DEF PassInv, Types
    <3>2. n \in 1 .. Len(xs[e]) /\ DOMAIN u = 1 .. n - 1 /\ DOMAIN xs[e] = 1 .. Len(xs[e])
      BY <1>5, <2>4, <3>1
    <3>3. Len(v) = n /\ DOMAIN v = 1 .. n /\ \A i \in 1 .. n : v[i] = xs[e][i]
      BY <3>1, <3>2
    <3>4. updated'[e] = v /\ pc'[e] = "pass" /\ UNCHANGED <<due, xs>>
      BY <1>5, <2>4
    <3> HIDE DEF u, n, v
    <3>5. Distinct(v)
      BY <3>1, <3>2, <3>3 DEF Distinct
    <3> QED
      BY <3>1, <3>2, <3>3, <3>4, <3>5
  <2>5. ASSUME FireEnd(e) PROVE P(e)
    <3>1. /\ xs[e] \in Seq(Adders) /\ updated[e] \in Seq(Adders) /\ Len(updated[e]) = Len(xs[e])
          /\ due[e] \subseteq Elements(xs[e]) /\ Distinct(updated[e])
          /\ \A i \in DOMAIN updated[e] : updated[e][i] = xs[e][i]
      BY <1>0, <1>6, <2>5 DEF PassInv, Types
    <3>2. updated[e] = xs[e]
      BY <3>1, SeqEqual
    <3> QED
      BY <1>6, <2>5, <3>1, <3>2
  <2>6. P(e)
    BY <2>2, <2>3, <2>4, <2>5
  <2> QED
    BY <2>1, <2>6 DEF PassInv, InitDone
<1> QED
  BY <1>7, <1>8, <1>9, <1>10 DEF HistoryInv

-----------------------------------------------------------------------------
(***************************************************************************)
(* The inductive invariant of the strategy.                                *)
(***************************************************************************)
LEMMA HistoryStarts == Init => HistoryInv
<1> SUFFICES ASSUME Init PROVE HistoryInv
  OBVIOUS
<1>1. Types
  BY DEF Init, Types, Goroutines
<1>2. MutexInv
  BY DEF Init, MutexInv, Locked, Goroutines
<1>3. UnitsInv
  BY ElementsOf DEF Init, UnitsInv, Goroutines
<1>4. PassInv
  BY ElementsOf DEF Init, PassInv, InitDone, Goroutines
<1> QED
  BY <1>1, <1>2, <1>3, <1>4 DEF HistoryInv

LEMMA HistoryStep == HistoryInv /\ [Next]_vars => HistoryInv'
<1> SUFFICES ASSUME HistoryInv, [Next]_vars PROVE HistoryInv'
  OBVIOUS
<1>1. ASSUME NEW e \in Exchanges, ExchangeStep(e) PROVE HistoryInv'
  BY <1>1, InitSteps, FireSteps DEF ExchangeStep
<1>2. ASSUME NEW p \in Adders, AdderStep(p) PROVE HistoryInv'
  BY <1>2, AddSteps DEF AdderStep
<1>3. CASE UNCHANGED vars
  <2>0. UNCHANGED <<units, mu, pc, map, key, xs, updated, due, kept>>
    BY <1>3 DEF vars
  <2>1. Types'
    BY <2>0 DEF HistoryInv, Types
  <2>2. MutexInv'
    BY <2>0 DEF HistoryInv, MutexInv
  <2>3. UnitsInv'
    <3>1. UnitsInv
      BY DEF HistoryInv
    <3>2. ASSUME NEW m \in Maps, NEW e \in Exchanges
          PROVE  Distinct(units'[m][e]) /\ \A p \in Elements(units'[m][e]) : pc'[p] = "added"
      BY <2>0, <3>1 DEF UnitsInv
    <3>3. ASSUME NEW p \in Adders, pc'[p] = "add write"
          PROVE  xs'[p] = units'[map'[p]][key'[p]]
      BY <2>0, <3>1, <3>3 DEF UnitsInv
    <3>4. ASSUME NEW p \in kept'
          PROVE  /\ pc'[p] = "added" /\ pc'[key'[p]] \in {"loop", "fire", "pass"}
                 /\ p \in Elements(units'[map'[p]][key'[p]])
      BY <2>0, <3>1, <3>4 DEF UnitsInv, InitDone
    <3> QED
      BY <3>2, <3>3, <3>4 DEF UnitsInv, InitDone
  <2>4. PassInv'
    BY <2>0 DEF HistoryInv, PassInv, InitDone
  <2> QED
    BY <2>1, <2>2, <2>3, <2>4 DEF HistoryInv
<1> QED
  BY <1>1, <1>2, <1>3 DEF Next

LEMMA HistoryInvariant == Spec => []HistoryInv
  BY HistoryStarts, HistoryStep, PTL DEF Spec

-----------------------------------------------------------------------------
(***************************************************************************)
(* Every variable keeps its type, and the mutex is held by whoever         *)
(* initializes or adds: it is neither kept when they are done nor given to *)
(* two of them.                                                            *)
(***************************************************************************)
THEOREM HistoryTypeOK == Spec => []TypeOK
<1>1. HistoryInv => TypeOK
  BY DEF HistoryInv, MutexInv, TypeOK
<1> QED
  BY <1>1, HistoryInvariant, PTL

(***************************************************************************)
(* The mutex serializes the writes of the maps, each AddHistorian from its *)
(* read to its write.                                                      *)
(***************************************************************************)
THEOREM HistoryWritesSerialized == Spec => []WritesSerialized
<1>1. ASSUME HistoryInv PROVE WritesSerialized
  <2>1. ASSUME NEW m \in Maps, NEW p \in Writing(m), NEW q \in Writing(m) PROVE p = q
    BY <1>1 DEF HistoryInv, MutexInv, Writing, Locked
  <2>2. \A p \in Adders : pc[p] = "add write" => xs[p] = units[map[p]][key[p]]
    BY <1>1 DEF HistoryInv, UnitsInv
  <2> QED
    BY <2>1, <2>2 DEF WritesSerialized
<1> QED
  BY <1>1, HistoryInvariant, PTL

(***************************************************************************)
(* A historian added after the Init of its exchange stays, once.           *)
(***************************************************************************)
THEOREM HistoryKeptOnce == Spec => []KeptOnce
<1>1. ASSUME HistoryInv PROVE KeptOnce
  <2> SUFFICES ASSUME NEW p \in kept
               PROVE  \E i \in DOMAIN units[map[p]][key[p]] :
                        /\ units[map[p]][key[p]][i] = p
                        /\ \A j \in DOMAIN units[map[p]][key[p]] :
                             units[map[p]][key[p]][j] = p => j = i
    BY DEF KeptOnce
  <2>1. map[p] \in Maps /\ key[p] \in Exchanges
    BY <1>1 DEF HistoryInv, Types, Goroutines
  <2> DEFINE s == units[map[p]][key[p]]
  <2>2. Distinct(s) /\ p \in Elements(s)
    BY <1>1, <2>1 DEF HistoryInv, UnitsInv
  <2> HIDE DEF s
  <2>3. \E i \in DOMAIN s : s[i] = p /\ \A j \in DOMAIN s : s[j] = p => j = i
    BY <2>2 DEF Distinct, Elements
  <2> QED
    BY <2>3 DEF s
<1> QED
  BY <1>1, HistoryInvariant, PTL

(***************************************************************************)
(* A pass of fire updates all that it found, and none twice.               *)
(***************************************************************************)
THEOREM HistoryPassUpdatesAllOnce == Spec => []PassUpdatesAllOnce
<1>1. HistoryInv => PassUpdatesAllOnce
  BY DEF HistoryInv, PassInv, PassUpdatesAllOnce, Distinct
<1> QED
  BY <1>1, HistoryInvariant, PTL

(***************************************************************************)
(* Whatever an access under the mutex meets holds no mutex: it is fire's.  *)
(***************************************************************************)
THEOREM HistoryRacesAreReads == Spec => []RacesAreUnlockedReads
<1>1. ASSUME HistoryInv PROVE RacesAreUnlockedReads
  <2> SUFFICES ASSUME NEW m \in Maps, NEW p \in Writing(m),
                      NEW q \in (Reading(m) \cup Writing(m)) \ {p}
               PROVE  q \in Exchanges /\ pc[q] = "fire"
    BY DEF RacesAreUnlockedReads
  <2>1. MutexInv /\ p \in Goroutines /\ q \in Goroutines /\ p # q
    BY <1>1 DEF HistoryInv, Writing, Reading
  <2>2. mu = p
    BY <2>1 DEF MutexInv, Writing, Locked
  <2>3. pc[q] \notin Locked
    BY <2>1, <2>2 DEF MutexInv
  <2>4. pc[q] = "fire"
    BY <2>3 DEF Reading, Writing, Locked
  <2>5. q \notin Adders
    BY <2>1, <2>4 DEF MutexInv
  <2> QED
    BY <2>1, <2>4, <2>5 DEF Goroutines
<1> QED
  BY <1>1, HistoryInvariant, PTL
=============================================================================
