--------------------------- MODULE OrderRegistry ---------------------------
(***************************************************************************)
(* OrderRegistry (order_registry.go): a sync.Map from order keys to order  *)
(* values and an int32 counter beside it.  Store updates the two with two  *)
(* separate atomic operations, so another goroutine may run in between.    *)
(***************************************************************************)
EXTENDS Integers, FiniteSets

CONSTANTS
  Callers,    \* goroutines that call Store
  Keys,       \* OrderKey: exchange name and order id
  Values,     \* OrderValue: submit response and user data
  Absent,     \* a key the map does not hold
  MaxInt32    \* the largest value of the counter (2^31 - 1 in the program)

ASSUME AbsentAssumption == Absent \notin Values \cup Keys
ASSUME CallersAssumption == IsFiniteSet(Callers)
ASSUME KeysAssumption == IsFiniteSet(Keys)
ASSUME MaxInt32Assumption == MaxInt32 \in Nat

VARIABLES
  values,     \* the sync.Map
  length,     \* the atomic counter
  adding,     \* the key a caller has inserted and not yet counted, or Absent
  won         \* history: how many Store calls returned true, per key

vars == <<values, length, adding, won>>

Stored == {k \in Keys : values[k] # Absent}
Counting == {c \in Callers : adding[c] # Absent}

TypeOK ==
  /\ values \in [Keys -> Values \cup {Absent}]
  /\ length \in -(MaxInt32 + 1) .. MaxInt32
  /\ adding \in [Callers -> Keys \cup {Absent}]
  /\ won \in [Keys -> Nat]

Init ==
  /\ values = [k \in Keys |-> Absent]
  /\ length = 0
  /\ adding = [c \in Callers |-> Absent]
  /\ won = [k \in Keys |-> 0]

\* A counter that is wider than an int32.
Add1Wide(n) == n + 1

\* atomic.AddInt32(&length, 1): two's complement addition.
Add1(n) == IF n = MaxInt32 THEN -(MaxInt32 + 1) ELSE n + 1

\* Check-then-act instead of LoadOrStore: the later caller also inserts.
LoadOrStoreOverwrites(c, k, v) ==
  /\ values' = [values EXCEPT ![k] = v]
  /\ adding' = [adding EXCEPT ![c] = k]

\* sync.Map.LoadOrStore: inserts and goes on to count, or finds an entry, in
\* which case Store returns false and nothing has changed.
LoadOrStore(c, k, v) ==
  \/ /\ values[k] = Absent
     /\ values' = [values EXCEPT ![k] = v]
     /\ adding' = [adding EXCEPT ![c] = k]
  \/ /\ values[k] # Absent
     /\ UNCHANGED <<values, adding>>

Store(c, k, v) ==
  /\ adding[c] = Absent
  /\ LoadOrStore(c, k, v)
  /\ UNCHANGED <<length, won>>

\* Counting by reading and writing the size of the map, not by adding one.
CountFromMap(c) ==
  /\ length' = Cardinality(Stored)
  /\ adding' = [adding EXCEPT ![c] = Absent]

CountOne(c) ==
  /\ length' = Add1(length)
  /\ adding' = [adding EXCEPT ![c] = Absent]

\* The counter is incremented and Store returns true.
Count(c) ==
  /\ adding[c] # Absent
  /\ CountOne(c)
  /\ won' = [won EXCEPT ![adding[c]] = @ + 1]
  /\ UNCHANGED values

Next ==
  \E c \in Callers :
    \/ \E k \in Keys, v \in Values : Store(c, k, v)
    \/ Count(c)

Spec == Init /\ [][Next]_vars

-----------------------------------------------------------------------------

(***************************************************************************)
(* Length() never runs ahead of the map and lags it by exactly the Store   *)
(* calls that are between their two atomic operations, as long as no more  *)
(* orders are stored than an int32 can count.                              *)
(***************************************************************************)
LengthLagsByInFlight ==
  Cardinality(Stored) <= MaxInt32
    => length = Cardinality(Stored) - Cardinality(Counting)

(***************************************************************************)
(* Of all the Store calls made for one key, in any interleaving, exactly   *)
(* one returns true: none does before the key is in the map, at most one   *)
(* caller is about to, and no caller is about to once one did.             *)
(***************************************************************************)
OneWinner ==
  \A k \in Keys :
    won[k] + Cardinality({c \in Callers : adding[c] = k})
      = IF k \in Stored THEN 1 ELSE 0

WO == INSTANCE WriteOnce WITH entries <- values

(***************************************************************************)
(* The map is a write-once map: the value of the first Store is the one    *)
(* GetOrderValue returns for ever after.                                   *)
(***************************************************************************)
FirstStoreStays == WO!Spec
=============================================================================
