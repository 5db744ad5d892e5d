------------------------ MODULE OrderRegistryProofs ------------------------
(***************************************************************************)
(* The order registry for any number of goroutines, keys and values and    *)
(* any width of the counter.                                               *)
(***************************************************************************)
EXTENDS OrderRegistry, FiniteSetTheorems, TLAPS

USE AbsentAssumption, CallersAssumption, KeysAssumption, MaxInt32Assumption

(***************************************************************************)
(* The counter stays in the range of its type: it wraps.                   *)
(***************************************************************************)
THEOREM TypeCorrect == Spec => []TypeOK
<1>1. Init => TypeOK
  BY DEF Init, TypeOK
<1>2. TypeOK /\ [Next]_vars => TypeOK'
  <2> SUFFICES ASSUME TypeOK, [Next]_vars PROVE TypeOK'
    OBVIOUS
  <2> USE DEF TypeOK
  <2>1. ASSUME NEW c \in Callers, NEW k \in Keys, NEW v \in Values, Store(c, k, v)
        PROVE  TypeOK'
    BY <2>1 DEF Store, LoadOrStore
  <2>2. ASSUME NEW c \in Callers, Count(c) PROVE TypeOK'
    <3>1. Add1(length) \in -(MaxInt32 + 1) .. MaxInt32
      BY DEF Add1
    <3>2. adding[c] \in Keys
      BY <2>2 DEF Count
    <3> QED
      BY <2>2, <3>1, <3>2 DEF Count, CountOne
  <2>3. CASE UNCHANGED vars
    BY <2>3 DEF vars
  <2> QED
    BY <2>1, <2>2, <2>3 DEF Next
<1> QED
  BY <1>1, <1>2, PTL DEF Spec

(***************************************************************************)
(* The registry implements a write-once map: no interleaving of Store      *)
(* calls changes or removes an entry.                                      *)
(***************************************************************************)
THEOREM ImplementsWriteOnce == Spec => FirstStoreStays
<1>1. Init => WO!Init
  BY DEF Init, WO!Init
<1>2. [Next]_vars => [WO!Next]_values
  <2> SUFFICES ASSUME [Next]_vars PROVE [WO!Next]_values
    OBVIOUS
  <2>1. ASSUME NEW c \in Callers, NEW k \in Keys, NEW v \in Values, Store(c, k, v)
        PROVE  [WO!Next]_values
    BY <2>1 DEF Store, LoadOrStore, WO!Next, WO!Put
  <2>2. ASSUME NEW c \in Callers, Count(c) PROVE [WO!Next]_values
    BY <2>2 DEF Count
  <2>3. CASE UNCHANGED vars
    BY <2>3 DEF vars
  <2> QED
    BY <2>1, <2>2, <2>3 DEF Next
<1> QED
  BY <1>1, <1>2, PTL DEF Spec, FirstStoreStays, WO!Spec

-----------------------------------------------------------------------------
(***************************************************************************)
(* The sets whose sizes the counter relates, and what the steps do to them *)
(***************************************************************************)

CountingFor(k) == {c \in Callers : adding[c] = k}

(***************************************************************************)
(* Inserting an entry adds its key to Stored and its caller to Counting;   *)
(* counting it takes the caller out again.                                 *)
(***************************************************************************)
LEMMA StepSets ==
  ASSUME TypeOK, NEW c \in Callers
  PROVE  /\ \A k \in Keys, v \in Values :
              Store(c, k, v) /\ values[k] = Absent
              => /\ k \notin Stored /\ Stored' = Stored \cup {k}
                 /\ c \notin Counting /\ Counting' = Counting \cup {c}
                 /\ \A j \in Keys :
                      CountingFor(j)' = IF j = k THEN CountingFor(j) \cup {c}
                                                 ELSE CountingFor(j)
                 /\ c \notin CountingFor(k)
         /\ Count(c)
              => /\ Stored' = Stored
                 /\ c \in Counting /\ Counting' = Counting \ {c}
                 /\ \A j \in Keys :
                      CountingFor(j)' = IF j = adding[c] THEN CountingFor(j) \ {c}
                                                         ELSE CountingFor(j)
                 /\ c \in CountingFor(adding[c])
<1> USE DEF TypeOK, Stored, Counting, CountingFor
<1>1. ASSUME NEW k \in Keys, NEW v \in Values, Store(c, k, v), values[k] = Absent
      PROVE  /\ k \notin Stored /\ Stored' = Stored \cup {k}
             /\ c \notin Counting /\ Counting' = Counting \cup {c}
             /\ \A j \in Keys :
                  CountingFor(j)' = IF j = k THEN CountingFor(j) \cup {c}
                                             ELSE CountingFor(j)
             /\ c \notin CountingFor(k)
  <2>1. /\ adding[c] = Absent /\ k # Absent /\ v # Absent
        /\ values' = [values EXCEPT ![k] = v]
        /\ adding' = [adding EXCEPT ![c] = k]
    BY <1>1 DEF Store, LoadOrStore
  <2>2. k \notin Stored /\ Stored' = Stored \cup {k}
    BY <1>1, <2>1
  <2>3. c \notin Counting /\ Counting' = Counting \cup {c}
    BY <2>1
  <2>4. ASSUME NEW j \in Keys
        PROVE  CountingFor(j)' = IF j = k THEN CountingFor(j) \cup {c}
                                          ELSE CountingFor(j)
    BY <2>1
  <2> QED
    BY <2>1, <2>2, <2>3, <2>4
<1>2. ASSUME Count(c)
      PROVE  /\ Stored' = Stored
             /\ c \in Counting /\ Counting' = Counting \ {c}
             /\ \A j \in Keys :
                  CountingFor(j)' = IF j = adding[c] THEN CountingFor(j) \ {c}
                                                     ELSE CountingFor(j)
             /\ c \in CountingFor(adding[c])
  <2>1. /\ adding[c] # Absent /\ UNCHANGED values
        /\ adding' = [adding EXCEPT ![c] = Absent]
    BY <1>2 DEF Count, CountOne
  <2>2. Stored' = Stored /\ c \in Counting /\ Counting' = Counting \ {c}
    BY <2>1
  <2>3. ASSUME NEW j \in Keys
        PROVE  CountingFor(j)' = IF j = adding[c] THEN CountingFor(j) \ {c}
                                                  ELSE CountingFor(j)
    BY <2>1
  <2> QED
    BY <2>1, <2>2, <2>3
<1> QED
  BY <1>1, <1>2

(***************************************************************************)
(* All of these sets are finite.                                           *)
(***************************************************************************)
LEMMA SetsAreFinite ==
  /\ IsFiniteSet(Stored) /\ Cardinality(Stored) \in Nat
  /\ IsFiniteSet(Counting) /\ Cardinality(Counting) \in Nat
  /\ \A k : IsFiniteSet(CountingFor(k)) /\ Cardinality(CountingFor(k)) \in Nat
<1>1. Stored \subseteq Keys /\ Counting \subseteq Callers
      /\ \A k : CountingFor(k) \subseteq Callers
  BY DEF Stored, Counting, CountingFor
<1> QED
  BY <1>1, FS_Subset, FS_CardinalityType

(***************************************************************************)
(* Length() lags the map by the Store calls in flight, as long as the      *)
(* registry holds no more orders than an int32 counts.                     *)
(***************************************************************************)
THEOREM LengthCorrect == Spec => []LengthLagsByInFlight
<1>1. Init => LengthLagsByInFlight
  <2> SUFFICES ASSUME Init PROVE length = Cardinality(Stored) - Cardinality(Counting)
    BY DEF LengthLagsByInFlight
  <2>1. Stored = {} /\ Counting = {} /\ length = 0
    BY DEF Init, Stored, Counting
  <2> QED
    BY <2>1, FS_EmptySet
<1>2. TypeOK /\ LengthLagsByInFlight /\ [Next]_vars => LengthLagsByInFlight'
  <2> SUFFICES ASSUME TypeOK, LengthLagsByInFlight, [Next]_vars,
                      Cardinality(Stored') <= MaxInt32
               PROVE  length' = Cardinality(Stored') - Cardinality(Counting')
    BY DEF LengthLagsByInFlight
  <2>1. ASSUME NEW c \in Callers, NEW k \in Keys, NEW v \in Values,
               Store(c, k, v), values[k] = Absent
        PROVE  length' = Cardinality(Stored') - Cardinality(Counting')
    <3>1. Cardinality(Stored') = Cardinality(Stored) + 1
      BY <2>1, StepSets, SetsAreFinite, FS_AddElement
    <3>2. Cardinality(Counting') = Cardinality(Counting) + 1
      BY <2>1, StepSets, SetsAreFinite, FS_AddElement
    <3>3. length' = length
      BY <2>1 DEF Store
    <3> QED
      BY <3>1, <3>2, <3>3, SetsAreFinite DEF LengthLagsByInFlight, TypeOK
  <2>2. ASSUME NEW c \in Callers, Count(c)
        PROVE  length' = Cardinality(Stored') - Cardinality(Counting')
    <3>1. Cardinality(Stored') = Cardinality(Stored)
      BY <2>2, StepSets
    <3>2. Cardinality(Counting') = Cardinality(Counting) - 1
      BY <2>2, StepSets, SetsAreFinite, FS_RemoveElement
    <3>3. Cardinality(Counting) > 0
      BY <2>2, StepSets, SetsAreFinite, FS_EmptySet
    <3>4. length = Cardinality(Stored) - Cardinality(Counting)
      BY <3>1 DEF LengthLagsByInFlight
    <3>5. length' = length + 1
      BY <2>2, <3>1, <3>3, <3>4, SetsAreFinite DEF Count, CountOne, Add1
    <3> QED
      BY <3>1, <3>2, <3>4, <3>5, SetsAreFinite
  <2>3. CASE UNCHANGED <<values, adding, length>>
    <3>1. Stored' = Stored /\ Counting' = Counting
      BY <2>3 DEF Stored, Counting
    <3> QED
      BY <2>3, <3>1 DEF LengthLagsByInFlight
  <2> QED
    BY <2>1, <2>2, <2>3 DEF Next, Store, LoadOrStore, vars
<1> QED
  BY <1>1, <1>2, TypeCorrect, PTL DEF Spec

(***************************************************************************)
(* Exactly one Store call per key wins, in any interleaving.               *)
(***************************************************************************)
THEOREM OneWinnerCorrect == Spec => []OneWinner
<1> USE DEF CountingFor
<1>1. Init => OneWinner
  <2> SUFFICES ASSUME Init, NEW k \in Keys
               PROVE  won[k] + Cardinality(CountingFor(k))
                        = IF k \in Stored THEN 1 ELSE 0
    BY DEF OneWinner
  <2>1. k \notin Stored /\ CountingFor(k) = {} /\ won[k] = 0
    BY DEF Init, Stored
  <2> QED
    BY <2>1, FS_EmptySet
<1>2. TypeOK /\ OneWinner /\ [Next]_vars => OneWinner'
  <2> SUFFICES ASSUME TypeOK, OneWinner, [Next]_vars, NEW j \in Keys
               PROVE  won'[j] + Cardinality(CountingFor(j)')
                        = IF j \in Stored' THEN 1 ELSE 0
    BY DEF OneWinner
  <2>1. won[j] + Cardinality(CountingFor(j)) = IF j \in Stored THEN 1 ELSE 0
    BY DEF OneWinner
  <2>2. won[j] \in Nat
    BY DEF TypeOK
  <2> HIDE DEF CountingFor
  <2>3. ASSUME NEW c \in Callers, NEW k \in Keys, NEW v \in Values,
               Store(c, k, v), values[k] = Absent
        PROVE  won'[j] + Cardinality(CountingFor(j)')
                 = IF j \in Stored' THEN 1 ELSE 0
    <3>1. /\ k \notin Stored /\ Stored' = Stored \cup {k} /\ won' = won
          /\ c \notin CountingFor(k)
          /\ CountingFor(j)' = IF j = k THEN CountingFor(j) \cup {c}
                                        ELSE CountingFor(j)
      BY <2>3, StepSets DEF Store
    <3>2. CASE j = k
      <4>1. Cardinality(CountingFor(j)') = Cardinality(CountingFor(j)) + 1
        BY <3>1, <3>2, SetsAreFinite, FS_AddElement
      <4> QED
        BY <2>1, <2>2, <3>1, <3>2, <4>1, SetsAreFinite
    <3>3. CASE j # k
      BY <2>1, <3>1, <3>3
    <3> QED
      BY <3>2, <3>3
  <2>4. ASSUME NEW c \in Callers, Count(c)
        PROVE  won'[j] + Cardinality(CountingFor(j)')
                 = IF j \in Stored' THEN 1 ELSE 0
    <3>1. /\ Stored' = Stored /\ c \in CountingFor(adding[c])
          /\ CountingFor(j)' = IF j = adding[c] THEN CountingFor(j) \ {c}
                                                ELSE CountingFor(j)
      BY <2>4, StepSets
    <3>2. won' = [won EXCEPT ![adding[c]] = @ + 1]
      BY <2>4 DEF Count
    <3>3. CASE j = adding[c]
      <4>1. Cardinality(CountingFor(j)') = Cardinality(CountingFor(j)) - 1
        BY <3>1, <3>3, SetsAreFinite, FS_RemoveElement
      <4>2. won'[j] = won[j] + 1
        BY <3>2, <3>3 DEF TypeOK
      <4> QED
        BY <2>1, <2>2, <3>1, <4>1, <4>2, SetsAreFinite
    <3>4. CASE j # adding[c]
      <4>1. won'[j] = won[j]
        BY <3>2, <3>4 DEF TypeOK
      <4> QED
        BY <2>1, <3>1, <3>4, <4>1
    <3> QED
      BY <3>3, <3>4
  <2>5. CASE UNCHANGED <<values, adding, won>>
    <3>1. Stored' = Stored /\ CountingFor(j)' = CountingFor(j)
      BY <2>5 DEF Stored, CountingFor
    <3> QED
      BY <2>1, <2>5, <3>1
  <2> QED
    BY <2>3, <2>4, <2>5 DEF Next, Store, LoadOrStore, vars
<1> QED
  BY <1>1, <1>2, TypeCorrect, PTL DEF Spec
=============================================================================
