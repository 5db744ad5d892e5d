--------------------------- MODULE KeepBulkProofs ---------------------------
(***************************************************************************)
(* The bulk calls of Keep for any number of orders.                        *)
(***************************************************************************)
EXTENDS KeepBulk, FiniteSetTheorems, TLAPS

USE OrdersAssumption, RestingAssumption

-----------------------------------------------------------------------------
(***************************************************************************)
(* SubmitOrders                                                            *)
(***************************************************************************)

\* The goroutines that were started and are not done, and those that have
\* appended their error.
Busy == {o \in Orders : pc[o] \in {"submit", "lock", "append", "done"}}
Past == {o \in Orders : pc[o] \in {"done", "end"}}

(***************************************************************************)
(* The mutex makes reading and appending one step: whoever is in between   *)
(* holds it and has read the current errors.  The group counts the         *)
(* goroutines that are not done, so that the wait is over when all are.    *)
(***************************************************************************)
ErrorsInv ==
  /\ group = Cardinality(Busy)
  /\ err = failed \cap Past
  /\ \A o \in Orders : pc[o] = "append" => mutex = o /\ left[o] = err
  /\ \A o \in failed : pc[o] \notin {"none", "submit"}
  /\ returned => result = err /\ \A o \in Orders : pc[o] = "end"

SubmitInv == TypeOK /\ ErrorsInv

(***************************************************************************)
(* The goroutines are finitely many, and group has the type of a count.    *)
(***************************************************************************)
LEMMA BusyIsFinite ==
  /\ IsFiniteSet(Busy)
  /\ Cardinality(Busy) \in 0 .. Cardinality(Orders)
<1>1. Busy \subseteq Orders
  BY DEF Busy
<1> QED
  BY <1>1, FS_Subset, FS_CardinalityType

(***************************************************************************)
(* No step of a call of SubmitOrders breaks its invariant.                 *)
(***************************************************************************)
LEMMA SubmitOrdersStep ==
  ASSUME SubmitInv, Wait \/ \E o \in Orders : Step(o)
  PROVE  SubmitInv'
<1> USE DEF SubmitInv, ErrorsInv, TypeOK
<1>0. Busy' \subseteq Orders /\ IsFiniteSet(Busy') /\ Cardinality(Busy') \in 0 .. Cardinality(Orders)
  <2>1. Busy' \subseteq Orders
    BY DEF Busy
  <2> QED
    BY <2>1, FS_Subset, FS_CardinalityType
<1>1. ASSUME NEW o \in Orders, Spawn(o) PROVE SubmitInv'
  <2>1. /\ pc[o] = "none" /\ pc' = [pc EXCEPT ![o] = "submit"] /\ group' = group + 1
        /\ UNCHANGED <<mutex, err, left, failed, returned, result>>
    BY <1>1 DEF Spawn, Goto
  <2>2. o \notin Busy /\ Busy' = Busy \cup {o}
    BY <2>1 DEF Busy
  <2>3. Cardinality(Busy') = Cardinality(Busy) + 1
    BY <2>2, BusyIsFinite, FS_AddElement
  <2>4. Past' = Past
    BY <2>1 DEF Past
  <2>5. TypeOK'
    BY <1>0, <2>1, <2>3
  <2>6. /\ \A q \in Orders : pc'[q] = "append" => mutex' = q /\ left'[q] = err'
        /\ \A q \in failed' : pc'[q] \notin {"none", "submit"}
        /\ ~ returned
    BY <2>1
  <2> QED
    BY <2>1, <2>3, <2>4, <2>5, <2>6
<1>2. ASSUME NEW o \in Orders, Submitted(o) PROVE SubmitInv'
  <2>1. /\ pc[o] = "submit" /\ pc' = [pc EXCEPT ![o] = "lock"]
        /\ failed' \in {failed, failed \cup {o}}
        /\ UNCHANGED <<group, mutex, err, left, returned, result>>
    BY <1>2 DEF Submitted, Goto
  <2>2. Busy' = Busy /\ Past' = Past /\ o \notin Past
    BY <2>1 DEF Busy, Past
  <2>3. failed' \cap Past' = failed \cap Past
    BY <2>1, <2>2
  <2>4. TypeOK'
    BY <2>1
  <2>5. /\ \A q \in Orders : pc'[q] = "append" => mutex' = q /\ left'[q] = err'
        /\ \A q \in failed' : pc'[q] \notin {"none", "submit"}
        /\ ~ returned
    BY <2>1
  <2> QED
    BY <2>1, <2>2, <2>3, <2>4, <2>5
<1>3. ASSUME NEW o \in Orders, DoneLock(o) PROVE SubmitInv'
  <2>1. /\ pc[o] = "lock" /\ pc' = [pc EXCEPT ![o] = "append"] /\ mutex = NoOne /\ mutex' = o
        /\ left' = [left EXCEPT ![o] = err]
        /\ UNCHANGED <<group, err, failed, returned, result>>
    BY <1>3 DEF DoneLock, Goto
  <2>2. Busy' = Busy /\ Past' = Past
    BY <2>1 DEF Busy, Past
  <2>3. TypeOK'
    BY <2>1
  <2>4. \A q \in Orders : pc'[q] = "append" => mutex' = q /\ left'[q] = err'
    <3>1. \A q \in Orders : pc[q] # "append"
      BY <2>1
    <3> QED
      BY <2>1, <3>1
  <2>5. /\ \A q \in failed' : pc'[q] \notin {"none", "submit"}
        /\ ~ returned
    BY <2>1
  <2> QED
    BY <2>1, <2>2, <2>3, <2>4, <2>5
<1>4. ASSUME NEW o \in Orders, DoneAppend(o) PROVE SubmitInv'
  <2>1. /\ pc[o] = "append" /\ pc' = [pc EXCEPT ![o] = "done"] /\ mutex' = NoOne
        /\ err' = left[o] \cup (failed \cap {o})
        /\ UNCHANGED <<group, left, failed, returned, result>>
    BY <1>4 DEF DoneAppend, Goto
  <2>2. Busy' = Busy /\ Past' = Past \cup {o}
    BY <2>1 DEF Busy, Past
  <2>3. left[o] = err /\ mutex = o
    BY <2>1
  <2>4. err' = failed' \cap Past'
    BY <2>1, <2>2, <2>3
  <2>5. TypeOK'
    BY <2>1, <2>3
  <2>6. \A q \in Orders : pc'[q] # "append"
    BY <2>1, <2>3
  <2>7. /\ \A q \in failed' : pc'[q] \notin {"none", "submit"}
        /\ ~ returned
    BY <2>1
  <2> QED
    BY <2>1, <2>2, <2>4, <2>5, <2>6, <2>7
<1>5. ASSUME NEW o \in Orders, DoneGroup(o) PROVE SubmitInv'
  <2>1. /\ pc[o] = "done" /\ pc' = [pc EXCEPT ![o] = "end"] /\ group' = group - 1
        /\ UNCHANGED <<mutex, err, left, failed, returned, result>>
    BY <1>5 DEF DoneGroup, Goto
  <2>2. o \in Busy /\ Busy' = Busy \ {o} /\ Past' = Past
    BY <2>1 DEF Busy, Past
  <2>3. Cardinality(Busy') = Cardinality(Busy) - 1
    BY <2>2, BusyIsFinite, FS_RemoveElement
  <2>4. TypeOK'
    BY <1>0, <2>1, <2>3
  <2>5. /\ \A q \in Orders : pc'[q] = "append" => mutex' = q /\ left'[q] = err'
        /\ \A q \in failed' : pc'[q] \notin {"none", "submit"}
        /\ ~ returned
    BY <2>1
  <2> QED
    BY <2>1, <2>2, <2>3, <2>4, <2>5
<1>6. ASSUME Wait PROVE SubmitInv'
  <2>1. /\ \A o \in Orders : pc[o] # "none"
        /\ group = 0 /\ returned' = TRUE /\ result' = err
        /\ UNCHANGED <<pc, group, mutex, err, left, failed>>
    BY <1>6 DEF Wait
  <2>2. Busy = {}
    BY <2>1, BusyIsFinite, FS_EmptySet
  <2>3. \A o \in Orders : pc[o] = "end"
    BY <2>1, <2>2 DEF Busy
  <2>4. Busy' = Busy /\ Past' = Past
    BY <2>1 DEF Busy, Past
  <2>5. TypeOK'
    BY <2>1
  <2> QED
    BY <2>1, <2>3, <2>4, <2>5
<1> QED
  BY <1>1, <1>2, <1>3, <1>4, <1>5, <1>6 DEF Step

(***************************************************************************)
(* A step leaves the state of SubmitOrders alone or is one of its steps.   *)
(***************************************************************************)
LEMMA SubmitOrdersPart ==
  [BulkNext]_bulkVars =>
    \/ Wait \/ \E o \in Orders : Step(o)
    \/ UNCHANGED submitVars
  BY DEF BulkNext, bulkVars, SubmitStep, List, CancelStep, PlaceSubmitted,
         PlaceResting, Fill

(***************************************************************************)
(* The invariant of SubmitOrders holds beside any cancellation.            *)
(***************************************************************************)
LEMMA SubmitInvariant == BulkSpec => []SubmitInv
<1>1. BulkInit => SubmitInv
  <2> SUFFICES ASSUME BulkInit PROVE SubmitInv
    OBVIOUS
  <2>1. /\ pc = [o \in Orders |-> "none"] /\ group = 0 /\ mutex = NoOne /\ err = {}
        /\ left = [o \in Orders |-> {}] /\ failed = {} /\ returned = FALSE /\ result = {}
    BY DEF BulkInit, Init
  <2>2. Busy = {}
    BY <2>1 DEF Busy
  <2>3. Cardinality(Busy) = 0 /\ 0 \in 0 .. Cardinality(Orders)
    BY <2>2, FS_EmptySet, FS_CardinalityType
  <2>4. TypeOK
    BY <2>1, <2>3 DEF TypeOK
  <2> QED
    BY <2>1, <2>3, <2>4 DEF SubmitInv, ErrorsInv
<1>2. SubmitInv /\ [BulkNext]_bulkVars => SubmitInv'
  <2> SUFFICES ASSUME SubmitInv, [BulkNext]_bulkVars PROVE SubmitInv'
    OBVIOUS
  <2>1. CASE Wait \/ \E o \in Orders : Step(o)
    BY <2>1, SubmitOrdersStep
  <2>2. CASE UNCHANGED submitVars
    <3>1. UNCHANGED <<pc, group, mutex, err, left, failed, returned, result>>
      BY <2>2 DEF submitVars, vars
    <3> QED
      BY <3>1 DEF SubmitInv, TypeOK, ErrorsInv, Busy, Past
  <2> QED
    BY <2>1, <2>2, SubmitOrdersPart
<1> QED
  BY <1>1, <1>2, PTL DEF BulkSpec

(***************************************************************************)
(* SubmitOrders returns when every goroutine is done, with the errors of   *)
(* all that failed.                                                        *)
(***************************************************************************)
THEOREM AllErrorsReturnedCorrect == BulkSpec => []AllErrorsReturned
<1>1. SubmitInv => AllErrorsReturned
  <2> SUFFICES ASSUME SubmitInv, returned
               PROVE  (\A o \in Orders : pc[o] = "end") /\ result = failed
    BY DEF AllErrorsReturned
  <2>1. (\A o \in Orders : pc[o] = "end") /\ result = failed \cap Past
    BY DEF SubmitInv, ErrorsInv
  <2>2. Past = Orders /\ failed \subseteq Orders
    BY <2>1 DEF Past, SubmitInv, TypeOK
  <2> QED
    BY <2>1, <2>2
<1> QED
  BY <1>1, SubmitInvariant, PTL

-----------------------------------------------------------------------------
(***************************************************************************)
(* CancelOrdersByPrefix                                                    *)
(***************************************************************************)

Everyone == Orders \cup Resting

(***************************************************************************)
(* An order that was listed had been placed, and none is placed twice, so  *)
(* that one that is live again does not turn up behind the call's back.    *)
(* What was listed and is live is still to be cancelled, or failed to be.  *)
(***************************************************************************)
CancelInv ==
  /\ C!TypeOK
  /\ \A o \in listed : status[o] # "new"
  /\ listed \cap C!Live \subseteq todo \cup multi
  /\ pcCancel = "list" => multi = {}
  /\ pcCancel = "returned" => todo = {}

(***************************************************************************)
(* No step of the exchange or of either call breaks the invariant of the   *)
(* cancellation.                                                           *)
(***************************************************************************)
LEMMA CancelStepInv ==
  ASSUME CancelInv, [BulkNext]_bulkVars PROVE CancelInv'
<1> USE DEF CancelInv, C!TypeOK, C!Live
<1>1. ASSUME NEW o \in Everyone, C!Place(o) PROVE CancelInv'
  <2>1. /\ status[o] = "new" /\ status' = [status EXCEPT ![o] = "live"]
        /\ UNCHANGED <<pcCancel, listed, todo, multi>>
    BY <1>1 DEF C!Place
  <2>2. o \notin listed
    BY <2>1
  <2> QED
    BY <2>1, <2>2 DEF Everyone
<1>2. ASSUME NEW o \in Everyone, C!Fill(o) PROVE CancelInv'
  <2>1. /\ status[o] = "live" /\ status' = [status EXCEPT ![o] = "filled"]
        /\ UNCHANGED <<pcCancel, listed, todo, multi>>
    BY <1>2 DEF C!Fill
  <2> QED
    BY <2>1 DEF Everyone
<1>3. ASSUME C!List PROVE CancelInv'
  <2>1. /\ pcCancel = "list" /\ UNCHANGED <<status, multi>>
        /\ \/ pcCancel' = "cancel" /\ listed' = C!Live /\ todo' = C!Live
           \/ pcCancel' = "list failed" /\ UNCHANGED <<listed, todo>>
    BY <1>3 DEF C!List
  <2> QED
    BY <2>1
<1>4. ASSUME NEW o \in Everyone, C!CancelOrder(o) PROVE CancelInv'
  <2>1. /\ pcCancel = "cancel" /\ o \in todo
        /\ todo' = todo \ {o} /\ UNCHANGED <<pcCancel, listed>>
        /\ \/ status[o] # "live" /\ UNCHANGED status
           \/ multi' = multi \cup {o} /\ UNCHANGED status
           \/ status[o] = "live" /\ status' = [status EXCEPT ![o] = "cancelled"]
        /\ multi' = multi \/ multi' = multi \cup {o}
    BY <1>4 DEF C!CancelOrder, C!NoteError
  <2>2. C!TypeOK'
    BY <2>1 DEF Everyone
  <2>3. listed' \cap C!Live' \subseteq todo' \cup multi'
    BY <2>1
  <2>4. \A x \in listed' : status'[x] # "new"
    BY <2>1
  <2> QED
    BY <2>1, <2>2, <2>3, <2>4
<1>5. ASSUME C!Return PROVE CancelInv'
  BY <1>5 DEF C!Return
<1>6. ASSUME UNCHANGED cancelVars PROVE CancelInv'
  BY <1>6 DEF cancelVars
<1> QED
  BY <1>1, <1>2, <1>3, <1>4, <1>5, <1>6
  DEF BulkNext, bulkVars, SubmitStep, List, CancelStep, PlaceSubmitted,
      PlaceResting, Fill, Everyone

(***************************************************************************)
(* The cancellation is well typed and accounts for what it listed.         *)
(***************************************************************************)
LEMMA CancelInvariant == BulkSpec => []CancelInv
<1>1. BulkInit => CancelInv
  BY DEF BulkInit, C!Init, C!TypeOK, C!Live, CancelInv
<1> QED
  BY <1>1, CancelStepInv, PTL DEF BulkSpec

(***************************************************************************)
(* Whatever was listed and survives is named in the error.                 *)
(***************************************************************************)
THEOREM SurvivorsCorrect == BulkSpec => []SurvivorsReported
<1>1. CancelInv => SurvivorsReported
  BY DEF CancelInv, SurvivorsReported, C!SurvivorsReported
<1> QED
  BY <1>1, CancelInvariant, PTL

-----------------------------------------------------------------------------
(***************************************************************************)
(* Both calls                                                              *)
(***************************************************************************)

(***************************************************************************)
(* Once SubmitOrders has returned nothing places the orders that succeeded *)
(* any more, and a list made after that has those that are live.           *)
(***************************************************************************)
AfterInv ==
  /\ after \in BOOLEAN
  /\ after => returned
  /\ after /\ pcCancel \in {"cancel", "returned"}
       => (Orders \ failed) \cap C!Live \subseteq listed

(***************************************************************************)
(* AfterInv holds in every reachable state.                                *)
(***************************************************************************)
LEMMA AfterInvariant == BulkSpec => []AfterInv
<1>1. BulkInit => AfterInv
  BY DEF BulkInit, C!Init, AfterInv
<1>2. SubmitInv /\ CancelInv /\ AfterInv /\ [BulkNext]_bulkVars => AfterInv'
  <2> SUFFICES ASSUME SubmitInv, CancelInv, AfterInv, [BulkNext]_bulkVars
               PROVE  AfterInv'
    OBVIOUS
  <2> USE DEF AfterInv, C!Live
  <2>0. returned => \A o \in Orders : pc[o] = "end"
    BY DEF SubmitInv, ErrorsInv
  <2>1. CASE SubmitStep
    <3>1. UNCHANGED <<status, pcCancel, listed, after>>
      BY <2>1 DEF SubmitStep, cancelVars
    <3>2. ASSUME returned PROVE FALSE
      BY <2>0, <2>1, <3>2
      DEF SubmitStep, Wait, Step, Spawn, Submitted, DoneLock, DoneAppend, DoneGroup
    <3> QED
      BY <3>1, <3>2
  <2>2. CASE List
    <3>1. /\ pcCancel = "list" /\ UNCHANGED <<status, returned, failed>> /\ after' = returned
          /\ \/ pcCancel' = "cancel" /\ listed' = C!Live
             \/ pcCancel' = "list failed"
      BY <2>2 DEF List, C!List, submitVars, vars
    <3>2. returned \in BOOLEAN
      BY DEF SubmitInv, TypeOK
    <3> QED
      BY <3>1, <3>2
  <2>3. CASE CancelStep
    <3>1. UNCHANGED <<listed, returned, failed, after>>
          /\ pcCancel \in {"cancel", "returned"}
      BY <2>3 DEF CancelStep, C!Return, C!CancelOrder, submitVars, vars
    <3>2. C!Live' \subseteq C!Live
      BY <2>3 DEF CancelStep, C!Return, C!CancelOrder, CancelInv, C!TypeOK
    <3> QED
      BY <3>1, <3>2
  <2>4. ASSUME NEW o \in Orders, PlaceSubmitted(o) PROVE AfterInv'
    <3>1. /\ UNCHANGED <<pcCancel, listed, returned, failed, after>>
          /\ pc[o] = "submit" \/ o \in failed
          /\ C!Live' = C!Live \cup {o}
      BY <2>4 DEF PlaceSubmitted, C!Place, submitVars, vars, CancelInv, C!TypeOK
    <3>2. after => o \in failed
      BY <2>0, <3>1
    <3> QED
      BY <3>1, <3>2
  <2>5. ASSUME NEW o \in Resting, PlaceResting(o) PROVE AfterInv'
    <3>1. /\ UNCHANGED <<pcCancel, listed, returned, failed, after>>
          /\ C!Live' = C!Live \cup {o} /\ o \notin Orders
      BY <2>5 DEF PlaceResting, C!Place, submitVars, vars, CancelInv, C!TypeOK
    <3> QED
      BY <3>1
  <2>6. ASSUME NEW o \in Everyone, Fill(o) PROVE AfterInv'
    <3>1. /\ UNCHANGED <<pcCancel, listed, returned, failed, after>>
          /\ C!Live' \subseteq C!Live
      BY <2>6 DEF Fill, C!Fill, submitVars, vars, CancelInv, C!TypeOK
    <3> QED
      BY <3>1
  <2>7. CASE UNCHANGED bulkVars
    BY <2>7 DEF bulkVars, submitVars, vars, cancelVars
  <2> QED
    BY <2>1, <2>2, <2>3, <2>4, <2>5, <2>6, <2>7 DEF BulkNext, Everyone
<1> QED
  BY <1>1, <1>2, SubmitInvariant, CancelInvariant, PTL DEF BulkSpec

(***************************************************************************)
(* A cancellation that follows SubmitOrders leaves none of its orders      *)
(* alive and unreported.                                                   *)
(***************************************************************************)
THEOREM SubmittedAreOutCorrect == BulkSpec => []SubmittedAreOut
<1>1. CancelInv /\ AfterInv => SubmittedAreOut
  BY DEF CancelInv, AfterInv, SubmittedAreOut, C!Live
<1> QED
  BY <1>1, CancelInvariant, AfterInvariant, PTL

(***************************************************************************)
(* Every variable of both calls keeps its type.                            *)
(***************************************************************************)
THEOREM BulkTypeCorrect == BulkSpec => []BulkTypeOK
<1>1. SubmitInv /\ CancelInv /\ AfterInv => BulkTypeOK
  BY DEF SubmitInv, CancelInv, AfterInv, BulkTypeOK
<1> QED
  BY <1>1, SubmitInvariant, CancelInvariant, AfterInvariant, PTL

(***************************************************************************)
(* Side by side each call behaves as it does alone: what the submissions   *)
(* do is, for the cancellation, what other goroutines may do.              *)
(***************************************************************************)
THEOREM BulkComposes == BulkSpec => Spec /\ C!Spec
<1>1. BulkInit => Init /\ C!Init
  BY DEF BulkInit
<1>2. [BulkNext]_bulkVars => [Next]_vars
  BY SubmitOrdersPart DEF Next, submitVars
<1>3. [BulkNext]_bulkVars => [C!Next]_(C!vars)
  BY DEF BulkNext, bulkVars, cancelVars, SubmitStep, List, CancelStep, PlaceSubmitted,
         PlaceResting, Fill, C!Next, C!vars
<1> QED
  BY <1>1, <1>2, <1>3, PTL DEF BulkSpec, Spec, C!Spec
=============================================================================
