------------------------------ MODULE KeepBulk ------------------------------
(***************************************************************************)
(* The bulk calls of Keep side by side: one goroutine calls SubmitOrders,  *)
(* another one CancelOrdersByPrefix for the same pair, type and side.  The *)
(* two calls share nothing but the exchange.                               *)
(***************************************************************************)
EXTENDS SubmitOrders

CONSTANT Resting  \* orders that other calls place

ASSUME RestingAssumption == Resting \cap Orders = {}

VARIABLES
  status, pcCancel, listed, todo, multi,  \* of the cancellation
  after                                   \* history: the orders were listed after SubmitOrders returned

submitVars == vars
cancelVars == <<status, pcCancel, listed, todo, multi>>
bulkVars == <<submitVars, cancelVars, after>>

C == INSTANCE CancelOrdersByPrefix WITH Orders <- Orders \cup Resting, pc <- pcCancel

BulkTypeOK == TypeOK /\ C!TypeOK /\ after \in BOOLEAN

BulkInit ==
  /\ Init
  /\ C!Init /\ \A o \in Orders : status[o] = "new"
  /\ after = FALSE

\* A submission that returned no error has placed its order.
SubmitStep ==
  /\ Wait \/ \E o \in Orders : Step(o)
  /\ \A o \in Orders :
       pc[o] = "submit" /\ pc'[o] # "submit" => o \in failed' \/ status[o] # "new"
  /\ UNCHANGED <<cancelVars, after>>

\* The exchange places the order of a request that was sent, even if it
\* returns an error, and even after it did.
PlaceSubmitted(o) ==
  /\ pc[o] = "submit" \/ o \in failed
  /\ C!Place(o)
  /\ UNCHANGED <<submitVars, after>>

PlaceResting(o) == C!Place(o) /\ UNCHANGED <<submitVars, after>>

Fill(o) == C!Fill(o) /\ UNCHANGED <<submitVars, after>>

List ==
  /\ C!List
  /\ after' = returned
  /\ UNCHANGED submitVars

CancelStep ==
  /\ C!Return \/ \E o \in Orders \cup Resting : C!CancelOrder(o)
  /\ UNCHANGED <<submitVars, after>>

BulkNext ==
  \/ SubmitStep
  \/ List
  \/ CancelStep
  \/ \E o \in Orders : PlaceSubmitted(o)
  \/ \E o \in Resting : PlaceResting(o)
  \/ \E o \in Orders \cup Resting : Fill(o)

BulkSpec == BulkInit /\ [][BulkNext]_bulkVars

\* Exchanges answer, a goroutine gets the mutex it waits for, and both run.
FairBulkSpec == BulkSpec /\ WF_bulkVars(SubmitStep) /\ WF_bulkVars(List \/ CancelStep)

-----------------------------------------------------------------------------

(***************************************************************************)
(* When CancelOrdersByPrefix returns, its error names every order that was *)
(* active when it listed them and still is: a failed cancellation neither  *)
(* hides another one nor keeps the others from being cancelled.            *)
(***************************************************************************)
SurvivorsReported == C!SurvivorsReported

(***************************************************************************)
(* CancelOrdersByPrefix called after SubmitOrders has returned misses none *)
(* of the orders whose submission succeeded: they are final, or named in   *)
(* its error.  (No goroutine of SubmitOrders is left that could still      *)
(* place one.)                                                             *)
(***************************************************************************)
SubmittedAreOut ==
  pcCancel = "returned" /\ after => (Orders \ failed) \cap C!Live \subseteq multi

(***************************************************************************)
(* Both calls return, whatever fails and whatever else the exchange does.  *)
(***************************************************************************)
BothReturn == <>returned /\ <>(pcCancel \in {"returned", "list failed"})
=============================================================================
