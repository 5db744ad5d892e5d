---------------------------- MODULE SubmitOrders ----------------------------
(***************************************************************************)
(* Keep.SubmitOrders (keep.go) on an ErrorWaitGroup (util.go): one         *)
(* goroutine per order, whose errors are appended under a mutex and read   *)
(* without it when the last goroutine is done.                             *)
(***************************************************************************)
EXTENDS Naturals, FiniteSets

CONSTANTS
  Orders,   \* the orders of one call; also the goroutines that submit them
  NoOne     \* the holder of a free mutex

ASSUME OrdersAssumption == IsFiniteSet(Orders) /\ NoOne \notin Orders

VARIABLES
  pc,      \* where the goroutine of each order is
  group,   \* the counter of the sync.WaitGroup
  mutex,   \* the holder of the mutex
  err,     \* the orders whose errors have been appended
  left,    \* the err each goroutine has read in order to append to it
  failed,  \* history: the orders whose submission failed
  returned, \* whether the call has returned
  result   \* what it returned

vars == <<pc, group, mutex, err, left, failed, returned, result>>

TypeOK ==
  /\ pc \in [Orders -> {"none", "submit", "lock", "append", "done", "end"}]
  /\ group \in 0 .. Cardinality(Orders)
  /\ mutex \in Orders \cup {NoOne}
  /\ err \subseteq Orders
  /\ left \in [Orders -> SUBSET Orders]
  /\ failed \subseteq Orders
  /\ returned \in BOOLEAN
  /\ result \subseteq Orders

Init ==
  /\ pc = [o \in Orders |-> "none"]
  /\ group = 0
  /\ mutex = NoOne
  /\ err = {}
  /\ left = [o \in Orders |-> {}]
  /\ failed = {}
  /\ returned = FALSE
  /\ result = {}

Goto(o, label) == pc' = [pc EXCEPT ![o] = label]

\* SubmitOrders that leaves the counting to the goroutine.
SpawnUncounted(o) ==
  /\ pc[o] = "none"
  /\ Goto(o, "submit")
  /\ UNCHANGED <<group, mutex, err, left, failed, returned, result>>

\* wg.Add(1), and the goroutine is started.
Spawn(o) ==
  /\ pc[o] = "none"
  /\ group' = group + 1
  /\ Goto(o, "submit")
  /\ UNCHANGED <<mutex, err, left, failed, returned, result>>

\* A goroutine that returns on an error without Done.
SubmittedNoDone(o) ==
  /\ pc[o] = "submit"
  /\ \/ Goto(o, "lock") /\ UNCHANGED failed
     \/ Goto(o, "end") /\ failed' = failed \cup {o}
  /\ UNCHANGED <<group, mutex, err, left, returned, result>>

\* Keep.SubmitOrder returns (see KeepOrders).
Submitted(o) ==
  /\ pc[o] = "submit"
  /\ failed' = failed \/ failed' = failed \cup {o}
  /\ Goto(o, "lock")
  /\ UNCHANGED <<group, mutex, err, left, returned, result>>

\* Done without the mutex.
DoneUnlocked(o) ==
  /\ pc[o] = "lock"
  /\ UNCHANGED mutex
  /\ left' = [left EXCEPT ![o] = err]
  /\ Goto(o, "append")
  /\ UNCHANGED <<group, err, failed, returned, result>>

DoneLock(o) ==
  /\ pc[o] = "lock"
  /\ mutex = NoOne
  /\ mutex' = o
  /\ left' = [left EXCEPT ![o] = err]
  /\ Goto(o, "append")
  /\ UNCHANGED <<group, err, failed, returned, result>>

\* multierr.Append; a nil error adds nothing.
DoneAppend(o) ==
  /\ pc[o] = "append"
  /\ err' = left[o] \cup (failed \cap {o})
  /\ mutex' = NoOne
  /\ Goto(o, "done")
  /\ UNCHANGED <<group, left, failed, returned, result>>

DoneGroup(o) ==
  /\ pc[o] = "done"
  /\ group' = group - 1
  /\ Goto(o, "end")
  /\ UNCHANGED <<mutex, err, left, failed, returned, result>>

\* The loop over the orders is over, and so is the wait.
Wait ==
  /\ ~ returned
  /\ \A o \in Orders : pc[o] # "none"
  /\ group = 0
  /\ returned' = TRUE
  /\ result' = err
  /\ UNCHANGED <<pc, group, mutex, err, left, failed>>

Step(o) ==
  Spawn(o) \/ Submitted(o) \/ DoneLock(o) \/ DoneAppend(o) \/ DoneGroup(o)

Next == Wait \/ \E o \in Orders : Step(o)

Spec == Init /\ [][Next]_vars

\* Exchanges answer, and a goroutine gets the mutex it waits for.
FairSpec == Spec /\ WF_vars(Wait) /\ \A o \in Orders : WF_vars(Step(o))

-----------------------------------------------------------------------------

(***************************************************************************)
(* SubmitOrders returns when every order was submitted or has failed, and  *)
(* what it returns names every order that failed, and no other.            *)
(***************************************************************************)
AllErrorsReturned ==
  returned =>
    /\ \A o \in Orders : pc[o] = "end"
    /\ result = failed

(***************************************************************************)
(* SubmitOrders returns, whichever of the orders fail.                     *)
(***************************************************************************)
Returns == <>returned
=============================================================================
