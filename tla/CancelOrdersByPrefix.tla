------------------------ MODULE CancelOrdersByPrefix ------------------------
(***************************************************************************)
(* Keep.CancelOrdersByPrefix (keep.go): lists the active orders, and then  *)
(* cancels those it listed one by one, while the exchange goes on filling  *)
(* orders and other goroutines go on placing them.  The code never uses    *)
(* the prefix.                                                             *)
(***************************************************************************)
CONSTANT Orders  \* those of the pair, type and side that are asked for

VARIABLES
  status,     \* external: of every order at the exchange
  pc,         \* where the call is
  listed,     \* the orders GetActiveOrders returned
  todo,       \* those that are still to be cancelled
  multi       \* the orders whose cancellation returned an error

vars == <<status, pc, listed, todo, multi>>

TypeOK ==
  /\ status \in [Orders -> {"new", "live", "filled", "cancelled"}]
  /\ pc \in {"list", "cancel", "list failed", "returned"}
  /\ listed \subseteq Orders
  /\ todo \subseteq listed /\ multi \subseteq listed \ todo

Init ==
  /\ status \in [Orders -> {"new", "live"}]
  /\ pc = "list"
  /\ listed = {} /\ todo = {} /\ multi = {}

Live == {o \in Orders : status[o] = "live"}

-----------------------------------------------------------------------------
\* External: orders are placed (KeepBulk says when) and filled.

Place(o) ==
  /\ status[o] = "new"
  /\ status' = [status EXCEPT ![o] = "live"]
  /\ UNCHANGED <<pc, listed, todo, multi>>

Fill(o) ==
  /\ status[o] = "live"
  /\ status' = [status EXCEPT ![o] = "filled"]
  /\ UNCHANGED <<pc, listed, todo, multi>>

-----------------------------------------------------------------------------

\* GetActiveOrders answers, or the call returns its error.
List ==
  /\ pc = "list"
  /\ \/ /\ pc' = "cancel"
        /\ listed' = Live
        /\ todo' = Live
     \/ /\ pc' = "list failed"
        /\ UNCHANGED <<listed, todo>>
  /\ UNCHANGED <<status, multi>>

\* The last error replaces those before it.
KeepLastError(o, ok) ==
  /\ multi' = IF ok THEN {} ELSE {o}
  /\ todo' = todo \ {o}

\* multi = multierr.Append(multi, err), and the loop goes on.
NoteError(o, ok) ==
  /\ multi' = IF ok THEN multi ELSE multi \cup {o}
  /\ todo' = todo \ {o}

\* bot.CancelOrder: the exchange cancels a live order, even if it does not say
\* so; it says so of no order that stays live.
CancelOrder(o) ==
  /\ pc = "cancel"
  /\ o \in todo
  /\ \E ok \in BOOLEAN :
       /\ NoteError(o, ok)
       /\ \/ /\ status[o] = "live"
             /\ status' = [status EXCEPT ![o] = "cancelled"]
          \/ /\ ok => status[o] # "live"
             /\ UNCHANGED status
  /\ UNCHANGED <<pc, listed>>

Return ==
  /\ pc = "cancel"
  /\ todo = {}
  /\ pc' = "returned"
  /\ UNCHANGED <<status, listed, todo, multi>>

Next ==
  \/ List \/ Return
  \/ \E o \in Orders : Place(o) \/ Fill(o) \/ CancelOrder(o)

Spec == Init /\ [][Next]_vars

-----------------------------------------------------------------------------

(***************************************************************************)
(* When the call returns, its error names every order that was active when *)
(* it was called and still is: a failed cancellation neither hides another *)
(* one nor keeps the rest of the orders from being cancelled.              *)
(***************************************************************************)
SurvivorsReported == pc = "returned" => listed \cap Live \subseteq multi
=============================================================================
