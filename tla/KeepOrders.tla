----------------------------- MODULE KeepOrders -----------------------------
(***************************************************************************)
(* The life of an order: Keep.SubmitOrderUD, Keep.CancelOrder and          *)
(* Keep.OnOrder (keep.go), ModifyOrder (toolbelt.go) and the stream        *)
(* goroutine that feeds OnOrder (websocket.go), around the order registry. *)
(*                                                                         *)
(* The exchange is external: it answers each request when it likes, may    *)
(* carry a request out and still return an error, fills live orders on its *)
(* own, and pushes status changes on the websocket channel, some of them   *)
(* more than once.                                                         *)
(***************************************************************************)
EXTENDS Naturals, Sequences, FiniteSets

CONSTANTS
  Exchanges,
  Repeating,   \* exchanges that may push a status again
  Ids,         \* order ids an exchange may assign
  Callers,     \* goroutines that submit, modify and cancel orders
  Observers,   \* user data that implements OnFilledObserver
  Nil,         \* the user data of a plain SubmitOrder
  Absent       \* no registry entry, no notification, no order

ASSUME RepeatingAssumption == Repeating \subseteq Exchanges
ASSUME NilAssumption == Nil \notin Observers
ASSUME AbsentAssumption ==
  /\ Absent \notin Observers \cup {Nil} \cup (Exchanges \X Ids) \cup Ids
  /\ Absent \notin {"live", "filled", "cancelled"}

Keys == Exchanges \X Ids          \* OrderKey
UserData == Observers \cup {Nil}
Final == {"filled", "cancelled"}  \* the status changes the exchange pushes

VARIABLES
  book,        \* external: the status of every order, Absent if never placed
  toRoutine,   \* ws.ToRoutine of every exchange: order.Detail messages
  registry,    \* user data under every key, Absent if there is no entry
  pc,          \* where each caller is
  call,        \* the arguments and local variables of each caller's call
  observed,    \* history: the user data OnFilled was called on, per order
  acked,       \* history: user data of the submits that returned no error
  missed,      \* history: fills handled when the registry had no entry
  replaced     \* history: old and new order of every ModifyOrder's fallback

vars == <<book, toRoutine, registry, pc, call, observed, acked, missed, replaced>>
exchangeVars == <<book, toRoutine>>
historyVars == <<observed, acked, missed, replaced>>

(***************************************************************************)
(* A call: the exchange it goes to, the user data to submit with, the id   *)
(* the exchange answered with, the order a ModifyOrder is about, and as    *)
(* history the entry that order had when ModifyOrder was called and        *)
(* whether its cancellation returned no error.                             *)
(***************************************************************************)
NoCall == [e |-> Absent, ud |-> Nil, id |-> Absent, old |-> Absent, had |-> Absent,
           confirmed |-> FALSE]

Calls == [e : Exchanges \cup {Absent}, ud : UserData, id : Ids \cup {Absent},
          old : Keys \cup {Absent}, had : UserData \cup {Absent},
          confirmed : BOOLEAN]

Replacements == [old : Keys, new : Keys, had : UserData \cup {Absent},
                 confirmed : BOOLEAN]

TypeOK ==
  /\ book \in [Keys -> Final \cup {"live", Absent}]
  /\ toRoutine \in [Exchanges -> Seq([id : Ids, status : Final])]
  /\ registry \in [Keys -> UserData \cup {Absent}]
  /\ pc \in [Callers -> {"idle", "submit", "store", "modify", "cancel", "lookup"}]
  /\ call \in [Callers -> Calls]
  /\ observed \in [Keys -> Observers \cup {Absent}]
  /\ acked \in [Keys -> SUBSET UserData]
  /\ missed \subseteq Keys
  /\ replaced \subseteq Replacements

Init ==
  /\ book = [k \in Keys |-> Absent]
  /\ toRoutine = [e \in Exchanges |-> <<>>]
  /\ registry = [k \in Keys |-> Absent]
  /\ pc = [c \in Callers |-> "idle"]
  /\ call = [c \in Callers |-> NoCall]
  /\ observed = [k \in Keys |-> Absent]
  /\ acked = [k \in Keys |-> {}]
  /\ missed = {}
  /\ replaced = {}

Goto(c, label) == pc' = [pc EXCEPT ![c] = label]

Return(c) ==
  /\ Goto(c, "idle")
  /\ call' = [call EXCEPT ![c] = NoCall]

-----------------------------------------------------------------------------
(***************************************************************************)
(* The exchange                                                            *)
(***************************************************************************)

\* A live order reaches its final status and the change is pushed.
Finish(k, status) ==
  /\ book[k] = "live"
  /\ book' = [book EXCEPT ![k] = status]
  /\ toRoutine' = [toRoutine EXCEPT ![k[1]] =
                     Append(@, [id |-> k[2], status |-> status])]

Fill(k) ==
  /\ Finish(k, "filled")
  /\ UNCHANGED <<registry, pc, call, historyVars>>

\* The last status of an order is pushed again, after a reconnection for
\* example, unless that push is still in the channel.
Repush(k) ==
  /\ k[1] \in Repeating
  /\ book[k] \in Final
  /\ \A i \in DOMAIN toRoutine[k[1]] : toRoutine[k[1]][i].id # k[2]
  /\ toRoutine' = [toRoutine EXCEPT ![k[1]] =
                     Append(@, [id |-> k[2], status |-> book[k]])]
  /\ UNCHANGED <<book, registry, pc, call, historyVars>>

\* What a cancellation request may come to: the order is cancelled, although
\* an error may be returned, or it is not (it is missing or already final, or
\* the request did not get through), and an error is returned.
CancelAtExchange(k, ok) ==
  Finish(k, "cancelled") \/ (~ ok /\ UNCHANGED exchangeVars)

Place(k) ==
  /\ book[k] = Absent
  /\ book' = [book EXCEPT ![k] = "live"]
  /\ UNCHANGED toRoutine

-----------------------------------------------------------------------------
(***************************************************************************)
(* Keep.SubmitOrder and Keep.SubmitOrderUD                                 *)
(***************************************************************************)

SubmitOrderUD(c, e, ud) ==
  /\ pc[c] = "idle"
  /\ Goto(c, "submit")
  /\ call' = [call EXCEPT ![c] = [NoCall EXCEPT !.e = e, !.ud = ud]]
  /\ UNCHANGED <<exchangeVars, registry, historyVars>>

\* e.SubmitOrder answers with the id of a new order, or with the id of one it
\* already has (a resubmission under the same client order id).
SubmitAnswered(c) ==
  /\ pc[c] = "submit"
  /\ \E id \in Ids :
       LET k == <<call[c].e, id>> IN
       /\ Place(k) \/ (book[k] # Absent /\ UNCHANGED exchangeVars)
       /\ call' = [call EXCEPT ![c].id = id]
  /\ Goto(c, "store")
  /\ UNCHANGED <<registry, historyVars>>

\* e.SubmitOrder returns an error, whether or not the order was placed.
SubmitFailed(c) ==
  /\ pc[c] = "submit"
  /\ UNCHANGED exchangeVars \/ \E id \in Ids : Place(<<call[c].e, id>>)
  /\ Return(c)
  /\ UNCHANGED <<registry, historyVars>>

\* registry.Store as an unconditional sync.Map.Store.
EnterOverwriting(k, ud) == registry' = [registry EXCEPT ![k] = ud]

\* registry.Store for orders with user data only.
EnterUnlessNil(k, ud) ==
  registry' = [registry EXCEPT ![k] = IF @ = Absent /\ ud # Nil THEN ud ELSE @]

\* registry.Store keeps the entry that is there (see OrderRegistry).
Enter(k, ud) ==
  registry' = [registry EXCEPT ![k] = IF @ = Absent THEN ud ELSE @]

\* The order is stored in the registry; ErrOrdersAlreadyExists if it was there.
StoreOrder(c) ==
  LET k == <<call[c].e, call[c].id>> IN
  /\ pc[c] = "store"
  /\ Enter(k, call[c].ud)
  /\ \/ /\ registry[k] = Absent
        /\ acked' = [acked EXCEPT ![k] = @ \cup {call[c].ud}]
        /\ replaced' = IF call[c].old = Absent THEN replaced
                       ELSE replaced \cup {[old |-> call[c].old, new |-> k,
                                            had |-> call[c].had,
                                            confirmed |-> call[c].confirmed]}
     \/ /\ registry[k] # Absent
        /\ UNCHANGED <<acked, replaced>>
  /\ Return(c)
  /\ UNCHANGED <<exchangeVars, observed, missed>>

-----------------------------------------------------------------------------
(***************************************************************************)
(* Keep.CancelOrder, and ModifyOrder of toolbelt.go                        *)
(***************************************************************************)

CancelOrder(c, k) ==
  /\ pc[c] = "idle"
  /\ \E ok \in BOOLEAN : CancelAtExchange(k, ok)
  /\ UNCHANGED <<registry, pc, call, historyVars>>

\* The order may also be one the exchange never had.
ModifyOrder(c, k) ==
  /\ pc[c] = "idle"
  /\ Goto(c, "modify")
  /\ call' = [call EXCEPT ![c] =
                [NoCall EXCEPT !.e = k[1], !.old = k, !.had = registry[k]]]
  /\ UNCHANGED <<exchangeVars, registry, historyVars>>

\* Keep.ModifyOrder: the exchange amends a live order and ModifyOrder returns,
\* or it returns an error and ModifyOrder falls back to cancel and submit.
ModifyAnswered(c) ==
  /\ pc[c] = "modify"
  /\ \/ book[call[c].old] = "live" /\ Return(c)
     \/ Goto(c, "cancel") /\ UNCHANGED call
  /\ UNCHANGED <<exchangeVars, registry, historyVars>>

\* ModifyToCancel that names another order of the exchange.
CancelAnsweredOfAnother(c) ==
  /\ pc[c] = "cancel"
  /\ \E ok \in BOOLEAN, id \in Ids \ {call[c].old[2]} :
       /\ CancelAtExchange(<<call[c].e, id>>, ok)
       /\ call' = [call EXCEPT ![c].confirmed = ok]
  /\ Goto(c, "lookup")
  /\ UNCHANGED <<registry, historyVars>>

\* The error of the cancellation is not looked at.
CancelAnswered(c) ==
  /\ pc[c] = "cancel"
  /\ \E ok \in BOOLEAN :
       /\ CancelAtExchange(call[c].old, ok)
       /\ call' = [call EXCEPT ![c].confirmed = ok]
  /\ Goto(c, "lookup")
  /\ UNCHANGED <<registry, historyVars>>

\* ModifyOrder without the branch for loaded entries.
UserDataNever(k) == Nil

\* The user data to resubmit with: that of the registry entry, if loaded.
UserDataOf(k) == IF registry[k] # Absent THEN registry[k] ELSE Nil

Lookup(c) ==
  /\ pc[c] = "lookup"
  /\ call' = [call EXCEPT ![c].ud = UserDataOf(call[c].old)]
  /\ Goto(c, "submit")
  /\ UNCHANGED <<exchangeVars, registry, historyVars>>

-----------------------------------------------------------------------------
(***************************************************************************)
(* The stream goroutine of an exchange: handleData and Keep.OnOrder        *)
(***************************************************************************)

\* OnOrder that observes cancellations instead of fills.
OnOrderCancelled(k, status) ==
  IF status = "cancelled" /\ registry[k] \in Observers
  THEN observed' = [observed EXCEPT ![k] = registry[k]] /\ UNCHANGED missed
  ELSE UNCHANGED <<observed, missed>>

\* OnOrder that takes any user data for an observer.
OnOrderUnchecked(k, status) ==
  IF status = "filled" /\ registry[k] # Absent
  THEN observed' = [observed EXCEPT ![k] = registry[k]] /\ UNCHANGED missed
  ELSE UNCHANGED <<observed, missed>>

\* A fill is passed to the order's user data if the registry has an entry and
\* its user data is an observer.
OnOrder(k, status) ==
  \/ /\ status = "filled" /\ registry[k] \in Observers
     /\ observed' = [observed EXCEPT ![k] = registry[k]]
     /\ UNCHANGED missed
  \/ /\ status = "filled" /\ registry[k] = Absent
     /\ missed' = missed \cup {k}
     /\ UNCHANGED observed
  \/ /\ status # "filled" \/ registry[k] = Nil
     /\ UNCHANGED <<observed, missed>>

\* A registry that is searched by the id of the order alone.
HandleDataByIdOnly(e) ==
  /\ toRoutine[e] # <<>>
  /\ LET x == Head(toRoutine[e]) IN \E f \in Exchanges : OnOrder(<<f, x.id>>, x.status)
  /\ toRoutine' = [toRoutine EXCEPT ![e] = Tail(@)]
  /\ UNCHANGED <<book, registry, pc, call, acked, replaced>>

\* Stream hands the next message to handleData, which calls OnOrder.
HandleData(e) ==
  /\ toRoutine[e] # <<>>
  /\ LET x == Head(toRoutine[e]) IN OnOrder(<<e, x.id>>, x.status)
  /\ toRoutine' = [toRoutine EXCEPT ![e] = Tail(@)]
  /\ UNCHANGED <<book, registry, pc, call, acked, replaced>>

-----------------------------------------------------------------------------

CallStep(c) ==
  \/ SubmitAnswered(c)
  \/ SubmitFailed(c)
  \/ StoreOrder(c)
  \/ ModifyAnswered(c)
  \/ CancelAnswered(c)
  \/ Lookup(c)

Next ==
  \/ \E c \in Callers :
       \/ \E e \in Exchanges, ud \in UserData : SubmitOrderUD(c, e, ud)
       \/ \E k \in Keys : CancelOrder(c, k) \/ ModifyOrder(c, k)
       \/ CallStep(c)
  \/ \E k \in Keys : Fill(k) \/ Repush(k)
  \/ \E e \in Exchanges : HandleData(e)

Spec == Init /\ [][Next]_vars

(***************************************************************************)
(* A request to an exchange is answered (HTTP requests time out), a        *)
(* goroutine that can run does, and the stream goroutine keeps receiving.  *)
(* Nothing obliges callers to make calls or the exchange to fill orders.   *)
(***************************************************************************)
FairSpec ==
  /\ Spec
  /\ \A c \in Callers : WF_vars(CallStep(c))
  /\ \A e \in Exchanges : WF_vars(HandleData(e))

-----------------------------------------------------------------------------

FillQueued(k) ==
  \E i \in DOMAIN toRoutine[k[1]] :
    toRoutine[k[1]][i] = [id |-> k[2], status |-> "filled"]

(***************************************************************************)
(* The submit that returned without error owns the order: at most one did, *)
(* its user data is what the registry holds, and OnFilled is called on no  *)
(* other user data, however many submits the exchange answered with the    *)
(* same id and whichever of them reached the registry first.               *)
(***************************************************************************)
AckOwnsOrder ==
  \A k \in Keys :
    /\ acked[k] \subseteq {registry[k]}
    /\ observed[k] # Absent => observed[k] \in acked[k]

(***************************************************************************)
(* OnFilled is called for orders that the exchange of the message filled,  *)
(* also when another exchange has an order under the same id.              *)
(***************************************************************************)
OnlyFilledObserved == \A k \in Keys : observed[k] # Absent => book[k] = "filled"

(***************************************************************************)
(* No fill of an order submitted with an observer disappears: it is still  *)
(* in the channel, or OnFilled was called, or OnOrder handled it when the  *)
(* registry had no entry.                                                  *)
(***************************************************************************)
NoFillDropped ==
  \A k \in Keys :
    /\ book[k] = "filled"
    /\ acked[k] \cap Observers # {}
    => FillQueued(k) \/ observed[k] # Absent \/ k \in missed

(***************************************************************************)
(* Once a submit with an observer was acknowledged, a fill of its order    *)
(* leaves the channel only when its observer has been told of a fill, also *)
(* one that was pushed again after the first one came too early.  Whether  *)
(* the observer is called again for every further push is not told apart.  *)
(***************************************************************************)
FillLeavesObserved ==
  [][\A k \in Keys :
       acked[k] \cap Observers # {} /\ FillQueued(k) =>
         FillQueued(k)' \/ observed'[k] # Absent]_vars

(***************************************************************************)
(* OnOrder finds no registry entry only while no submit has been           *)
(* acknowledged for the order: once a submit returned without error, with  *)
(* or without user data, the fill of its order is never taken for one of   *)
(* an unknown order.                                                       *)
(***************************************************************************)
MissOnlyBeforeAck ==
  [][\A k \in missed' \ missed : acked[k] = {}]_vars

(***************************************************************************)
(* "If there is a UserData associated with that order, resubmit the order  *)
(* with the same UserData" (toolbelt.go): an order that was registered     *)
(* when ModifyOrder was called passes its user data on to the order that   *)
(* replaces it, whatever other callers did in between.                     *)
(***************************************************************************)
UserDataCarriedOver ==
  \A r \in replaced : r.had # Absent => registry[r.new] = r.had

(***************************************************************************)
(* What the fallback of ModifyOrder keeps although it looks at no error:   *)
(* an order whose cancellation returned none is cancelled, and not live or *)
(* filled beside its replacement, and of several goroutines that modify    *)
(* one order at once, at most one resubmits it on that ground.             *)
(***************************************************************************)
ConfirmedIsOut ==
  /\ \A r \in replaced : r.confirmed => book[r.old] = "cancelled"
  /\ \A c \in Callers :
       call[c].confirmed =>
         /\ book[call[c].old] = "cancelled"
         /\ \A d \in Callers \ {c} : call[d].confirmed => call[d].old # call[c].old
         /\ \A r \in replaced : r.confirmed => r.old # call[c].old

(***************************************************************************)
(* "No user data for this order" (keep.go, OnOrder): a fill that finds no  *)
(* registry entry is the fill of an order without an observer.  Violated:  *)
(* the exchange may fill the order between its answer and registry.Store.  *)
(***************************************************************************)
MissMeansNoObserver ==
  \A k \in missed : acked[k] \cap Observers = {}

(***************************************************************************)
(* "an error may be reported for a missing order, which is fine"           *)
(* (toolbelt.go, ModifyOrder): an order that was replaced is not executed  *)
(* or executable beside its replacement.  Violated: the cancellation also  *)
(* fails because the order was just filled, or was never reached.          *)
(***************************************************************************)
ReplacedOrderIsOut ==
  \A r \in replaced :
    r.old # r.new =>
      ~ ({book[r.old], book[r.new]} \subseteq {"live", "filled"})

(***************************************************************************)
(* A fill that is in the channel once the submit was acknowledged reaches  *)
(* the observer, in whatever order the goroutines run.                     *)
(***************************************************************************)
FillReachesObserver ==
  \A k \in Keys :
    acked[k] \cap Observers # {} /\ FillQueued(k) ~> observed[k] # Absent
=============================================================================
