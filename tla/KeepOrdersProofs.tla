-------------------------- MODULE KeepOrdersProofs --------------------------
(***************************************************************************)
(* The life of an order for any number of exchanges, orders and goroutines *)
(***************************************************************************)
EXTENDS KeepOrders, TLAPS

USE NilAssumption, AbsentAssumption

(***************************************************************************)
(* A call that is under way knows its exchange, from the exchange's answer *)
(* on the id of its order, and from ModifyOrder on the order it modifies.  *)
(***************************************************************************)
CallOK(c) ==
  /\ pc[c] # "idle" => call[c].e \in Exchanges
  /\ pc[c] = "store" => call[c].id \in Ids
  /\ pc[c] \in {"modify", "cancel", "lookup"} => call[c].old \in Keys

TypeInv == TypeOK /\ \A c \in Callers : CallOK(c)

(***************************************************************************)
(* Receiving from a channel that is not empty.                             *)
(***************************************************************************)
LEMMA Receive ==
  ASSUME NEW S, NEW s \in Seq(S), s # <<>>
  PROVE  Head(s) \in S /\ Tail(s) \in Seq(S)
  OBVIOUS

(***************************************************************************)
(* A status change keeps the channels and the book well typed.             *)
(***************************************************************************)
LEMMA FinishType ==
  ASSUME TypeOK, NEW k \in Keys, NEW s \in Final, Finish(k, s)
  PROVE  /\ book' \in [Keys -> Final \cup {"live", Absent}]
         /\ toRoutine' \in [Exchanges -> Seq([id : Ids, status : Final])]
<1> DEFINE m == [id |-> k[2], status |-> s]
<1>1. k[1] \in Exchanges /\ k[2] \in Ids
  BY DEF Keys
<1>2. m \in [id : Ids, status : Final]
  BY <1>1
<1>3. toRoutine[k[1]] \in Seq([id : Ids, status : Final])
  BY <1>1 DEF TypeOK
<1> HIDE DEF m
<1>4. Append(toRoutine[k[1]], m) \in Seq([id : Ids, status : Final])
  BY <1>2, <1>3
<1>5. toRoutine' = [toRoutine EXCEPT ![k[1]] = Append(toRoutine[k[1]], m)]
  BY DEF Finish, m
<1> QED
  BY <1>4, <1>5 DEF TypeOK, Finish

(***************************************************************************)
(* Going idle ends a call and needs nothing of it.                         *)
(***************************************************************************)
LEMMA ReturnType ==
  ASSUME TypeInv, NEW c \in Callers, Return(c)
  PROVE  /\ pc' \in [Callers -> {"idle", "submit", "store", "modify", "cancel", "lookup"}]
         /\ call' \in [Callers -> Calls]
         /\ \A d \in Callers : CallOK(d)'
<1>1. NoCall \in Calls
  BY DEF NoCall, Calls, UserData
<1>2. /\ pc' = [pc EXCEPT ![c] = "idle"]
      /\ call' = [call EXCEPT ![c] = NoCall]
  BY DEF Return, Goto
<1>3. pc \in [Callers -> {"idle", "submit", "store", "modify", "cancel", "lookup"}]
      /\ call \in [Callers -> Calls]
  BY DEF TypeInv, TypeOK
<1>4. ASSUME NEW d \in Callers PROVE CallOK(d)'
  BY <1>2, <1>3 DEF CallOK, TypeInv
<1> QED
  BY <1>1, <1>2, <1>3, <1>4

(***************************************************************************)
(* Every step keeps the state well typed and the calls well formed.        *)
(***************************************************************************)
LEMMA TypeStep == TypeInv /\ [Next]_vars => TypeInv'
<1> SUFFICES ASSUME TypeInv, [Next]_vars PROVE TypeInv'
  OBVIOUS
<1> USE DEF TypeInv
<1>0. TypeOK
  OBVIOUS
<1>1. ASSUME NEW c \in Callers, NEW e \in Exchanges, NEW ud \in UserData,
             SubmitOrderUD(c, e, ud)
      PROVE  TypeInv'
  <2>1. [NoCall EXCEPT !.e = e, !.ud = ud] \in Calls
        /\ [NoCall EXCEPT !.e = e, !.ud = ud].e = e
    BY DEF NoCall, Calls
  <2>2. call' \in [Callers -> Calls]
    BY <1>0, <1>1, <2>1 DEF SubmitOrderUD, TypeOK
  <2>3. ASSUME NEW d \in Callers PROVE CallOK(d)'
    BY <1>0, <1>1, <2>1 DEF SubmitOrderUD, Goto, CallOK, TypeOK
  <2> QED
    BY <1>0, <1>1, <2>2, <2>3 DEF SubmitOrderUD, Goto, TypeOK, exchangeVars, historyVars
<1>2. ASSUME NEW c \in Callers, NEW k \in Keys, CancelOrder(c, k) PROVE TypeInv'
  <2>1. /\ book' \in [Keys -> Final \cup {"live", Absent}]
        /\ toRoutine' \in [Exchanges -> Seq([id : Ids, status : Final])]
    <3>1. "cancelled" \in Final
      BY DEF Final
    <3> QED
      BY <1>0, <1>2, <3>1, FinishType DEF CancelOrder, CancelAtExchange, exchangeVars, TypeOK
  <2> QED
    BY <1>0, <1>2, <2>1 DEF CancelOrder, historyVars, TypeOK, CallOK
<1>3. ASSUME NEW c \in Callers, NEW k \in Keys, ModifyOrder(c, k) PROVE TypeInv'
  <2> DEFINE new == [NoCall EXCEPT !.e = k[1], !.old = k, !.had = registry[k]]
  <2>1. k[1] \in Exchanges /\ registry[k] \in UserData \cup {Absent}
    BY <1>0 DEF Keys, TypeOK
  <2>2. new \in Calls /\ new.e = k[1] /\ new.old = k
    BY <2>1 DEF NoCall, Calls, UserData
  <2>3. call' = [call EXCEPT ![c] = new] /\ pc' = [pc EXCEPT ![c] = "modify"]
    BY <1>3 DEF ModifyOrder, Goto
  <2> HIDE DEF new
  <2>4. ASSUME NEW d \in Callers PROVE CallOK(d)'
    BY <1>0, <2>1, <2>2, <2>3 DEF CallOK, TypeOK
  <2>5. UNCHANGED <<book, toRoutine, registry, observed, acked, missed, replaced>>
    BY <1>3 DEF ModifyOrder, exchangeVars, historyVars
  <2>6. TypeOK'
    BY <1>0, <2>2, <2>3, <2>5 DEF TypeOK
  <2> QED
    BY <2>4, <2>6
<1>4. ASSUME NEW c \in Callers, SubmitAnswered(c) PROVE TypeInv'
  <2>1. PICK id \in Ids :
          LET k == <<call[c].e, id>> IN
          /\ Place(k) \/ (book[k] # Absent /\ UNCHANGED exchangeVars)
          /\ call' = [call EXCEPT ![c].id = id]
    BY <1>4 DEF SubmitAnswered
  <2>2. call[c] \in Calls /\ call[c].e \in Exchanges
    BY <1>0, <1>4 DEF SubmitAnswered, TypeOK, CallOK
  <2>3. [call[c] EXCEPT !.id = id] \in Calls
        /\ [call[c] EXCEPT !.id = id].e = call[c].e /\ [call[c] EXCEPT !.id = id].id = id
    BY <2>2 DEF Calls
  <2>4. /\ call' = [call EXCEPT ![c] = [call[c] EXCEPT !.id = id]]
        /\ pc' = [pc EXCEPT ![c] = "store"]
    BY <1>4, <2>1 DEF SubmitAnswered, Goto
  <2>5. ASSUME NEW d \in Callers PROVE CallOK(d)'
    BY <1>0, <2>2, <2>3, <2>4 DEF CallOK, TypeOK
  <2>6. /\ book' \in [Keys -> Final \cup {"live", Absent}]
        /\ toRoutine' = toRoutine
    BY <1>0, <2>1, <2>2 DEF Place, exchangeVars, TypeOK, Keys
  <2> QED
    BY <1>0, <1>4, <2>3, <2>4, <2>5, <2>6 DEF SubmitAnswered, TypeOK, historyVars
<1>5. ASSUME NEW c \in Callers, SubmitFailed(c) PROVE TypeInv'
  <2>1. /\ book' \in [Keys -> Final \cup {"live", Absent}]
        /\ toRoutine' = toRoutine
    <3>1. call[c].e \in Exchanges
      BY <1>5 DEF SubmitFailed, CallOK
    <3> QED
      BY <1>0, <1>5, <3>1 DEF SubmitFailed, Place, exchangeVars, TypeOK, Keys
  <2>2. Return(c)
    BY <1>5 DEF SubmitFailed
  <2> QED
    BY <1>0, <1>5, <2>1, <2>2, ReturnType DEF SubmitFailed, TypeOK, historyVars
<1>6. ASSUME NEW c \in Callers, StoreOrder(c) PROVE TypeInv'
  <2> DEFINE k == <<call[c].e, call[c].id>>
  <2>1. k \in Keys /\ call[c] \in Calls /\ call[c].ud \in UserData
    BY <1>0, <1>6 DEF StoreOrder, CallOK, TypeOK, Keys, Calls
  <2>2. Return(c) /\ Enter(k, call[c].ud)
    BY <1>6 DEF StoreOrder
  <2> HIDE DEF k
  <2>3. registry' \in [Keys -> UserData \cup {Absent}]
    BY <1>0, <2>1, <2>2 DEF Enter, TypeOK
  <2>4. acked' \in [Keys -> SUBSET UserData]
    <3>1. acked' = acked \/ acked' = [acked EXCEPT ![k] = @ \cup {call[c].ud}]
      BY <1>6 DEF StoreOrder, k
    <3> QED
      BY <1>0, <2>1, <3>1 DEF TypeOK
  <2>5. replaced' \subseteq Replacements
    <3>1. \/ replaced' = replaced
          \/ /\ call[c].old # Absent
             /\ replaced' = replaced \cup
                  {[old |-> call[c].old, new |-> k, had |-> call[c].had,
                    confirmed |-> call[c].confirmed]}
      BY <1>6 DEF StoreOrder, k
    <3>2. /\ call[c].old \in Keys \cup {Absent} /\ call[c].had \in UserData \cup {Absent}
          /\ call[c].confirmed \in BOOLEAN
      BY <2>1 DEF Calls
    <3> QED
      BY <1>0, <2>1, <3>1, <3>2 DEF TypeOK, Replacements
  <2>6. UNCHANGED <<book, toRoutine, observed, missed>>
    BY <1>6 DEF StoreOrder, exchangeVars
  <2> QED
    BY <1>0, <2>2, <2>3, <2>4, <2>5, <2>6, ReturnType DEF TypeOK
<1>7. ASSUME NEW c \in Callers, ModifyAnswered(c) PROVE TypeInv'
  <2>1. UNCHANGED <<book, toRoutine, registry, observed, acked, missed, replaced>>
    BY <1>7 DEF ModifyAnswered, exchangeVars, historyVars
  <2>2. CASE Return(c)
    BY <1>0, <2>1, <2>2, ReturnType DEF TypeOK
  <2>3. CASE Goto(c, "cancel") /\ UNCHANGED call
    <3>1. pc[c] = "modify"
      BY <1>7 DEF ModifyAnswered
    <3>2. ASSUME NEW d \in Callers PROVE CallOK(d)'
      BY <1>0, <2>3, <3>1 DEF CallOK, Goto, TypeOK
    <3> QED
      BY <1>0, <2>1, <2>3, <3>2 DEF Goto, TypeOK
  <2> QED
    BY <1>7, <2>2, <2>3 DEF ModifyAnswered
<1>8. ASSUME NEW c \in Callers, CancelAnswered(c) PROVE TypeInv'
  <2>1. PICK ok \in BOOLEAN : /\ CancelAtExchange(call[c].old, ok)
                              /\ call' = [call EXCEPT ![c].confirmed = ok]
    BY <1>8 DEF CancelAnswered
  <2> DEFINE new == [call[c] EXCEPT !.confirmed = ok]
  <2>2. call[c].old \in Keys /\ call[c].e \in Exchanges /\ call[c] \in Calls
    BY <1>0, <1>8 DEF CancelAnswered, CallOK, TypeOK
  <2>3. new \in Calls /\ new.e = call[c].e /\ new.old = call[c].old
    BY <2>2 DEF Calls
  <2>4. call' = [call EXCEPT ![c] = new] /\ pc' = [pc EXCEPT ![c] = "lookup"]
    BY <1>8, <2>1 DEF CancelAnswered, Goto
  <2> HIDE DEF new
  <2>5. /\ book' \in [Keys -> Final \cup {"live", Absent}]
        /\ toRoutine' \in [Exchanges -> Seq([id : Ids, status : Final])]
    <3>1. "cancelled" \in Final
      BY DEF Final
    <3> QED
      BY <1>0, <2>1, <2>2, <3>1, FinishType
      DEF CancelAtExchange, exchangeVars, TypeOK
  <2>6. ASSUME NEW d \in Callers PROVE CallOK(d)'
    BY <1>0, <2>2, <2>3, <2>4 DEF CallOK, TypeOK
  <2> QED
    BY <1>0, <1>8, <2>5, <2>6, <2>3, <2>4 DEF CancelAnswered, TypeOK, historyVars
<1>9. ASSUME NEW c \in Callers, Lookup(c) PROVE TypeInv'
  <2>1. call[c] \in Calls /\ call[c].old \in Keys /\ call[c].e \in Exchanges
    BY <1>0, <1>9 DEF Lookup, CallOK, TypeOK
  <2>2. UserDataOf(call[c].old) \in UserData
    BY <1>0, <2>1 DEF UserDataOf, TypeOK, UserData
  <2> DEFINE new == [call[c] EXCEPT !.ud = UserDataOf(call[c].old)]
  <2>3. new \in Calls /\ new.e = call[c].e
    BY <2>1, <2>2 DEF Calls
  <2>4. call' = [call EXCEPT ![c] = new] /\ pc' = [pc EXCEPT ![c] = "submit"]
    BY <1>9 DEF Lookup, Goto
  <2> HIDE DEF new
  <2>5. ASSUME NEW d \in Callers PROVE CallOK(d)'
    BY <1>0, <2>1, <2>3, <2>4 DEF CallOK, TypeOK
  <2> QED
    BY <1>0, <1>9, <2>3, <2>4, <2>5 DEF Lookup, TypeOK, exchangeVars, historyVars
<1>10. ASSUME NEW k \in Keys, Fill(k) PROVE TypeInv'
  <2>1. "filled" \in Final
    BY DEF Final
  <2>2. /\ book' \in [Keys -> Final \cup {"live", Absent}]
        /\ toRoutine' \in [Exchanges -> Seq([id : Ids, status : Final])]
    BY <1>0, <1>10, <2>1, FinishType DEF Fill
  <2> QED
    BY <1>0, <1>10, <2>2 DEF Fill, TypeOK, CallOK, historyVars
<1>11. ASSUME NEW e \in Exchanges, HandleData(e) PROVE TypeInv'
  <2> DEFINE x == Head(toRoutine[e])
             k == <<e, x.id>>
  <2>1. /\ x \in [id : Ids, status : Final]
        /\ Tail(toRoutine[e]) \in Seq([id : Ids, status : Final])
    <3>1. toRoutine[e] \in Seq([id : Ids, status : Final]) /\ toRoutine[e] # <<>>
      BY <1>0, <1>11 DEF HandleData, TypeOK
    <3> QED
      BY <3>1, Receive
  <2>2. k \in Keys
    BY <2>1 DEF Keys
  <2>3. OnOrder(k, x.status) /\ toRoutine' = [toRoutine EXCEPT ![e] = Tail(@)]
    BY <1>11 DEF HandleData
  <2> HIDE DEF x, k
  <2>4. observed' \in [Keys -> Observers \cup {Absent}] /\ missed' \subseteq Keys
    BY <1>0, <2>2, <2>3 DEF OnOrder, TypeOK
  <2>5. toRoutine' \in [Exchanges -> Seq([id : Ids, status : Final])]
    BY <1>0, <2>1, <2>3 DEF TypeOK
  <2>6. UNCHANGED <<book, registry, pc, call, acked, replaced>>
    BY <1>11 DEF HandleData
  <2> QED
    BY <1>0, <2>4, <2>5, <2>6 DEF TypeOK, CallOK
<1>12. ASSUME NEW k \in Keys, Repush(k) PROVE TypeInv'
  <2> DEFINE m == [id |-> k[2], status |-> book[k]]
  <2>1. k[1] \in Exchanges /\ m \in [id : Ids, status : Final]
    BY <1>12 DEF Keys, Repush
  <2>2. toRoutine' = [toRoutine EXCEPT ![k[1]] = Append(toRoutine[k[1]], m)]
    BY <1>12 DEF Repush
  <2> HIDE DEF m
  <2>3. Append(toRoutine[k[1]], m) \in Seq([id : Ids, status : Final])
    <3>1. toRoutine[k[1]] \in Seq([id : Ids, status : Final])
      BY <1>0, <2>1 DEF TypeOK
    <3> QED
      BY <2>1, <3>1
  <2>4. toRoutine' \in [Exchanges -> Seq([id : Ids, status : Final])]
    BY <1>0, <2>2, <2>3 DEF TypeOK
  <2> QED
    BY <1>0, <1>12, <2>4 DEF Repush, TypeOK, CallOK, historyVars
<1>13. CASE UNCHANGED vars
  BY <1>0, <1>13 DEF vars, TypeOK, CallOK
<1> QED
  BY <1>1, <1>2, <1>3, <1>4, <1>5, <1>6, <1>7, <1>8, <1>9, <1>10, <1>11, <1>12, <1>13
  DEF Next, CallStep

(***************************************************************************)
(* The state is well typed and every call knows what its step needs.       *)
(***************************************************************************)
LEMMA TypeInvariant == Spec => []TypeInv
<1>1. Init => TypeInv
  <2> SUFFICES ASSUME Init PROVE TypeInv
    OBVIOUS
  <2>1. NoCall \in Calls
    BY DEF NoCall, Calls, UserData
  <2>2. TypeOK
    BY <2>1 DEF Init, TypeOK
  <2>3. \A c \in Callers : CallOK(c)
    BY DEF Init, CallOK
  <2> QED
    BY <2>2, <2>3 DEF TypeInv
<1> QED
  BY <1>1, TypeStep, PTL DEF Spec

(***************************************************************************)
(* The state is well typed: fills are only ever passed to observers.       *)
(***************************************************************************)
THEOREM TypeCorrect == Spec => []TypeOK
<1>1. TypeInv => TypeOK
  BY DEF TypeInv
<1> QED
  BY <1>1, TypeInvariant, PTL

-----------------------------------------------------------------------------
(***************************************************************************)
(* The submit that was acknowledged owns the order                         *)
(***************************************************************************)

(***************************************************************************)
(* AckOwnsOrder says nothing of an entry without an acknowledgement; that  *)
(* OnOrder may use one rests on there being none: StoreOrder writes the    *)
(* entry and acknowledges it in one step.                                  *)
(***************************************************************************)
AckInv ==
  \A k \in Keys :
    /\ acked[k] = IF registry[k] = Absent THEN {} ELSE {registry[k]}
    /\ observed[k] # Absent => observed[k] \in acked[k]

(***************************************************************************)
(* Only StoreOrder touches the registry and the acknowledgements, and only *)
(* HandleData what observers were told.                                    *)
(***************************************************************************)
LEMMA WhoWrites ==
  ASSUME [Next]_vars
  PROVE  \/ \E c \in Callers : StoreOrder(c)
         \/ \E e \in Exchanges : HandleData(e)
         \/ UNCHANGED <<registry, acked, observed, missed>>
<1>1. ASSUME NEW c \in Callers, CallStep(c)
      PROVE  StoreOrder(c) \/ UNCHANGED <<registry, acked, observed, missed>>
  BY <1>1 DEF CallStep, SubmitAnswered, SubmitFailed, ModifyAnswered,
              CancelAnswered, Lookup, historyVars
<1>2. ASSUME NEW c \in Callers, NEW k \in Keys, CancelOrder(c, k) \/ ModifyOrder(c, k)
      PROVE  UNCHANGED <<registry, acked, observed, missed>>
  BY <1>2 DEF CancelOrder, ModifyOrder, historyVars
<1>3. ASSUME NEW c \in Callers, NEW e \in Exchanges, NEW ud \in UserData,
             SubmitOrderUD(c, e, ud)
      PROVE  UNCHANGED <<registry, acked, observed, missed>>
  BY <1>3 DEF SubmitOrderUD, historyVars
<1>4. ASSUME NEW k \in Keys, Fill(k) \/ Repush(k)
      PROVE  UNCHANGED <<registry, acked, observed, missed>>
  BY <1>4 DEF Fill, Repush, historyVars
<1>5. CASE UNCHANGED vars
  BY <1>5 DEF vars
<1> QED
  BY <1>1, <1>2, <1>3, <1>4, <1>5 DEF Next

(***************************************************************************)
(* What HandleData does, named for its order and status.                   *)
(***************************************************************************)
LEMMA HandleDataOrder ==
  ASSUME TypeInv, NEW e \in Exchanges, HandleData(e)
  PROVE  \E k \in Keys, s \in Final : OnOrder(k, s) /\ UNCHANGED <<registry, acked>>
<1> DEFINE x == Head(toRoutine[e])
<1>1. x \in [id : Ids, status : Final]
  <2>1. toRoutine[e] \in Seq([id : Ids, status : Final]) /\ toRoutine[e] # <<>>
    BY DEF HandleData, TypeInv, TypeOK
  <2> QED
    BY <2>1, Receive
<1>2. OnOrder(<<e, x.id>>, x.status) /\ UNCHANGED <<registry, acked>>
  BY DEF HandleData
<1> HIDE DEF x
<1>3. <<e, x.id>> \in Keys /\ x.status \in Final
  BY <1>1 DEF Keys
<1> QED
  BY <1>2, <1>3

(***************************************************************************)
(* Every step keeps entries and acknowledgements together.                 *)
(***************************************************************************)
LEMMA AckStep == TypeInv /\ AckInv /\ [Next]_vars => AckInv'
<1> SUFFICES ASSUME TypeInv, AckInv, [Next]_vars PROVE AckInv'
  OBVIOUS
<1>0. /\ registry \in [Keys -> UserData \cup {Absent}]
      /\ acked \in [Keys -> SUBSET UserData]
      /\ observed \in [Keys -> Observers \cup {Absent}]
      /\ Absent \notin UserData
  BY DEF TypeInv, TypeOK, UserData
<1>1. ASSUME NEW c \in Callers, StoreOrder(c) PROVE AckInv'
  <2> DEFINE k == <<call[c].e, call[c].id>>
             ud == call[c].ud
  <2>1. k \in Keys /\ ud \in UserData
    BY <1>1 DEF StoreOrder, TypeInv, CallOK, TypeOK, Keys, Calls
  <2>2. /\ registry' = [registry EXCEPT ![k] = IF @ = Absent THEN ud ELSE @]
        /\ \/ registry[k] = Absent /\ acked' = [acked EXCEPT ![k] = @ \cup {ud}]
           \/ registry[k] # Absent /\ acked' = acked
        /\ observed' = observed
    BY <1>1 DEF StoreOrder, Enter
  <2> HIDE DEF k, ud
  <2>3. ASSUME NEW j \in Keys
        PROVE  /\ acked'[j] = IF registry'[j] = Absent THEN {} ELSE {registry'[j]}
               /\ acked[j] \subseteq acked'[j]
    BY <1>0, <2>1, <2>2 DEF AckInv
  <2> QED
    BY <2>2, <2>3 DEF AckInv
<1>2. ASSUME NEW e \in Exchanges, HandleData(e) PROVE AckInv'
  <2>1. PICK k \in Keys, s \in Final : OnOrder(k, s) /\ UNCHANGED <<registry, acked>>
    BY <1>2, HandleDataOrder
  <2>2. \/ /\ registry[k] \in Observers
           /\ observed' = [observed EXCEPT ![k] = registry[k]]
        \/ observed' = observed
    BY <2>1 DEF OnOrder
  <2> QED
    BY <1>0, <2>1, <2>2, AbsentAssumption DEF AckInv
<1>3. CASE UNCHANGED <<registry, acked, observed, missed>>
  BY <1>3 DEF AckInv
<1> QED
  BY <1>1, <1>2, <1>3, WhoWrites

(***************************************************************************)
(* AckInv holds in every reachable state.                                  *)
(***************************************************************************)
LEMMA AckInvariant == Spec => []AckInv
<1>1. Init => AckInv
  BY DEF Init, AckInv
<1> QED
  BY <1>1, AckStep, TypeInvariant, PTL DEF Spec

(***************************************************************************)
(* At most one submit is acknowledged per order, and OnFilled is called on *)
(* its user data only.                                                     *)
(***************************************************************************)
THEOREM AckCorrect == Spec => []AckOwnsOrder
<1>1. AckInv => AckOwnsOrder
  BY DEF AckInv, AckOwnsOrder
<1> QED
  BY <1>1, AckInvariant, PTL

(***************************************************************************)
(* A fill that finds no entry comes before the submit is acknowledged.     *)
(***************************************************************************)
THEOREM MissCorrect == Spec => MissOnlyBeforeAck
<1>1. TypeInv /\ AckInv /\ [Next]_vars
        => [\A k \in missed' \ missed : acked[k] = {}]_vars
  <2> SUFFICES ASSUME TypeInv, AckInv, [Next]_vars, NEW k \in missed' \ missed
               PROVE  acked[k] = {}
    BY DEF vars
  <2>1. ASSUME NEW c \in Callers, StoreOrder(c) PROVE FALSE
    BY <2>1 DEF StoreOrder
  <2>2. ASSUME NEW e \in Exchanges, HandleData(e) PROVE acked[k] = {}
    <3>1. PICK j \in Keys, s \in Final : OnOrder(j, s)
      BY <2>2, HandleDataOrder
    <3>2. j = k /\ registry[j] = Absent
      BY <3>1 DEF OnOrder
    <3> QED
      BY <3>2 DEF AckInv
  <2> QED
    BY <2>1, <2>2, WhoWrites
<1> QED
  BY <1>1, AckInvariant, TypeInvariant, PTL DEF Spec, MissOnlyBeforeAck

-----------------------------------------------------------------------------
(***************************************************************************)
(* No fill disappears between the exchange and the observer                *)
(***************************************************************************)

Elements(s) == {s[i] : i \in DOMAIN s}
Messages(e) == Elements(toRoutine[e])
Message(k, s) == [id |-> k[2], status |-> s]

(***************************************************************************)
(* What is in a channel is still the status of its order: a final status   *)
(* does not change.                                                        *)
(***************************************************************************)
ChannelInv ==
  \A e \in Exchanges : \A x \in Messages(e) : book[<<e, x.id>>] = x.status

(***************************************************************************)
(* NoFillDropped starts with the acknowledgement of the order, which may   *)
(* come after its fill was handled.  So a fill has to be accounted for     *)
(* without one: what is lost without a trace is that of an order whose     *)
(* entry, which stays, has no user data.                                   *)
(***************************************************************************)
FillInv ==
  \A k \in Keys :
    /\ observed[k] # Absent => book[k] = "filled"
    /\ book[k] = "filled" =>
         \/ Message(k, "filled") \in Messages(k[1])
         \/ observed[k] # Absent \/ k \in missed \/ registry[k] = Nil

(***************************************************************************)
(* Sending on a channel and receiving from it.                             *)
(***************************************************************************)
LEMMA SendReceive ==
  ASSUME NEW S, NEW s \in Seq(S)
  PROVE  /\ \A x \in S : Elements(Append(s, x)) = Elements(s) \cup {x}
         /\ s # <<>> => Elements(s) = {Head(s)} \cup Elements(Tail(s))
         /\ Elements(s) \subseteq S
<1>0. Elements(s) \subseteq S
  <2>1. \A i \in DOMAIN s : s[i] \in S
    OBVIOUS
  <2> QED
    BY <2>1 DEF Elements
<1>1. ASSUME NEW x \in S PROVE Elements(Append(s, x)) = Elements(s) \cup {x}
  <2> DEFINE t == Append(s, x)
  <2>1. Len(s) \in Nat /\ DOMAIN s = 1 .. Len(s) /\ DOMAIN t = 1 .. Len(s) + 1
        /\ t[Len(s) + 1] = x /\ \A i \in 1 .. Len(s) : t[i] = s[i]
    OBVIOUS
  <2> HIDE DEF t
  <2>2. DOMAIN t = DOMAIN s \cup {Len(s) + 1}
    BY <2>1
  <2>3. Elements(t) = Elements(s) \cup {x}
    BY <2>1, <2>2 DEF Elements
  <2> QED
    BY <2>3 DEF t
<1>2. ASSUME s # <<>> PROVE Elements(s) = {Head(s)} \cup Elements(Tail(s))
  <2> DEFINE t == Tail(s)
  <2>1. Len(s) \in Nat \ {0} /\ DOMAIN s = 1 .. Len(s) /\ DOMAIN t = 1 .. Len(s) - 1
        /\ \A i \in 1 .. Len(s) - 1 : t[i] = s[i + 1]
    BY <1>2
  <2>2. Head(s) = s[1]
    BY <1>2
  <2> HIDE DEF t
  <2>3. Elements(t) \subseteq Elements(s) /\ s[1] \in Elements(s)
    BY <2>1 DEF Elements
  <2>4. ASSUME NEW i \in DOMAIN s PROVE s[i] \in {s[1]} \cup Elements(t)
    <3>1. CASE i # 1
      <4>1. i - 1 \in DOMAIN t /\ t[i - 1] = s[i]
        BY <2>1, <3>1
      <4> QED
        BY <4>1 DEF Elements
    <3> QED
      BY <3>1
  <2>5. Elements(s) \subseteq {s[1]} \cup Elements(t)
    BY <2>4 DEF Elements
  <2>6. Elements(s) = {s[1]} \cup Elements(t)
    BY <2>3, <2>5
  <2> QED
    BY <2>2, <2>6 DEF t
<1> QED
  BY <1>0, <1>1, <1>2

(***************************************************************************)
(* The exchange pushes the final status of an order: a fill, a             *)
(* cancellation, or one of them again.                                     *)
(***************************************************************************)
Push(k, s) ==
  /\ book[k] \in {"live", s}
  /\ book' = [book EXCEPT ![k] = s]
  /\ toRoutine' = [toRoutine EXCEPT ![k[1]] = Append(@, Message(k, s))]

LEMMA WhoMovesOrders ==
  ASSUME TypeInv, [Next]_vars
  PROVE  \/ \E e \in Exchanges : HandleData(e)
         \/ /\ UNCHANGED <<observed, missed>>
            /\ \/ \E k \in Keys, s \in Final : Push(k, s)
               \/ \E k \in Keys : Place(k)
               \/ UNCHANGED <<book, toRoutine>>
<1>0. "filled" \in Final /\ "cancelled" \in Final
  BY DEF Final
<1>1. ASSUME NEW k \in Keys, NEW ok \in BOOLEAN, CancelAtExchange(k, ok)
      PROVE  (\E s \in Final : Push(k, s)) \/ UNCHANGED <<book, toRoutine>>
  BY <1>0, <1>1 DEF CancelAtExchange, Finish, Push, Message, exchangeVars
<1>2. ASSUME NEW c \in Callers, SubmitAnswered(c) \/ SubmitFailed(c)
      PROVE  /\ UNCHANGED <<observed, missed>>
             /\ (\E k \in Keys : Place(k)) \/ UNCHANGED <<book, toRoutine>>
  <2>1. call[c].e \in Exchanges
    BY <1>2 DEF SubmitAnswered, SubmitFailed, TypeInv, CallOK
  <2>2. \A id \in Ids : <<call[c].e, id>> \in Keys
    BY <2>1 DEF Keys
  <2> QED
    BY <1>2, <2>2 DEF SubmitAnswered, SubmitFailed, exchangeVars, historyVars
<1>3. ASSUME NEW c \in Callers, CancelAnswered(c)
      PROVE  /\ UNCHANGED <<observed, missed>>
             /\ (\E k \in Keys, s \in Final : Push(k, s)) \/ UNCHANGED <<book, toRoutine>>
  <2>1. call[c].old \in Keys /\ \E ok \in BOOLEAN : CancelAtExchange(call[c].old, ok)
    BY <1>3 DEF CancelAnswered, TypeInv, CallOK
  <2> QED
    BY <1>1, <1>3, <2>1 DEF CancelAnswered, historyVars
<1>4. ASSUME NEW c \in Callers, StoreOrder(c) \/ ModifyAnswered(c) \/ Lookup(c)
      PROVE  UNCHANGED <<observed, missed, book, toRoutine>>
  BY <1>4 DEF StoreOrder, ModifyAnswered, Lookup, exchangeVars, historyVars
<1>5. ASSUME NEW c \in Callers, NEW e \in Exchanges, NEW ud \in UserData,
             SubmitOrderUD(c, e, ud)
      PROVE  UNCHANGED <<observed, missed, book, toRoutine>>
  BY <1>5 DEF SubmitOrderUD, exchangeVars, historyVars
<1>6. ASSUME NEW c \in Callers, NEW k \in Keys, CancelOrder(c, k)
      PROVE  /\ UNCHANGED <<observed, missed>>
             /\ (\E s \in Final : Push(k, s)) \/ UNCHANGED <<book, toRoutine>>
  BY <1>1, <1>6 DEF CancelOrder, historyVars
<1>7. ASSUME NEW c \in Callers, NEW k \in Keys, ModifyOrder(c, k)
      PROVE  UNCHANGED <<observed, missed, book, toRoutine>>
  BY <1>7 DEF ModifyOrder, exchangeVars, historyVars
<1>8. ASSUME NEW k \in Keys, Fill(k) \/ Repush(k)
      PROVE  UNCHANGED <<observed, missed>> /\ \E s \in Final : Push(k, s)
  <2>1. CASE Fill(k)
    BY <1>0, <2>1 DEF Fill, Finish, Push, Message, historyVars
  <2>2. CASE Repush(k)
    <3>1. book' = [book EXCEPT ![k] = book[k]]
      BY <2>2 DEF Repush, TypeInv, TypeOK
    <3>2. book[k] \in Final /\ Push(k, book[k])
      BY <2>2, <3>1 DEF Repush, Push, Message
    <3> QED
      BY <2>2, <3>2 DEF Repush, historyVars
  <2> QED
    BY <1>8, <2>1, <2>2
<1>9. CASE UNCHANGED vars
  BY <1>9 DEF vars
<1> QED
  BY <1>2, <1>3, <1>4, <1>5, <1>6, <1>7, <1>8, <1>9 DEF Next, CallStep

(***************************************************************************)
(* An entry without user data stays.                                       *)
(***************************************************************************)
LEMMA EntryStays ==
  ASSUME TypeInv, [Next]_vars, NEW k \in Keys, registry[k] # Absent
  PROVE  registry'[k] = registry[k]
<1>1. ASSUME NEW c \in Callers, StoreOrder(c) PROVE registry'[k] = registry[k]
  <2>1. Enter(<<call[c].e, call[c].id>>, call[c].ud)
    BY <1>1 DEF StoreOrder
  <2> QED
    BY <2>1 DEF Enter, TypeInv, TypeOK
<1>2. ASSUME NEW e \in Exchanges, HandleData(e) PROVE registry'[k] = registry[k]
  BY <1>2 DEF HandleData
<1> QED
  BY <1>1, <1>2, WhoWrites

(***************************************************************************)
(* Every step keeps the channels true and every fill accounted for.        *)
(***************************************************************************)
LEMMA FillStep == TypeInv /\ ChannelInv /\ FillInv /\ [Next]_vars => ChannelInv' /\ FillInv'
<1> SUFFICES ASSUME TypeInv, ChannelInv, FillInv, [Next]_vars
             PROVE  ChannelInv' /\ FillInv'
  OBVIOUS
<1>0. /\ book \in [Keys -> Final \cup {"live", Absent}]
      /\ toRoutine \in [Exchanges -> Seq([id : Ids, status : Final])]
      /\ observed \in [Keys -> Observers \cup {Absent}]
  BY DEF TypeInv, TypeOK
<1>1. \A k \in Keys : k[1] \in Exchanges /\ k[2] \in Ids /\ k = <<k[1], k[2]>>
  BY DEF Keys
<1>2. \A e \in Exchanges : Messages(e) \subseteq [id : Ids, status : Final]
  BY <1>0, SendReceive DEF Messages
<1>3. \A k \in Keys : registry[k] = Nil => registry'[k] = Nil
  BY EntryStays, NilAssumption, AbsentAssumption
<1>4. ASSUME NEW k \in Keys, NEW s \in Final, Push(k, s), UNCHANGED <<observed, missed>>
      PROVE  ChannelInv' /\ FillInv'
  <2> DEFINE m == Message(k, s)
  <2>1. m \in [id : Ids, status : Final] /\ m.id = k[2] /\ m.status = s
    BY <1>1 DEF Message
  <2>2. \A e \in Exchanges :
          Messages(e)' = IF e = k[1] THEN Messages(e) \cup {m} ELSE Messages(e)
    <3>1. ASSUME NEW e \in Exchanges
          PROVE  toRoutine'[e] = IF e = k[1] THEN Append(toRoutine[e], m) ELSE toRoutine[e]
      BY <1>0, <1>4 DEF Push
    <3> HIDE DEF m
    <3>2. ASSUME NEW e \in Exchanges
          PROVE  Elements(Append(toRoutine[e], m)) = Elements(toRoutine[e]) \cup {m}
      <4> DEFINE Details == [id : Ids, status : Final]
      <4>1. toRoutine[e] \in Seq(Details) /\ m \in Details
        BY <1>0, <2>1
      <4> HIDE DEF Details
      <4> QED
        BY <4>1, SendReceive
    <3> QED
      BY <3>1, <3>2 DEF Messages
  <2>3. book[k] \in {"live", s} /\ \A j \in Keys : book'[j] = IF j = k THEN s ELSE book[j]
    BY <1>0, <1>4 DEF Push
  <2> HIDE DEF m
  <2>4. "live" \notin Final
    BY DEF Final
  <2>5. ASSUME NEW e \in Exchanges, NEW x \in Messages(e)' PROVE book'[<<e, x.id>>] = x.status
    <3>1. CASE x \in Messages(e)
      <4>1. <<e, x.id>> \in Keys /\ x.status \in Final /\ book[<<e, x.id>>] = x.status
        BY <1>2, <3>1 DEF ChannelInv, Keys
      <4> QED
        BY <2>3, <2>4, <4>1
    <3>2. CASE e = k[1] /\ x = m
      BY <1>1, <2>1, <2>3, <3>2
    <3> QED
      BY <2>2, <2>5, <3>1, <3>2
  <2>6. ASSUME NEW j \in Keys
        PROVE  /\ observed'[j] # Absent => book'[j] = "filled"
               /\ book'[j] = "filled" =>
                    \/ Message(j, "filled") \in Messages(j[1])'
                    \/ observed'[j] # Absent \/ j \in missed' \/ registry'[j] = Nil
    <3>1. observed'[j] = observed[j] /\ missed' = missed
      BY <1>4
    <3>2. CASE j = k
      BY <1>1, <2>2, <2>3, <3>1, <3>2 DEF FillInv, m
    <3>3. CASE j # k
      BY <1>1, <1>3, <2>2, <2>3, <3>1, <3>3 DEF FillInv
    <3> QED
      BY <3>2, <3>3
  <2> QED
    BY <2>5, <2>6 DEF ChannelInv, FillInv
<1>5. ASSUME NEW k \in Keys, Place(k), UNCHANGED <<observed, missed>>
      PROVE  ChannelInv' /\ FillInv'
  <2>1. /\ book[k] = Absent /\ \A j \in Keys : book'[j] = IF j = k THEN "live" ELSE book[j]
        /\ \A e \in Exchanges : Messages(e)' = Messages(e)
    BY <1>0, <1>5 DEF Place, Messages
  <2>2. ASSUME NEW e \in Exchanges, NEW x \in Messages(e) PROVE book'[<<e, x.id>>] = x.status
    <3>1. <<e, x.id>> \in Keys /\ x.status \in Final /\ book[<<e, x.id>>] = x.status
      BY <1>2 DEF ChannelInv, Keys
    <3>2. <<e, x.id>> # k
      BY <2>1, <3>1, AbsentAssumption DEF Final
    <3> QED
      BY <2>1, <3>1, <3>2
  <2> QED
    BY <1>1, <1>3, <1>5, <2>1, <2>2 DEF ChannelInv, FillInv
<1>6. ASSUME NEW e \in Exchanges, HandleData(e) PROVE ChannelInv' /\ FillInv'
  <2> DEFINE x == Head(toRoutine[e])
             k == <<e, x.id>>
  <2>1. OnOrder(k, x.status) /\ toRoutine' = [toRoutine EXCEPT ![e] = Tail(@)]
        /\ toRoutine[e] # <<>> /\ book' = book
    BY <1>6 DEF HandleData
  <2>2. Messages(e) = {x} \cup Messages(e)'
    BY <1>0, <2>1, SendReceive DEF Messages
  <2>3. \A f \in Exchanges \ {e} : Messages(f)' = Messages(f)
    BY <1>0, <2>1 DEF Messages
  <2> HIDE DEF x
  <2>4. x \in [id : Ids, status : Final] /\ k \in Keys /\ book[k] = x.status
    BY <1>2, <2>2 DEF ChannelInv, Keys
  <2>5. ChannelInv'
    BY <2>1, <2>2, <2>3 DEF ChannelInv
  <2>6. \A j \in Keys \ {k} : observed'[j] = observed[j] /\ (j \in missed => j \in missed')
    BY <1>0, <2>1, <2>4 DEF OnOrder
  <2>7. ASSUME NEW j \in Keys \ {k}
        PROVE  /\ observed'[j] # Absent => book'[j] = "filled"
               /\ book'[j] = "filled" =>
                    \/ Message(j, "filled") \in Messages(j[1])'
                    \/ observed'[j] # Absent \/ j \in missed' \/ registry'[j] = Nil
    <3>1. ASSUME Message(j, "filled") \in Messages(j[1])
          PROVE  Message(j, "filled") \in Messages(j[1])'
      <4>1. j[1] = e => Message(j, "filled") # x
        BY <1>1 DEF Message
      <4> QED
        BY <1>1, <2>2, <2>3, <3>1, <4>1
    <3> QED
      BY <1>3, <2>1, <2>6, <3>1 DEF FillInv
  <2>8. /\ observed'[k] # Absent => book'[k] = "filled"
        /\ book'[k] = "filled" =>
             observed'[k] # Absent \/ k \in missed' \/ registry'[k] = Nil
    <3>1. CASE x.status = "filled" /\ registry[k] \in Observers
      <4>1. observed'[k] = registry[k] /\ registry[k] # Absent
        <5>1. ~ (registry[k] = Absent \/ registry[k] = Nil)
          BY <3>1, NilAssumption, AbsentAssumption
        <5>2. observed' = [observed EXCEPT ![k] = registry[k]]
          BY <2>1, <3>1, <5>1 DEF OnOrder
        <5> QED
          BY <1>0, <2>4, <5>1, <5>2
      <4> QED
        BY <2>1, <2>4, <3>1, <4>1
    <3>2. CASE x.status = "filled" /\ registry[k] = Absent
      <4>1. k \in missed' /\ observed'[k] = observed[k]
        BY <2>1, <3>2, NilAssumption, AbsentAssumption DEF OnOrder
      <4> QED
        BY <2>1, <2>4, <3>2, <4>1
    <3>3. CASE x.status # "filled" \/ registry[k] = Nil
      <4>1. observed' = observed
        BY <2>1, <3>3, NilAssumption, AbsentAssumption DEF OnOrder
      <4> QED
        BY <1>3, <2>1, <2>4, <3>3, <4>1 DEF FillInv
    <3> QED
      BY <2>1, <3>1, <3>2, <3>3 DEF OnOrder
  <2>9. FillInv'
    BY <2>7, <2>8 DEF FillInv
  <2> QED
    BY <2>5, <2>9
<1>7. ASSUME UNCHANGED <<book, toRoutine, observed, missed>> PROVE ChannelInv' /\ FillInv'
  BY <1>3, <1>7 DEF ChannelInv, FillInv, Messages
<1> QED
  BY <1>4, <1>5, <1>6, <1>7, WhoMovesOrders

LEMMA FillInvariant == Spec => [](ChannelInv /\ FillInv)
<1>1. Init => ChannelInv /\ FillInv
  <2> SUFFICES ASSUME Init PROVE ChannelInv /\ FillInv
    OBVIOUS
  <2>1. \A e \in Exchanges : Messages(e) = {}
    <3>1. Elements(<<>>) = {}
      BY DEF Elements
    <3> QED
      BY <3>1 DEF Init, Messages
  <2>2. \A k \in Keys : observed[k] = Absent /\ book[k] = Absent
    BY DEF Init
  <2>3. Absent # "filled"
    BY AbsentAssumption
  <2> QED
    BY <2>1, <2>2, <2>3 DEF ChannelInv, FillInv
<1> QED
  BY <1>1, FillStep, TypeInvariant, PTL DEF Spec

(***************************************************************************)
(* OnFilled is called for orders that were filled.                         *)
(***************************************************************************)
THEOREM FilledCorrect == Spec => []OnlyFilledObserved
<1>1. FillInv => OnlyFilledObserved
  BY DEF FillInv, OnlyFilledObserved
<1> QED
  BY <1>1, FillInvariant, PTL

(***************************************************************************)
(* The fill of an order that was acknowledged with an observer is in the   *)
(* channel, was observed, or came before the entry.                        *)
(***************************************************************************)
THEOREM NoFillLost == Spec => []NoFillDropped
<1>1. ASSUME TypeInv, AckInv, FillInv PROVE NoFillDropped
  <2> SUFFICES ASSUME NEW k \in Keys, book[k] = "filled", acked[k] \cap Observers # {}
               PROVE  FillQueued(k) \/ observed[k] # Absent \/ k \in missed
    BY DEF NoFillDropped
  <2>1. registry[k] # Nil
    BY <1>1, NilAssumption DEF AckInv
  <2>2. Message(k, "filled") \in Messages(k[1]) => FillQueued(k)
    BY DEF FillQueued, Message, Messages, Elements
  <2> QED
    BY <1>1, <2>1, <2>2 DEF FillInv
<1> QED
  BY <1>1, TypeInvariant, AckInvariant, FillInvariant, PTL

(***************************************************************************)
(* A queued fill of an acknowledged order leaves the channel observed.     *)
(***************************************************************************)
THEOREM FillObserved == Spec => FillLeavesObserved
<1> DEFINE A == \A k \in Keys :
                  acked[k] \cap Observers # {} /\ FillQueued(k) =>
                    FillQueued(k)' \/ observed'[k] # Absent
<1>1. ASSUME TypeInv, AckInv, [Next]_vars, NEW k \in Keys,
             acked[k] \cap Observers # {}, FillQueued(k), ~ FillQueued(k)'
      PROVE  observed'[k] # Absent
  <2> DEFINE m == Message(k, "filled")
  <2>0. /\ toRoutine \in [Exchanges -> Seq([id : Ids, status : Final])]
        /\ observed \in [Keys -> Observers \cup {Absent}] /\ k[1] \in Exchanges
    BY <1>1 DEF TypeInv, TypeOK, Keys
  <2>1. registry[k] \in Observers
    BY <1>1 DEF AckInv
  <2>2. m \in Messages(k[1]) /\ m \notin Messages(k[1])'
    <3>1. FillQueued(k) <=> m \in Messages(k[1])
      BY DEF FillQueued, Message, Messages, Elements
    <3>2. FillQueued(k)' <=> m \in Messages(k[1])'
      BY DEF FillQueued, Message, Messages, Elements
    <3> QED
      BY <1>1, <3>1, <3>2
  <2> HIDE DEF m
  <2>3. ASSUME NEW j \in Keys, NEW s \in Final, Push(j, s) PROVE FALSE
    <3> DEFINE Details == [id : Ids, status : Final]
    <3>1. CASE j[1] = k[1]
      <4>1. Message(j, s) \in Details /\ toRoutine[k[1]] \in Seq(Details)
        BY <2>0 DEF Message, Keys
      <4>2. toRoutine'[k[1]] = Append(toRoutine[k[1]], Message(j, s))
        BY <2>0, <2>3, <3>1 DEF Push
      <4> HIDE DEF Details
      <4>3. Messages(k[1])' = Messages(k[1]) \cup {Message(j, s)}
        BY <4>1, <4>2, SendReceive DEF Messages
      <4> QED
        BY <2>2, <4>3
    <3>2. CASE j[1] # k[1]
      <4>1. toRoutine'[k[1]] = toRoutine[k[1]]
        BY <2>0, <2>3, <3>2 DEF Push
      <4> QED
        BY <2>2, <4>1 DEF Messages
    <3> QED
      BY <3>1, <3>2
  <2>4. ASSUME toRoutine' = toRoutine PROVE FALSE
    BY <2>2, <2>4 DEF Messages
  <2>5. PICK e \in Exchanges : HandleData(e)
    BY <1>1, <2>3, <2>4, WhoMovesOrders DEF Place
  <2> DEFINE x == Head(toRoutine[e])
  <2>6. OnOrder(<<e, x.id>>, x.status) /\ toRoutine' = [toRoutine EXCEPT ![e] = Tail(@)]
        /\ toRoutine[e] # <<>>
    BY <2>5 DEF HandleData
  <2>7. e = k[1]
    BY <2>0, <2>2, <2>6 DEF Messages
  <2>8. Messages(e) = {x} \cup Messages(e)'
    BY <2>0, <2>6, SendReceive DEF Messages
  <2> HIDE DEF x
  <2>9. x = m
    BY <2>2, <2>7, <2>8
  <2>10. <<e, x.id>> = k /\ x.status = "filled"
    BY <2>7, <2>9 DEF m, Message, Keys
  <2>11. ~ (registry[k] = Absent \/ registry[k] = Nil)
    BY <2>1, NilAssumption, AbsentAssumption
  <2>12. observed' = [observed EXCEPT ![k] = registry[k]]
    BY <2>6, <2>10, <2>11 DEF OnOrder
  <2> QED
    BY <2>0, <2>11, <2>12
<1>2. TypeInv /\ AckInv /\ [Next]_vars => [A]_vars
  BY <1>1
<1> QED
  BY <1>2, TypeInvariant, AckInvariant, PTL DEF Spec, FillLeavesObserved

-----------------------------------------------------------------------------
(***************************************************************************)
(* An order that is replaced passes its user data on                       *)
(***************************************************************************)

(***************************************************************************)
(* While ModifyOrder waits for its answers the entry it will look up is    *)
(* the one the order had; from the lookup on the call carries it.  The     *)
(* entry of the new order is the call's, for StoreOrder returned without   *)
(* an error.                                                               *)
(***************************************************************************)
CarryOK(c) ==
  /\ pc[c] \in {"modify", "cancel", "lookup"} /\ call[c].had # Absent
       => registry[call[c].old] = call[c].had
  /\ pc[c] \in {"submit", "store"} /\ call[c].old # Absent /\ call[c].had # Absent
       => call[c].ud = call[c].had

CarryInv == (\A c \in Callers : CarryOK(c)) /\ UserDataCarriedOver

(***************************************************************************)
(* Every step keeps the user data of an order with what replaces it.       *)
(***************************************************************************)
LEMMA CarryStep == TypeInv /\ CarryInv /\ [Next]_vars => CarryInv'
<1> SUFFICES ASSUME TypeInv, CarryInv, [Next]_vars PROVE CarryInv'
  OBVIOUS
<1>0. /\ registry \in [Keys -> UserData \cup {Absent}]
      /\ pc \in [Callers -> {"idle", "submit", "store", "modify", "cancel", "lookup"}]
      /\ call \in [Callers -> Calls]
      /\ replaced \subseteq Replacements
  BY DEF TypeInv, TypeOK
<1>1. \A k \in Keys : registry[k] # Absent => registry'[k] = registry[k]
  BY EntryStays
<1>2. \A r \in replaced : r.had # Absent => registry'[r.new] = r.had
  BY <1>0, <1>1 DEF CarryInv, UserDataCarriedOver, Replacements
\* What another caller does, and the exchange.
<1>3. ASSUME NEW c \in Callers, UNCHANGED <<pc[c], call[c]>> PROVE CarryOK(c)'
  <2>1. pc[c] \in {"modify", "cancel", "lookup"} => call[c].old \in Keys
    BY DEF TypeInv, CallOK
  <2> QED
    BY <1>1, <1>3, <2>1 DEF CarryInv, CarryOK
<1>4. ASSUME UNCHANGED <<pc, call, replaced>> PROVE CarryInv'
  BY <1>2, <1>3, <1>4 DEF CarryInv, UserDataCarriedOver
<1>5. ASSUME NEW c \in Callers, CarryOK(c)', UNCHANGED replaced,
             \A d \in Callers \ {c} : UNCHANGED <<pc[d], call[d]>>
      PROVE  CarryInv'
  BY <1>2, <1>3, <1>5 DEF CarryInv, UserDataCarriedOver
<1>6. ASSUME NEW c \in Callers, Return(c)
      PROVE  CarryOK(c)' /\ \A d \in Callers \ {c} : UNCHANGED <<pc[d], call[d]>>
  BY <1>0, <1>6 DEF Return, Goto, CarryOK
<1>7. ASSUME NEW c \in Callers, NEW e \in Exchanges, NEW ud \in UserData,
             SubmitOrderUD(c, e, ud)
      PROVE  CarryInv'
  <2> DEFINE new == [NoCall EXCEPT !.e = e, !.ud = ud]
  <2>1. new.old = Absent
    BY DEF NoCall
  <2>2. call' = [call EXCEPT ![c] = new] /\ pc' = [pc EXCEPT ![c] = "submit"]
        /\ UNCHANGED <<registry, replaced>>
    BY <1>7 DEF SubmitOrderUD, Goto, historyVars
  <2> HIDE DEF new
  <2>3. CarryOK(c)'
    BY <1>0, <2>1, <2>2 DEF CarryOK
  <2> QED
    BY <1>0, <1>5, <2>2, <2>3
<1>8. ASSUME NEW c \in Callers, NEW k \in Keys, ModifyOrder(c, k) PROVE CarryInv'
  <2> DEFINE new == [NoCall EXCEPT !.e = k[1], !.old = k, !.had = registry[k]]
  <2>1. new.old = k /\ new.had = registry[k]
    BY DEF NoCall
  <2>2. call' = [call EXCEPT ![c] = new] /\ pc' = [pc EXCEPT ![c] = "modify"]
        /\ UNCHANGED <<registry, replaced>>
    BY <1>8 DEF ModifyOrder, Goto, historyVars
  <2> HIDE DEF new
  <2>3. CarryOK(c)'
    BY <1>0, <2>1, <2>2 DEF CarryOK
  <2> QED
    BY <1>0, <1>5, <2>2, <2>3
<1>9. ASSUME NEW c \in Callers, SubmitAnswered(c) PROVE CarryInv'
  <2>1. PICK id \in Ids : call' = [call EXCEPT ![c].id = id]
    BY <1>9 DEF SubmitAnswered
  <2> DEFINE new == [call[c] EXCEPT !.id = id]
  <2>2. call[c] \in Calls
    BY <1>0
  <2>3. new.old = call[c].old /\ new.had = call[c].had /\ new.ud = call[c].ud
    BY <2>2 DEF Calls
  <2>4. call' = [call EXCEPT ![c] = new] /\ pc' = [pc EXCEPT ![c] = "store"]
        /\ pc[c] = "submit" /\ UNCHANGED <<registry, replaced>>
    BY <1>9, <2>1 DEF SubmitAnswered, Goto, historyVars
  <2> HIDE DEF new
  <2>5. CarryOK(c)'
    BY <1>0, <2>3, <2>4 DEF CarryOK, CarryInv
  <2> QED
    BY <1>0, <1>5, <2>4, <2>5
<1>10. ASSUME NEW c \in Callers, SubmitFailed(c) PROVE CarryInv'
  BY <1>5, <1>6, <1>10 DEF SubmitFailed, historyVars
<1>11. ASSUME NEW c \in Callers, StoreOrder(c) PROVE CarryInv'
  <2> DEFINE k == <<call[c].e, call[c].id>>
             r == [old |-> call[c].old, new |-> k, had |-> call[c].had,
                   confirmed |-> call[c].confirmed]
  <2>1. k \in Keys
    BY <1>11 DEF StoreOrder, TypeInv, CallOK, Keys
  <2>2. /\ registry' = [registry EXCEPT ![k] = IF @ = Absent THEN call[c].ud ELSE @]
        /\ \/ replaced' = replaced
           \/ registry[k] = Absent /\ call[c].old # Absent /\ replaced' = replaced \cup {r}
        /\ pc[c] = "store" /\ Return(c)
    BY <1>11 DEF StoreOrder, Enter
  <2> HIDE DEF k
  <2>3. CarryOK(c)' /\ \A d \in Callers : CarryOK(d)'
    BY <1>3, <1>6, <2>2
  <2>4. r.had = call[c].had /\ r.new = k
    OBVIOUS
  <2> HIDE DEF r
  <2>5. ASSUME NEW q \in replaced', q.had # Absent PROVE registry'[q.new] = q.had
    <3>1. CASE q \in replaced
      BY <1>2, <2>5, <3>1
    <3>2. CASE q = r /\ registry[k] = Absent /\ call[c].old # Absent
      <4>1. registry'[k] = call[c].ud
        BY <1>0, <2>1, <2>2, <3>2
      <4>2. call[c].ud = call[c].had
        BY <2>2, <2>4, <2>5, <3>2 DEF CarryInv, CarryOK
      <4> QED
        BY <2>4, <3>2, <4>1, <4>2
    <3> QED
      BY <2>2, <2>5, <3>1, <3>2
  <2> QED
    BY <2>3, <2>5 DEF CarryInv, UserDataCarriedOver
<1>12. ASSUME NEW c \in Callers, ModifyAnswered(c) PROVE CarryInv'
  <2>1. UNCHANGED <<registry, replaced>> /\ pc[c] = "modify"
    BY <1>12 DEF ModifyAnswered, historyVars
  <2>2. CASE Return(c)
    BY <1>5, <1>6, <2>1, <2>2
  <2>3. CASE Goto(c, "cancel") /\ UNCHANGED call
    <3>1. CarryOK(c)'
      BY <1>0, <2>1, <2>3 DEF Goto, CarryOK, CarryInv
    <3> QED
      BY <1>0, <1>5, <2>1, <2>3, <3>1 DEF Goto
  <2> QED
    BY <1>12, <2>2, <2>3 DEF ModifyAnswered
<1>13. ASSUME NEW c \in Callers, CancelAnswered(c) PROVE CarryInv'
  <2>1. PICK ok \in BOOLEAN : call' = [call EXCEPT ![c].confirmed = ok]
    BY <1>13 DEF CancelAnswered
  <2> DEFINE new == [call[c] EXCEPT !.confirmed = ok]
  <2>2. new.old = call[c].old /\ new.had = call[c].had
    BY <1>0 DEF Calls
  <2>3. UNCHANGED <<registry, replaced>> /\ pc[c] = "cancel"
        /\ pc' = [pc EXCEPT ![c] = "lookup"] /\ call' = [call EXCEPT ![c] = new]
    BY <1>13, <2>1 DEF CancelAnswered, Goto, historyVars
  <2> HIDE DEF new
  <2>4. CarryOK(c)'
    BY <1>0, <2>2, <2>3 DEF CarryOK, CarryInv
  <2> QED
    BY <1>0, <1>5, <2>3, <2>4
<1>14. ASSUME NEW c \in Callers, Lookup(c) PROVE CarryInv'
  <2> DEFINE new == [call[c] EXCEPT !.ud = UserDataOf(call[c].old)]
  <2>1. call[c] \in Calls
    BY <1>0
  <2>2. /\ new.old = call[c].old /\ new.had = call[c].had
        /\ new.ud = UserDataOf(call[c].old)
    BY <2>1 DEF Calls
  <2>3. call' = [call EXCEPT ![c] = new] /\ pc' = [pc EXCEPT ![c] = "submit"]
        /\ pc[c] = "lookup" /\ UNCHANGED <<registry, replaced>>
    BY <1>14 DEF Lookup, Goto, historyVars
  <2> HIDE DEF new
  <2>4. CarryOK(c)'
    BY <1>0, <2>2, <2>3 DEF CarryOK, CarryInv, UserDataOf
  <2> QED
    BY <1>0, <1>5, <2>3, <2>4
<1>15. ASSUME NEW c \in Callers, NEW k \in Keys, CancelOrder(c, k) PROVE CarryInv'
  BY <1>4, <1>15 DEF CancelOrder, historyVars
<1>16. ASSUME NEW k \in Keys, Fill(k) \/ Repush(k) PROVE CarryInv'
  BY <1>4, <1>16 DEF Fill, Repush, historyVars
<1>17. ASSUME NEW e \in Exchanges, HandleData(e) PROVE CarryInv'
  BY <1>4, <1>17 DEF HandleData
<1>18. CASE UNCHANGED vars
  BY <1>4, <1>18 DEF vars
<1> QED
  BY <1>7, <1>8, <1>9, <1>10, <1>11, <1>12, <1>13, <1>14, <1>15, <1>16, <1>17, <1>18
  DEF Next, CallStep

(***************************************************************************)
(* ModifyOrder's fallback resubmits with the user data the order had.      *)
(***************************************************************************)
THEOREM UserDataCarried == Spec => []UserDataCarriedOver
<1>1. Init => CarryInv
  BY DEF Init, CarryInv, CarryOK, UserDataCarriedOver
<1>2. CarryInv => UserDataCarriedOver
  BY DEF CarryInv
<1> QED
  BY <1>1, <1>2, CarryStep, TypeInvariant, PTL DEF Spec

-----------------------------------------------------------------------------
(***************************************************************************)
(* An order whose cancellation was confirmed is replaced once              *)
(***************************************************************************)

ConfInv ==
  /\ ConfirmedIsOut
  /\ \A c \in Callers : call[c].confirmed => call[c].old \in Keys

(***************************************************************************)
(* Of the calls only CancelAnswered confirms anything, and only StoreOrder *)
(* writes down a replacement; the other steps keep or forget what a call   *)
(* has.                                                                    *)
(***************************************************************************)
LEMMA WhoConfirms ==
  ASSUME TypeInv, [Next]_vars
  PROVE  \/ \E c \in Callers : CancelAnswered(c)
         \/ \E c \in Callers : StoreOrder(c)
         \/ /\ UNCHANGED replaced
            /\ \A d \in Callers : call'[d].confirmed =>
                  call[d].confirmed /\ call'[d].old = call[d].old
<1> DEFINE Keeps == /\ UNCHANGED replaced
                    /\ \A d \in Callers : call'[d].confirmed =>
                          call[d].confirmed /\ call'[d].old = call[d].old
<1>0. call \in [Callers -> Calls]
  BY DEF TypeInv, TypeOK
<1>1. ASSUME NEW c \in Callers, NEW new, UNCHANGED replaced,
             call' = [call EXCEPT ![c] = new],
             new.confirmed => call[c].confirmed /\ new.old = call[c].old
      PROVE  Keeps
  BY <1>0, <1>1
<1>2. ASSUME UNCHANGED <<call, replaced>> PROVE Keeps
  BY <1>2
<1>3. ~ NoCall.confirmed
  BY DEF NoCall
<1> HIDE DEF Keeps
<1>4. ASSUME NEW c \in Callers, NEW e \in Exchanges, NEW ud \in UserData,
             SubmitOrderUD(c, e, ud)
      PROVE  Keeps
  <2> DEFINE new == [NoCall EXCEPT !.e = e, !.ud = ud]
  <2>1. ~ new.confirmed
    BY DEF NoCall
  <2>2. call' = [call EXCEPT ![c] = new] /\ UNCHANGED replaced
    BY <1>4 DEF SubmitOrderUD, historyVars
  <2> HIDE DEF new
  <2> QED
    BY <1>1, <2>1, <2>2
<1>5. ASSUME NEW c \in Callers, NEW k \in Keys, ModifyOrder(c, k) PROVE Keeps
  <2> DEFINE new == [NoCall EXCEPT !.e = k[1], !.old = k, !.had = registry[k]]
  <2>1. ~ new.confirmed
    BY DEF NoCall
  <2>2. call' = [call EXCEPT ![c] = new] /\ UNCHANGED replaced
    BY <1>5 DEF ModifyOrder, historyVars
  <2> HIDE DEF new
  <2> QED
    BY <1>1, <2>1, <2>2
<1>6. ASSUME NEW c \in Callers, SubmitAnswered(c) PROVE Keeps
  <2>1. PICK id \in Ids : call' = [call EXCEPT ![c].id = id]
    BY <1>6 DEF SubmitAnswered
  <2> DEFINE new == [call[c] EXCEPT !.id = id]
  <2>2. new.confirmed = call[c].confirmed /\ new.old = call[c].old
    BY <1>0 DEF Calls
  <2>3. call' = [call EXCEPT ![c] = new] /\ UNCHANGED replaced
    BY <1>6, <2>1 DEF SubmitAnswered, historyVars
  <2> HIDE DEF new
  <2> QED
    BY <1>1, <2>2, <2>3
<1>7. ASSUME NEW c \in Callers, Lookup(c) PROVE Keeps
  <2> DEFINE new == [call[c] EXCEPT !.ud = UserDataOf(call[c].old)]
  <2>1. new.confirmed = call[c].confirmed /\ new.old = call[c].old
    BY <1>0 DEF Calls
  <2>2. call' = [call EXCEPT ![c] = new] /\ UNCHANGED replaced
    BY <1>7 DEF Lookup, historyVars
  <2> HIDE DEF new
  <2> QED
    BY <1>1, <2>1, <2>2
<1>8. ASSUME NEW c \in Callers, Return(c), UNCHANGED replaced PROVE Keeps
  BY <1>1, <1>3, <1>8 DEF Return
<1>9. ASSUME NEW c \in Callers, SubmitFailed(c) \/ ModifyAnswered(c) PROVE Keeps
  BY <1>2, <1>8, <1>9 DEF SubmitFailed, ModifyAnswered, historyVars
<1>10. ASSUME NEW c \in Callers, NEW k \in Keys, CancelOrder(c, k) PROVE Keeps
  BY <1>2, <1>10 DEF CancelOrder, historyVars
<1>11. ASSUME NEW k \in Keys, Fill(k) \/ Repush(k) PROVE Keeps
  BY <1>2, <1>11 DEF Fill, Repush, historyVars
<1>12. ASSUME NEW e \in Exchanges, HandleData(e) PROVE Keeps
  BY <1>2, <1>12 DEF HandleData
<1>13. ASSUME UNCHANGED vars PROVE Keeps
  BY <1>2, <1>13 DEF vars
<1>14. \/ \E c \in Callers : CancelAnswered(c)
       \/ \E c \in Callers : StoreOrder(c)
       \/ Keeps
  <2>1. ASSUME NEW c \in Callers, CallStep(c)
        PROVE  CancelAnswered(c) \/ StoreOrder(c) \/ Keeps
    BY <1>6, <1>7, <1>9, <2>1 DEF CallStep
  <2>2. CASE Next
    BY <1>4, <1>5, <1>10, <1>11, <1>12, <2>1, <2>2 DEF Next
  <2> QED
    BY <1>13, <2>2
<1> QED
  BY <1>14 DEF Keeps

(***************************************************************************)
(* A cancelled order stays cancelled.                                      *)
(***************************************************************************)
LEMMA CancelledStays ==
  ASSUME TypeInv, [Next]_vars, NEW k \in Keys, book[k] = "cancelled"
  PROVE  book'[k] = "cancelled"
<1>0. book \in [Keys -> Final \cup {"live", Absent}]
  BY DEF TypeInv, TypeOK
<1>1. ASSUME NEW j \in Keys, NEW s \in Final, Push(j, s) PROVE book'[k] = "cancelled"
  BY <1>0, <1>1 DEF Push
<1>2. ASSUME NEW j \in Keys, Place(j) PROVE book'[k] = "cancelled"
  BY <1>0, <1>2, AbsentAssumption DEF Place
<1>3. ASSUME NEW e \in Exchanges, HandleData(e) PROVE book'[k] = "cancelled"
  BY <1>3 DEF HandleData
<1> QED
  BY <1>1, <1>2, <1>3, WhoMovesOrders

(***************************************************************************)
(* Every step keeps confirmed cancellations apart.  The exchange cancels   *)
(* live orders, so that nobody had a confirmation for one before.          *)
(***************************************************************************)
LEMMA ConfStep == TypeInv /\ ConfInv /\ [Next]_vars => ConfInv'
<1> SUFFICES ASSUME TypeInv, ConfInv, [Next]_vars PROVE ConfInv'
  OBVIOUS
<1>0. /\ call \in [Callers -> Calls]
      /\ book \in [Keys -> Final \cup {"live", Absent}]
      /\ replaced \subseteq Replacements
  BY DEF TypeInv, TypeOK
<1>1. \A r \in replaced : r.old \in Keys
  BY <1>0 DEF Replacements
<1>2. \A k \in Keys : book[k] = "cancelled" => book'[k] = "cancelled"
  BY CancelledStays
<1>3. ASSUME NEW c \in Callers, CancelAnswered(c) PROVE ConfInv'
  <2>1. PICK ok \in BOOLEAN : /\ CancelAtExchange(call[c].old, ok)
                              /\ call' = [call EXCEPT ![c].confirmed = ok]
    BY <1>3 DEF CancelAnswered
  <2> DEFINE k == call[c].old
  <2>2. k \in Keys /\ replaced' = replaced
    BY <1>3 DEF CancelAnswered, historyVars, TypeInv, CallOK
  <2>3. /\ \A d \in Callers : call'[d].old = call[d].old
        /\ \A d \in Callers \ {c} : call'[d].confirmed = call[d].confirmed
        /\ call'[c].confirmed = ok
    BY <1>0, <2>1 DEF Calls
  <2>4. ok => book[k] = "live" /\ book'[k] = "cancelled"
    BY <1>0, <2>1, <2>2 DEF CancelAtExchange, Finish
  <2>5. /\ \A d \in Callers : ok /\ call[d].confirmed => call[d].old # k
        /\ \A r \in replaced : ok /\ r.confirmed => r.old # k
    BY <2>4 DEF ConfInv, ConfirmedIsOut
  <2>6. \A d \in Callers : call'[d].confirmed =>
          call[d].old \in Keys /\ book'[call[d].old] = "cancelled"
    BY <1>2, <2>2, <2>3, <2>4 DEF ConfInv, ConfirmedIsOut
  <2>7. \A r \in replaced : r.confirmed => book'[r.old] = "cancelled"
    BY <1>1, <1>2 DEF ConfInv, ConfirmedIsOut
  <2>8. ASSUME NEW d \in Callers, call'[d].confirmed
        PROVE  /\ \A f \in Callers \ {d} : call'[f].confirmed => call[f].old # call[d].old
               /\ \A r \in replaced : r.confirmed => r.old # call[d].old
    BY <2>3, <2>5, <2>8 DEF ConfInv, ConfirmedIsOut
  <2> QED
    BY <2>2, <2>3, <2>6, <2>7, <2>8 DEF ConfInv, ConfirmedIsOut
<1>4. ASSUME NEW c \in Callers, StoreOrder(c) PROVE ConfInv'
  <2> DEFINE r == [old |-> call[c].old, new |-> <<call[c].e, call[c].id>>,
                   had |-> call[c].had, confirmed |-> call[c].confirmed]
  <2>1. replaced' = replaced \/ replaced' = replaced \cup {r}
    BY <1>4 DEF StoreOrder
  <2>2. r.old = call[c].old /\ r.confirmed = call[c].confirmed
    OBVIOUS
  <2>3. call' = [call EXCEPT ![c] = NoCall]
    BY <1>4 DEF StoreOrder, Return
  <2>4. ~ call'[c].confirmed /\ \A d \in Callers \ {c} : call'[d] = call[d]
    BY <1>0, <2>3 DEF NoCall
  <2> HIDE DEF r
  <2>5. ASSUME NEW q \in replaced', q.confirmed
        PROVE  /\ book'[q.old] = "cancelled"
               /\ \A d \in Callers \ {c} : call[d].confirmed => call[d].old # q.old
    <3>1. CASE q \in replaced
      BY <1>1, <1>2, <2>5, <3>1 DEF ConfInv, ConfirmedIsOut
    <3>2. CASE q = r
      BY <1>2, <2>2, <2>5, <3>2 DEF ConfInv, ConfirmedIsOut
    <3> QED
      BY <2>1, <2>5, <3>1, <3>2
  <2>6. ASSUME NEW d \in Callers, call'[d].confirmed
        PROVE  /\ call'[d].old \in Keys /\ book'[call'[d].old] = "cancelled"
               /\ \A f \in Callers \ {d} : call'[f].confirmed => call'[f].old # call'[d].old
    BY <1>2, <2>4, <2>6 DEF ConfInv, ConfirmedIsOut
  <2>7. ASSUME NEW d \in Callers, call'[d].confirmed, NEW q \in replaced', q.confirmed
        PROVE  q.old # call'[d].old
    BY <2>4, <2>5, <2>7
  <2> QED
    BY <2>5, <2>6, <2>7 DEF ConfInv, ConfirmedIsOut
<1>5. CASE /\ UNCHANGED replaced
           /\ \A d \in Callers : call'[d].confirmed =>
                 call[d].confirmed /\ call'[d].old = call[d].old
  <2>1. \A r \in replaced : r.confirmed => book'[r.old] = "cancelled"
    BY <1>1, <1>2 DEF ConfInv, ConfirmedIsOut
  <2>2. \A d \in Callers : call'[d].confirmed =>
          call[d].old \in Keys /\ book'[call[d].old] = "cancelled"
    BY <1>2, <1>5 DEF ConfInv, ConfirmedIsOut
  <2> QED
    BY <1>5, <2>1, <2>2 DEF ConfInv, ConfirmedIsOut
<1> QED
  BY <1>3, <1>4, <1>5, WhoConfirms

(***************************************************************************)
(* ModifyOrder's fallback after a cancellation without error leaves one    *)
(* order in the market, for any number of goroutines and orders.           *)
(***************************************************************************)
THEOREM ConfirmedOut == Spec => []ConfirmedIsOut
<1>1. Init => ConfInv
  BY DEF Init, ConfInv, ConfirmedIsOut, NoCall
<1>2. ConfInv => ConfirmedIsOut
  BY DEF ConfInv
<1> QED
  BY <1>1, <1>2, ConfStep, TypeInvariant, PTL DEF Spec
=============================================================================
