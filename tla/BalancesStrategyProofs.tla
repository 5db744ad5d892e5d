----------------------- MODULE BalancesStrategyProofs -----------------------
(***************************************************************************)
(* What is published, for any number of exchanges, asset types and changes *)
(* of a balance.                                                           *)
(***************************************************************************)
EXTENDS BalancesStrategy, FiniteSetTheorems, TLAPS

USE MaxVersionAssumption, AbsentAssumption DEF Versions, Snapshots, Empty

(***************************************************************************)
(* Types, without the tickers and the counter of the checker: see          *)
(* CountedInv.                                                             *)
(***************************************************************************)
Types ==
  /\ balance \in [Exchanges -> [Assets -> Versions]]
  /\ pc \in [Exchanges -> {"start", "go", "register", "running", "stopped"}]
  /\ loop \in [Exchanges -> {"none", "started", "begin", "fetch", "wait", "end"}]
  /\ todo \in [Exchanges -> SUBSET Assets]
  /\ building \in [Exchanges -> Snapshots]
  /\ holdings \in [Exchanges -> Snapshots \cup {Absent}]
  /\ began \in [Exchanges -> [Assets -> Versions]]
  /\ lost \in [Exchanges -> SUBSET Assets]
  /\ passed \in [Exchanges -> Passes \cup {Absent}]

(***************************************************************************)
(* The snapshot a pass is filling holds what the pass has come to: missing *)
(* if it failed, and else not older than the begin of the pass.            *)
(***************************************************************************)
Filling(e) ==
  \A a \in Assets :
    /\ began[e][a] <= balance[e][a]
    /\ a \notin todo[e] \cap lost[e]
    /\ IF a \in todo[e] \cup lost[e]
       THEN building[e][a] = Absent
       ELSE building[e][a] # Absent /\ building[e][a] >= began[e][a]

\* HoldingsOfLastPass, of one exchange.
Published(e) ==
  passed[e] # Absent =>
    \A a \in Assets :
      IF a \in passed[e].lost
      THEN CurrencyBalance(e, a) = Absent
      ELSE CurrencyBalance(e, a) \in passed[e].began[a] .. MaxVersion

(***************************************************************************)
(* No pass begins, nor ends, before Init has published the empty snapshot. *)
(***************************************************************************)
ExchangeInv(e) ==
  /\ pc[e] \in {"start", "go"} => loop[e] = "none" /\ passed[e] = Absent
  /\ loop[e] = "none" => passed[e] = Absent
  /\ loop[e] = "fetch" => Filling(e)
  /\ Published(e)

HoldingsInv == Types /\ \A e \in Exchanges : ExchangeInv(e)

Step(e) ==
  \/ Begin(e) \/ Go(e) \/ Register(e) \/ Deinit(e) \/ Fire(e)
  \/ CountItself(e) \/ BeginPass(e) \/ Publish(e) \/ Tick(e)
  \/ \E a \in Assets : Fetch(e, a) \/ Change(e, a)

-----------------------------------------------------------------------------
(***************************************************************************)
(* Every step is one for some exchange.                                    *)
(***************************************************************************)
LEMMA NextIsStep == Next => \E e \in Exchanges : Step(e)
  BY DEF Next, Step, InitStep, TickStep

(***************************************************************************)
(* Every step of Init, Deinit, the timer and the passes keeps the types.   *)
(***************************************************************************)
LEMMA TypesStep ==
  ASSUME Types, NEW e \in Exchanges, Step(e)
  PROVE  Types'
<1>1. CASE Begin(e)
      BY <1>1 DEF Begin, Goto, tickVars, Types
<1>2. CASE Go(e) \/ CountItself(e)
      BY <1>2 DEF Go, CountItself, Goto, Loop, Types
<1>3. CASE Register(e) \/ Deinit(e) \/ Fire(e)
      BY <1>3 DEF Register, Deinit, Fire, Goto, tickVars, Types
<1>4. CASE BeginPass(e)
      <2> Empty \in Snapshots
          OBVIOUS
      <2> HIDE DEF Empty, Snapshots
      <2> QED BY <1>4 DEF BeginPass, Loop, Types
<1>5. ASSUME NEW a \in Assets, Fetch(e, a) PROVE Types'
      <2>1. building' \in [Exchanges -> Snapshots]
            <3>1. CASE building' = [building EXCEPT ![e][a] = balance[e][a]]
                  <4>1. building[e] \in Snapshots /\ balance[e][a] \in Versions
                        BY DEF Types
                  <4>2. [building[e] EXCEPT ![a] = balance[e][a]] \in Snapshots
                        BY <4>1
                  <4> HIDE DEF Snapshots
                  <4> QED BY <3>1, <4>2 DEF Types
            <3> QED BY <1>5, <3>1 DEF Fetch, Types
      <2> HIDE DEF Snapshots
      <2>2. todo' \in [Exchanges -> SUBSET Assets]
            BY <1>5 DEF Fetch, Types
      <2>3. lost' \in [Exchanges -> SUBSET Assets]
            <3>1. lost[e] \cup {a} \in SUBSET Assets
                  BY DEF Types
            <3>2. lost' = lost \/ lost' = [lost EXCEPT ![e] = lost[e] \cup {a}]
                  BY <1>5 DEF Fetch
            <3> QED BY <3>1, <3>2 DEF Types
      <2> QED BY <1>5, <2>1, <2>2, <2>3 DEF Fetch, Types
<1>6. CASE Publish(e)
      BY <1>6 DEF Publish, Loop, Types, Passes
<1>7. CASE Tick(e)
      BY <1>7 DEF Tick, Loop, Types
<1>8. ASSUME NEW a \in Assets, Change(e, a) PROVE Types'
      BY <1>8 DEF Change, tickVars, Types
<1> QED BY <1>1, <1>2, <1>3, <1>4, <1>5, <1>6, <1>7, <1>8 DEF Step

(***************************************************************************)
(* A step for one exchange does not touch what the invariant says of       *)
(* another one.                                                            *)
(***************************************************************************)
LEMMA Others ==
  ASSUME HoldingsInv, NEW e \in Exchanges, NEW f \in Exchanges, f # e, Step(e)
  PROVE  ExchangeInv(f)'
<1>1. /\ balance'[f] = balance[f] /\ pc'[f] = pc[f] /\ loop'[f] = loop[f]
      /\ todo'[f] = todo[f] /\ building'[f] = building[f]
      /\ holdings'[f] = holdings[f] /\ began'[f] = began[f]
      /\ lost'[f] = lost[f] /\ passed'[f] = passed[f]
      BY DEF HoldingsInv, Types, Step, Begin, Go, Register, Deinit, Fire, CountItself,
             BeginPass, Publish, Tick, Fetch, Change, Goto, Loop, tickVars
<1>2. ExchangeInv(f)
      BY DEF HoldingsInv
<1> QED BY <1>1, <1>2 DEF ExchangeInv, Filling, Published, CurrencyBalance, ExchangeHoldings

(***************************************************************************)
(* Every step for an exchange keeps what the invariant says of it.         *)
(***************************************************************************)
LEMMA Own ==
  ASSUME HoldingsInv, NEW e \in Exchanges, Step(e)
  PROVE  ExchangeInv(e)'
<1> ExchangeInv(e) /\ Types
    BY DEF HoldingsInv
<1>1. CASE Begin(e)
      BY <1>1 DEF Begin, Goto, tickVars, Types, ExchangeInv, Filling, Published, CurrencyBalance, ExchangeHoldings
<1>2. CASE Go(e) \/ CountItself(e)
      BY <1>2 DEF Go, CountItself, Goto, Loop, Types, ExchangeInv, Filling, Published, CurrencyBalance, ExchangeHoldings
<1>3. CASE Register(e) \/ Deinit(e) \/ Fire(e)
      BY <1>3 DEF Register, Deinit, Fire, Goto, tickVars, Types, ExchangeInv, Filling, Published, CurrencyBalance, ExchangeHoldings
<1>4. CASE BeginPass(e)
      BY <1>4 DEF BeginPass, Loop, Types, ExchangeInv, Filling, Published, CurrencyBalance, ExchangeHoldings
<1>5. ASSUME NEW a \in Assets, Fetch(e, a) PROVE ExchangeInv(e)'
      <2>1. Filling(e) /\ a \in todo[e] /\ balance[e][a] \in Versions
            BY <1>5 DEF Fetch, ExchangeInv, Types
      <2>2. /\ todo'[e] = todo[e] \ {a} /\ began'[e] = began[e]
            /\ balance'[e] = balance[e] /\ began[e] \in [Assets -> Versions]
            BY <1>5 DEF Fetch, Types
      <2>3. Filling(e)'
            <3>1. CASE /\ building' = [building EXCEPT ![e][a] = balance[e][a]]
                       /\ UNCHANGED lost
                  <4>1. building'[e][a] = balance[e][a] /\ lost'[e] = lost[e]
                        BY <3>1 DEF Types
                  <4>2. ASSUME NEW b \in Assets, b # a
                        PROVE  building'[e][b] = building[e][b]
                        BY <3>1, <4>2 DEF Types
                  <4> QED BY <2>1, <2>2, <4>1, <4>2 DEF Filling
            <3>2. CASE /\ lost' = [lost EXCEPT ![e] = @ \cup {a}]
                       /\ UNCHANGED building
                  <4>1. lost'[e] = lost[e] \cup {a} /\ building'[e] = building[e]
                        BY <3>2 DEF Types
                  <4> QED BY <2>1, <2>2, <4>1 DEF Filling
            <3> QED BY <1>5, <3>1, <3>2 DEF Fetch
      <2> QED BY <1>5, <2>3 DEF Fetch, ExchangeInv, Published, CurrencyBalance, ExchangeHoldings
<1>6. CASE Publish(e)
      <2>1. /\ Filling(e) /\ todo[e] = {}
            /\ building[e] \in Snapshots /\ began[e] \in [Assets -> Versions]
            BY <1>6 DEF Publish, ExchangeInv, Types
      <2>2. /\ passed'[e].lost = lost[e] /\ passed'[e].began = began[e]
            /\ holdings'[e] = building[e]
            BY <1>6 DEF Publish, Types
      <2>3. Published(e)'
            BY <2>1, <2>2 DEF Published, CurrencyBalance, ExchangeHoldings, Filling
      <2> QED BY <1>6, <2>3 DEF Publish, Loop, Types, ExchangeInv
<1>7. CASE Tick(e)
      BY <1>7 DEF Tick, Loop, Types, ExchangeInv, Filling, Published, CurrencyBalance, ExchangeHoldings
<1>8. ASSUME NEW a \in Assets, Change(e, a) PROVE ExchangeInv(e)'
      BY <1>8 DEF Change, tickVars, Types, ExchangeInv, Filling, Published, CurrencyBalance, ExchangeHoldings
<1> QED BY <1>1, <1>2, <1>3, <1>4, <1>5, <1>6, <1>7, <1>8 DEF Step

(***************************************************************************)
(* HoldingsInv holds in every reachable state.                             *)
(***************************************************************************)
LEMMA HoldingsInvariant == Spec => []HoldingsInv
<1>1. Init => HoldingsInv
      BY DEF Init, HoldingsInv, Types, ExchangeInv, Published, CurrencyBalance, ExchangeHoldings
<1>2. HoldingsInv /\ [Next]_vars => HoldingsInv'
      <2> SUFFICES ASSUME HoldingsInv, [Next]_vars PROVE HoldingsInv'
          OBVIOUS
      <2>1. CASE UNCHANGED vars
            BY <2>1 DEF vars, tickVars, HoldingsInv, Types, ExchangeInv, Filling, Published, CurrencyBalance, ExchangeHoldings
      <2>2. CASE Next
            <3> PICK e \in Exchanges : Step(e)
                BY <2>2, NextIsStep
            <3>1. Types'
                  BY TypesStep DEF HoldingsInv
            <3>2. \A f \in Exchanges : ExchangeInv(f)'
                  BY Others, Own
            <3> QED BY <3>1, <3>2 DEF HoldingsInv
      <2> QED BY <2>1, <2>2
<1> QED BY <1>1, <1>2, PTL DEF Spec

(***************************************************************************)
(* What is published is what the last pass fetched.                        *)
(***************************************************************************)
THEOREM HoldingsCorrect == Spec => []HoldingsOfLastPass
<1>1. HoldingsInv => HoldingsOfLastPass
      BY DEF HoldingsInv, ExchangeInv, Published, HoldingsOfLastPass
<1> QED BY <1>1, HoldingsInvariant, PTL

-----------------------------------------------------------------------------
(***************************************************************************)
(* The tickers and the checker                                             *)
(***************************************************************************)

Ticking == {e \in Exchanges : loop[e] \in {"begin", "fetch", "wait"}}

(***************************************************************************)
(* A ticker is registered between Init and Deinit, and the checker's       *)
(* counter is the number of tick goroutines that have counted themselves.  *)
(***************************************************************************)
CountedInv ==
  /\ tickers = {e \in Exchanges : pc[e] = "running"}
  /\ buffered \in [Exchanges -> BOOLEAN]
  /\ resources = Cardinality(Ticking)

(***************************************************************************)
(* Every step keeps tickers and counter in line with the goroutines.       *)
(***************************************************************************)
LEMMA CountedStep ==
  ASSUME HoldingsInv, CountedInv, NEW e \in Exchanges, Step(e)
  PROVE  CountedInv'
<1>0. Types /\ ExchangeInv(e)
      BY DEF HoldingsInv
<1>1. CASE CountItself(e)
      <2>1. /\ loop' = [loop EXCEPT ![e] = "begin"]
            /\ loop[e] = "started" /\ resources' = resources + 1
            /\ UNCHANGED <<pc, tickers, buffered>>
            BY <1>1 DEF CountItself, Loop, CheckerPush
      <2>2. e \notin Ticking /\ Ticking' = Ticking \cup {e}
            BY <1>0, <2>1 DEF Ticking, Types
      <2>3. IsFiniteSet(Ticking)
            BY ExchangesAssumption, FS_Subset DEF Ticking
      <2>4. Cardinality(Ticking') = Cardinality(Ticking) + 1
            BY <2>2, <2>3, FS_AddElement
      <2>5. tickers' = {f \in Exchanges : pc'[f] = "running"}
            BY <2>1 DEF CountedInv
      <2> QED BY <2>1, <2>4, <2>5 DEF CountedInv
<1>2. CASE ~ CountItself(e)
      <2>1. Ticking' = Ticking /\ resources' = resources
            BY <1>0, <1>2 DEF Step, Begin, Go, Register, Deinit, Fire, BeginPass, Publish, Tick,
               Fetch, Change, Loop, tickVars, Ticking, Types, ExchangeInv
      <2>2. buffered' \in [Exchanges -> BOOLEAN]
            BY <1>2 DEF CountedInv, Step, Begin, Go, Register, Deinit, Fire, BeginPass, Publish,
               Tick, Fetch, Change
      <2>3. tickers' = {f \in Exchanges : pc'[f] = "running"}
            <3>1. CASE Begin(e) \/ Go(e)
                  BY <1>0, <3>1 DEF Begin, Go, Goto, CountedInv, Types
            <3>2. CASE Register(e)
                  BY <1>0, <3>2 DEF Register, Goto, CountedInv, Types
            <3>3. CASE Deinit(e)
                  BY <1>0, <3>3 DEF Deinit, Goto, CountedInv, Types
            <3>4. CASE UNCHANGED <<pc, tickers>>
                  BY <3>4 DEF CountedInv
            <3> QED BY <1>2, <3>1, <3>2, <3>3, <3>4 DEF Step, Fire, BeginPass, Publish, Tick,
                       Fetch, Change
      <2> QED BY <2>1, <2>2, <2>3 DEF CountedInv
<1> QED BY <1>1, <1>2

(***************************************************************************)
(* Every variable keeps its type, the tickers and the counter agree with   *)
(* the goroutines.                                                         *)
(***************************************************************************)
THEOREM BalancesTypeOK == Spec => []TypeOK
<1>1. Init => CountedInv
      <2> SUFFICES ASSUME Init PROVE CountedInv
          OBVIOUS
      <2>1. Ticking = {} /\ resources = 0
            BY DEF Init, Ticking
      <2>2. resources = Cardinality(Ticking)
            BY <2>1, FS_EmptySet
      <2> QED BY <2>2 DEF Init, CountedInv
<1>2. HoldingsInv /\ CountedInv /\ [Next]_vars => CountedInv'
      <2> SUFFICES ASSUME HoldingsInv, CountedInv, [Next]_vars PROVE CountedInv'
          OBVIOUS
      <2>1. CASE UNCHANGED vars
            BY <2>1 DEF vars, tickVars, CountedInv, Ticking
      <2>2. CASE Next
            <3> PICK e \in Exchanges : Step(e)
                BY <2>2, NextIsStep
            <3> QED BY CountedStep
      <2> QED BY <2>1, <2>2
<1>3. HoldingsInv /\ CountedInv => TypeOK
      BY DEF HoldingsInv, Types, CountedInv, Ticking, TypeOK
<1> QED BY <1>1, <1>2, <1>3, HoldingsInvariant, PTL DEF Spec
=============================================================================
