-------------------------- MODULE BalancesStrategy --------------------------
(***************************************************************************)
(* BalancesStrategy (strategy_balances.go) on its TickerStrategy           *)
(* (strategy_ticker.go).  For every exchange the goroutine of Keep.Run     *)
(* calls Init and later Deinit; Init starts a goroutine that fetches the   *)
(* accounts of every asset type on each tick and publishes the result,     *)
(* which other goroutines read at any time.                                *)
(*                                                                         *)
(* A balance is known by its version: how often it has changed.            *)
(***************************************************************************)
EXTENDS Integers, FiniteSets

CONSTANTS
  Exchanges,
  Assets,       \* asset types, all enabled, on one account
  MaxVersion,   \* bound: how often a balance changes
  Absent        \* no balance in a snapshot, no snapshot

Versions == 0 .. MaxVersion
Snapshots == [Assets -> Versions \cup {Absent}]   \* ExchangeHoldings
Empty == [a \in Assets |-> Absent]                \* NewExchangeHoldings

ASSUME ExchangesAssumption == IsFiniteSet(Exchanges)
ASSUME MaxVersionAssumption == MaxVersion \in Nat
ASSUME AbsentAssumption == Absent \notin Int \cup Snapshots

VARIABLES
  balance,    \* external: the version of every balance at the exchange
  pc,         \* where Init and Deinit of each exchange are
  tickers,    \* the exchanges with a registered ticker
  buffered,   \* whether the channel of each ticker holds a tick
  loop,       \* where the tick goroutine of each exchange is
  todo,       \* the asset types that its pass has not come to
  building,   \* the snapshot its pass is filling
  holdings,   \* the snapshot published for each exchange
  resources,  \* the checker's counter for tick goroutines
  began,      \* history: the balances when the pass began
  lost,       \* history: the asset types whose fetch failed in the pass
  passed      \* history: the failures and begin of the pass last published

tickVars == <<loop, todo, building, began, lost>>
vars == <<balance, pc, tickers, buffered, tickVars, holdings, resources, passed>>

Passes == [lost : SUBSET Assets, began : [Assets -> Versions]]

TypeOK ==
  /\ balance \in [Exchanges -> [Assets -> Versions]]
  /\ pc \in [Exchanges -> {"start", "go", "register", "running", "stopped"}]
  /\ tickers = {e \in Exchanges : pc[e] = "running"}
  /\ buffered \in [Exchanges -> BOOLEAN]
  /\ loop \in [Exchanges -> {"none", "started", "begin", "fetch", "wait", "end"}]
  /\ todo \in [Exchanges -> SUBSET Assets]
  /\ building \in [Exchanges -> Snapshots]
  /\ holdings \in [Exchanges -> Snapshots \cup {Absent}]
  /\ resources = Cardinality({e \in Exchanges : loop[e] \in {"begin", "fetch", "wait"}})
  /\ began \in [Exchanges -> [Assets -> Versions]]
  /\ lost \in [Exchanges -> SUBSET Assets]
  /\ passed \in [Exchanges -> Passes \cup {Absent}]

Init ==
  /\ balance = [e \in Exchanges |-> [a \in Assets |-> 0]]
  /\ pc = [e \in Exchanges |-> "start"]
  /\ tickers = {}
  /\ buffered = [e \in Exchanges |-> FALSE]
  /\ loop = [e \in Exchanges |-> "none"]
  /\ todo = [e \in Exchanges |-> {}]
  /\ building = [e \in Exchanges |-> Empty]
  /\ holdings = [e \in Exchanges |-> Absent]
  /\ resources = 0
  /\ began = [e \in Exchanges |-> [a \in Assets |-> 0]]
  /\ lost = [e \in Exchanges |-> {}]
  /\ passed = [e \in Exchanges |-> Absent]

Goto(e, label) == pc' = [pc EXCEPT ![e] = label]
Loop(e, label) == loop' = [loop EXCEPT ![e] = label]
CheckerPush == resources' = resources + 1

\* What a reader on any goroutine gets, Absent for ErrHoldingsNotFound and for
\* the errors of CurrencyBalance.
ExchangeHoldings(e) == holdings[e]
CurrencyBalance(e, a) ==
  IF ExchangeHoldings(e) = Absent THEN Absent ELSE ExchangeHoldings(e)[a]

-----------------------------------------------------------------------------
\* External: trades and transfers change a balance.
Change(e, a) ==
  /\ balance[e][a] < MaxVersion
  /\ balance' = [balance EXCEPT ![e][a] = @ + 1]
  /\ UNCHANGED <<pc, tickers, buffered, tickVars, holdings, resources, passed>>

\* External: the timer fires; a tick nobody has taken yet absorbs the next.
Fire(e) ==
  /\ pc[e] \in {"go", "register", "running", "stopped"}
  /\ ~ buffered[e]
  /\ buffered' = [buffered EXCEPT ![e] = TRUE]
  /\ UNCHANGED <<balance, pc, tickers, tickVars, holdings, resources, passed>>

-----------------------------------------------------------------------------
(***************************************************************************)
(* Init and Deinit, on the goroutine of the exchange                       *)
(***************************************************************************)

\* BalancesStrategy.Init publishes an empty snapshot, and the ticker starts.
Begin(e) ==
  /\ pc[e] = "start"
  /\ holdings' = [holdings EXCEPT ![e] = Empty]
  /\ Goto(e, "go")
  /\ UNCHANGED <<balance, tickers, buffered, tickVars, resources, passed>>

\* go func() { ... }
Go(e) ==
  /\ pc[e] = "go"
  /\ Loop(e, "started")
  /\ Goto(e, "register")
  /\ UNCHANGED <<balance, tickers, buffered, todo, building, began, lost, holdings,
                 resources, passed>>

\* Init that publishes the empty snapshot last.
RegisterAndReset(e) ==
  /\ pc[e] = "register"
  /\ tickers' = tickers \cup {e}
  /\ holdings' = [holdings EXCEPT ![e] = Empty]
  /\ Goto(e, "running")
  /\ UNCHANGED <<balance, buffered, tickVars, resources, passed>>

\* tickers.LoadOrStore, which finds no ticker: Init is called once.
Register(e) ==
  /\ pc[e] = "register"
  /\ e \notin tickers
  /\ tickers' = tickers \cup {e}
  /\ Goto(e, "running")
  /\ UNCHANGED <<balance, buffered, tickVars, holdings, resources, passed>>

\* Deinit that leaves the ticker registered.
DeinitLoads(e) ==
  /\ pc[e] = "running"
  /\ e \in tickers
  /\ Goto(e, "stopped")
  /\ UNCHANGED <<balance, tickers, buffered, tickVars, holdings, resources, passed>>

\* Deinit takes the ticker out of the map and stops a copy of it: the timer
\* goes on firing, and the channel is not closed.
Deinit(e) ==
  /\ pc[e] = "running"
  /\ e \in tickers
  /\ tickers' = tickers \ {e}
  /\ Goto(e, "stopped")
  /\ UNCHANGED <<balance, buffered, tickVars, holdings, resources, passed>>

-----------------------------------------------------------------------------
(***************************************************************************)
(* tick, on the tick goroutine                                             *)
(***************************************************************************)

\* The goroutine counts itself, and calls TickFunc at once.
CountItself(e) ==
  /\ loop[e] = "started"
  /\ CheckerPush
  /\ Loop(e, "begin")
  /\ UNCHANGED <<balance, pc, tickers, buffered, todo, building, began, lost, holdings, passed>>

BeginPass(e) ==
  /\ loop[e] = "begin"
  /\ Loop(e, "fetch")
  /\ todo' = [todo EXCEPT ![e] = Assets]
  /\ building' = [building EXCEPT ![e] = Empty]
  /\ began' = [began EXCEPT ![e] = balance[e]]
  /\ lost' = [lost EXCEPT ![e] = {}]
  /\ UNCHANGED <<balance, pc, tickers, buffered, holdings, resources, passed>>

\* An error in the middle of a pass that ends the goroutine.
FetchOrQuit(e, a) ==
  /\ loop[e] = "fetch" /\ a \in todo[e]
  /\ todo' = [todo EXCEPT ![e] = @ \ {a}]
  /\ \/ building' = [building EXCEPT ![e][a] = balance[e][a]] /\ UNCHANGED <<lost, loop>>
     \/ lost' = [lost EXCEPT ![e] = @ \cup {a}] /\ Loop(e, "end") /\ UNCHANGED building
  /\ UNCHANGED <<balance, pc, tickers, buffered, began, holdings, resources, passed>>

\* UpdateAccountInfo for an asset type answers, or the error is logged and
\* the pass goes on without its balances.
Fetch(e, a) ==
  /\ loop[e] = "fetch" /\ a \in todo[e]
  /\ todo' = [todo EXCEPT ![e] = @ \ {a}]
  /\ \/ building' = [building EXCEPT ![e][a] = balance[e][a]] /\ UNCHANGED lost
     \/ lost' = [lost EXCEPT ![e] = @ \cup {a}] /\ UNCHANGED building
  /\ UNCHANGED <<balance, pc, tickers, buffered, loop, began, holdings, resources, passed>>

\* holdings.Store, and the goroutine waits for the next tick.
Publish(e) ==
  /\ loop[e] = "fetch" /\ todo[e] = {}
  /\ holdings' = [holdings EXCEPT ![e] = building[e]]
  /\ passed' = [passed EXCEPT ![e] = [lost |-> lost[e], began |-> began[e]]]
  /\ Loop(e, "wait")
  /\ UNCHANGED <<balance, pc, tickers, buffered, todo, building, began, lost, resources>>

Tick(e) ==
  /\ loop[e] = "wait" /\ buffered[e]
  /\ buffered' = [buffered EXCEPT ![e] = FALSE]
  /\ Loop(e, "begin")
  /\ UNCHANGED <<balance, pc, tickers, todo, building, began, lost, holdings, resources, passed>>

-----------------------------------------------------------------------------

TickStep(e) ==
  CountItself(e) \/ BeginPass(e) \/ (\E a \in Assets : Fetch(e, a)) \/ Publish(e) \/ Tick(e)

InitStep(e) == Begin(e) \/ Go(e) \/ Register(e)

Next ==
  \E e \in Exchanges :
    \/ InitStep(e) \/ Deinit(e) \/ TickStep(e) \/ Fire(e)
    \/ \E a \in Assets : Change(e, a)

Spec == Init /\ [][Next]_vars

\* Goroutines run, exchanges answer or time out, and the timer fires, unless
\* stopping the copy happened to stop it.
FairSpec ==
  /\ Spec
  /\ \A e \in Exchanges :
       /\ WF_vars(InitStep(e))
       /\ WF_vars(TickStep(e))
       /\ WF_vars(pc[e] # "stopped" /\ Fire(e))

-----------------------------------------------------------------------------

(***************************************************************************)
(* What is read once a pass was made is what that pass fetched: the        *)
(* balances it could not fetch are missing, and none is older than its     *)
(* begin.  In particular the empty snapshot of Init never replaces the     *)
(* result of the first pass, which runs before Init has returned.          *)
(***************************************************************************)
HoldingsOfLastPass ==
  \A e \in Exchanges :
    passed[e] # Absent =>
      \A a \in Assets :
        IF a \in passed[e].lost
        THEN CurrencyBalance(e, a) = Absent
        ELSE CurrencyBalance(e, a) \in passed[e].began[a] .. MaxVersion

(***************************************************************************)
(* From Init to Deinit passes are begun again and again, whichever fetches *)
(* fail: a failure costs one asset type one pass, and never the ticker.    *)
(***************************************************************************)
TicksUntilDeinit ==
  \A e \in Exchanges : []<>(loop[e] = "begin" \/ pc[e] = "stopped")
=============================================================================
