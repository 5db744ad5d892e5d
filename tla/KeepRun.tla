------------------------------ MODULE KeepRun ------------------------------
(***************************************************************************)
(* The life of a running bot: Keep.Run and Loop (keep.go), Stream          *)
(* (websocket.go) and RootStrategy (strategy_root.go).  Run starts one     *)
(* goroutine per exchange.  Each of them initializes the strategies,       *)
(* passes them the events of its exchange and deinitializes them, and any  *)
(* panic ends the process, wherever the other goroutines are.              *)
(***************************************************************************)
EXTENDS FiniteSets

CONSTANTS
  Exchanges,
  Websocket,   \* the exchanges whose websocket is enabled
  Residents,   \* strategies added before Run and never deleted
  Guests,      \* strategies added and deleted while the bot runs
  Dedicated,   \* those wrapped in a DedicatedStrategy
  Home         \* the exchange of the DedicatedStrategy

ASSUME WebsocketAssumption == Websocket \subseteq Exchanges
ASSUME StrategiesAssumption == Residents \cap Guests = {}
ASSUME DedicatedAssumption == Dedicated \subseteq Residents \cup Guests /\ Home \in Exchanges

Strategies == Residents \cup Guests

VARIABLES
  root,       \* the strategies in RootStrategy
  cancelled,  \* whether the context was cancelled
  alive,      \* FALSE once the process has panicked
  pc,         \* where the goroutine of each exchange is
  visited,    \* the strategies each goroutine's Range has visited
  due,        \* the strategies it has to visit
  err,        \* whether one of them returned an error
  phase       \* history: what each strategy was last told about an exchange

vars == <<root, cancelled, alive, pc, visited, due, err, phase>>

Ranging == {"init", "event", "deinit"}  \* inside RootStrategy.each

TypeOK ==
  /\ root \subseteq Strategies /\ Residents \subseteq root
  /\ cancelled \in BOOLEAN
  /\ alive \in BOOLEAN
  /\ pc \in [Exchanges -> {"none", "start", "loop", "stream", "end"} \cup Ranging]
  /\ visited \in [Exchanges -> SUBSET Strategies]
  /\ due \in [Exchanges -> SUBSET Strategies]
  /\ err \in [Exchanges -> BOOLEAN]
  /\ phase \in [Strategies \X Exchanges -> {"new", "init failed", "initialized", "deinitialized"}]

Init ==
  /\ root = Residents
  /\ cancelled = FALSE
  /\ alive = TRUE
  /\ pc = [e \in Exchanges |-> "none"]
  /\ visited = [e \in Exchanges |-> {}]
  /\ due = [e \in Exchanges |-> {}]
  /\ err = [e \in Exchanges |-> FALSE]
  /\ phase = [se \in Strategies \X Exchanges |-> "new"]

Goto(e, label) == pc' = [pc EXCEPT ![e] = label]

Panic(e) ==
  /\ Goto(e, "end")
  /\ alive' = FALSE
  /\ UNCHANGED <<root, cancelled, visited, due, err, phase>>

-----------------------------------------------------------------------------
(***************************************************************************)
(* RootStrategy: a sync.Map.  Range visits no strategy twice and every one *)
(* that is there from its begin to its end; of the others it may miss any. *)
(***************************************************************************)

Add(s) ==
  /\ root' = root \cup {s}
  /\ UNCHANGED <<cancelled, alive, pc, visited, due, err, phase>>

Delete(s) ==
  /\ root' = root \ {s}
  /\ due' = [e \in Exchanges |-> due[e] \ {s}]
  /\ UNCHANGED <<cancelled, alive, pc, visited, err, phase>>

\* each is called for the label's method of every strategy.
Each(e, label) ==
  /\ Goto(e, label)
  /\ visited' = [visited EXCEPT ![e] = {}]
  /\ due' = [due EXCEPT ![e] = root]
  /\ err' = [err EXCEPT ![e] = FALSE]
  /\ UNCHANGED <<root, cancelled, alive, phase>>

\* each that stops at the first error.
NoteErrorAndStop(e, ok) ==
  /\ err' = [err EXCEPT ![e] = @ \/ ~ ok]
  /\ due' = [due EXCEPT ![e] = IF ok THEN @ ELSE {}]

\* The error is appended to the others and Range goes on.
NoteError(e, ok) ==
  /\ err' = [err EXCEPT ![e] = @ \/ ~ ok]
  /\ UNCHANGED due

\* A DedicatedStrategy calls the strategy it wraps for its own exchange only.
Concerns(s, e) == s \in Dedicated => e = Home

PhaseAfter(se, label, ok) ==
  CASE label = "init"   -> IF ok THEN "initialized" ELSE "init failed"
    [] label = "deinit" -> "deinitialized"
    [] OTHER            -> phase[se]

\* One strategy's method is called, and returns an error or not.
Visit(e, s) ==
  /\ pc[e] \in Ranging
  /\ s \in root \ visited[e]
  /\ visited' = [visited EXCEPT ![e] = @ \cup {s}]
  /\ \/ /\ Concerns(s, e)
        /\ \E ok \in BOOLEAN :
             /\ NoteError(e, ok)
             /\ phase' = [phase EXCEPT ![<<s, e>>] = PhaseAfter(<<s, e>>, pc[e], ok)]
     \/ /\ ~ Concerns(s, e)
        /\ NoteError(e, TRUE)
        /\ UNCHANGED phase
  /\ UNCHANGED <<root, cancelled, alive, pc>>

RangeEnds(e, label) == pc[e] = label /\ due[e] \subseteq visited[e]

\* each has returned, and what it kept is gone.
Leave(e, label) ==
  /\ Goto(e, label)
  /\ visited' = [visited EXCEPT ![e] = {}]
  /\ due' = [due EXCEPT ![e] = {}]
  /\ err' = [err EXCEPT ![e] = FALSE]
  /\ UNCHANGED <<root, cancelled, alive, phase>>

-----------------------------------------------------------------------------
(***************************************************************************)
(* Keep.Run, Loop and Stream                                               *)
(***************************************************************************)

\* Run starts the goroutines of the exchanges in the manager.  With none it
\* returns at once.
Run(exchgs) ==
  /\ \A e \in Exchanges : pc[e] = "none"
  /\ pc' = [e \in Exchanges |-> IF e \in exchgs THEN "start" ELSE "none"]
  /\ UNCHANGED <<root, cancelled, alive, visited, due, err, phase>>

Start(e) ==
  /\ pc[e] = "start"
  /\ Each(e, "init")

\* Run that logs the error of Init and goes on.
InitReturnsAnyway(e) == RangeEnds(e, "init") /\ Leave(e, "loop")

InitReturns(e) ==
  /\ RangeEnds(e, "init")
  /\ \/ err[e] /\ Panic(e)
     \/ ~ err[e] /\ Leave(e, "loop")

\* Loop without websocket waits for the context.
LoopReturns(e) ==
  /\ pc[e] = "loop"
  /\ e \notin Websocket
  /\ cancelled
  /\ Each(e, "deinit")

\* Stream returns the error of openWebsocket, or starts to receive.
OpenWebsocket(e) ==
  /\ pc[e] = "loop"
  /\ e \in Websocket
  /\ \/ Each(e, "deinit")
     \/ /\ Goto(e, "stream")
        /\ UNCHANGED <<root, cancelled, alive, visited, due, err, phase>>

\* Data is received, and handleData has an On*() method called.
Receive(e) ==
  /\ pc[e] = "stream"
  /\ Each(e, "event")

\* handleError logs the error of the method; Stream receives again.
Handled(e) == RangeEnds(e, "event") /\ Leave(e, "stream")

\* The channel closes, or brings a ClassificationError without an error.
StreamPanics(e) == pc[e] = "stream" /\ Panic(e)

\* Run whose goroutine just ends.
DeinitReturnsQuietly(e) == RangeEnds(e, "deinit") /\ Leave(e, "end")

\* Deinit's error is a panic, and so is that Loop has returned.
DeinitReturns(e) == RangeEnds(e, "deinit") /\ Panic(e)

Cancel ==
  /\ ~ cancelled
  /\ cancelled' = TRUE
  /\ UNCHANGED <<root, alive, pc, visited, due, err, phase>>

-----------------------------------------------------------------------------

Step(e) ==
  \/ Start(e) \/ InitReturns(e) \/ LoopReturns(e) \/ OpenWebsocket(e)
  \/ Handled(e) \/ DeinitReturns(e)
  \/ \E s \in Strategies : Visit(e, s)

\* What a bot on the exchanges of its manager may do.
Next(exchgs) ==
  /\ alive
  /\ \/ Run(exchgs)
     \/ \E e \in Exchanges : Step(e) \/ Receive(e) \/ StreamPanics(e)
     \/ \E s \in Guests : Add(s) \/ Delete(s)
     \/ Cancel

Spec == Init /\ [][\E exchgs \in SUBSET Exchanges : Next(exchgs)]_vars

-----------------------------------------------------------------------------

Told(e, s) == s \in visited'[e] \ visited[e]

(***************************************************************************)
(* For every exchange a resident is initialized first, is passed events    *)
(* only after its Init returned without error, and is deinitialized only   *)
(* if it had been initialized, once.                                       *)
(***************************************************************************)
CallsInOrder ==
  [][\A e \in Exchanges, s \in Residents :
       Told(e, s) /\ Concerns(s, e) =>
         phase[<<s, e>>] = IF pc[e] = "init" THEN "new" ELSE "initialized"]_vars

(***************************************************************************)
(* An event reaches every resident, whichever strategies return errors and *)
(* whichever others are added or deleted while it is passed around; and so *)
(* do Init and Deinit before Run acts on what they returned.               *)
(***************************************************************************)
EveryResidentTold ==
  [][\A e \in Exchanges :
       pc[e] \in Ranging /\ pc'[e] # pc[e] => Residents \subseteq visited[e]]_vars

(***************************************************************************)
(* No exchange handles an event if the Init of any strategy it called      *)
(* failed for that exchange.                                               *)
(***************************************************************************)
NoEventsAfterFailedInit ==
  \A e \in Exchanges, s \in Strategies :
    phase[<<s, e>>] = "init failed" => pc[e] \in {"init", "end"}

(***************************************************************************)
(* A bot that runs an exchange without websocket ends once the context is  *)
(* cancelled, whatever its other exchanges are doing.                      *)
(***************************************************************************)
CancelEndsBot ==
  cancelled /\ (\E e \in Exchanges \ Websocket : pc[e] # "none") ~> ~ alive
=============================================================================
