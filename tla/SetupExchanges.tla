--------------------------- MODULE SetupExchanges ---------------------------
(***************************************************************************)
(* setupExchanges and loadExchange (keep.go): a goroutine per enabled      *)
(* exchange creates it, sets it up, adds it to the manager, validates its  *)
(* credentials and starts it.  The wait group that setupExchanges waits on *)
(* is handed to the exchanges, which count their own work on it.           *)
(***************************************************************************)
EXTENDS Integers, FiniteSets

CONSTANTS
  Exchanges,           \* the exchanges of the configuration
  Enabled,             \* those that the configuration enables
  EnableAllExchanges,  \* the setting that loads the others too
  Authenticated        \* those with credentials, which are validated

VARIABLES
  main,      \* where setupExchanges is, or what it returned
  todo,      \* the configurations its loop has not reached
  group,     \* the counter of the wait group
  at,        \* where the goroutine of each exchange is
  starting,  \* external: exchanges at work since Start, counted on the group
  manager,   \* the exchanges in ExchangeManager
  loaded     \* history: whether loadExchange returned no error for any

vars == <<main, todo, group, at, starting, manager, loaded>>

Steps == {"create", "add", "validate", "start", "return"}

Loading == {e \in Exchanges : at[e] \in Steps}

\* The counter of a wait group that becomes negative is a panic.
SetupTypeOK ==
  /\ main \in {"range", "wait", "ok", "none loaded"}
  /\ todo \subseteq Exchanges
  /\ group \in Nat
  /\ at \in [Exchanges -> {"none", "end"} \cup Steps]
  /\ starting \subseteq manager
  /\ manager \subseteq Exchanges
  /\ loaded \in BOOLEAN

Init ==
  /\ main = "range"
  /\ todo = Exchanges
  /\ group = 0
  /\ at = [e \in Exchanges |-> "none"]
  /\ starting = {}
  /\ manager = {}
  /\ loaded = FALSE

Goto(e, label) == at' = [at EXCEPT ![e] = label]

-----------------------------------------------------------------------------
(***************************************************************************)
(* setupExchanges                                                          *)
(***************************************************************************)

Skip(e) ==
  /\ main = "range"
  /\ e \in todo \ Enabled /\ ~ EnableAllExchanges
  /\ todo' = todo \ {e}
  /\ UNCHANGED <<main, group, at, starting, manager, loaded>>

\* A goroutine that nobody counts until it is done.
SpawnUncounted(e) ==
  /\ main = "range"
  /\ e \in todo /\ (e \in Enabled \/ EnableAllExchanges)
  /\ todo' = todo \ {e}
  /\ Goto(e, "create")
  /\ UNCHANGED <<main, group, starting, manager, loaded>>

\* wg.Add(1), and the goroutine that loads the exchange.
Spawn(e) ==
  /\ main = "range"
  /\ e \in todo /\ (e \in Enabled \/ EnableAllExchanges)
  /\ todo' = todo \ {e}
  /\ group' = group + 1
  /\ Goto(e, "create")
  /\ UNCHANGED <<main, starting, manager, loaded>>

Wait ==
  /\ main = "range"
  /\ todo = {}
  /\ main' = "wait"
  /\ UNCHANGED <<todo, group, at, starting, manager, loaded>>

\* wg.Wait returns, and the exchanges in the manager are counted.
Return ==
  /\ main = "wait"
  /\ group = 0
  /\ main' = IF manager = {} THEN "none loaded" ELSE "ok"
  /\ UNCHANGED <<todo, group, at, starting, manager, loaded>>

-----------------------------------------------------------------------------
(***************************************************************************)
(* loadExchange, with the deferred wg.Done of its goroutine                *)
(***************************************************************************)

\* Done that is reached only when the exchange was loaded.
EndAndDoneIfLoaded(e, ok) ==
  /\ Goto(e, "end")
  /\ group' = IF ok THEN group - 1 ELSE group
  /\ loaded' = (loaded \/ ok)

\* An error path that calls Done beside the deferred one.
EndAndDoneTwice(e, ok) ==
  /\ Goto(e, "end")
  /\ group' = group - (IF ok THEN 1 ELSE 2)
  /\ loaded' = (loaded \/ ok)

EndAndDone(e, ok) ==
  /\ Goto(e, "end")
  /\ group' = group - 1
  /\ loaded' = (loaded \/ ok)

Fail(e) ==
  /\ EndAndDone(e, FALSE)
  /\ UNCHANGED <<main, todo, starting, manager>>

\* The exchange is created, given its defaults and settings, and set up; every
\* error, of the factory, of the pairs or of Setup, ends the goroutine.
CreateAndSetup(e) ==
  /\ at[e] = "create"
  /\ \/ Fail(e)
     \/ /\ Goto(e, "add")
        /\ UNCHANGED <<main, todo, group, starting, manager, loaded>>

Add(e) ==
  /\ at[e] = "add"
  /\ manager' = manager \cup {e}
  /\ Goto(e, IF e \in Authenticated THEN "validate" ELSE "start")
  /\ UNCHANGED <<main, todo, group, starting, loaded>>

ValidateAnswered(e) ==
  /\ at[e] = "validate"
  /\ \/ Fail(e)
     \/ /\ Goto(e, "start")
        /\ UNCHANGED <<main, todo, group, starting, manager, loaded>>

\* The context of the validation expires after five seconds.
ValidateTimesOut(e) == at[e] = "validate" /\ Fail(e)

\* Start(wg) adds itself to the group before it returns, or returns an error.
Start(e) ==
  /\ at[e] = "start"
  /\ \/ Fail(e)
     \/ /\ Goto(e, "return")
        /\ group' = group + 1
        /\ starting' = starting \cup {e}
        /\ UNCHANGED <<main, todo, manager, loaded>>

Loaded(e) ==
  /\ at[e] = "return"
  /\ EndAndDone(e, TRUE)
  /\ UNCHANGED <<main, todo, starting, manager>>

\* External: the work that the exchange began in Start is over; wg.Done.
StartEnds(e) ==
  /\ e \in starting
  /\ starting' = starting \ {e}
  /\ group' = group - 1
  /\ UNCHANGED <<main, todo, at, manager, loaded>>

-----------------------------------------------------------------------------

MainStep == Wait \/ Return \/ \E e \in Exchanges : Skip(e) \/ Spawn(e)

\* What the goroutine of e does without depending on an answer's coming.
LoadStep(e) ==
  \/ CreateAndSetup(e) \/ Add(e) \/ ValidateTimesOut(e) \/ Start(e) \/ Loaded(e)
  \/ StartEnds(e)

Next == MainStep \/ \E e \in Exchanges : LoadStep(e) \/ ValidateAnswered(e)

Spec == Init /\ [][Next]_vars

-----------------------------------------------------------------------------

(***************************************************************************)
(* The rule of sync.WaitGroup that loadExchange relies on when it hands    *)
(* the group to the exchanges: once somebody waits, the counter is added   *)
(* to only while it is not zero.                                           *)
(***************************************************************************)
AddedWhileCounted == [][main = "wait" /\ group = 0 => group' = 0]_vars
=============================================================================
