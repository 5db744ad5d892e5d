------------------------------ MODULE KeepBot ------------------------------
(***************************************************************************)
(* A bot from KeepBuilder.Build to its end (keep.go): the configuration is *)
(* read, the exchanges are loaded, and Run runs those in the manager.  Run *)
(* may be called although Build returned an error, as long as it returned  *)
(* a Keep.                                                                 *)
(***************************************************************************)
EXTENDS KeepRun, Integers

CONSTANTS Enabled, EnableAllExchanges, Authenticated  \* see SetupExchanges

ASSUME ConfigAssumption ==
  /\ IsFiniteSet(Exchanges)
  /\ Enabled \subseteq Exchanges /\ Authenticated \subseteq Exchanges
  /\ EnableAllExchanges \in BOOLEAN

VARIABLES
  build,                                            \* where Build is
  main, todo, group, at, starting, manager, loaded  \* of setupExchanges

setupVars == <<main, todo, group, at, starting, manager, loaded>>
botVars == <<build, setupVars, vars>>

S == INSTANCE SetupExchanges

BotTypeOK ==
  /\ build \in {"config", "augment", "setup", "not augmented", "no keep"}
  /\ S!SetupTypeOK
  /\ TypeOK

BotInit == build = "config" /\ S!Init /\ Init

\* Without a configuration Build returns no Keep.
ReadConfig ==
  /\ build = "config"
  /\ build' \in {"augment", "no keep"}
  /\ UNCHANGED <<setupVars, vars>>

\* Build returns the Keep and the error of augment, or goes on.
Augment ==
  /\ build = "augment"
  /\ build' \in {"setup", "not augmented"}
  /\ UNCHANGED <<setupVars, vars>>

SetupMain == build = "setup" /\ S!MainStep /\ UNCHANGED <<build, vars>>
SetupLoad(e) == build = "setup" /\ S!LoadStep(e) /\ UNCHANGED <<build, vars>>
SetupAnswered(e) == build = "setup" /\ S!ValidateAnswered(e) /\ UNCHANGED <<build, vars>>

Built == build = "not augmented" \/ main \in {"ok", "none loaded"}

\* Whoever has the Keep adds strategies, runs it and cancels its context.
Live == Built /\ Next(manager) /\ UNCHANGED <<build, setupVars>>

BotNext ==
  \/ ReadConfig \/ Augment \/ SetupMain
  \/ \E e \in Exchanges : SetupLoad(e) \/ SetupAnswered(e)
  \/ Live

BotSpec == BotInit /\ [][BotNext]_botVars

(***************************************************************************)
(* The goroutines run, strategies' methods return, a websocket opens or    *)
(* fails.  Exchanges answer while they are created, set up and started     *)
(* (HTTP requests time out); a validation need not be answered, it is      *)
(* ended by its context.  Nobody is obliged to call Run.  No step of Build *)
(* is taken twice, so that fairness of all of them is fairness of each.    *)
(***************************************************************************)
FairBotSpec ==
  /\ BotSpec
  /\ WF_botVars(ReadConfig \/ Augment \/ SetupMain \/ \E e \in Exchanges : SetupLoad(e))
  /\ \A e \in Exchanges : WF_vars(alive /\ Step(e))

-----------------------------------------------------------------------------

(***************************************************************************)
(* An exchange whose goroutine Run has started is in the manager, and is   *)
(* neither being loaded nor still busy with what its Start began: Build    *)
(* returns only after both, whichever exchanges fail on the way.           *)
(***************************************************************************)
SettledBeforeRun ==
  \A e \in Exchanges :
    pc[e] # "none" => e \in manager /\ at[e] = "end" /\ e \notin starting

(***************************************************************************)
(* The rule of sync.WaitGroup that loadExchange relies on when it hands    *)
(* the group of setupExchanges to the exchanges (keep.go): once somebody   *)
(* waits, the counter is added to only while it is not zero.               *)
(***************************************************************************)
AddedWhileCounted == S!AddedWhileCounted

(***************************************************************************)
(* Build returns, also when an exchange never answers the validation of    *)
(* its credentials: "we don't want to be waiting forever for this          *)
(* validation to complete" (keep.go).                                      *)
(***************************************************************************)
BuildReturns == <>(build = "no keep" \/ Built)

(***************************************************************************)
(* "no exchanges have been loaded" (ErrNoExchangesLoaded, keep.go): Build  *)
(* says so if no exchange was loaded.  Violated: an exchange stays in the  *)
(* manager when its validation or its Start has failed.                    *)
(***************************************************************************)
NoneLoadedIsError == main = "ok" => loaded
=============================================================================
