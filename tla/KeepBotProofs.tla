--------------------------- MODULE KeepBotProofs ---------------------------
(***************************************************************************)
(* Loading the exchanges and running them, for any number of exchanges     *)
(***************************************************************************)
EXTENDS KeepBot, FiniteSetTheorems, TLAPS

USE ConfigAssumption

Returned == {"ok", "none loaded"}

\* Where the goroutine of an exchange may be.
Labels == {"none", "start", "loop", "stream", "end"} \cup Ranging

(***************************************************************************)
(* The group counts the goroutines that load an exchange and the work they *)
(* began in Start; when setupExchanges has returned there is none of       *)
(* either.  An exchange is in the manager from Add on.                     *)
(***************************************************************************)
SetupInv ==
  /\ main \in {"range", "wait"} \cup Returned
  /\ at \in [Exchanges -> {"none", "end"} \cup S!Steps]
  /\ starting \subseteq manager /\ manager \subseteq Exchanges
  /\ group = Cardinality(S!Loading) + Cardinality(starting)
  /\ \A e \in Exchanges : at[e] \in {"validate", "start", "return"} => e \in manager
  /\ \A e \in manager : at[e] \in {"validate", "start", "return", "end"}
  /\ \A e \in starting : at[e] \in {"return", "end"}
  /\ todo \subseteq Exchanges /\ \A e \in todo : at[e] = "none"
  /\ main \in Returned => S!Loading = {} /\ starting = {}

(***************************************************************************)
(* The two sets the group counts are finite.                               *)
(***************************************************************************)
LEMMA CountedFinite ==
  ASSUME SetupInv
  PROVE  /\ IsFiniteSet(S!Loading) /\ IsFiniteSet(starting)
         /\ Cardinality(S!Loading) \in Nat /\ Cardinality(starting) \in Nat
<1>1. S!Loading \subseteq Exchanges /\ starting \subseteq Exchanges
  BY DEF S!Loading, SetupInv
<1>2. IsFiniteSet(S!Loading) /\ IsFiniteSet(starting)
  BY <1>1, FS_Subset
<1> QED
  BY <1>2, FS_CardinalityType

(***************************************************************************)
(* A counter of zero means that nothing is counted.                        *)
(***************************************************************************)
LEMMA ZeroMeansNone ==
  ASSUME SetupInv, group = 0
  PROVE  S!Loading = {} /\ starting = {}
<1>1. Cardinality(S!Loading) = 0 /\ Cardinality(starting) = 0
  BY CountedFinite DEF SetupInv
<1> QED
  BY <1>1, CountedFinite, FS_EmptySet

(***************************************************************************)
(* A goroutine that goes from one step of the loading to the next stays    *)
(* counted, one that ends is counted no more.                              *)
(***************************************************************************)
LEMMA LoadingAfter ==
  ASSUME SetupInv, NEW e \in Exchanges, NEW label, S!Goto(e, label)
  PROVE  /\ label \in S!Steps => S!Loading' = S!Loading \cup {e}
         /\ label \notin S!Steps => S!Loading' = S!Loading \ {e}
  BY DEF SetupInv, S!Goto, S!Loading

(***************************************************************************)
(* Every step of the loading keeps the count.                              *)
(***************************************************************************)
LEMMA SetupStep == SetupInv /\ S!Next => SetupInv'
<1> SUFFICES ASSUME SetupInv, S!Next PROVE SetupInv'
  OBVIOUS
<1>0. /\ at \in [Exchanges -> {"none", "end"} \cup S!Steps]
      /\ starting \subseteq manager /\ manager \subseteq Exchanges
      /\ group = Cardinality(S!Loading) + Cardinality(starting)
      /\ Cardinality(S!Loading) \in Nat /\ Cardinality(starting) \in Nat
      /\ IsFiniteSet(S!Loading) /\ IsFiniteSet(starting)
  BY CountedFinite DEF SetupInv
<1>1. ASSUME NEW e \in Exchanges, S!Skip(e) PROVE SetupInv'
  BY <1>1 DEF S!Skip, SetupInv, S!Loading
<1>2. CASE S!Wait
  BY <1>2 DEF S!Wait, SetupInv, S!Loading, Returned
<1>3. CASE S!Return
  BY <1>3, ZeroMeansNone DEF S!Return, SetupInv, S!Loading, Returned
<1>4. ASSUME NEW e \in Exchanges, S!Spawn(e) PROVE SetupInv'
  <2>1. /\ S!Goto(e, "create") /\ group' = group + 1 /\ main = "range"
        /\ UNCHANGED <<main, starting, manager>>
        /\ e \in todo /\ todo' = todo \ {e} /\ at[e] = "none"
    BY <1>4 DEF S!Spawn, SetupInv
  <2>2. e \notin S!Loading /\ S!Loading' = S!Loading \cup {e}
    BY <2>1, LoadingAfter DEF S!Loading, S!Steps
  <2>3. Cardinality(S!Loading') = Cardinality(S!Loading) + 1
    BY <1>0, <2>2, FS_AddElement
  <2>4. at' = [at EXCEPT ![e] = "create"] /\ "create" \in S!Steps /\ e \notin manager
    BY <2>1 DEF S!Goto, S!Steps, SetupInv
  <2> QED
    BY <1>0, <2>1, <2>3, <2>4 DEF SetupInv, Returned
\* The end of a goroutine that is counted.
<1>5. ASSUME NEW e \in Exchanges, at[e] \in S!Steps, NEW ok \in BOOLEAN, S!EndAndDone(e, ok),
             UNCHANGED <<main, todo, starting, manager>>
      PROVE  SetupInv'
  <2>1. at' = [at EXCEPT ![e] = "end"] /\ group' = group - 1
    BY <1>5 DEF S!EndAndDone, S!Goto
  <2>2. e \in S!Loading /\ S!Loading' = S!Loading \ {e}
    BY <1>5, LoadingAfter DEF S!Loading, S!Steps, S!EndAndDone
  <2>3. Cardinality(S!Loading') = Cardinality(S!Loading) - 1
    BY <1>0, <2>2, FS_RemoveElement
  <2>4. e \notin todo
    BY <1>5 DEF SetupInv, S!Steps
  <2> QED
    BY <1>0, <1>5, <2>1, <2>2, <2>3, <2>4 DEF SetupInv
\* The step of a goroutine to another one, which leaves the count alone.
<1>6. ASSUME NEW e \in Exchanges, at[e] \in {"create", "add", "validate"},
             NEW label \in {"add", "validate", "start"}, S!Goto(e, label),
             UNCHANGED <<main, todo, group, starting>>,
             \/ label = "add" /\ at[e] = "create" /\ manager' = manager
             \/ label # "add" /\ manager' = manager \cup {e}
      PROVE  SetupInv'
  <2>1. at[e] \in S!Steps /\ label \in S!Steps
    BY <1>6 DEF S!Steps
  <2>2. e \in S!Loading /\ S!Loading' = S!Loading
    BY <1>6, <2>1, LoadingAfter DEF S!Loading
  <2>3. at' = [at EXCEPT ![e] = label]
    BY <1>6 DEF S!Goto
  <2>4. e \notin todo /\ e \notin starting /\ (at[e] = "create" => e \notin manager)
    BY <1>6 DEF SetupInv
  <2>5. manager' \subseteq Exchanges /\ e \in manager' <=> label # "add"
    BY <1>0, <1>6, <2>4
  <2> QED
    BY <1>0, <1>6, <2>1, <2>2, <2>3, <2>4, <2>5 DEF SetupInv
<1>7. ASSUME NEW e \in Exchanges, at[e] = "start", S!Goto(e, "return"), group' = group + 1,
             starting' = starting \cup {e}, UNCHANGED <<main, todo, manager>>
      PROVE  SetupInv'
  <2>1. e \in S!Loading /\ S!Loading' = S!Loading
    BY <1>7, LoadingAfter DEF S!Loading, S!Steps
  <2>2. e \in manager /\ e \notin starting /\ e \notin todo
    BY <1>7 DEF SetupInv
  <2>3. Cardinality(starting') = Cardinality(starting) + 1
    BY <1>0, <1>7, <2>2, FS_AddElement
  <2>4. at' = [at EXCEPT ![e] = "return"] /\ "return" \in S!Steps
    BY <1>7 DEF S!Goto, S!Steps
  <2> QED
    BY <1>0, <1>7, <2>1, <2>2, <2>3, <2>4 DEF SetupInv
<1>8. ASSUME NEW e \in Exchanges, S!StartEnds(e) PROVE SetupInv'
  <2>1. /\ e \in starting /\ starting' = starting \ {e} /\ group' = group - 1
        /\ UNCHANGED <<main, todo, at, manager>>
    BY <1>8 DEF S!StartEnds
  <2>2. Cardinality(starting') = Cardinality(starting) - 1
    BY <1>0, <2>1, FS_RemoveElement
  <2>3. S!Loading' = S!Loading
    BY <2>1 DEF S!Loading
  <2> QED
    BY <1>0, <2>1, <2>2, <2>3 DEF SetupInv
\* The steps of loadExchange are of these three kinds.
<1>9. ASSUME NEW e \in Exchanges, at[e] \in S!Steps, S!Fail(e) PROVE SetupInv'
  BY <1>5, <1>9 DEF S!Fail
<1>10. ASSUME NEW e \in Exchanges, S!CreateAndSetup(e) PROVE SetupInv'
  <2>1. CASE S!Fail(e)
    BY <1>9, <1>10, <2>1 DEF S!CreateAndSetup, S!Steps
  <2>2. CASE ~ S!Fail(e)
    BY <1>6, <1>10, <2>2 DEF S!CreateAndSetup
  <2> QED
    BY <2>1, <2>2
<1>11. ASSUME NEW e \in Exchanges, S!Add(e) PROVE SetupInv'
  <2>1. PICK label \in {"validate", "start"} : S!Goto(e, label)
    BY <1>11 DEF S!Add
  <2> QED
    BY <1>6, <1>11, <2>1 DEF S!Add
<1>12. ASSUME NEW e \in Exchanges, S!ValidateAnswered(e) \/ S!ValidateTimesOut(e) PROVE SetupInv'
  <2>1. CASE S!Fail(e)
    BY <1>9, <1>12, <2>1 DEF S!ValidateAnswered, S!ValidateTimesOut, S!Steps
  <2>2. CASE ~ S!Fail(e)
    <3>1. /\ at[e] = "validate" /\ S!Goto(e, "start")
          /\ UNCHANGED <<main, todo, group, starting, manager>>
      BY <1>12, <2>2 DEF S!ValidateAnswered, S!ValidateTimesOut
    <3>2. manager' = manager \cup {e}
      BY <3>1 DEF SetupInv
    <3> QED
      BY <1>6, <3>1, <3>2
  <2> QED
    BY <2>1, <2>2
<1>13. ASSUME NEW e \in Exchanges, S!Start(e) PROVE SetupInv'
  <2>1. CASE S!Fail(e)
    BY <1>9, <1>13, <2>1 DEF S!Start, S!Steps
  <2>2. CASE ~ S!Fail(e)
    BY <1>7, <1>13, <2>2 DEF S!Start
  <2> QED
    BY <2>1, <2>2
<1>14. ASSUME NEW e \in Exchanges, S!Loaded(e) PROVE SetupInv'
  BY <1>5, <1>14 DEF S!Loaded, S!Steps
<1> QED
  BY <1>1, <1>2, <1>3, <1>4, <1>8, <1>10, <1>11, <1>12, <1>13, <1>14
  DEF S!Next, S!MainStep, S!LoadStep

-----------------------------------------------------------------------------

(***************************************************************************)
(* Run starts goroutines for exchanges of the manager only, and once Build *)
(* has returned.  Before setupExchanges begins the manager is empty.       *)
(***************************************************************************)
BotInv ==
  /\ SetupInv
  /\ pc \in [Exchanges -> Labels]
  /\ build # "setup" => manager = {}
  /\ \A e \in Exchanges : pc[e] # "none" => e \in manager /\ main \in Returned

(***************************************************************************)
(* No step of a running bot starts the goroutine of an exchange; only Run  *)
(* does.                                                                   *)
(***************************************************************************)
LEMMA LivePc ==
  ASSUME pc \in [Exchanges -> Labels],
         NEW exchgs, Next(exchgs)
  PROVE  \/ Run(exchgs)
         \/ /\ pc' \in [Exchanges -> Labels]
            /\ \A e \in Exchanges : pc'[e] # "none" => pc[e] # "none"
<1> USE DEF Labels
<1>1. ASSUME NEW e \in Exchanges, pc[e] # "none", NEW label \in Labels, Goto(e, label)
      PROVE  /\ pc' \in [Exchanges -> Labels]
             /\ \A d \in Exchanges : pc'[d] # "none" => pc[d] # "none"
  BY <1>1 DEF Goto
<1>2. ASSUME NEW e \in Exchanges, Step(e) \/ Receive(e) \/ StreamPanics(e), pc' # pc
      PROVE  pc[e] # "none" /\ \E label \in Labels : Goto(e, label)
  BY <1>2 DEF Step, Receive, StreamPanics, Start, InitReturns, LoopReturns, OpenWebsocket,
              Handled, DeinitReturns, Visit, Each, Leave, Panic, RangeEnds, Ranging
<1>3. ASSUME NEW s \in Guests, Add(s) \/ Delete(s) PROVE pc' = pc
  BY <1>3 DEF Add, Delete
<1>4. ASSUME Cancel PROVE pc' = pc
  BY <1>4 DEF Cancel
<1> QED
  BY <1>1, <1>2, <1>3, <1>4 DEF Next

(***************************************************************************)
(* Every step of Build and of the bot keeps BotInv.                        *)
(***************************************************************************)
LEMMA BotStep == BotInv /\ [BotNext]_botVars => BotInv'
<1> SUFFICES ASSUME BotInv, [BotNext]_botVars PROVE BotInv'
  OBVIOUS
<1>1. ASSUME UNCHANGED setupVars PROVE SetupInv'
  BY <1>1 DEF BotInv, SetupInv, setupVars, S!Loading
<1>2. CASE ReadConfig \/ Augment
  <2>1. UNCHANGED <<setupVars, vars>> /\ build # "setup" /\ build' # build
    BY <1>2 DEF ReadConfig, Augment
  <2> QED
    BY <1>1, <2>1 DEF BotInv, setupVars, vars
<1>3. ASSUME build = "setup", S!Next, UNCHANGED <<build, vars>> PROVE BotInv'
  <2>1. SetupInv'
    BY <1>3, SetupStep DEF BotInv
  <2>2. manager \subseteq manager'
    BY <1>3 DEF S!Next, S!MainStep, S!LoadStep, S!Skip, S!Spawn, S!Wait, S!Return,
                S!CreateAndSetup, S!Add, S!ValidateAnswered, S!ValidateTimesOut,
                S!Start, S!Loaded, S!StartEnds, S!Fail
  <2>3. main \in Returned => main' = main
    BY <1>3 DEF Returned, BotInv, SetupInv, S!Loading, S!Steps, S!Next, S!MainStep, S!LoadStep,
                S!Skip, S!Spawn, S!Wait, S!Return,
                S!CreateAndSetup, S!Add, S!ValidateAnswered, S!ValidateTimesOut,
                S!Start, S!Loaded, S!StartEnds, S!Fail
  <2>4. pc' = pc /\ build' = build
    BY <1>3 DEF vars
  <2> QED
    BY <1>3, <2>1, <2>2, <2>3, <2>4 DEF BotInv
<1>4. CASE Live
  <2>1. Next(manager) /\ UNCHANGED <<build, setupVars>> /\ Built
    BY <1>4 DEF Live
  <2>2. SetupInv' /\ manager' = manager /\ main' = main /\ build' = build
    BY <1>1, <2>1 DEF setupVars
  <2>3. CASE Run(manager)
    <3>1. pc' = [e \in Exchanges |-> IF e \in manager THEN "start" ELSE "none"]
      BY <2>3 DEF Run
    <3>2. manager # {} => main \in Returned
      BY <2>1 DEF Built, BotInv, Returned
    <3> QED
      BY <2>2, <3>1, <3>2 DEF BotInv, Labels
  <2>4. CASE ~ Run(manager)
    BY <2>1, <2>2, <2>4, LivePc DEF BotInv
  <2> QED
    BY <2>3, <2>4
<1>5. CASE UNCHANGED botVars
  BY <1>1, <1>5 DEF botVars, vars, setupVars, BotInv
<1>6. CASE SetupMain \/ \E e \in Exchanges : SetupLoad(e) \/ SetupAnswered(e)
  BY <1>3, <1>6 DEF SetupMain, SetupLoad, SetupAnswered, S!Next
<1> QED
  BY <1>2, <1>4, <1>5, <1>6 DEF BotNext

(***************************************************************************)
(* BotInv holds in every reachable state.                                  *)
(***************************************************************************)
LEMMA BotInvariant == BotSpec => []BotInv
<1>1. BotInit => BotInv
  <2> SUFFICES ASSUME BotInit PROVE BotInv
    OBVIOUS
  <2>1. S!Loading = {} /\ starting = {} /\ Cardinality({}) = 0
    BY FS_EmptySet DEF BotInit, S!Init, S!Loading, S!Steps
  <2>2. SetupInv
    BY <2>1 DEF BotInit, S!Init, SetupInv, Returned
  <2> QED
    BY <2>2 DEF BotInit, S!Init, Init, BotInv, Labels
<1> QED
  BY <1>1, BotStep, PTL DEF BotSpec

(***************************************************************************)
(* An exchange that runs is in the manager, and its loading is over.       *)
(***************************************************************************)
THEOREM SettledCorrect == BotSpec => []SettledBeforeRun
<1>1. BotInv => SettledBeforeRun
  <2> SUFFICES ASSUME BotInv, NEW e \in Exchanges, pc[e] # "none"
               PROVE  e \in manager /\ at[e] = "end" /\ e \notin starting
    BY DEF SettledBeforeRun
  <2>1. e \in manager /\ S!Loading = {} /\ starting = {}
    BY DEF BotInv, SetupInv
  <2> QED
    BY <2>1 DEF BotInv, SetupInv, S!Loading, S!Steps
<1> QED
  BY <1>1, BotInvariant, PTL

(***************************************************************************)
(* While setupExchanges waits, a counter that is zero stays zero.          *)
(***************************************************************************)
THEOREM AddedWhileCountedCorrect == BotSpec => AddedWhileCounted
<1>1. BotInv /\ [BotNext]_botVars => [main = "wait" /\ group = 0 => group' = 0]_(S!vars)
  <2> SUFFICES ASSUME BotInv, BotNext, main = "wait", group = 0 PROVE group' = 0
    BY DEF botVars, setupVars, S!vars
  <2>1. S!Loading = {} /\ starting = {}
    BY ZeroMeansNone DEF BotInv
  <2>2. ASSUME S!Next PROVE group' = group
    BY <2>1, <2>2 DEF S!Next, S!MainStep, S!LoadStep, S!Skip, S!Spawn, S!Wait, S!Return,
                S!CreateAndSetup, S!Add, S!ValidateAnswered, S!ValidateTimesOut,
                S!Start, S!Loaded, S!StartEnds, S!Fail, S!Loading, S!Steps
  <2>3. S!Next \/ UNCHANGED setupVars
    BY DEF BotNext, ReadConfig, Augment, SetupMain, SetupLoad, SetupAnswered, Live, S!Next
  <2> QED
    BY <2>2, <2>3 DEF setupVars
<1> QED
  BY <1>1, BotInvariant, PTL DEF BotSpec, AddedWhileCounted, S!AddedWhileCounted
-----------------------------------------------------------------------------
(***************************************************************************)
(* The running bot                                                         *)
(***************************************************************************)

(***************************************************************************)
(* Where a resident that an exchange concerns stands, by where the         *)
(* goroutine of the exchange is: what CallsInOrder says of one call needs  *)
(* to be known between the calls.                                          *)
(***************************************************************************)
ResidentInv(s, e) ==
  /\ pc[e] \in {"none", "start"} => phase[<<s, e>>] = "new"
  /\ pc[e] = "init" =>
       IF s \in visited[e] THEN phase[<<s, e>>] \in {"initialized", "init failed"}
                           ELSE phase[<<s, e>>] = "new"
  /\ pc[e] \in {"loop", "stream", "event"} => phase[<<s, e>>] = "initialized"
  /\ pc[e] = "deinit" => s \in visited[e] \/ phase[<<s, e>>] = "initialized"

(***************************************************************************)
(* A Range has to visit every resident, and the error of an Init that      *)
(* failed is kept until the Range ends.                                    *)
(***************************************************************************)
ExchangeInv(e) ==
  /\ pc[e] \in Ranging => Residents \subseteq due[e]
  /\ \A s \in Strategies : phase[<<s, e>>] = "init failed" => pc[e] = "end" \/ (pc[e] = "init" /\ err[e])
  /\ \A s \in Residents : Concerns(s, e) => ResidentInv(s, e)

RunInv == TypeOK /\ \A e \in Exchanges : ExchangeInv(e)

\* Where Build is, and whether an exchange was loaded.
BuildInv ==
  /\ build \in {"config", "augment", "setup", "not augmented", "no keep"}
  /\ loaded \in BOOLEAN

(***************************************************************************)
(* What an exchange is in the middle of is left alone by the others.       *)
(***************************************************************************)
LEMMA Elsewhere ==
  ASSUME RunInv, NEW f \in Exchanges, UNCHANGED <<pc[f], visited[f], due[f], err[f]>>,
         \A s \in Strategies : phase'[<<s, f>>] = phase[<<s, f>>]
  PROVE  ExchangeInv(f)'
<1>1. Residents \subseteq Strategies
  BY DEF Strategies
<1>2. ExchangeInv(f)
  BY DEF RunInv
<1>3. pc'[f] \in Ranging => Residents \subseteq due'[f]
  BY <1>2 DEF ExchangeInv
<1>4. \A s \in Strategies :
        phase'[<<s, f>>] = "init failed" => pc'[f] = "end" \/ (pc'[f] = "init" /\ err'[f])
  BY <1>2 DEF ExchangeInv
<1>5. ASSUME NEW s \in Residents, Concerns(s, f) PROVE ResidentInv(s, f)'
  BY <1>1, <1>2, <1>5 DEF ExchangeInv, ResidentInv
<1> QED
  BY <1>3, <1>4, <1>5 DEF ExchangeInv, Concerns

(***************************************************************************)
(* A step of the goroutine of an exchange that calls no strategy.          *)
(***************************************************************************)
LEMMA GoroutineStep ==
  ASSUME RunInv, NEW e \in Exchanges, NEW label \in Labels, Goto(e, label),
         UNCHANGED <<root, cancelled, phase>>, alive' \in BOOLEAN, ExchangeInv(e)',
         \/ UNCHANGED <<visited, due, err>>
         \/ /\ visited' = [visited EXCEPT ![e] = {}]
            /\ \E d \in SUBSET root : due' = [due EXCEPT ![e] = d]
            /\ err' = [err EXCEPT ![e] = FALSE]
  PROVE  RunInv'
<1>0. TypeOK
  BY DEF RunInv
<1>1. ASSUME NEW f \in Exchanges \ {e} PROVE ExchangeInv(f)'
  <2>1. UNCHANGED <<pc[f], visited[f], due[f], err[f]>>
    BY <1>0, <1>1 DEF Goto, TypeOK
  <2> QED
    BY <2>1, Elsewhere
<1>2. pc' \in [Exchanges -> Labels]
  BY <1>0 DEF Goto, TypeOK, Labels
<1>3. /\ visited' \in [Exchanges -> SUBSET Strategies]
      /\ due' \in [Exchanges -> SUBSET Strategies] /\ err' \in [Exchanges -> BOOLEAN]
  BY <1>0 DEF TypeOK
<1>4. TypeOK'
  BY <1>0, <1>2, <1>3 DEF TypeOK, Labels
<1> QED
  BY <1>1, <1>4 DEF RunInv

(***************************************************************************)
(* A Range begins with all strategies before it: the first one before any  *)
(* Init, the others after all of them.                                     *)
(***************************************************************************)
LEMMA EachStep ==
  ASSUME RunInv, NEW e \in Exchanges, NEW label, Each(e, label),
         \/ pc[e] = "start" /\ label = "init"
         \/ pc[e] = "stream" /\ label = "event"
         \/ pc[e] = "loop" /\ label = "deinit"
  PROVE  RunInv'
<1>0. TypeOK /\ ExchangeInv(e)
  BY DEF RunInv
<1>1. label \in Labels /\ label \in Ranging /\ label # "end" /\ UNCHANGED <<root, cancelled, alive, phase>>
  BY DEF Each, Labels, Ranging
<1>2. pc'[e] = label /\ visited'[e] = {} /\ due'[e] = root
  BY <1>0 DEF Each, Goto, TypeOK
<1>3. \A s \in Strategies : phase[<<s, e>>] # "init failed"
  BY <1>0 DEF ExchangeInv
<1>4. Residents \subseteq due'[e]
  BY <1>0, <1>2 DEF TypeOK
<1>5. ASSUME NEW s \in Residents, Concerns(s, e) PROVE ResidentInv(s, e)'
  <2>1. ResidentInv(s, e)
    BY <1>0, <1>5 DEF ExchangeInv
  <2> QED
    BY <1>1, <1>2, <2>1 DEF ResidentInv
<1>6. ExchangeInv(e)'
  BY <1>1, <1>3, <1>4, <1>5 DEF ExchangeInv, Concerns
<1>7. alive' \in BOOLEAN
  BY <1>0, <1>1 DEF TypeOK
<1>8. /\ Goto(e, label)
      /\ visited' = [visited EXCEPT ![e] = {}] /\ due' = [due EXCEPT ![e] = root]
      /\ err' = [err EXCEPT ![e] = FALSE] /\ root \in SUBSET root
  BY DEF Each
<1> QED
  BY <1>1, <1>6, <1>7, <1>8, GoroutineStep

(***************************************************************************)
(* A Range that ends has visited every resident; the one of Init leaves    *)
(* them all initialized if none of them returned an error.                 *)
(***************************************************************************)
LEMMA LeaveStep ==
  ASSUME RunInv, NEW e \in Exchanges, NEW label, Leave(e, label),
         \/ RangeEnds(e, "init") /\ ~ err[e] /\ label = "loop"
         \/ RangeEnds(e, "event") /\ label = "stream"
  PROVE  RunInv'
<1>0. TypeOK /\ ExchangeInv(e)
  BY DEF RunInv
<1>1. label \in Labels /\ label \notin Ranging /\ UNCHANGED <<root, cancelled, alive, phase>>
  BY DEF Leave, Labels, Ranging
<1>2. pc'[e] = label
  BY <1>0 DEF Leave, Goto, TypeOK
<1>3. \A s \in Strategies : phase[<<s, e>>] # "init failed"
  BY <1>0 DEF ExchangeInv, RangeEnds
<1>4. Residents \subseteq visited[e]
  BY <1>0 DEF ExchangeInv, RangeEnds, Ranging
<1>5. ASSUME NEW s \in Residents, Concerns(s, e) PROVE ResidentInv(s, e)'
  <2>1. ResidentInv(s, e)
    BY <1>0, <1>5 DEF ExchangeInv
  <2>2. phase[<<s, e>>] # "init failed" /\ s \in visited[e]
    BY <1>3, <1>4 DEF Strategies
  <2>3. phase[<<s, e>>] = "initialized"
    BY <2>1, <2>2 DEF ResidentInv, RangeEnds
  <2> QED
    BY <1>1, <1>2, <2>3 DEF ResidentInv, Ranging
<1>6. ExchangeInv(e)'
  BY <1>1, <1>2, <1>3, <1>5 DEF ExchangeInv, Concerns
<1>7. alive' \in BOOLEAN
  BY <1>0, <1>1 DEF TypeOK
<1>8. /\ Goto(e, label)
      /\ visited' = [visited EXCEPT ![e] = {}] /\ due' = [due EXCEPT ![e] = {}]
      /\ err' = [err EXCEPT ![e] = FALSE] /\ {} \in SUBSET root
  BY DEF Leave
<1> QED
  BY <1>1, <1>6, <1>7, <1>8, GoroutineStep

(***************************************************************************)
(* After a panic nothing is asked of the exchange.                         *)
(***************************************************************************)
LEMMA PanicStep ==
  ASSUME RunInv, NEW e \in Exchanges, Panic(e)
  PROVE  RunInv'
<1>1. "end" \in Labels /\ "end" \notin Ranging
  BY DEF Labels, Ranging
<1>2. pc'[e] = "end" /\ Goto(e, "end")
  BY DEF Panic, Goto, RunInv, TypeOK
<1>3. ExchangeInv(e)'
  BY <1>1, <1>2 DEF ExchangeInv, ResidentInv
<1>4. UNCHANGED <<root, cancelled, phase>> /\ alive' \in BOOLEAN /\ UNCHANGED <<visited, due, err>>
  BY DEF Panic
<1> QED
  BY <1>1, <1>2, <1>3, <1>4, GoroutineStep

(***************************************************************************)
(* What the three methods leave a strategy in.                             *)
(***************************************************************************)
LEMMA PhaseAfterCall ==
  ASSUME NEW se, NEW ok
  PROVE  /\ PhaseAfter(se, "init", ok) = IF ok THEN "initialized" ELSE "init failed"
         /\ PhaseAfter(se, "deinit", ok) = "deinitialized"
         /\ PhaseAfter(se, "event", ok) = phase[se]
  BY Zenon DEF PhaseAfter

(***************************************************************************)
(* A call of a strategy: what it returned is kept in phase and err.        *)
(***************************************************************************)
LEMMA VisitStep ==
  ASSUME RunInv, NEW e \in Exchanges, NEW s \in Strategies, Visit(e, s)
  PROVE  RunInv'
<1>0. TypeOK /\ ExchangeInv(e)
  BY DEF RunInv
<1>1. /\ pc[e] \in Ranging /\ s \in root \ visited[e]
      /\ visited' = [visited EXCEPT ![e] = @ \cup {s}]
      /\ UNCHANGED <<root, cancelled, alive, pc, due>>
  BY DEF Visit, NoteError
<1>2. PICK ok \in BOOLEAN :
        /\ err' = [err EXCEPT ![e] = @ \/ ~ ok]
        /\ \/ /\ Concerns(s, e)
              /\ phase' = [phase EXCEPT ![<<s, e>>] = PhaseAfter(<<s, e>>, pc[e], ok)]
           \/ ~ Concerns(s, e) /\ phase' = phase
  BY DEF Visit, NoteError
<1> DEFINE Phases == {"new", "init failed", "initialized", "deinitialized"}
           p == phase'[<<s, e>>]
<1>3. <<s, e>> \in Strategies \X Exchanges /\ phase \in [Strategies \X Exchanges -> Phases]
  BY <1>0 DEF TypeOK
<1>called. /\ PhaseAfter(<<s, e>>, "init", ok) = IF ok THEN "initialized" ELSE "init failed"
      /\ PhaseAfter(<<s, e>>, "deinit", ok) = "deinitialized"
      /\ PhaseAfter(<<s, e>>, "event", ok) = phase[<<s, e>>]
  BY PhaseAfterCall
<1>4. /\ phase' \in [Strategies \X Exchanges -> Phases]
      /\ \A t \in Strategies, f \in Exchanges :
           <<t, f>> # <<s, e>> => phase'[<<t, f>>] = phase[<<t, f>>]
      /\ Concerns(s, e) => p = PhaseAfter(<<s, e>>, pc[e], ok)
      /\ ~ Concerns(s, e) => p = phase[<<s, e>>]
  <2>1. PhaseAfter(<<s, e>>, pc[e], ok) \in Phases
    <3>1. phase[<<s, e>>] \in Phases
      BY <1>3
    <3>2. pc[e] \in {"init", "event", "deinit"}
      BY <1>1 DEF Ranging
    <3>3. CASE ok
      BY <3>1, <3>2, <3>3, <1>called
    <3>4. CASE ~ ok
      BY <3>1, <3>2, <3>4, <1>called
    <3> QED
      BY <3>3, <3>4
  <2> HIDE DEF Phases
  <2> QED
    BY <1>2, <1>3, <2>1
<1>5. err'[e] \in BOOLEAN /\ (err[e] => err'[e]) /\ (~ ok => err'[e])
      /\ err' \in [Exchanges -> BOOLEAN] /\ \A f \in Exchanges \ {e} : err'[f] = err[f]
  BY <1>0, <1>2 DEF TypeOK
<1>6. visited'[e] = visited[e] \cup {s} /\ visited' \in [Exchanges -> SUBSET Strategies]
      /\ \A f \in Exchanges \ {e} : visited'[f] = visited[f]
  BY <1>0, <1>1 DEF TypeOK
<1> HIDE DEF p
<1>7. TypeOK'
  BY <1>0, <1>1, <1>4, <1>5, <1>6 DEF TypeOK
<1>8. ASSUME NEW f \in Exchanges \ {e} PROVE ExchangeInv(f)'
  <2>1. \A t \in Strategies : phase'[<<t, f>>] = phase[<<t, f>>]
    BY <1>4, <1>8
  <2> QED
    BY <1>1, <1>5, <1>6, <1>8, <2>1, Elsewhere
\* What a method leaves behind.
<1>9. /\ pc[e] = "init" /\ Concerns(s, e) => p = IF ok THEN "initialized" ELSE "init failed"
      /\ pc[e] = "event" /\ Concerns(s, e) => p = phase[<<s, e>>]
      /\ pc[e] = "deinit" /\ Concerns(s, e) => p = "deinitialized"
  BY <1>4, <1>called, Zenon
<1>10. ASSUME NEW t \in Strategies, phase'[<<t, e>>] = "init failed"
       PROVE  pc'[e] = "end" \/ (pc'[e] = "init" /\ err'[e])
  <2>1. CASE t = s
    <3>1. p = "init failed"
      BY <1>10, <2>1 DEF p
    <3>2. CASE Concerns(s, e) /\ pc[e] = "init"
      BY <1>1, <1>5, <1>9, <3>1, <3>2
    <3>3. CASE phase[<<s, e>>] = "init failed"
      BY <1>0, <1>1, <1>5, <3>3 DEF ExchangeInv
    <3> QED
      BY <1>1, <1>4, <1>9, <3>1, <3>2, <3>3 DEF Ranging
  <2>2. CASE t # s
    <3>1. phase[<<t, e>>] = "init failed"
      BY <1>4, <1>10, <2>2
    <3> QED
      BY <1>0, <1>1, <1>5, <3>1 DEF ExchangeInv
  <2> QED
    BY <2>1, <2>2
<1>11. ASSUME NEW t \in Residents, Concerns(t, e) PROVE ResidentInv(t, e)'
  <2>0. ResidentInv(t, e) /\ t \in Strategies
    BY <1>0, <1>11 DEF ExchangeInv, Strategies
  <2>1. CASE t = s
    <3>1. phase'[<<t, e>>] = p /\ t \in visited'[e] /\ Concerns(s, e)
      BY <1>6, <1>11, <2>1 DEF p
    <3> QED
      BY <1>1, <1>9, <2>0, <2>1, <3>1 DEF ResidentInv, Ranging
  <2>2. CASE t # s
    <3>1. phase'[<<t, e>>] = phase[<<t, e>>]
      BY <1>4, <2>0, <2>2
    <3>2. t \in visited'[e] <=> t \in visited[e]
      BY <1>6, <2>2
    <3> QED
      BY <1>1, <2>0, <3>1, <3>2 DEF ResidentInv
  <2> QED
    BY <2>1, <2>2
<1>12. pc'[e] \in Ranging => Residents \subseteq due'[e]
  BY <1>0, <1>1 DEF ExchangeInv
<1>13. ExchangeInv(e)'
  BY <1>10, <1>11, <1>12 DEF ExchangeInv, Concerns
<1> QED
  BY <1>7, <1>8, <1>13 DEF RunInv

(***************************************************************************)
(* Every step of the bot keeps RunInv.                                     *)
(***************************************************************************)
LEMMA RunStep ==
  ASSUME RunInv, NEW exchgs \in SUBSET Exchanges, Next(exchgs)
  PROVE  RunInv'
<1>0. TypeOK /\ \A e \in Exchanges : ExchangeInv(e)
  BY DEF RunInv
<1>1. CASE Run(exchgs)
  <2>1. /\ \A e \in Exchanges : pc[e] = "none" /\ pc'[e] \in {"none", "start"}
        /\ pc' \in [Exchanges -> Labels]
        /\ UNCHANGED <<root, cancelled, alive, visited, due, err, phase>>
    BY <1>1 DEF Run, Labels
  <2>2. ASSUME NEW e \in Exchanges PROVE ExchangeInv(e)'
    <3>1. ExchangeInv(e) /\ pc[e] = "none" /\ pc'[e] \in {"none", "start"}
      BY <1>0, <2>1
    <3>2. \A s \in Strategies : phase[<<s, e>>] # "init failed"
      BY <3>1 DEF ExchangeInv
    <3>3. \A s \in Residents : Concerns(s, e) => phase[<<s, e>>] = "new"
      BY <3>1 DEF ExchangeInv, ResidentInv
    <3> QED
      BY <2>1, <3>1, <3>2, <3>3 DEF ExchangeInv, ResidentInv, Concerns, Ranging
  <2>3. TypeOK'
    BY <1>0, <2>1 DEF TypeOK, Labels
  <2> QED
    BY <2>2, <2>3 DEF RunInv
<1>2. ASSUME NEW e \in Exchanges, NEW s \in Strategies, Visit(e, s) PROVE RunInv'
  BY <1>2, VisitStep
<1>3. ASSUME NEW e \in Exchanges, Start(e) PROVE RunInv'
  BY <1>3, EachStep DEF Start
<1>4. ASSUME NEW e \in Exchanges, InitReturns(e) PROVE RunInv'
  BY <1>4, PanicStep, LeaveStep DEF InitReturns
<1>5. ASSUME NEW e \in Exchanges, LoopReturns(e) PROVE RunInv'
  BY <1>5, EachStep DEF LoopReturns
<1>6. ASSUME NEW e \in Exchanges, OpenWebsocket(e) PROVE RunInv'
  <2>1. CASE Each(e, "deinit")
    BY <1>6, <2>1, EachStep DEF OpenWebsocket
  <2>2. CASE Goto(e, "stream") /\ UNCHANGED <<root, cancelled, alive, visited, due, err, phase>>
    <3>1. pc[e] = "loop" /\ ExchangeInv(e) /\ pc'[e] = "stream"
      BY <1>0, <1>6, <2>2 DEF OpenWebsocket, Goto, TypeOK
    <3>2. ASSUME NEW s \in Residents, Concerns(s, e) PROVE ResidentInv(s, e)'
      BY <2>2, <3>1, <3>2 DEF ExchangeInv, ResidentInv
    <3>3. \A s \in Strategies : phase'[<<s, e>>] # "init failed"
      BY <2>2, <3>1 DEF ExchangeInv
    <3>4. ExchangeInv(e)'
      BY <3>1, <3>2, <3>3 DEF ExchangeInv, Concerns, Ranging
    <3>5. "stream" \in Labels /\ alive' \in BOOLEAN
      BY <1>0, <2>2 DEF Labels, TypeOK
    <3> QED
      BY <2>2, <3>4, <3>5, GoroutineStep
  <2> QED
    BY <1>6, <2>1, <2>2 DEF OpenWebsocket
<1>7. ASSUME NEW e \in Exchanges, Receive(e) PROVE RunInv'
  BY <1>7, EachStep DEF Receive
<1>8. ASSUME NEW e \in Exchanges, Handled(e) PROVE RunInv'
  BY <1>8, LeaveStep DEF Handled
<1>9. ASSUME NEW e \in Exchanges, StreamPanics(e) \/ DeinitReturns(e) PROVE RunInv'
  BY <1>9, PanicStep DEF StreamPanics, DeinitReturns
<1>10. ASSUME NEW s \in Guests, Add(s) PROVE RunInv'
  <2>1. root' = root \cup {s} /\ UNCHANGED <<cancelled, alive, pc, visited, due, err, phase>>
    BY <1>10 DEF Add
  <2>2. TypeOK'
    BY <1>0, <2>1 DEF TypeOK, Strategies
  <2>3. \A e \in Exchanges : ExchangeInv(e)'
    BY <2>1, Elsewhere
  <2> QED
    BY <2>2, <2>3 DEF RunInv
<1>11. ASSUME NEW s \in Guests, Delete(s) PROVE RunInv'
  <2>1. /\ root' = root \ {s} /\ due' = [e \in Exchanges |-> due[e] \ {s}]
        /\ UNCHANGED <<cancelled, alive, pc, visited, err, phase>>
    BY <1>11 DEF Delete
  <2>2. s \notin Residents
    BY StrategiesAssumption
  <2>3. TypeOK'
    BY <1>0, <2>1, <2>2 DEF TypeOK
  <2>4. ASSUME NEW e \in Exchanges PROVE ExchangeInv(e)'
    <3>1. ExchangeInv(e) /\ due'[e] = due[e] \ {s}
      BY <1>0, <2>1
    <3>2. pc'[e] \in Ranging => Residents \subseteq due'[e]
      BY <2>1, <2>2, <3>1 DEF ExchangeInv
    <3>3. \A t \in Residents : Concerns(t, e) => ResidentInv(t, e)'
      BY <2>1, <3>1 DEF ExchangeInv, ResidentInv
    <3>4. \A t \in Strategies :
            phase'[<<t, e>>] = "init failed" => pc'[e] = "end" \/ (pc'[e] = "init" /\ err'[e])
      BY <2>1, <3>1 DEF ExchangeInv
    <3> QED
      BY <3>2, <3>3, <3>4 DEF ExchangeInv, Concerns
  <2> QED
    BY <2>3, <2>4 DEF RunInv
<1>12. CASE Cancel
  <2>1. cancelled' = TRUE /\ UNCHANGED <<root, alive, pc, visited, due, err, phase>>
    BY <1>12 DEF Cancel
  <2>2. TypeOK'
    BY <1>0, <2>1 DEF TypeOK
  <2>3. \A e \in Exchanges : ExchangeInv(e)'
    BY <2>1, Elsewhere
  <2> QED
    BY <2>2, <2>3 DEF RunInv
<1> QED
  BY <1>1, <1>2, <1>3, <1>4, <1>5, <1>6, <1>7, <1>8, <1>9, <1>10, <1>11, <1>12
  DEF Next, Step

(***************************************************************************)
(* Build and the bot are what they are on their own: the steps of either   *)
(* leave the other one alone, and what the bot runs are exchanges.         *)
(***************************************************************************)
THEOREM BotComposes == BotSpec => S!Spec /\ Spec
<1>1. BotInit => S!Init /\ Init
  BY DEF BotInit
<1>2. BotInv /\ [BotNext]_botVars => [\E exchgs \in SUBSET Exchanges : Next(exchgs)]_vars
  <2>1. BotInv => manager \in SUBSET Exchanges
    BY DEF BotInv, SetupInv
  <2> QED
    BY <2>1 DEF BotNext, ReadConfig, Augment, SetupMain, SetupLoad, SetupAnswered, Live, botVars
<1>3. [BotNext]_botVars => [S!Next]_(S!vars)
  BY DEF BotNext, ReadConfig, Augment, SetupMain, SetupLoad, SetupAnswered, Live, botVars,
         setupVars, S!Next, S!vars
<1> QED
  BY <1>1, <1>2, <1>3, BotInvariant, PTL DEF BotSpec, Spec, S!Spec

(***************************************************************************)
(* RunInv holds in every reachable state of a bot.                         *)
(***************************************************************************)
LEMMA RunInvariant == Spec => []RunInv
<1>1. Init => RunInv
  <2> SUFFICES ASSUME Init PROVE RunInv
    OBVIOUS
  <2>1. TypeOK
    BY DEF Init, TypeOK, Strategies
  <2>2. ASSUME NEW e \in Exchanges PROVE ExchangeInv(e)
    <3>1. pc[e] = "none" /\ \A s \in Strategies : phase[<<s, e>>] = "new"
      BY DEF Init
    <3> QED
      BY <3>1 DEF ExchangeInv, ResidentInv, Ranging, Strategies
  <2> QED
    BY <2>1, <2>2 DEF RunInv
<1>2. RunInv /\ [\E exchgs \in SUBSET Exchanges : Next(exchgs)]_vars => RunInv'
  <2> SUFFICES ASSUME RunInv, UNCHANGED vars PROVE RunInv'
    BY RunStep
  <2>1. UNCHANGED <<root, cancelled, alive, pc, visited, due, err, phase>>
    BY DEF vars
  <2>2. TypeOK'
    BY <2>1 DEF RunInv, TypeOK
  <2>3. \A e \in Exchanges : ExchangeInv(e)'
    BY <2>1, Elsewhere
  <2> QED
    BY <2>2, <2>3 DEF RunInv
<1> QED
  BY <1>1, <1>2, PTL DEF Spec

(***************************************************************************)
(* No exchange handles an event after an Init that failed for it.          *)
(***************************************************************************)
THEOREM FailedInitEnds == BotSpec => []NoEventsAfterFailedInit
<1>1. RunInv => NoEventsAfterFailedInit
  BY DEF RunInv, ExchangeInv, NoEventsAfterFailedInit
<1> QED
  BY <1>1, BotComposes, RunInvariant, PTL

(***************************************************************************)
(* Residents are called in order: Init, events, Deinit, for every exchange *)
(* that concerns them.                                                     *)
(***************************************************************************)
THEOREM CallsCorrect == BotSpec => CallsInOrder
<1> DEFINE A == \A e \in Exchanges, s \in Residents :
                  Told(e, s) /\ Concerns(s, e) =>
                    phase[<<s, e>>] = IF pc[e] = "init" THEN "new" ELSE "initialized"
<1>1. ASSUME RunInv, NEW exchgs \in SUBSET Exchanges, Next(exchgs),
             NEW e \in Exchanges, NEW s \in Residents, Told(e, s), Concerns(s, e)
      PROVE  phase[<<s, e>>] = IF pc[e] = "init" THEN "new" ELSE "initialized"
  <2>1. visited \in [Exchanges -> SUBSET Strategies] /\ ResidentInv(s, e)
    BY <1>1 DEF RunInv, TypeOK, ExchangeInv
  <2>2. s \in visited'[e] /\ s \notin visited[e]
    BY <1>1 DEF Told
  <2>3. ASSUME visited' = visited PROVE FALSE
    BY <2>2, <2>3
  <2>4. ASSUME NEW f \in Exchanges, visited' = [visited EXCEPT ![f] = {}] PROVE FALSE
    BY <2>1, <2>2, <2>4
  <2>5. \E f \in Exchanges, t \in Strategies : Visit(f, t)
    BY <1>1, <2>3, <2>4 DEF Next, Step, Run, Start, InitReturns, LoopReturns, OpenWebsocket,
       Handled, DeinitReturns, Receive, StreamPanics, Add, Delete, Cancel, Each, Leave, Panic
  <2>6. PICK f \in Exchanges, t \in Strategies : Visit(f, t)
    BY <2>5
  <2>7. pc[e] \in Ranging
    BY <2>1, <2>2, <2>6 DEF Visit
  <2> QED
    BY <2>1, <2>2, <2>7 DEF ResidentInv, Ranging
<1>2. RunInv /\ [\E exchgs \in SUBSET Exchanges : Next(exchgs)]_vars => [A]_vars
  BY <1>1
<1> QED
  BY <1>2, BotComposes, RunInvariant, PTL DEF Spec, CallsInOrder

(***************************************************************************)
(* No Range ends before it has visited every resident.                     *)
(***************************************************************************)
THEOREM EveryResidentCorrect == BotSpec => EveryResidentTold
<1> DEFINE A == \A e \in Exchanges :
                  pc[e] \in Ranging /\ pc'[e] # pc[e] => Residents \subseteq visited[e]
<1>1. ASSUME RunInv, NEW exchgs \in SUBSET Exchanges, Next(exchgs),
             NEW e \in Exchanges, pc[e] \in Ranging, pc'[e] # pc[e]
      PROVE  Residents \subseteq visited[e]
  <2>1. pc \in [Exchanges -> Labels] /\ ExchangeInv(e)
    BY <1>1 DEF RunInv, TypeOK, Labels
  <2>2. ASSUME NEW f \in Exchanges, NEW label, Goto(f, label) PROVE f = e
    BY <1>1, <2>1, <2>2 DEF Goto
  <2>3. ASSUME pc' = pc PROVE FALSE
    BY <1>1, <2>3
  <2>4. ~ Run(exchgs)
    BY <1>1 DEF Run, Ranging
  <2>5. \E label \in Ranging : RangeEnds(e, label)
    BY <1>1, <2>2, <2>3, <2>4 DEF Next, Step, Start, InitReturns, LoopReturns, OpenWebsocket,
       Handled, DeinitReturns, Visit, Receive, StreamPanics, Add, Delete, Cancel,
       Each, Leave, Panic, RangeEnds, Ranging
  <2> QED
    BY <1>1, <2>1, <2>5 DEF RangeEnds, ExchangeInv
<1>2. RunInv /\ [\E exchgs \in SUBSET Exchanges : Next(exchgs)]_vars => [A]_vars
  BY <1>1
<1> QED
  BY <1>2, BotComposes, RunInvariant, PTL DEF Spec, EveryResidentTold

(***************************************************************************)
(* Every variable of Build and of the bot keeps its type; in particular    *)
(* the counter of the wait group, which counts what is under way, is never *)
(* negative.                                                               *)
(***************************************************************************)
THEOREM BotTypeCorrect == BotSpec => []BotTypeOK
<1>1. ASSUME BotInv PROVE group \in Nat
  BY <1>1, CountedFinite DEF BotInv, SetupInv
<1>2. BotInv /\ RunInv /\ BuildInv => BotTypeOK
  BY <1>1 DEF BotInv, SetupInv, RunInv, BuildInv, BotTypeOK, S!SetupTypeOK, Returned
<1>3. BotInit => BuildInv
  BY DEF BotInit, S!Init, BuildInv
<1>4. BuildInv /\ [BotNext]_botVars => BuildInv'
  BY DEF BuildInv, BotNext, ReadConfig, Augment, SetupMain, SetupLoad, SetupAnswered, Live,
     botVars, setupVars, S!MainStep, S!LoadStep, S!Skip, S!Spawn, S!Wait, S!Return,
     S!CreateAndSetup, S!Add, S!ValidateAnswered, S!ValidateTimesOut,
     S!Start, S!Loaded, S!StartEnds, S!Fail, S!EndAndDone
<1> QED
  BY <1>2, <1>3, <1>4, BotInvariant, BotComposes, RunInvariant, PTL DEF BotSpec
=============================================================================
