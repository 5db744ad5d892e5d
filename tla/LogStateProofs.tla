--------------------------- MODULE LogStateProofs ---------------------------
(***************************************************************************)
(* LogState for any number of goroutines and any duration                  *)
(***************************************************************************)
EXTENDS LogState, TLAPS

USE DurationAssumption, OffAssumption

\* A waker that has a timer, or is about to start one.
Timed(w) == w \in arming \/ timer[w] # Off

(***************************************************************************)
(* Only an awaken state is timed, by one waker, which either is about to   *)
(* start its timer or has one that ends no sooner than the duration.       *)
(***************************************************************************)
LogInv ==
  /\ LogTypeOK
  /\ ~ panicked
  /\ \A w \in Wakers : Timed(w) => state = "Awaken"
  /\ \A v, w \in Wakers : Timed(v) /\ Timed(w) => v = w
  /\ \A w \in arming : timer[w] = Off
  /\ \A w \in Wakers : timer[w] # Off => awakeFor + timer[w] >= Duration

(***************************************************************************)
(* Every step keeps it so.                                                 *)
(***************************************************************************)
LEMMA LogStepInv == LogInv /\ [LogNext]_logVars => LogInv'
<1> SUFFICES ASSUME LogInv, [LogNext]_logVars PROVE LogInv'
  OBVIOUS
<1> USE DEF LogInv, LogTypeOK, Timed
<1>1. ASSUME Tick PROVE LogInv'
  <2>1. /\ awakeFor' \in 0 .. Duration
        /\ state' = state /\ arming' = arming /\ panicked' = panicked
    BY <1>1 DEF Tick
  <2>2. ASSUME NEW w \in Wakers
        PROVE  /\ timer'[w] \in 0 .. Duration \cup {Off}
               /\ timer'[w] = Off <=> timer[w] = Off
               /\ timer'[w] # Off => awakeFor' + timer'[w] >= Duration
    <3>1. timer'[w] = IF timer[w] \in {0, Off} THEN timer[w] ELSE timer[w] - 1
      BY <1>1 DEF Tick
    <3>2. CASE timer[w] = Off
      BY <3>1, <3>2
    <3>3. CASE timer[w] # Off
      <4>1. state = "Awaken" /\ timer[w] \in 0 .. Duration
        BY <3>3
      <4>2. awakeFor' = IF awakeFor < Duration THEN awakeFor + 1 ELSE awakeFor
        BY <1>1, <4>1 DEF Tick
      <4> QED
        BY <3>1, <3>3, <4>1, <4>2
    <3> QED
      BY <3>2, <3>3
  <2>3. timer' \in [Wakers -> 0 .. Duration \cup {Off}]
    BY <1>1, <2>2 DEF Tick
  <2> QED
    BY <2>1, <2>2, <2>3
<1>2. ASSUME NEW w \in Wakers, WakeUp(w) PROVE LogInv'
  <2>1. \A v \in Wakers : v \notin arming /\ timer[v] = Off
    BY <1>2 DEF WakeUp
  <2> QED
    BY <1>2, <2>1 DEF WakeUp
<1>3. ASSUME NEW w \in Wakers, AfterFunc(w) PROVE LogInv'
  <2>1. state = "Awaken" /\ \A v \in Wakers : Timed(v) => v = w
    BY <1>3 DEF AfterFunc
  <2> QED
    BY <1>3, <2>1 DEF AfterFunc
<1>4. ASSUME NEW w \in Wakers, FallAsleep(w) PROVE LogInv'
  <2>1. state = "Awaken" /\ w \notin arming /\ \A v \in Wakers : Timed(v) => v = w
    BY <1>4 DEF FallAsleep
  <2> QED
    BY <1>4, <2>1 DEF FallAsleep
<1>5. CASE UNCHANGED logVars
  BY <1>5 DEF logVars
<1> QED
  BY <1>1, <1>2, <1>3, <1>4, <1>5 DEF LogNext

(***************************************************************************)
(* The invariant holds in every reachable state.                           *)
(***************************************************************************)
LEMMA LogInvariant == LogSpec => []LogInv
<1>1. LogInit => LogInv
  <2> SUFFICES ASSUME LogInit PROVE LogInv
    OBVIOUS
  <2>1. LogTypeOK
    <3>1. timer \in [Wakers -> 0 .. Duration \cup {Off}]
      BY DEF LogInit
    <3>2. awakeFor \in 0 .. Duration
      BY DEF LogInit
    <3> QED
      BY <3>1, <3>2 DEF LogInit, LogTypeOK
  <2>2. \A w \in Wakers : ~ Timed(w)
    BY DEF LogInit, Timed
  <2> QED
    BY <2>1, <2>2 DEF LogInit, LogInv, Timed
<1> QED
  BY <1>1, LogStepInv, PTL DEF LogSpec

(***************************************************************************)
(* panic("illegal state") is never reached.                                *)
(***************************************************************************)
THEOREM NeverIllegalCorrect == LogSpec => []NeverIllegal
<1>1. LogInv => NeverIllegal
  BY DEF LogInv, NeverIllegal
<1> QED
  BY <1>1, LogInvariant, PTL

(***************************************************************************)
(* An awaken state lasts for the duration, whoever calls WakeUp and when.  *)
(***************************************************************************)
THEOREM AwakeForDurationCorrect == LogSpec => AwakeForDuration
<1>1. LogInv /\ [LogNext]_logVars
        => [state = "Awaken" /\ state' = "Dormant" => awakeFor = Duration]_logVars
  <2> SUFFICES ASSUME LogInv, LogNext, state = "Awaken", state' = "Dormant"
               PROVE  awakeFor = Duration
    BY DEF logVars
  <2>1. PICK w \in Wakers : FallAsleep(w)
    BY DEF LogNext, Tick, WakeUp, AfterFunc
  <2>2. timer[w] = 0
    BY <2>1 DEF FallAsleep
  <2> QED
    BY <2>2 DEF LogInv, LogTypeOK
<1> QED
  BY <1>1, LogInvariant, PTL DEF LogSpec, AwakeForDuration
=============================================================================
