------------------------------ MODULE LogState ------------------------------
(***************************************************************************)
(* LogState (logging.go): WakeUp moves the state from Dormant to Awaken    *)
(* with a compare-and-swap and has a timer move it back.  Goroutines race  *)
(* each other and the callbacks of the timers, which may run late.         *)
(***************************************************************************)
EXTENDS Naturals

CONSTANTS
  Wakers,    \* goroutines that call WakeUp, each with the timer it started last
  Duration,  \* for how long the state is kept Awaken, in ticks of the clock
  Off        \* no timer

ASSUME DurationAssumption == Duration \in Nat
ASSUME OffAssumption == Off \notin Nat

VARIABLES
  state,      \* "Dormant" or "Awaken"
  arming,     \* the wakers between the compare-and-swap and time.AfterFunc
  timer,      \* the ticks until each timer's callback may run
  panicked,   \* whether a callback found an illegal state
  awakeFor    \* history: for how long the state has been Awaken, up to Duration

logVars == <<state, arming, timer, panicked, awakeFor>>

LogTypeOK ==
  /\ state \in {"Dormant", "Awaken"}
  /\ arming \subseteq Wakers
  /\ timer \in [Wakers -> 0 .. Duration \cup {Off}]
  /\ panicked \in BOOLEAN
  /\ awakeFor \in 0 .. Duration

LogInit ==
  /\ state = "Dormant"
  /\ arming = {}
  /\ timer = [w \in Wakers |-> Off]
  /\ panicked = FALSE
  /\ awakeFor = 0

\* WakeUp that stores Awaken whatever the state is, and starts a timer.
WakeUpStores(w) ==
  /\ w \notin arming
  /\ state' = "Awaken"
  /\ arming' = arming \cup {w}
  /\ awakeFor' = IF state = "Dormant" THEN 0 ELSE awakeFor
  /\ UNCHANGED <<timer, panicked>>

\* WakeUp whose compare-and-swap succeeds; otherwise it does nothing.
WakeUp(w) ==
  /\ state = "Dormant"
  /\ state' = "Awaken"
  /\ arming' = arming \cup {w}
  /\ awakeFor' = 0
  /\ UNCHANGED <<timer, panicked>>

AfterFunc(w) ==
  /\ w \in arming
  /\ arming' = arming \ {w}
  /\ timer' = [timer EXCEPT ![w] = Duration]
  /\ UNCHANGED <<state, panicked, awakeFor>>

\* External: time passes for the timers and for an awaken state.
Tick ==
  /\ timer' = [w \in Wakers |-> IF timer[w] \in {0, Off} THEN timer[w] ELSE timer[w] - 1]
  /\ awakeFor' = IF state = "Awaken" /\ awakeFor < Duration THEN awakeFor + 1 ELSE awakeFor
  /\ UNCHANGED <<state, arming, panicked>>

\* A callback whose compare-and-swap has its two values swapped.
FallAsleepSwapped(w) ==
  /\ timer[w] = 0
  /\ timer' = [timer EXCEPT ![w] = Off]
  /\ \/ /\ state = "Dormant"
        /\ state' = "Awaken"
        /\ UNCHANGED panicked
     \/ /\ state # "Dormant"
        /\ panicked' = TRUE
        /\ UNCHANGED state
  /\ UNCHANGED <<arming, awakeFor>>

\* The callback: back to Dormant, or panic("illegal state").
FallAsleep(w) ==
  /\ timer[w] = 0
  /\ timer' = [timer EXCEPT ![w] = Off]
  /\ \/ /\ state = "Awaken"
        /\ state' = "Dormant"
        /\ UNCHANGED panicked
     \/ /\ state # "Awaken"
        /\ panicked' = TRUE
        /\ UNCHANGED state
  /\ UNCHANGED <<arming, awakeFor>>

LogNext ==
  /\ ~ panicked
  /\ Tick \/ \E w \in Wakers : WakeUp(w) \/ AfterFunc(w) \/ FallAsleep(w)

LogSpec == LogInit /\ [][LogNext]_logVars

\* Time passes, goroutines run, and so do the callbacks of expired timers.
LogFairness ==
  /\ WF_logVars(~ panicked /\ Tick)
  /\ WF_logVars(~ panicked /\ \E w \in Wakers : AfterFunc(w))
  /\ WF_logVars(~ panicked /\ \E w \in Wakers : FallAsleep(w))

-----------------------------------------------------------------------------

(***************************************************************************)
(* panic("illegal state") is not reached: however many goroutines call     *)
(* WakeUp, and however late a callback runs, no two timers are on their    *)
(* way at once, so that each finds the state it is to end.                 *)
(***************************************************************************)
NeverIllegal == ~ panicked

(***************************************************************************)
(* "make sure for the predefined duration state stays awaken"              *)
(* (logging_test.go): no callback, and none of an earlier WakeUp, ends the *)
(* state before it lasted for Duration.                                    *)
(***************************************************************************)
AwakeForDuration ==
  [][state = "Awaken" /\ state' = "Dormant" => awakeFor = Duration]_logVars

(***************************************************************************)
(* "After time expires, make sure state is dormant again"                  *)
(* (logging_test.go), whatever the callers of WakeUp do.                   *)
(***************************************************************************)
FallsAsleep == state = "Awaken" ~> state = "Dormant"
=============================================================================
