----------------------------- MODULE Historian -----------------------------
(***************************************************************************)
(* Historian (strategy_history.go): records at most one of the samples it  *)
(* is fed per interval, in a circular array it hands to its callback.      *)
(*                                                                         *)
(* A sample is the time it carries, in nanoseconds; it is what Update is   *)
(* called with and what is recorded.                                       *)
(***************************************************************************)
EXTENDS CircularArray

CONSTANTS
  Intervals,    \* what NewHistorian may be given, in nanoseconds
  StateLength,  \* how many samples the state holds
  Times         \* times that samples carry; zero dates are negative

ASSUME IntervalsAssumption == Intervals \subseteq Nat
ASSUME StateLengthAssumption == StateLength \in Nat \ {0}
ASSUME TimesAssumption == Times \subseteq Int

VARIABLES
  interval,  \* 0 if every sample is to be recorded
  epoch,     \* the interval of the last update
  state,     \* the circular array
  clock,     \* history: the time of the last sample fed
  ordered    \* history: all samples came through Update, none dated before
             \* the one it followed

vars == <<interval, epoch, state, clock, ordered>>

TypeOK ==
  /\ interval \in Intervals
  /\ epoch \in Int
  /\ state \in CircularArrays(Times, StateLength)
  /\ clock \in Times
  /\ ordered \in BOOLEAN

Init ==
  /\ interval \in Intervals
  /\ epoch = 0
  /\ state = NewCircularArray(StateLength)
  /\ clock \in Times
  /\ ordered = TRUE

\* now.UnixNano() / interval.Nanoseconds(): Go's division truncates.
EpochOf(t, n) == IF t >= 0 THEN t \div n ELSE -((-t) \div n)

PushSample(t) == state' = Push(state, t)

\* Update that forgets to advance the epoch.
UpdateStuck(t) ==
  /\ interval # 0 => EpochOf(t, interval) # epoch
  /\ PushSample(t)
  /\ clock' = t
  /\ ordered' = (ordered /\ t >= clock)
  /\ UNCHANGED <<interval, epoch>>

\* Update returns early in the interval of the last update, else records.
Update(t) ==
  /\ \/ /\ interval # 0
        /\ \/ /\ EpochOf(t, interval) = epoch
              /\ UNCHANGED <<epoch, state>>
           \/ /\ EpochOf(t, interval) # epoch
              /\ epoch' = EpochOf(t, interval)
              /\ PushSample(t)
     \/ /\ interval = 0
        /\ PushSample(t)
        /\ UNCHANGED epoch
  /\ clock' = t
  /\ ordered' = (ordered /\ t >= clock)
  /\ UNCHANGED interval

\* The exported Push records without a look at the epoch.
PushOnly(t) ==
  /\ PushSample(t)
  /\ ordered' = FALSE
  /\ UNCHANGED <<interval, epoch, clock>>

Next == \E t \in Times : Update(t) \/ PushOnly(t)

Spec == Init /\ [][Next]_vars

-----------------------------------------------------------------------------

Window == Floats(state)

LN == INSTANCE LastN WITH N <- StateLength, Samples <- Times, window <- Window

(***************************************************************************)
(* The callback reads the last StateLength recorded samples, oldest first, *)
(* however often the array has wrapped around.                             *)
(***************************************************************************)
ShowsLastSamples == LN!Spec

(***************************************************************************)
(* "If there is an interval specified, we should update once each          *)
(* interval": as long as dates do not run backwards the state is a time    *)
(* line.  Every later sample is of a later interval, so that no interval   *)
(* is recorded twice, and the last one is of the interval of the epoch.    *)
(***************************************************************************)
TimeLine ==
  interval # 0 /\ ordered =>
    /\ \A i, j \in 1 .. Len(Window) :
         i < j => EpochOf(Window[i], interval) < EpochOf(Window[j], interval)
    /\ Window # <<>> => EpochOf(Last(state), interval) = epoch
=============================================================================
