---- MODULE Pressure ----
\* What a runtime tells of its own pressure (runtime-pressure-internal.cpp
\* and game-runtime.cpp).  The simulation diagnoses its lag from the steps
\* it drops and stages the diagnosis; the platform owner diagnoses its
\* input backpressure, commits a change of either with a revision and
\* tells the watches, whose callbacks may watch and reset others.
EXTENDS Integers, SequencesExt

CONSTANTS PressureWatches,
          ReportEvery, Threshold,   \* 2 s and 100 ms
          MaxClock, MaxDrops    \* bounds: instants, batches that drop time
ASSUME PressureAssumption == IsFiniteSet(PressureWatches) /\ ReportEvery \in Nat /\ Threshold \in Nat

VARIABLES
    instant,    \* the clock
    lag,        \* the simulation's diagnosis: lag_warning_, reported_drops_, next_timing_report_
    strain,     \* the platform's: pressure_started_, pressure_warning_, next_platform_report_, count
    staged,     \* staged_lag_ and dropped_batches_ of RuntimePressureState
    state,      \* RuntimePressureState::current_
    untold,    \* the watches that a notification has yet to come to
    watched,    \* the watches that are registered
    got,        \* history: by watch the last two states it has been told
    intervals,  \* history: how many batches dropped time between the last two reports that
                \* decide something, and since the last report
    strained    \* history: since when each loop has found backpressure

pressureVars == <<instant, lag, strain, staged, state, untold, watched, got, intervals, strained>>

Never == -1
NoPressure == [lag |-> FALSE, input |-> FALSE]

PressureInit ==
  /\ instant = 0
  /\ lag = [warning |-> FALSE, dropped |-> 0, reported |-> 0, next |-> 0]
  /\ strain = [started |-> Never, warning |-> FALSE, next |-> 0]
  /\ staged = [lag |-> FALSE, dropped |-> 0]
  /\ state = [revision |-> 0, conditions |-> NoPressure, previous |-> NoPressure, dropped |-> 0, closed |-> FALSE]
  /\ untold = <<>> /\ watched = {} /\ got = [w \in PressureWatches |-> <<>>]
  /\ intervals = [decisive |-> 0, since |-> 0] /\ strained = Never

TimeGoesOn ==
  /\ instant < MaxClock /\ instant' = instant + 1
  /\ UNCHANGED <<lag, strain, staged, state, untold, watched, got, intervals, strained>>
--------------------
\* Mutant: the drops of earlier intervals count again.
NewlyDroppedEver(dropped) == dropped

NewlyDropped(dropped) == dropped - lag.reported

\* observe_timing(), by the simulation after it has asked for a batch.
Diagnosed(dropped) ==
  IF NewlyDropped(dropped) = 1 THEN lag.warning ELSE NewlyDropped(dropped) >= 2
ObserveTiming(drops) ==
  /\ ~state.closed /\ lag.dropped + drops <= MaxDrops
  /\ LET dropped == lag.dropped + drops
         counted == intervals.since + drops IN
     IF instant < lag.next
     THEN /\ lag' = [lag EXCEPT !.dropped = dropped] /\ intervals' = [intervals EXCEPT !.since = counted]
          /\ UNCHANGED staged
     ELSE /\ lag' = [warning |-> Diagnosed(dropped), dropped |-> dropped, reported |-> dropped, next |-> instant + ReportEvery]
          /\ intervals' = [decisive |-> IF counted = 1 THEN intervals.decisive ELSE counted, since |-> 0]
          /\ staged' = [lag |-> Diagnosed(dropped), dropped |-> dropped]
  /\ UNCHANGED <<instant, strain, state, untold, watched, got, strained>>

\* Mutant: pressure that comes back is as old as it was.
RelievedOnly(now) == [strain EXCEPT !.warning = FALSE]

\* observe_platform(): pressure that ends takes its warning with it, and a
\* warning needs a report that finds the pressure old enough.
Relieved(now) == [strain EXCEPT !.started = Never, !.warning = FALSE]
Observed(now, pressure) ==
  LET s == IF ~pressure THEN Relieved(now)
           ELSE IF strain.started = Never THEN [strain EXCEPT !.started = now] ELSE strain IN
  IF now < s.next THEN s
  ELSE [s EXCEPT !.next = now + ReportEvery, !.warning = @ \/ (pressure /\ now - s.started >= Threshold)]

\* take_change(): a revision for each change of either diagnosis.
SelectedNow(warning) == [lag |-> staged.lag, input |-> warning]
Changed(warning) == [revision |-> state.revision + 1, conditions |-> SelectedNow(warning), previous |-> state.conditions,
                     dropped |-> staged.dropped, closed |-> FALSE]

\* A turn of the platform's loop: observe, then publish_runtime_pressure();
\* the bus takes the watches of this moment.
PlatformLoop(pressure) ==
  /\ untold = <<>> /\ ~state.closed
  /\ strain' = Observed(instant, pressure)
  /\ strained' = IF ~pressure THEN Never ELSE IF strained = Never THEN instant ELSE strained
  /\ IF SelectedNow(strain'.warning) = state.conditions THEN UNCHANGED <<state, untold>>
     ELSE state' = Changed(strain'.warning) /\ untold' = SetToSeq(watched)
  /\ UNCHANGED <<instant, lag, staged, watched, got, intervals>>

\* A watch that was reset meanwhile is passed over.
Tell ==
  /\ untold # <<>> /\ untold' = Tail(untold)
  /\ LET w == Head(untold) IN got' = IF w \in watched THEN [got EXCEPT ![w] = <<Last(@), state>>] ELSE got
  /\ UNCHANGED <<instant, lag, strain, staged, state, watched, intervals, strained>>

\* watch_runtime_pressure(), on the owner or before run(), also in another
\* watch's callback; a closed source gives its last state only.
WatchPressure(w) ==
  /\ w \notin watched /\ got[w] = <<>>
  /\ got' = [got EXCEPT ![w] = <<state>>]
  /\ watched' = IF state.closed THEN watched ELSE watched \cup {w}
  /\ UNCHANGED <<instant, lag, strain, staged, state, untold, intervals, strained>>
ResetWatch(w) ==
  /\ w \in watched /\ watched' = watched \ {w}
  /\ UNCHANGED <<instant, lag, strain, staged, state, untold, got, intervals, strained>>

\* The session ends on its owner; the last state stays as it is.
ClosePressure ==
  /\ untold = <<>> /\ ~state.closed /\ state' = [state EXCEPT !.closed = TRUE]
  /\ UNCHANGED <<instant, lag, strain, staged, untold, watched, got, intervals, strained>>

PressureNext ==
  \/ TimeGoesOn \/ Tell \/ ClosePressure
  \/ \E drops \in {0, 1} : ObserveTiming(drops)
  \/ \E pressure \in BOOLEAN : PlatformLoop(pressure)
  \/ \E w \in PressureWatches : WatchPressure(w) \/ ResetWatch(w)

PressureSpec == PressureInit /\ [][PressureNext]_pressureVars
--------------------
\* A watch is told every change from its seed on, once and in order, each
\* with the conditions it was told before, and when nobody is being told it
\* knows the current one.  Lag stands from an interval of at least two drops
\* up to one of none, one drop decides nothing; backpressure is reported
\* only while it lasts, and only when it has lasted.
PressureIsTold ==
  /\ \A w \in PressureWatches : \A i \in DOMAIN got[w] \ {1} :
       /\ got[w][i].revision = got[w][i - 1].revision + 1
       /\ got[w][i].previous = got[w][i - 1].conditions
       /\ got[w][i].conditions # got[w][i].previous
       /\ got[w][i].dropped >= got[w][i - 1].dropped
  /\ \A w \in watched : w \in ToSet(untold) \/ Last(got[w]).revision = state.revision
  /\ lag.warning = (intervals.decisive >= 2) /\ staged.lag = lag.warning
  /\ strain.warning => strained # Never /\ instant - strained >= Threshold
  /\ strain.started = strained
  /\ state.conditions.input => state.revision > 0
====================
