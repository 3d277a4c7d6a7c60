---- MODULE SimulationScheduler ----
\* Simulation::Scheduler (simulation-scheduler.cpp) inside the loop that
\* owns it: the loop of the runtime reads the clock, selects one bounded
\* batch with advance() and gives the game one update per step of it,
\* while the clock runs on.  The dropped time of a batch is told to the
\* game once, with the batch's last update (game-runtime.cpp:560, 837).
\*
\* Durations and time points are integers of one width: durations go up to
\* MaxTime, time points from -MaxTime-1 to MaxTime.
EXTENDS Integers

CONSTANTS
    MaxTime,    \* Clock::duration::max()
    Options,    \* the timing options a scheduler may be built with
    Starts      \* the time points it may start from

Variable == "Variable"
Fixed == "Fixed"
DropExcessLag == "DropExcessLag"
VariableCatchUp == "VariableCatchUp"

TimePoints == -MaxTime - 1 .. MaxTime
Durations == 0 .. MaxTime

TimingOptions ==
  [mode : {Variable, Fixed}, recovery : {DropExcessLag, VariableCatchUp},
   variable_interval : Int, fixed_step : Int, max_fixed_updates : Nat,
   fixed_updates_before_recovery : Nat, recovery_cap : Int]

\* what the constructor accepts; the counts of updates are size_t
IsValid(o) ==
  /\ o.variable_interval \in Durations
  /\ o.fixed_step \in Durations \ {0}
  /\ o.max_fixed_updates > 0
  /\ o.fixed_updates_before_recovery <= o.max_fixed_updates
  /\ o.recovery_cap \in Durations

ASSUME TimingAssumption ==
  /\ MaxTime \in Nat
  /\ Options \subseteq TimingOptions
  /\ Starts \subseteq TimePoints

VARIABLES
    options,        \* options_
    observed,       \* observed_at_
    accumulated,    \* accumulated_
    now,            \* what the clock shows
    batch,          \* the batch the loop last selected
    done,           \* the updates of it that the game has run
    stage,          \* where the loop is: "select", "run", "stopped" or "failed"
    start,          \* where the scheduler started
    told            \* all the time the game was told of: deltas and drops

schedulerVars == <<options, observed, accumulated, now, batch, done, stage, start, told>>

NoBatch == [fixed |-> 0, free |-> 0, delta |-> 0, dropped |-> 0, left |-> 0]

SchedulerInit ==
  /\ options \in {o \in Options : IsValid(o)}
  /\ start \in Starts
  /\ observed = start /\ now = start
  /\ accumulated = 0
  /\ batch = NoBatch /\ done = 0
  /\ stage = "select"
  /\ told = 0

Smaller(a, b) == IF a <= b THEN a ELSE b

\* ---- A batch is `fixed' steps of the fixed length, then `free' (none or one)
\* steps of length `delta'; `dropped' is given up and `left' stays
\* accumulated for the next batch.
\* Mutant: an update is due only after the whole interval has passed.
VariableBatchLate(o, t) ==
  IF t > o.variable_interval
  THEN [NoBatch EXCEPT !.free = 1, !.delta = t]
  ELSE [NoBatch EXCEPT !.left = t]

VariableBatch(o, t) ==
  IF t >= o.variable_interval
  THEN [NoBatch EXCEPT !.free = 1, !.delta = t]
  ELSE [NoBatch EXCEPT !.left = t]

Overloaded(o, t) ==
  /\ o.recovery = VariableCatchUp
  /\ t \div o.fixed_step > o.max_fixed_updates

CatchUpBatch(o, t) ==
  LET debt == t - o.fixed_updates_before_recovery * o.fixed_step
      recovery == IF o.recovery_cap = 0 THEN debt ELSE Smaller(debt, o.recovery_cap)
  IN  [fixed |-> o.fixed_updates_before_recovery, free |-> 1, delta |-> recovery,
       dropped |-> debt - recovery, left |-> 0]

\* Mutants: the remainder is dropped with the whole steps; the budget of
\* fixed updates is not applied.
FixedBatchForgetsPhase(o, t) ==
  LET count == Smaller(t \div o.fixed_step, o.max_fixed_updates)
  IN  [NoBatch EXCEPT !.fixed = count, !.dropped = t - count * o.fixed_step]

FixedBatchUnbounded(o, t) ==
  [NoBatch EXCEPT !.fixed = t \div o.fixed_step, !.left = t % o.fixed_step]

FixedBatch(o, t) ==
  LET count == Smaller(t \div o.fixed_step, o.max_fixed_updates)
      debt == t - count * o.fixed_step
  IN  [fixed |-> count, free |-> 0, delta |-> 0,
       dropped |-> debt - (debt % o.fixed_step), left |-> debt % o.fixed_step]

Selected(o, t) ==
  IF o.mode = Variable THEN VariableBatch(o, t)
  ELSE IF Overloaded(o, t) THEN CatchUpBatch(o, t) ELSE FixedBatch(o, t)

\* the checks of advance(), made before anything is subtracted or added
SpanFits == ~(observed < 0 /\ now > MaxTime + observed)
SumFits == now - observed <= MaxTime - accumulated
Accepts == SpanFits /\ SumFits

Interval == IF options.mode = Variable THEN options.variable_interval ELSE options.fixed_step

Remaining == IF Interval > accumulated THEN Interval - accumulated ELSE 0

next_update_at == IF observed > MaxTime - Remaining THEN MaxTime ELSE observed + Remaining

Steps(b) == b.fixed + b.free

advance ==
  /\ stage = "select" /\ Accepts
  /\ observed' = now
  /\ batch' = Selected(options, accumulated + (now - observed))
  /\ accumulated' = batch'.left
  /\ done' = 0
  /\ stage' = IF Steps(batch') = 0 THEN "select" ELSE "run"
  /\ UNCHANGED <<options, now, start, told>>

\* advance() throws before it changes anything and the loop is over
AdvanceThrows ==
  /\ stage = "select" /\ ~Accepts
  /\ stage' = "failed"
  /\ UNCHANGED <<options, observed, accumulated, now, batch, done, start, told>>

StepDelta(i) == IF i < batch.fixed THEN options.fixed_step ELSE batch.delta

\* Mutant: every update of a batch reports the drop.
StepDroppedAlways(i) == batch.dropped

\* the drop is reported with the last step of the batch
StepDropped(i) == IF i + 1 = Steps(batch) THEN batch.dropped ELSE 0

update ==
  /\ stage = "run"
  /\ told' = told + StepDelta(done) + StepDropped(done)
  /\ done' = done + 1
  /\ stage' = IF done + 1 < Steps(batch) THEN "run" ELSE "select"
  /\ UNCHANGED <<options, observed, accumulated, now, batch, start>>

\* a stop ends the loop between two updates too: the rest of the batch is lost
Stop ==
  /\ stage \in {"select", "run"}
  /\ stage' = "stopped"
  /\ UNCHANGED <<options, observed, accumulated, now, batch, done, start, told>>

\* an update, a frame or a wait takes any time
ClockRuns ==
  /\ stage \in {"select", "run"}
  /\ now' \in {t \in TimePoints : t > now}
  /\ UNCHANGED <<options, observed, accumulated, batch, done, stage, start, told>>

SchedulerNext == advance \/ AdvanceThrows \/ update \/ Stop \/ ClockRuns

SchedulerSpec == SchedulerInit /\ [][SchedulerNext]_schedulerVars
--------------------
\* What the timing contract of the simulation owes to the game.

Batches == [fixed : Nat, free : {0, 1}, delta : Nat, dropped : Nat, left : Nat]

\* Type invariant: accumulated time is a representable duration, never a
\* negative one, and the loop never runs past the end of its batch.
SchedulerTypeOK ==
  /\ options \in TimingOptions /\ IsValid(options)
  /\ observed \in TimePoints /\ now \in TimePoints /\ start \in TimePoints
  /\ start <= observed /\ observed <= now
  /\ accumulated \in Durations
  /\ batch \in Batches
  /\ done \in 0 .. Steps(batch)
  /\ stage \in {"select", "run", "stopped", "failed"}
  /\ (stage = "run" => done < Steps(batch))
  /\ told \in Nat

\* the time of the updates of the batch that are still to run
Unplayed ==
  IF done < batch.fixed
  THEN (batch.fixed - done) * options.fixed_step + batch.free * batch.delta
  ELSE (Steps(batch) - done) * batch.delta

Undisclosed == IF done < Steps(batch) THEN batch.dropped ELSE 0

\* No time is lost or invented: at every moment the deltas and the drops told
\* to the game, what the running batch still holds and what is accumulated add
\* up to the time observed since the start.  Once a batch ran to its end every
\* drop has been reported, and reported once (simulation-timing.md:112-115).
AllTimeTold == told + Unplayed + Undisclosed + accumulated = observed - start

\* Fixed stepping that drops lag keeps its phase: whatever stalls there were,
\* the remainder is that of all the time since the start, so future updates
\* stay on the grid of the fixed step (simulation-scheduler.cpp:65-69).
PhaseKept ==
  options.mode = Fixed /\ options.recovery = DropExcessLag =>
      accumulated = (observed - start) % options.fixed_step

\* Time is neither lost, invented nor shifted, however long the loop stalls.
TimeIsKept == AllTimeTold /\ PhaseKept

\* However long the stall, a batch is bounded by the options, and time is
\* dropped only where the budget is spent: after the full count of fixed steps
\* or by the cap on the recovery step.
BurstBounded ==
  /\ options.mode = Variable => Steps(batch) <= 1 /\ batch.dropped = 0
  /\ options.mode = Fixed =>
        Steps(batch) <= options.max_fixed_updates + batch.free
  /\ batch.dropped > 0 =>
        IF batch.free = 0 THEN batch.fixed = options.max_fixed_updates
                          ELSE batch.delta = options.recovery_cap

\* The deadline the loop sleeps to is the right one: an advance before it
\* yields no update, and one at or after it does unless the deadline was
\* saturated, so a woken loop neither idles past a due update nor spins on an
\* empty batch (game-runtime.cpp:816-839); and what it yields is bounded.
OnTime ==
  [][/\ BurstBounded'
     /\ observed' # observed =>
           /\ (observed' < next_update_at => Steps(batch') = 0)
           /\ (Steps(batch') = 0 => observed' < next_update_at \/ next_update_at = MaxTime)]_schedulerVars

\* No sum or difference the scheduler forms leaves the range of its type: what
\* passes the first check of advance() can be subtracted, what passes both can
\* be added, and a deadline past the end of the clock is saturated instead.
InRange ==
  /\ SpanFits => now - observed \in Durations
  /\ Accepts => accumulated + (now - observed) \in Durations
  /\ next_update_at \in TimePoints

\* A clock that starts at or after its epoch is never refused: the runtime's
\* loop cannot fail because of its own timing.
NeverRefused == start >= 0 => stage # "failed"
====================
