---- MODULE ServiceProofs ----
\* Proofs about services of an engine that share no state: the accounting
\* of simulation time, for every clock width, every set of timing options
\* and every length of the clock's runs; the watches of a view source, for
\* any number of watches, threads, selections and nested calls; and native
\* objects of a renderer, for any number of handles and names, in whatever
\* order they are made, moved, dropped and collected; gamepads, pressure,
\* shared values and windows with what is told of them, for any number of
\* watches, waiters and sizes; and the debug terminal, for any lines,
\* failures and crashes.
EXTENDS SimulationScheduler, RequiredBindings, NativeResources, Gamepad, Pressure, Objects, PlatformModules,
        Integers, SequenceTheorems, FiniteSetTheorems, TLAPS

\* ---- Division. ----
LEMMA Division ==
  ASSUME NEW t \in Int, NEW s \in Nat \ {0}
  PROVE  /\ t \div s \in Int /\ t % s \in 0 .. s - 1
         /\ t = s * (t \div s) + (t % s)
         /\ (t >= 0 => t \div s >= 0)
OBVIOUS

LEMMA RemainderUnique ==
  ASSUME NEW s \in Nat \ {0}, NEW q \in Int, NEW r \in 0 .. s - 1
  PROVE  (s * q + r) % s = r
<1> DEFINE t == s * q + r
           p == t \div s
           m == t % s
<1>1. t \in Int /\ p \in Int /\ m \in 0 .. s - 1 /\ t = s * p + m BY Division
<1> HIDE DEF t, p, m
<1>2. s * (p - q) = r - m BY <1>1 DEF t
<1>3. ~(p - q >= 1)
 <2>1. SUFFICES ASSUME p - q >= 1 PROVE FALSE OBVIOUS
 <2>2. s * (p - q) >= s BY <1>1, <2>1
 <2> QED BY <2>2, <1>2, <1>1
<1>4. ~(p - q <= -1)
 <2>1. SUFFICES ASSUME p - q <= -1 PROVE FALSE OBVIOUS
 <2>2. s * (p - q) <= -s BY <1>1, <2>1
 <2> QED BY <2>2, <1>2, <1>1
<1>5. p = q BY <1>1, <1>3, <1>4
<1>6. m = r BY <1>1, <1>2, <1>5
<1> QED BY <1>6 DEF m, t

\* ---- What one selection owes: it accounts for all of its time. ----
Accounts(b, o, t) ==
  /\ b \in Batches
  /\ b.left <= t
  /\ b.fixed * o.fixed_step + b.free * b.delta + b.dropped + b.left = t
  /\ Steps(b) = 0 => b.dropped = 0

LEMMA VariableAccounts ==
  ASSUME NEW o \in TimingOptions, IsValid(o), NEW t \in Nat
  PROVE  Accounts(VariableBatch(o, t), o, t)
<1> DEFINE b == VariableBatch(o, t)
<1>1. o.fixed_step \in Int /\ o.variable_interval \in Int BY DEF TimingOptions
<1>2. CASE t >= o.variable_interval
 <2>1. b = [fixed |-> 0, free |-> 1, delta |-> t, dropped |-> 0, left |-> 0] BY <1>2 DEF VariableBatch, NoBatch
 <2> QED BY <2>1, <1>1 DEF Accounts, Batches, Steps
<1>3. CASE ~(t >= o.variable_interval)
 <2>1. b = [fixed |-> 0, free |-> 0, delta |-> 0, dropped |-> 0, left |-> t] BY <1>3 DEF VariableBatch, NoBatch
 <2> QED BY <2>1, <1>1 DEF Accounts, Batches, Steps
<1> QED BY <1>2, <1>3

LEMMA CatchUpAccounts ==
  ASSUME NEW o \in TimingOptions, IsValid(o), NEW t \in Nat, Overloaded(o, t)
  PROVE  Accounts(CatchUpBatch(o, t), o, t)
<1> DEFINE s == o.fixed_step
           n == o.fixed_updates_before_recovery
           q == t \div s
           prefix == n * s
<1>1. s \in Nat \ {0} /\ n \in Nat /\ o.recovery_cap \in Nat /\ o.max_fixed_updates \in Nat
  BY TimingAssumption DEF TimingOptions, IsValid, Durations
<1>2. q \in Int /\ t % s \in 0 .. s - 1 /\ t = s * q + (t % s)
 <2> HIDE DEF s
 <2> QED BY <1>1, Division
<1>3. n <= q BY <1>1, <1>2 DEF IsValid, Overloaded
<1>4. prefix \in Nat /\ prefix <= s * q
 <2> HIDE DEF s, n, q
 <2>1. n * s \in Nat BY <1>1
 <2>2. s * (q - n) >= 0 BY <1>1, <1>2, <1>3
 <2>3. s * (q - n) = s * q - n * s BY <1>1, <1>2
 <2> QED BY <2>1, <2>2, <2>3, <1>1, <1>2
<1>5. t - prefix \in Nat
 <2> HIDE DEF s, q, prefix
 <2>1. s * q \in Int BY <1>1, <1>2
 <2> QED BY <2>1, <1>1, <1>2, <1>4
<1> QED
 <2> DEFINE b == CatchUpBatch(o, t)
 <2>1. b.fixed = n /\ b.free = 1 /\ b.left = 0 /\ b.delta \in Nat /\ b.dropped \in Nat
       /\ b.delta + b.dropped = t - prefix /\ b \in Batches
  <3> HIDE DEF n, prefix
  <3>1. prefix = o.fixed_updates_before_recovery * o.fixed_step /\ n = o.fixed_updates_before_recovery BY DEF n, prefix
  <3> QED BY <1>1, <1>4, <1>5, <3>1 DEF CatchUpBatch, Smaller, Batches
 <2> HIDE DEF b
 <2>2. b.free * b.delta = b.delta BY <2>1
 <2>3. b.fixed * s = prefix BY <2>1
 <2>4. Steps(b) # 0 BY <2>1, <1>1 DEF Steps
 <2>5. b.fixed * s + b.free * b.delta + b.dropped + b.left = t
  <3> HIDE DEF s, prefix
  <3> QED BY <2>1, <2>2, <2>3, <1>4
 <2> QED BY <2>1, <2>4, <2>5 DEF Accounts, b

LEMMA FixedAccounts ==
  ASSUME NEW o \in TimingOptions, IsValid(o), NEW t \in Nat
  PROVE  /\ Accounts(FixedBatch(o, t), o, t)
         /\ FixedBatch(o, t).left = t % o.fixed_step
<1> DEFINE s == o.fixed_step
           q == t \div s
           n == Smaller(q, o.max_fixed_updates)
           debt == t - n * s
           b == FixedBatch(o, t)
<1>1. s \in Nat \ {0} /\ o.max_fixed_updates \in Nat \ {0} BY TimingAssumption DEF TimingOptions, IsValid, Durations
<1>2. q \in Nat /\ t % s \in 0 .. s - 1 /\ t = s * q + (t % s)
 <2> HIDE DEF s, q, n, debt, b
 <2>1. t \in Int /\ s \in Nat \ {0} BY <1>1
 <2>2. t \div s \in Int /\ (t >= 0 => t \div s >= 0) /\ t % s \in 0 .. s - 1 /\ t = s * (t \div s) + (t % s)
   BY ONLY <2>1, Division
 <2>3. q \in Int /\ (t >= 0 => q >= 0) /\ t % s \in 0 .. s - 1 /\ t = s * q + (t % s) BY <2>2 DEF q
 <2> QED BY <2>3
<1>3. n \in Nat /\ n <= q /\ (n = 0 => q = 0)
 <2> HIDE DEF s, q, debt, b
 <2> QED BY <1>1, <1>2 DEF Smaller
<1>4. debt = s * (q - n) + (t % s)
 <2> HIDE DEF s, q, n
 <2>1. s * (q - n) = s * q - n * s BY <1>1, <1>2, <1>3
 <2>2. s * q \in Int /\ n * s \in Int BY <1>1, <1>2, <1>3
 <2> QED BY <2>1, <2>2, <1>1, <1>2 DEF debt
<1>5. debt % s = t % s
 <2> HIDE DEF s, q, n, debt
 <2>1. q - n \in Int BY <1>2, <1>3
 <2> QED BY <2>1, <1>1, <1>2, <1>4, RemainderUnique
<1>6. s * (q - n) \in Nat /\ debt - (debt % s) = s * (q - n)
 <2> HIDE DEF s, q, n
 <2>1. s * (q - n) \in Nat BY <1>1, <1>2, <1>3
 <2> QED BY <2>1, <1>1, <1>2, <1>4, <1>5
<1>7. b = [fixed |-> n, free |-> 0, delta |-> 0, dropped |-> debt - (debt % s), left |-> debt % s] BY DEF FixedBatch
<1>8. b \in Batches /\ b.fixed = n /\ b.free = 0 /\ b.delta = 0 /\ b.dropped = s * (q - n) /\ b.left = t % s
 <2> HIDE DEF b, n, debt, s, q
 <2> QED BY <1>1, <1>2, <1>3, <1>5, <1>6, <1>7 DEF Batches
<1>9. t % s <= t
 <2> HIDE DEF s, q, n, debt
 <2>1. s * q \in Nat BY <1>1, <1>2
 <2> QED BY <2>1, <1>1, <1>2
<1>10. n * s + 0 * 0 + s * (q - n) + (t % s) = t
 <2> HIDE DEF s, q, n
 <2>1. n * s \in Int /\ s * (q - n) \in Int BY <1>1, <1>2, <1>3
 <2> QED BY <2>1, <1>1, <1>2, <1>4 DEF debt
<1>11. n + 0 = 0 => s * (q - n) = 0
 <2> HIDE DEF s, q, n
 <2> QED BY <1>1, <1>2, <1>3
<1> QED
 <2> HIDE DEF b, n, debt, q
 <2> QED BY <1>8, <1>9, <1>10, <1>11 DEF Accounts, Steps, b

LEMMA SelectionAccounts ==
  ASSUME NEW o \in TimingOptions, IsValid(o), NEW t \in Nat
  PROVE  /\ Accounts(Selected(o, t), o, t)
         /\ o.mode = Fixed /\ o.recovery = DropExcessLag =>
                Selected(o, t).left = t % o.fixed_step
<1>1. CASE o.mode = Variable BY <1>1, VariableAccounts DEF Selected, Variable, Fixed
<1>2. CASE o.mode # Variable /\ Overloaded(o, t)
  BY <1>2, CatchUpAccounts DEF Selected, Overloaded, VariableCatchUp, DropExcessLag
<1>3. CASE o.mode # Variable /\ ~Overloaded(o, t) BY <1>3, FixedAccounts DEF Selected
<1> QED BY <1>1, <1>2, <1>3

\* ---- The loop. ----
\* the loop selects a batch only when it has played the last one
Played == stage = "select" => done = Steps(batch)

TimeInv == SchedulerTypeOK /\ AllTimeTold /\ PhaseKept /\ Played

LEMMA ValidOptions ==
  ASSUME SchedulerTypeOK
  PROVE  /\ MaxTime \in Nat
         /\ options.fixed_step \in Nat \ {0}
         /\ options.variable_interval \in Nat
         /\ Interval \in Nat
BY TimingAssumption DEF SchedulerTypeOK, TimingOptions, IsValid, Durations, Interval

LEMMA TimeStarts == SchedulerInit => TimeInv
<1> SUFFICES ASSUME SchedulerInit PROVE TimeInv OBVIOUS
<1>1. SchedulerTypeOK
  BY TimingAssumption DEF SchedulerInit, SchedulerTypeOK, TimePoints, Durations, Batches, NoBatch, Steps
<1>2. AllTimeTold
 <2>1. batch.fixed = 0 /\ batch.free = 0 /\ batch.delta = 0 /\ batch.dropped = 0 /\ done = 0
       /\ told = 0 /\ accumulated = 0 /\ observed = start /\ start \in Int
   BY <1>1, TimingAssumption DEF SchedulerInit, NoBatch, SchedulerTypeOK, TimePoints
 <2>2. Unplayed = 0 /\ Undisclosed = 0 BY <2>1 DEF Unplayed, Undisclosed, Steps
 <2> QED BY <2>1, <2>2 DEF AllTimeTold
<1>3. PhaseKept
 <2>1. options.fixed_step \in Nat \ {0} BY <1>1, ValidOptions
 <2>2. 0 % options.fixed_step = 0 BY <2>1, RemainderUnique
 <2>3. observed - start = 0 /\ accumulated = 0 BY <1>1, TimingAssumption DEF SchedulerInit, SchedulerTypeOK, TimePoints
 <2> QED BY <2>2, <2>3 DEF PhaseKept
<1>4. Played BY DEF SchedulerInit, Played, NoBatch, Steps
<1> QED BY <1>1, <1>2, <1>3, <1>4 DEF TimeInv

\* between two batches everything selected has been told
LEMMA NothingPending ==
  ASSUME SchedulerTypeOK, done = Steps(batch)
  PROVE  Unplayed = 0 /\ Undisclosed = 0
BY DEF SchedulerTypeOK, Unplayed, Undisclosed, Steps, Batches

LEMMA AdvancePreserves == TimeInv /\ advance => TimeInv'
<1> SUFFICES ASSUME TimeInv, advance PROVE TimeInv' OBVIOUS
<1> DEFINE t == accumulated + (now - observed)
           b == Selected(options, t)
           s == options.fixed_step
<1>1. SchedulerTypeOK /\ AllTimeTold /\ PhaseKept /\ Played BY DEF TimeInv
<1>2. /\ MaxTime \in Nat /\ s \in Nat \ {0} /\ options \in TimingOptions /\ IsValid(options)
      /\ observed \in Int /\ now \in TimePoints /\ start \in TimePoints /\ told \in Nat
      /\ accumulated \in Nat /\ start <= observed /\ observed <= now
  BY <1>1, ValidOptions, TimingAssumption DEF SchedulerTypeOK, TimePoints, Durations
<1>3. now \in Int /\ start \in Int BY <1>2 DEF TimePoints
<1>4. t \in Nat /\ t <= MaxTime BY <1>2, <1>3 DEF advance, Accepts, SumFits
<1>5. /\ Accounts(b, options, t)
      /\ options.mode = Fixed /\ options.recovery = DropExcessLag => b.left = t % s
 <2> HIDE DEF t
 <2> QED BY <1>2, <1>4, SelectionAccounts
<1>6. /\ batch' = b /\ accumulated' = b.left /\ done' = 0 /\ observed' = now
      /\ UNCHANGED <<options, now, start, told>>
      /\ stage' = IF Steps(b) = 0 THEN "select" ELSE "run"
  BY DEF advance
<1> HIDE DEF b, t
<1>7. b \in Batches /\ b.left \in Nat /\ b.left <= t /\ Steps(b) \in Nat BY <1>5 DEF Accounts, Batches, Steps
<1>8. SchedulerTypeOK' BY <1>2, <1>3, <1>4, <1>6, <1>7 DEF SchedulerTypeOK, Durations, Steps
<1>9. AllTimeTold'
 <2>1. told + accumulated = observed - start BY <1>1, <1>2, <1>3, NothingPending DEF AllTimeTold, advance, Played
 <2>2. b.fixed \in Nat /\ b.free \in {0, 1} /\ b.delta \in Nat /\ b.dropped \in Nat BY <1>7 DEF Batches
 <2>3. Unplayed' = b.fixed * s + b.free * b.delta
  <3>1. CASE b.fixed > 0 BY <3>1, <2>2, <1>6, <1>2 DEF Unplayed
  <3>2. CASE b.fixed = 0
   <4>1. Unplayed' = b.free * b.delta BY <3>2, <2>2, <1>6 DEF Unplayed, Steps
   <4>2. b.fixed * s = 0 BY <3>2, <1>2
   <4> QED BY <4>1, <4>2, <2>2
  <3> QED BY <3>1, <3>2, <2>2
 <2>4. Undisclosed' = b.dropped BY <1>5, <1>6, <1>7 DEF Undisclosed, Accounts
 <2>5. Unplayed' + Undisclosed' + b.left = t BY <2>3, <2>4, <1>5 DEF Accounts
 <2>6. Unplayed' \in Nat /\ Undisclosed' \in Nat
  <3>1. b.fixed * s \in Nat /\ b.free * b.delta \in Nat BY <2>2, <1>2
  <3> QED BY <3>1, <2>2, <2>3, <2>4
 <2> QED BY <2>1, <2>5, <2>6, <1>2, <1>3, <1>6, <1>7 DEF AllTimeTold, t
<1>10. PhaseKept'
 <2> SUFFICES ASSUME options.mode = Fixed, options.recovery = DropExcessLag
              PROVE  b.left = (now - start) % s
   BY <1>6 DEF PhaseKept
 <2>1. accumulated = (observed - start) % s BY <1>1 DEF PhaseKept
 <2> DEFINE e == observed - start
            x == now - start
 <2>2. e \in Int /\ x \in Int /\ t = accumulated + (x - e) BY <1>2, <1>3 DEF t
 <2> HIDE DEF e, x, s
 <2>3. e \div s \in Int /\ e = s * (e \div s) + accumulated BY <1>2, <2>1, <2>2, Division DEF e
 <2>4. x \div s \in Int /\ x % s \in 0 .. s - 1 /\ x = s * (x \div s) + (x % s) BY <1>2, <2>2, Division
 <2>5. t = s * ((x \div s) - (e \div s)) + (x % s)
  <3>1. s * ((x \div s) - (e \div s)) = s * (x \div s) - s * (e \div s) BY <1>2, <2>3, <2>4
  <3>2. s * (x \div s) \in Int /\ s * (e \div s) \in Int BY <1>2, <2>3, <2>4
  <3> QED BY <3>1, <3>2, <2>2, <2>3, <2>4, <1>2
 <2> DEFINE d == (x \div s) - (e \div s)
            r == x % s
 <2>6. t % s = x % s
  <3>1. d \in Int /\ r \in 0 .. s - 1 /\ t = s * d + r /\ s \in Nat \ {0} BY <1>2, <2>3, <2>4, <2>5
  <3> HIDE DEF d, r
  <3>2. (s * d + r) % s = r BY <3>1, RemainderUnique
  <3> QED BY <3>1, <3>2 DEF r
 <2> QED BY <2>6, <1>5 DEF x
<1>11. Played' BY <1>6 DEF Played
<1> QED BY <1>8, <1>9, <1>10, <1>11 DEF TimeInv

LEMMA OneMore ==
  ASSUME NEW a \in Int, NEW b \in Int, NEW s \in Int
  PROVE  (a - b) * s = s + (a - (b + 1)) * s
<1>1. (a - b) * s = a * s - b * s /\ (a - (b + 1)) * s = a * s - b * s - s OBVIOUS
<1>2. a * s \in Int /\ b * s \in Int OBVIOUS
<1> QED BY <1>1, <1>2

LEMMA UpdatePreserves == TimeInv /\ update => TimeInv'
<1> SUFFICES ASSUME TimeInv, update PROVE TimeInv' OBVIOUS
<1> DEFINE s == options.fixed_step
<1>1. SchedulerTypeOK /\ AllTimeTold /\ PhaseKept /\ Played BY DEF TimeInv
<1>2. /\ s \in Nat /\ batch.fixed \in Nat /\ batch.free \in {0, 1} /\ batch.delta \in Nat
      /\ batch.dropped \in Nat /\ done \in Nat /\ told \in Nat /\ accumulated \in Nat
      /\ done < batch.fixed + batch.free
  BY <1>1, ValidOptions DEF SchedulerTypeOK, Batches, Durations, Steps, update
<1>3. /\ done' = done + 1 /\ told' = told + StepDelta(done) + StepDropped(done)
      /\ UNCHANGED <<options, observed, accumulated, now, batch, start>>
      /\ stage' = IF done + 1 < Steps(batch) THEN "run" ELSE "select"
  BY DEF update
<1>4. StepDelta(done) \in Nat /\ StepDropped(done) \in Nat BY <1>2 DEF StepDelta, StepDropped
<1>5. Unplayed = StepDelta(done) + Unplayed'
 <2>1. CASE done + 1 < batch.fixed
  <3>1. Unplayed = (batch.fixed - done) * s + batch.free * batch.delta BY <1>2, <2>1 DEF Unplayed
  <3>2. Unplayed' = (batch.fixed - (done + 1)) * s + batch.free * batch.delta BY <1>2, <1>3, <2>1 DEF Unplayed
  <3>3. StepDelta(done) = s BY <1>2, <2>1 DEF StepDelta
  <3>4. (batch.fixed - done) * s = s + (batch.fixed - (done + 1)) * s
   <4>1. batch.fixed \in Int /\ done \in Int /\ s \in Int BY <1>2
   <4> HIDE DEF s
   <4> QED BY ONLY <4>1, OneMore
  <3> QED BY <1>2, <3>1, <3>2, <3>3, <3>4
 <2>2. CASE done + 1 = batch.fixed
  <3>1. Unplayed = s + batch.free * batch.delta
   <4>1. batch.fixed - done = 1 BY <1>2, <2>2
   <4> QED BY <4>1, <1>2, <2>2 DEF Unplayed
  <3>2. Unplayed' = batch.free * batch.delta
   <4>1. Steps(batch) - (done + 1) = batch.free BY <1>2, <2>2 DEF Steps
   <4> QED BY <4>1, <1>2, <1>3, <2>2 DEF Unplayed
  <3> QED BY <1>2, <2>2, <3>1, <3>2 DEF StepDelta
 <2>3. CASE done >= batch.fixed
  <3>1. done = batch.fixed /\ batch.free = 1 BY <1>2, <2>3
  <3>2. Unplayed = batch.delta /\ Unplayed' = 0 BY <1>2, <1>3, <3>1 DEF Unplayed, Steps
  <3> QED BY <1>2, <3>1, <3>2 DEF StepDelta
 <2> QED BY <1>2, <2>1, <2>2, <2>3
<1>6. Undisclosed = StepDropped(done) + Undisclosed' BY <1>2, <1>3 DEF Undisclosed, StepDropped, Steps
<1>7. SchedulerTypeOK' BY <1>1, <1>2, <1>3, <1>4 DEF SchedulerTypeOK, Batches, Steps
<1>8. AllTimeTold'
 <2>1. Unplayed' \in Int /\ Undisclosed' \in Int
  <3>1. \A a, b \in Int : a * b \in Int OBVIOUS
  <3> QED BY <1>2, <1>3, <3>1 DEF Unplayed, Undisclosed, Steps
 <2> QED BY <1>1, <1>2, <1>3, <1>4, <1>5, <1>6, <2>1 DEF AllTimeTold
<1>9. PhaseKept' BY <1>1, <1>3 DEF PhaseKept
<1>10. Played' BY <1>2, <1>3 DEF Played, Steps
<1> QED BY <1>7, <1>8, <1>9, <1>10 DEF TimeInv

\* the steps that change neither the scheduler nor its batch
LEMMA OthersPreserve ==
    TimeInv /\ (AdvanceThrows \/ Stop \/ ClockRuns \/ UNCHANGED schedulerVars) => TimeInv'
<1> SUFFICES ASSUME TimeInv, AdvanceThrows \/ Stop \/ ClockRuns \/ UNCHANGED schedulerVars PROVE TimeInv' OBVIOUS
<1>1. SchedulerTypeOK /\ AllTimeTold /\ PhaseKept /\ Played BY DEF TimeInv
<1>2. /\ UNCHANGED <<options, observed, accumulated, batch, done, start, told>>
      /\ now' \in TimePoints /\ now' >= now
      /\ (stage' = stage \/ stage' \in {"stopped", "failed"})
  BY <1>1, TimingAssumption DEF AdvanceThrows, Stop, ClockRuns, schedulerVars, SchedulerTypeOK, TimePoints
<1>3. SchedulerTypeOK' BY <1>1, <1>2, TimingAssumption DEF SchedulerTypeOK, TimePoints, Steps
<1>4. AllTimeTold' BY <1>1, <1>2 DEF AllTimeTold, Unplayed, Undisclosed, Steps
<1>5. PhaseKept' /\ Played' BY <1>1, <1>2 DEF PhaseKept, Played, Steps
<1> QED BY <1>3, <1>4, <1>5 DEF TimeInv

LEMMA TimeInvHolds == SchedulerSpec => []TimeInv
<1>1. SchedulerInit => TimeInv BY TimeStarts
<1>2. TimeInv /\ [SchedulerNext]_schedulerVars => TimeInv'
  BY AdvancePreserves, UpdatePreserves, OthersPreserve DEF SchedulerNext
<1> QED BY <1>1, <1>2, PTL DEF SchedulerSpec

\* The type invariant: accumulated time stays a representable duration and the
\* loop within its batch, whatever the options and the clock.
THEOREM TypeCorrect == SchedulerSpec => []SchedulerTypeOK
BY TimeInvHolds, PTL DEF TimeInv

\* Every tick of the clock is simulated, reported as dropped, in the running
\* batch or still accumulated (Scheduler::advance and the loop that plays it).
THEOREM NoTimeLost == SchedulerSpec => []AllTimeTold
BY TimeInvHolds, PTL DEF TimeInv

\* Dropping lag never shifts the grid of the fixed steps (Scheduler::advance).
THEOREM StepsKeepPhase == SchedulerSpec => []PhaseKept
BY TimeInvHolds, PTL DEF TimeInv

\* No stall loses time, invents it or shifts the grid of the steps.
THEOREM TimeKept == SchedulerSpec => []TimeIsKept
BY NoTimeLost, StepsKeepPhase, PTL DEF TimeIsKept

\* The scheduler's arithmetic never leaves the range of its types.
THEOREM NoOverflow == SchedulerSpec => []InRange
<1>1. TimeInv => InRange
 <2> SUFFICES ASSUME TimeInv PROVE InRange OBVIOUS
 <2>1. /\ MaxTime \in Nat /\ Interval \in Nat /\ accumulated \in Nat
       /\ observed \in TimePoints /\ now \in TimePoints /\ observed <= now
   BY ValidOptions DEF TimeInv, SchedulerTypeOK, Durations
 <2>2. SpanFits => now - observed \in Durations BY <2>1 DEF SpanFits, Durations, TimePoints
 <2>3. Accepts => accumulated + (now - observed) \in Durations BY <2>1 DEF Accepts, SumFits, Durations, TimePoints
 <2>4. next_update_at \in TimePoints BY <2>1 DEF next_update_at, Remaining, TimePoints
 <2> QED BY <2>2, <2>3, <2>4 DEF InRange
<1> QED BY <1>1, TimeInvHolds, PTL

\* A scheduler that starts at or after the clock's epoch is never refused.
THEOREM ClockNeverRefused == SchedulerSpec => []NeverRefused
<1>1. TimeInv /\ start >= 0 => Accepts
 <2> SUFFICES ASSUME TimeInv, start >= 0 PROVE Accepts OBVIOUS
 <2>1. /\ MaxTime \in Nat /\ accumulated \in Nat /\ told \in Nat
       /\ observed \in TimePoints /\ now \in TimePoints /\ start \in TimePoints
       /\ observed <= now /\ start <= observed
   BY TimingAssumption DEF TimeInv, SchedulerTypeOK, Durations
 <2>2. Unplayed \in Nat /\ Undisclosed \in Nat
  <3>1. /\ batch.fixed \in Nat /\ batch.free \in {0, 1} /\ batch.delta \in Nat
        /\ batch.dropped \in Nat /\ done \in 0 .. batch.fixed + batch.free
        /\ options.fixed_step \in Nat
    BY ValidOptions DEF TimeInv, SchedulerTypeOK, Batches, Steps
  <3>2. \A a, b \in Nat : a * b \in Nat OBVIOUS
  <3>3. CASE done < batch.fixed
   <4>1. (batch.fixed - done) * options.fixed_step \in Nat /\ batch.free * batch.delta \in Nat BY <3>1, <3>2, <3>3
   <4> QED BY <4>1, <3>1, <3>3 DEF Unplayed, Undisclosed, Steps
  <3>4. CASE done >= batch.fixed
   <4>1. (batch.fixed + batch.free - done) * batch.delta \in Nat BY <3>1, <3>2, <3>4
   <4> QED BY <4>1, <3>1, <3>4 DEF Unplayed, Undisclosed, Steps
  <3> QED BY <3>1, <3>3, <3>4
 <2>3. accumulated <= observed - start BY <2>1, <2>2 DEF TimeInv, AllTimeTold, TimePoints
 <2> QED BY <2>1, <2>3 DEF Accepts, SpanFits, SumFits, TimePoints
<1>2. SchedulerInit => NeverRefused BY DEF SchedulerInit, NeverRefused
<1>3. TimeInv /\ NeverRefused /\ [SchedulerNext]_schedulerVars => NeverRefused'
  BY <1>1 DEF NeverRefused, SchedulerNext, schedulerVars, advance, AdvanceThrows, update, Stop, ClockRuns
<1> QED BY <1>2, <1>3, TimeInvHolds, PTL DEF SchedulerSpec

--------------------
\* ---- What a selection yields, and when. ----
IntervalOf(o) == IF o.mode = Variable THEN o.variable_interval ELSE o.fixed_step

\* A selection is bounded by the options, and has a step as soon as it may.
Yields(b, o, t) ==
  /\ o.mode = Variable => Steps(b) <= 1 /\ b.dropped = 0
  /\ o.mode = Fixed => Steps(b) <= o.max_fixed_updates + b.free
  /\ b.dropped > 0 => IF b.free = 0 THEN b.fixed = o.max_fixed_updates
                                    ELSE b.delta = o.recovery_cap
  /\ Steps(b) = 0 <=> t < IntervalOf(o)

LEMMA VariableYields ==
  ASSUME NEW o \in TimingOptions, IsValid(o), NEW t \in Nat, o.mode = Variable
  PROVE  Yields(VariableBatch(o, t), o, t)
<1>1. o.variable_interval \in Int BY DEF TimingOptions
<1>2. CASE t >= o.variable_interval
 <2>1. VariableBatch(o, t) = [fixed |-> 0, free |-> 1, delta |-> t, dropped |-> 0, left |-> 0]
   BY <1>2 DEF VariableBatch, NoBatch
 <2> QED BY <1>1, <1>2, <2>1 DEF Yields, IntervalOf, Steps, Variable, Fixed
<1>3. CASE ~(t >= o.variable_interval)
 <2>1. VariableBatch(o, t) = [fixed |-> 0, free |-> 0, delta |-> 0, dropped |-> 0, left |-> t]
   BY <1>3 DEF VariableBatch, NoBatch
 <2> QED BY <1>1, <1>3, <2>1 DEF Yields, IntervalOf, Steps, Variable, Fixed
<1> QED BY <1>2, <1>3

\* A whole step fits as soon as its length has passed.
LEMMA WholeSteps ==
  ASSUME NEW t \in Nat, NEW s \in Nat \ {0}
  PROVE  t \div s \in Nat /\ (t \div s = 0 <=> t < s)
<1>1. PICK q, r : q = t \div s /\ r = t % s OBVIOUS
<1>2. q \in Nat /\ r \in 0 .. s - 1 /\ t = s * q + r
 <2>1. t \in Int /\ s \in Nat \ {0} OBVIOUS
 <2>2. /\ t \div s \in Int /\ (t >= 0 => t \div s >= 0) /\ t % s \in 0 .. s - 1
       /\ t = s * (t \div s) + (t % s)
   BY ONLY <2>1, Division
 <2> QED BY <1>1, <2>2
<1>3. q >= 1 => s * q >= s BY <1>2
<1>4. q = 0 => s * q = 0 BY <1>2
<1> QED BY <1>1, <1>2, <1>3, <1>4

LEMMA CatchUpYields ==
  ASSUME NEW o \in TimingOptions, IsValid(o), NEW t \in Nat, Overloaded(o, t), o.mode = Fixed
  PROVE  Yields(CatchUpBatch(o, t), o, t)
<1>1. PICK b : b = CatchUpBatch(o, t) OBVIOUS
<1>2. b \in Batches /\ b.free = 1 /\ b.fixed = o.fixed_updates_before_recovery
  BY <1>1, CatchUpAccounts DEF Accounts, CatchUpBatch
<1>3. /\ o.max_fixed_updates \in Nat /\ o.fixed_updates_before_recovery \in Nat
      /\ o.fixed_step \in Nat \ {0} /\ o.recovery_cap \in Nat
      /\ o.fixed_updates_before_recovery <= o.max_fixed_updates
  BY TimingAssumption DEF TimingOptions, IsValid, Durations
<1>4. b.dropped > 0 => b.delta = o.recovery_cap
 <2>1. PICK debt : debt = t - o.fixed_updates_before_recovery * o.fixed_step OBVIOUS
 <2>2. PICK recovery : recovery = IF o.recovery_cap = 0 THEN debt ELSE Smaller(debt, o.recovery_cap) OBVIOUS
 <2>3. b.delta = recovery /\ b.dropped = debt - recovery BY <1>1, <2>1, <2>2 DEF CatchUpBatch
 <2>4. debt \in Int
  <3>1. \A x, y \in Nat : x * y \in Int OBVIOUS
  <3> QED BY <1>3, <2>1, <3>1
 <2>5. recovery = debt \/ recovery = o.recovery_cap BY <2>2 DEF Smaller
 <2>6. recovery = debt => debt - recovery = 0 BY <2>4
 <2> QED BY <2>3, <2>5, <2>6
<1>5. t >= o.fixed_step
 <2>1. t \div o.fixed_step > o.max_fixed_updates BY DEF Overloaded
 <2>2. t \div o.fixed_step \in Nat /\ t \div o.fixed_step # 0 BY <1>3, <2>1, WholeSteps
 <2> QED BY <1>3, <2>2, WholeSteps
<1>6. Steps(b) # 0 /\ Steps(b) <= o.max_fixed_updates + b.free BY <1>2, <1>3 DEF Steps
<1>7. ~(t < IntervalOf(o)) BY <1>3, <1>5 DEF IntervalOf, Variable, Fixed
<1> QED BY <1>1, <1>2, <1>4, <1>6, <1>7 DEF Yields, Variable, Fixed

LEMMA FixedYields ==
  ASSUME NEW o \in TimingOptions, IsValid(o), NEW t \in Nat, o.mode = Fixed
  PROVE  Yields(FixedBatch(o, t), o, t)
<1>1. PICK b : b = FixedBatch(o, t) OBVIOUS
<1>2. PICK s \in Nat \ {0}, m \in Nat \ {0} : s = o.fixed_step /\ m = o.max_fixed_updates
  BY TimingAssumption DEF TimingOptions, IsValid, Durations
<1>3. PICK q \in Nat : q = t \div s /\ (q = 0 <=> t < s) BY WholeSteps
<1>4. PICK n \in Nat : n = Smaller(q, m) /\ n <= m /\ n <= q /\ (n = q \/ n = m) /\ (n = 0 <=> q = 0) BY DEF Smaller
<1>5. b \in Batches /\ b.fixed = n /\ b.free = 0 BY <1>1, <1>2, <1>3, <1>4, FixedAccounts DEF Accounts, FixedBatch
<1>6. n = q => b.dropped = 0
 <2>1. PICK debt : debt = t - n * s OBVIOUS
 <2>2. b.dropped = debt - (debt % s) BY <1>1, <1>2, <1>3, <1>4, <2>1 DEF FixedBatch
 <2>3. t % s \in 0 .. s - 1 /\ t = s * q + (t % s)
  <3>1. t \in Int /\ s \in Nat \ {0} OBVIOUS
  <3>2. t % s \in 0 .. s - 1 /\ t = s * (t \div s) + (t % s) BY ONLY <3>1, Division
  <3> QED BY <1>3, <3>2
 <2>4. n = q => debt = t % s
  <3>1. s * q = q * s /\ s * q \in Int BY <1>2, <1>3
  <3> QED BY <2>1, <2>3, <3>1
 <2>5. n = q => debt % s = debt
  <3>1. PICK r \in 0 .. s - 1 : r = t % s BY <2>3
  <3>2. (s * 0 + r) % s = r
   <4>1. s \in Nat \ {0} /\ 0 \in Int /\ r \in 0 .. s - 1 OBVIOUS
   <4> QED BY ONLY <4>1, RemainderUnique
  <3>3. s * 0 + r = r OBVIOUS
  <3> QED BY <2>4, <3>1, <3>2, <3>3
 <2>6. n = q => debt \in Int BY <2>3, <2>4
 <2> QED BY <2>2, <2>5, <2>6
<1>7. Steps(b) = n BY <1>4, <1>5 DEF Steps
<1>8. b.dropped > 0 => b.fixed = o.max_fixed_updates BY <1>2, <1>4, <1>5, <1>6
<1>9. IntervalOf(o) = s BY <1>2 DEF IntervalOf, Variable, Fixed
<1> QED BY <1>1, <1>2, <1>3, <1>4, <1>5, <1>7, <1>8, <1>9 DEF Yields, Variable, Fixed

LEMMA SelectionYields ==
  ASSUME NEW o \in TimingOptions, IsValid(o), NEW t \in Nat
  PROVE  Yields(Selected(o, t), o, t)
<1>1. o.mode = Variable \/ o.mode = Fixed BY DEF TimingOptions
<1> QED BY <1>1, VariableYields, CatchUpYields, FixedYields DEF Selected, Variable, Fixed

\* One advance of the loop, seen from the deadline it slept to.
InTime ==
  observed' # observed =>
      /\ observed' < next_update_at => Steps(batch') = 0
      /\ Steps(batch') = 0 => observed' < next_update_at \/ next_update_at = MaxTime

LEMMA AdvanceInTime ==
  ASSUME TimeInv, advance
  PROVE  BurstBounded' /\ InTime
<1>1. /\ MaxTime \in Nat /\ options \in TimingOptions /\ IsValid(options) /\ Interval \in Nat
      /\ observed \in Int /\ now \in Int /\ accumulated \in Nat /\ observed <= now
  BY ValidOptions, TimingAssumption DEF TimeInv, SchedulerTypeOK, TimePoints, Durations
<1>2. PICK t \in Nat : t = accumulated + (now - observed) BY <1>1
<1>3. batch' = Selected(options, t) /\ observed' = now /\ options' = options BY <1>2 DEF advance
<1>4. Yields(batch', options, t) BY <1>1, <1>3, SelectionYields
<1>5. BurstBounded' BY <1>3, <1>4 DEF Yields, BurstBounded
<1>6. Steps(batch') = 0 <=> t < Interval BY <1>4 DEF Yields, IntervalOf, Interval
<1>7. now < next_update_at => t < Interval BY <1>1, <1>2 DEF next_update_at, Remaining
<1>8. t < Interval => now < next_update_at \/ next_update_at = MaxTime BY <1>1, <1>2 DEF next_update_at, Remaining
<1> QED BY <1>3, <1>5, <1>6, <1>7, <1>8 DEF InTime

LEMMA StepInTime ==
  ASSUME TimeInv, BurstBounded, [SchedulerNext]_schedulerVars
  PROVE  BurstBounded' /\ InTime
<1>1. CASE advance BY <1>1, AdvanceInTime
<1>2. CASE AdvanceThrows \/ update \/ Stop \/ ClockRuns \/ UNCHANGED schedulerVars
 <2>1. UNCHANGED <<batch, options, observed>> BY <1>2 DEF AdvanceThrows, update, Stop, ClockRuns, schedulerVars
 <2> QED BY <2>1 DEF BurstBounded, InTime, Steps
<1> QED BY <1>1, <1>2 DEF SchedulerNext

LEMMA NoBurstYet == SchedulerInit => BurstBounded
<1> SUFFICES ASSUME SchedulerInit PROVE BurstBounded OBVIOUS
<1>1. options.max_fixed_updates \in Nat BY TimeStarts DEF TimeInv, SchedulerTypeOK, TimingOptions
<1> QED BY <1>1 DEF SchedulerInit, BurstBounded, NoBatch, Steps

\* A woken loop neither idles past a due update nor spins on an empty batch, and
\* no stall makes a batch larger than the options allow, for every clock width
\* and every options (next_update_at, advance and the loop's wait).
THEOREM LoopIsOnTime == SchedulerSpec => OnTime
<1>1. TimeInv /\ BurstBounded /\ [SchedulerNext]_schedulerVars => BurstBounded' /\ InTime BY StepInTime
<1>2. SchedulerSpec => []BurstBounded BY <1>1, NoBurstYet, TimeInvHolds, PTL DEF SchedulerSpec
<1>3. TimeInv /\ BurstBounded /\ [SchedulerNext]_schedulerVars => [BurstBounded' /\ InTime]_schedulerVars BY <1>1
<1> QED BY <1>2, <1>3, TimeInvHolds, PTL DEF SchedulerSpec, OnTime, InTime

\* ---- View sources and their required bindings. ----

Payload == [revision : Nat \ {0}, seed : BOOLEAN]
PublishFrames == [at : {"publish"}, payload : Payload, todo : Seq(Watches), failed : BOOLEAN]
NotifyFrames == [at : {"notify"}, payload : Payload, todo : Seq(Watches)]
WatchFrames == [at : {"attach", "call", "wait"}, watch : Watches]
AllFrames == PublishFrames \cup NotifyFrames \cup WatchFrames

\* The frame at height h of a stack, the lowest being at 1; and which calls,
\* attachments and waits a stack has.
BatchAt(s, h) == s[Len(s) + 1 - h]
HasOne(s, f) == \E h \in 1 .. Len(s) : BatchAt(s, h) = f
Called(s, w) == HasOne(s, Callback(w))
Seeding(s, w) == HasOne(s, Attaching(w))
Waiting(s, w) == HasOne(s, WaitingFor(w))

Own == stack[Owner]
Lowest == BatchAt(Own, 1)
Awaits(w) == publishing /\ w \in ToSet(Lowest.todo)

GateTypes ==
  /\ revision \in 0 .. MaxRevision /\ closed \in BOOLEAN /\ publishing \in BOOLEAN
  /\ bindings \in Seq(Watches) /\ channel \in Seq(Watches)
  /\ fresh \subseteq Watches /\ (revision = 0 => fresh = Watches)
  /\ held \subseteq Watches \ fresh /\ active \subseteq Watches \ fresh
  /\ entered \subseteq Watches \ fresh /\ failures \subseteq Watches \ fresh
  /\ threw \subseteq entered /\ released \subseteq Watches \ (fresh \cup active)
  /\ running \in [Watches -> {0, 1}] /\ seen \in [Watches -> 0 .. revision]
  /\ operation \in [Watches -> {None} \cup Payload]

ListTypes ==
  /\ IsInjective(bindings) /\ ToSet(bindings) \subseteq Watches \ fresh
  /\ IsInjective(channel) /\ ToSet(channel) \subseteq Watches \ fresh

\* What lies on what: a publication is lowest, nothing is above a wait, only
\* the seed's call above an attachment; a watch is called, and is attached,
\* once at a time.
Nested(s) ==
  /\ \A h \in 1 .. Len(s) : BatchAt(s, h).at = "publish" => h = 1
  /\ \A h \in 1 .. Len(s) : BatchAt(s, h).at = "wait" => h = Len(s)
  /\ \A h \in 1 .. Len(s) : BatchAt(s, h).at = "attach" => h = Len(s) \/ BatchAt(s, h + 1) = Callback(BatchAt(s, h).watch)
  /\ \A h, k \in 1 .. Len(s) :
        BatchAt(s, h).at \in {"call", "attach"} /\ BatchAt(s, h) = BatchAt(s, k) => h = k

\* Threads other than the owner only send and wait.
Sends(s) == \A h \in 1 .. Len(s) : BatchAt(s, h).at \in {"notify", "wait"}

Stacks ==
  /\ stack \in [Threads -> Seq(AllFrames)]
  /\ Nested(Own)
  /\ publishing <=> Own # <<>> /\ Lowest.at = "publish"
  /\ \A t \in Threads \ {Owner} : Sends(stack[t])

\* A gate is open exactly while the owner is inside the callback.
Running == \A w \in Watches : running[w] = 1 <=> Called(Own, w)

\* A watch that is waited for can no longer be entered.
Waits ==
  \A t \in Threads, w \in Watches : Waiting(stack[t], w) =>
      /\ w \notin active \cup fresh
      /\ t = Owner => ~Called(Own, w)

\* An attachment in progress is armed with its seed, which has been seen,
\* and nobody else can know of the watch.
Seeds ==
  \A w \in Watches : Seeding(Own, w) =>
      /\ revision > 0 /\ operation[w] = Seed(revision) /\ seen[w] = revision
      /\ w \in entered /\ w \notin held /\ w \notin threw
      /\ w \notin ToSet(bindings)

\* The watches still to be collected are armed with the change, those that
\* were entered have seen it, and what they threw is still to be reported.
Publication ==
  publishing =>
      /\ revision > 0 /\ Lowest.payload = Change(revision)
      /\ IsInjective(Lowest.todo) /\ ToSet(Lowest.todo) \subseteq ToSet(bindings)
      /\ (threw # {}) <=> (Lowest.failed \/ \E w \in ToSet(Lowest.todo) : w \in threw)
      /\ \A w \in ToSet(Lowest.todo) :
            /\ operation[w] = Change(revision)
            /\ w \in entered => seen[w] = revision
            /\ w \notin entered => seen[w] < revision /\ running[w] = 0
            /\ w \in failures <=> w \in threw

\* Nobody is armed but for the operation in progress, and nobody attached
\* is behind but for the watches still to be collected.
Reached ==
  /\ \A w \in Watches : operation[w] # None => Awaits(w) \/ Seeding(Own, w)
  /\ \A w \in active : w \in ToSet(bindings) \/ Seeding(Own, w)
  /\ \A w \in active : w \in ToSet(bindings) => seen[w] = revision \/ Awaits(w)
  /\ \A w \in fresh : seen[w] = 0
  /\ \A w \in fresh \cup threw \cup released : running[w] = 0

BindingsInv == GateTypes /\ ListTypes /\ Stacks /\ Running /\ Waits /\ Seeds /\ Publication /\ Reached

--------------------
\* Frames and stacks.

LEMMA FrameKinds ==
    /\ \A w \in Watches : /\ Callback(w) \in AllFrames /\ Callback(w).at = "call" /\ Callback(w).watch = w
                        /\ Attaching(w) \in AllFrames /\ Attaching(w).at = "attach" /\ Attaching(w).watch = w
                        /\ WaitingFor(w) \in AllFrames /\ WaitingFor(w).at = "wait" /\ WaitingFor(w).watch = w
    /\ \A p \in Payload, l \in Seq(Watches) :
        /\ Notifying(p, l) \in AllFrames /\ Notifying(p, l).at = "notify"
        /\ Notifying(p, l).payload = p /\ Notifying(p, l).todo = l
        /\ \A b \in BOOLEAN : /\ Publishing(p, l, b) \in AllFrames /\ Publishing(p, l, b).at = "publish"
                              /\ Publishing(p, l, b).payload = p /\ Publishing(p, l, b).todo = l
                              /\ Publishing(p, l, b).failed = b
<1>1. \A w \in Watches : /\ Callback(w) \in AllFrames /\ Callback(w).at = "call" /\ Callback(w).watch = w
                         /\ Attaching(w) \in AllFrames /\ Attaching(w).at = "attach" /\ Attaching(w).watch = w
                         /\ WaitingFor(w) \in AllFrames /\ WaitingFor(w).at = "wait" /\ WaitingFor(w).watch = w
  BY DEF Callback, Attaching, WaitingFor, AllFrames, WatchFrames
<1>2. ASSUME NEW p \in Payload, NEW l \in Seq(Watches)
      PROVE  /\ Notifying(p, l) \in AllFrames /\ Notifying(p, l).at = "notify"
             /\ Notifying(p, l).payload = p /\ Notifying(p, l).todo = l
  BY DEF Notifying, AllFrames, NotifyFrames
<1>3. ASSUME NEW p \in Payload, NEW l \in Seq(Watches), NEW b \in BOOLEAN
      PROVE  /\ Publishing(p, l, b) \in AllFrames /\ Publishing(p, l, b).at = "publish"
             /\ Publishing(p, l, b).payload = p /\ Publishing(p, l, b).todo = l
             /\ Publishing(p, l, b).failed = b
  BY DEF Publishing, AllFrames, PublishFrames
<1> QED BY <1>1, <1>2, <1>3

LEMMA FrameOf ==
  ASSUME NEW f \in AllFrames
  PROVE  /\ f.at \in {"publish", "notify", "attach", "call", "wait"}
         /\ f.at = "publish" => f.payload \in Payload /\ f.todo \in Seq(Watches) /\ f.failed \in BOOLEAN
         /\ f.at = "notify" => f.payload \in Payload /\ f.todo \in Seq(Watches)
         /\ f.at = "call" => f.watch \in Watches /\ f = Callback(f.watch)
         /\ f.at = "attach" => f.watch \in Watches /\ f = Attaching(f.watch)
         /\ f.at = "wait" => f.watch \in Watches /\ f = WaitingFor(f.watch)
<1>1. CASE f \in PublishFrames BY <1>1 DEF PublishFrames
<1>2. CASE f \in NotifyFrames BY <1>2 DEF NotifyFrames
<1>3. CASE f \in WatchFrames BY <1>3 DEF WatchFrames, Callback, Attaching, WaitingFor
<1> QED BY <1>1, <1>2, <1>3 DEF AllFrames

\* u is s with f on top.
PushedOn(u, s, f) ==
  /\ u \in Seq(AllFrames) /\ Len(u) = Len(s) + 1 /\ Len(s) \in Nat
  /\ u # <<>> /\ Head(u) = f /\ BatchAt(u, Len(u)) = f
  /\ \A h \in 1 .. Len(s) : BatchAt(u, h) = BatchAt(s, h)
  /\ BatchAt(u, 1) = IF s = <<>> THEN f ELSE BatchAt(s, 1)
  /\ \A g : HasOne(u, g) <=> HasOne(s, g) \/ g = f

LEMMA Pushed ==
  ASSUME NEW s \in Seq(AllFrames), NEW f \in AllFrames
  PROVE  PushedOn(<<f>> \o s, s, f)
<1>0. PICK u : u = <<f>> \o s OBVIOUS
<1>1. <<f>> \in Seq(AllFrames) /\ Len(<<f>>) = 1 /\ <<f>>[1] = f OBVIOUS
<1>2. /\ u \in Seq(AllFrames) /\ Len(u) = 1 + Len(s)
      /\ \A i \in 1 .. 1 + Len(s) : u[i] = IF i <= 1 THEN <<f>>[i] ELSE s[i - 1]
  BY <1>0, <1>1, ConcatProperties, Zenon
<1>3. Len(s) \in Nat /\ (s = <<>> <=> Len(s) = 0) BY EmptySeq
<1>4. u # <<>> /\ Head(u) = u[1] /\ u[1] = f BY <1>1, <1>2, <1>3, EmptySeq, HeadTailProperties
<1>5. /\ BatchAt(u, Len(u)) = f
      /\ \A h \in 1 .. Len(s) : BatchAt(u, h) = BatchAt(s, h)
  BY <1>1, <1>2, <1>3 DEF BatchAt
<1>6. BatchAt(u, 1) = IF s = <<>> THEN f ELSE BatchAt(s, 1) BY <1>2, <1>3, <1>5
<1>7. ASSUME NEW g PROVE HasOne(u, g) <=> HasOne(s, g) \/ g = f
 <2>1. \A h \in 1 .. Len(u) : h = Len(u) \/ h \in 1 .. Len(s) BY <1>2, <1>3
 <2>2. Len(u) \in 1 .. Len(u) /\ \A h \in 1 .. Len(s) : h \in 1 .. Len(u) BY <1>2, <1>3
 <2> QED BY <2>1, <2>2, <1>5 DEF HasOne
<1>8. PushedOn(u, s, f) BY <1>2, <1>3, <1>4, <1>5, <1>6, <1>7 DEF PushedOn
<1> QED BY <1>0, <1>8

LEMMA Popped ==
  ASSUME NEW s \in Seq(AllFrames), s # <<>>
  PROVE  Tail(s) \in Seq(AllFrames) /\ Head(s) \in AllFrames /\ s = <<Head(s)>> \o Tail(s)
<1>1. /\ Tail(s) \in Seq(AllFrames) /\ Len(Tail(s)) = Len(s) - 1
      /\ \A i \in 1 .. Len(Tail(s)) : Tail(s)[i] = s[i + 1]
      /\ Head(s) = s[1] /\ Head(s) \in AllFrames
  BY HeadTailProperties, EmptySeq, ElementOfSeq
<1>2. PICK t, h : t = Tail(s) /\ h = Head(s) OBVIOUS
<1>3. t \in Seq(AllFrames) /\ h \in AllFrames BY <1>1, <1>2
<1>4. PICK u : u = <<h>> \o t OBVIOUS
<1>5. /\ u \in Seq(AllFrames) /\ Len(u) = 1 + Len(t)
      /\ \A i \in 1 .. 1 + Len(t) : u[i] = IF i <= 1 THEN h ELSE t[i - 1]
 <2>1. <<h>> \in Seq(AllFrames) /\ Len(<<h>>) = 1 /\ <<h>>[1] = h BY <1>3
 <2>2. /\ u \in Seq(AllFrames) /\ Len(u) = 1 + Len(t)
       /\ \A i \in 1 .. 1 + Len(t) : u[i] = IF i <= 1 THEN <<h>>[i] ELSE t[i - 1]
   BY <1>3, <1>4, <2>1, ConcatProperties, Zenon
 <2> QED BY <2>1, <2>2
<1>6. Len(s) \in Nat /\ Len(s) >= 1 BY EmptySeq
<1>7. Len(u) = Len(s) /\ \A i \in 1 .. Len(s) : u[i] = s[i] BY <1>1, <1>2, <1>5, <1>6
<1>8. u = s BY <1>5, <1>7, SeqEqual
<1> QED BY <1>1, <1>2, <1>4, <1>8

LEMMA NestedUnder ==
  ASSUME NEW s \in Seq(AllFrames), NEW f \in AllFrames, Nested(s),
         f.at = "publish" => s = <<>>,
         s # <<>> => BatchAt(s, Len(s)).at # "wait",
         s # <<>> => (BatchAt(s, Len(s)).at = "attach" => f = Callback(BatchAt(s, Len(s)).watch)),
         f.at \in {"call", "attach"} => ~HasOne(s, f)
  PROVE  Nested(<<f>> \o s)
<1>1. PICK u : u = <<f>> \o s OBVIOUS
<1>0. PushedOn(u, s, f) BY <1>1, Pushed
<1>2. /\ Len(u) = Len(s) + 1 /\ Len(s) \in Nat /\ BatchAt(u, Len(u)) = f
      /\ \A h \in 1 .. Len(s) : BatchAt(u, h) = BatchAt(s, h)
  BY <1>0 DEF PushedOn
<1>3. \A h \in 1 .. Len(u) : h = Len(u) \/ (h \in 1 .. Len(s) /\ h < Len(u)) BY <1>2
<1>4. s = <<>> <=> Len(s) = 0 BY EmptySeq
<1>5. ASSUME NEW h \in 1 .. Len(u), BatchAt(u, h).at = "publish" PROVE h = 1 BY <1>2, <1>3, <1>4, <1>5 DEF Nested
<1>6. ASSUME NEW h \in 1 .. Len(u), BatchAt(u, h).at = "wait" PROVE h = Len(u) BY <1>2, <1>3, <1>4, <1>6 DEF Nested
<1>7. ASSUME NEW h \in 1 .. Len(u), BatchAt(u, h).at = "attach"
      PROVE  h = Len(u) \/ BatchAt(u, h + 1) = Callback(BatchAt(u, h).watch)
 <2>1. CASE h = Len(u) BY <2>1
 <2>2. CASE h \in 1 .. Len(s) /\ h = Len(s) BY <1>2, <1>4, <1>7, <2>2
 <2>3. CASE h \in 1 .. Len(s) /\ h # Len(s)
  <3>1. h + 1 \in 1 .. Len(s) /\ BatchAt(u, h + 1) = BatchAt(s, h + 1) /\ BatchAt(u, h) = BatchAt(s, h) BY <1>2, <2>3
  <3> QED BY <1>7, <2>3, <3>1 DEF Nested
 <2> QED BY <1>3, <2>1, <2>2, <2>3
<1>8. ASSUME NEW h \in 1 .. Len(u), NEW k \in 1 .. Len(u),
             BatchAt(u, h).at \in {"call", "attach"}, BatchAt(u, h) = BatchAt(u, k)
      PROVE  h = k
  BY <1>2, <1>3, <1>8 DEF Nested, HasOne
<1> QED BY <1>1, <1>5, <1>6, <1>7, <1>8 DEF Nested

\* What a stack is nested under, and what its top says of the rest.
LEMMA NestedTop ==
  ASSUME NEW s \in Seq(AllFrames), NEW f \in AllFrames, Nested(<<f>> \o s)
  PROVE  /\ Nested(s)
         /\ f.at = "publish" => s = <<>>
         /\ s # <<>> => BatchAt(s, Len(s)).at # "wait"
         /\ s # <<>> => (BatchAt(s, Len(s)).at = "attach" => f = Callback(BatchAt(s, Len(s)).watch))
         /\ f.at \in {"call", "attach"} => ~HasOne(s, f)
         /\ \A w : ~Waiting(s, w)
<1>1. PICK u : u = <<f>> \o s OBVIOUS
<1>0. PushedOn(u, s, f) BY <1>1, Pushed
<1>2. /\ Len(u) = Len(s) + 1 /\ Len(s) \in Nat /\ BatchAt(u, Len(u)) = f
      /\ \A h \in 1 .. Len(s) : BatchAt(u, h) = BatchAt(s, h)
  BY <1>0 DEF PushedOn
<1>3. /\ \A h \in 1 .. Len(s) : h \in 1 .. Len(u) /\ h # Len(u)
      /\ Len(u) \in 1 .. Len(u)
      /\ s = <<>> <=> Len(s) = 0
      /\ s # <<>> => Len(s) \in 1 .. Len(s)
  BY <1>2, EmptySeq
<1>4. Nested(u) BY <1>1
<1>5. \A h \in 1 .. Len(s) : BatchAt(s, h).at # "wait" BY <1>2, <1>3, <1>4 DEF Nested
<1>6. ASSUME NEW h \in 1 .. Len(s), BatchAt(s, h).at = "attach"
      PROVE  /\ h = Len(s) \/ BatchAt(s, h + 1) = Callback(BatchAt(s, h).watch)
             /\ h = Len(s) => f = Callback(BatchAt(s, h).watch)
 <2>1. BatchAt(u, h + 1) = Callback(BatchAt(s, h).watch) BY <1>2, <1>3, <1>4, <1>6 DEF Nested
 <2>2. h = Len(s) => h + 1 = Len(u) BY <1>2
 <2>3. h # Len(s) => h + 1 \in 1 .. Len(s) BY <1>2
 <2> QED BY <1>2, <2>1, <2>2, <2>3
<1>7. \A h \in 1 .. Len(s) : BatchAt(s, h).at = "publish" => h = 1 BY <1>2, <1>3, <1>4 DEF Nested
<1>8. \A h, k \in 1 .. Len(s) : BatchAt(s, h).at \in {"call", "attach"} /\ BatchAt(s, h) = BatchAt(s, k) => h = k
  BY <1>2, <1>3, <1>4 DEF Nested
<1>9. Nested(s) BY <1>5, <1>6, <1>7, <1>8 DEF Nested
<1>10. f.at = "publish" => s = <<>> BY <1>2, <1>3, <1>4 DEF Nested
<1>11. f.at \in {"call", "attach"} => ~HasOne(s, f) BY <1>2, <1>3, <1>4 DEF Nested, HasOne
<1>12. \A w : ~Waiting(s, w) BY <1>5 DEF Waiting, HasOne, WaitingFor
<1> QED BY <1>3, <1>5, <1>6, <1>9, <1>10, <1>11, <1>12

--------------------
\* Lists.

LEMMA ListFacts ==
  ASSUME NEW l \in Seq(Watches)
  PROVE  /\ Len(l) \in Nat /\ DOMAIN l = 1 .. Len(l) /\ \A i \in 1 .. Len(l) : l[i] \in Watches
         /\ l = <<>> <=> Len(l) = 0
         /\ ToSet(l) \subseteq Watches
<1>1. Len(l) \in Nat /\ DOMAIN l = 1 .. Len(l) /\ \A i \in 1 .. Len(l) : l[i] \in Watches BY LenProperties, ElementOfSeq
<1>2. l = <<>> <=> Len(l) = 0 BY EmptySeq
<1> QED BY <1>1, <1>2 DEF ToSet

LEMMA NoList == <<>> \in Seq(Watches) /\ ToSet(<<>>) = {} /\ IsInjective(<<>>)
  BY EmptySeq DEF ToSet, IsInjective

LEMMA KeptIs ==
  ASSUME NEW l \in Seq(Watches), IsInjective(l), NEW S, NEW k \in Kept(l, S)
  PROVE  k \in Seq(Watches) /\ IsInjective(k) /\ ToSet(k) = ToSet(l) \cap S
<1>1. DOMAIN l = 1 .. Len(l) /\ Len(l) \in Nat /\ ToSet(l) \subseteq Watches BY ListFacts
<1>2. PICK n \in 0 .. Len(l) : k \in [1 .. n -> ToSet(l) \cap S] BY DEF Kept
<1>3. ToSet(k) = ToSet(l) \cap S BY DEF Kept
<1>4. n \in Nat /\ k \in [1 .. n -> Watches] /\ DOMAIN k = 1 .. n BY <1>1, <1>2
<1>5. k \in Seq(Watches) BY <1>4, SeqDef
<1>6. \A i, j \in DOMAIN k : i < j => \E x, y \in DOMAIN l : x < y /\ l[x] = k[i] /\ l[y] = k[j] BY DEF Kept
<1>7. ASSUME NEW i \in DOMAIN k, NEW j \in DOMAIN k, i < j PROVE k[i] # k[j]
 <2>1. PICK x \in DOMAIN l, y \in DOMAIN l : x < y /\ l[x] = k[i] /\ l[y] = k[j] BY <1>6, <1>7
 <2> QED BY <1>1, <2>1 DEF IsInjective
<1>8. IsInjective(k)
 <2>1. SUFFICES ASSUME NEW i \in DOMAIN k, NEW j \in DOMAIN k, k[i] = k[j] PROVE i = j BY DEF IsInjective
 <2>2. i \in Int /\ j \in Int BY <1>4
 <2> QED BY <1>7, <2>1, <2>2
<1> QED BY <1>3, <1>5, <1>8

LEMMA Appended ==
  ASSUME NEW l \in Seq(Watches), IsInjective(l), NEW w \in Watches, w \notin ToSet(l)
  PROVE  Append(l, w) \in Seq(Watches) /\ IsInjective(Append(l, w)) /\ ToSet(Append(l, w)) = ToSet(l) \cup {w}
<1>1. DOMAIN l = 1 .. Len(l) /\ Len(l) \in Nat BY ListFacts
<1>2. PICK k : k = Append(l, w) OBVIOUS
<1>3. k \in Seq(Watches) /\ Len(k) = Len(l) + 1
      /\ (\A i \in 1 .. Len(l) : k[i] = l[i]) /\ k[Len(l) + 1] = w
  BY <1>2, AppendProperties
<1>4. DOMAIN k = 1 .. Len(l) + 1 BY <1>3, ListFacts
<1>5. \A i \in DOMAIN k : i \in DOMAIN l \/ i = Len(l) + 1 BY <1>1, <1>4
<1>6. \A i \in DOMAIN l : i \in DOMAIN k /\ k[i] = l[i] BY <1>1, <1>3, <1>4
<1>7. Len(l) + 1 \in DOMAIN k BY <1>1, <1>4
<1>8. ToSet(k) = ToSet(l) \cup {w} BY <1>3, <1>5, <1>6, <1>7 DEF ToSet
<1>9. IsInjective(k)
 <2>1. SUFFICES ASSUME NEW i \in DOMAIN k, NEW j \in DOMAIN k, k[i] = k[j] PROVE i = j BY DEF IsInjective
 <2>2. ASSUME NEW x \in DOMAIN l PROVE k[x] # w BY <1>6, <2>2 DEF ToSet
 <2> QED BY <1>3, <1>5, <1>6, <2>1, <2>2 DEF IsInjective
<1> QED BY <1>2, <1>3, <1>8, <1>9

LEMMA FirstAndRest ==
  ASSUME NEW l \in Seq(Watches), l # <<>>
  PROVE  /\ Head(l) \in ToSet(l) /\ Head(l) \in Watches /\ Tail(l) \in Seq(Watches)
         /\ ToSet(Tail(l)) \subseteq ToSet(l)
         /\ IsInjective(l) => IsInjective(Tail(l)) /\ ToSet(Tail(l)) = ToSet(l) \ {Head(l)}
<1>1. DOMAIN l = 1 .. Len(l) /\ Len(l) \in Nat /\ Len(l) >= 1 /\ ToSet(l) \subseteq Watches BY ListFacts
<1>2. PICK k, h : k = Tail(l) /\ h = Head(l) OBVIOUS
<1>3. k \in Seq(Watches) /\ Len(k) = Len(l) - 1 /\ (\A i \in 1 .. Len(k) : k[i] = l[i + 1]) /\ h = l[1]
  BY <1>2, HeadTailProperties
<1>4. DOMAIN k = 1 .. Len(l) - 1 BY <1>3, ListFacts
<1>5. h \in ToSet(l) /\ ToSet(k) \subseteq ToSet(l)
 <2>1. \A i \in DOMAIN k : i + 1 \in DOMAIN l /\ k[i] = l[i + 1] BY <1>1, <1>3, <1>4
 <2> QED BY <1>1, <1>3, <2>1 DEF ToSet
<1>6. ASSUME IsInjective(l) PROVE IsInjective(k) /\ ToSet(k) = ToSet(l) \ {h}
 <2>1. \A i \in DOMAIN k : i \in Nat /\ i >= 1 /\ i + 1 \in DOMAIN l /\ k[i] = l[i + 1] BY <1>1, <1>3, <1>4
 <2>2. IsInjective(k)
  <3>1. SUFFICES ASSUME NEW i \in DOMAIN k, NEW j \in DOMAIN k, k[i] = k[j] PROVE i = j BY DEF IsInjective
  <3>2. i + 1 = j + 1 BY <1>6, <2>1, <3>1 DEF IsInjective
  <3> QED BY <2>1, <3>2
 <2>3. h \notin ToSet(k)
  <3>1. SUFFICES ASSUME NEW i \in DOMAIN k, k[i] = h PROVE FALSE BY DEF ToSet
  <3>2. i + 1 = 1 BY <1>1, <1>3, <1>6, <2>1, <3>1 DEF IsInjective
  <3> QED BY <2>1, <3>2
 <2>4. ASSUME NEW w \in ToSet(l), w # h PROVE w \in ToSet(k)
  <3>1. PICK i \in DOMAIN l : w = l[i] BY DEF ToSet
  <3>2. i # 1 BY <1>3, <2>4, <3>1
  <3>3. i - 1 \in DOMAIN k /\ k[i - 1] = w BY <1>1, <1>3, <1>4, <3>1, <3>2
  <3> QED BY <3>3 DEF ToSet
 <2> QED BY <1>5, <2>2, <2>3, <2>4
<1> QED BY <1>1, <1>2, <1>3, <1>5, <1>6

--------------------
\* Steps of a stack.

\* The stack of t becomes s.
Sets(t, s) == stack' = [stack EXCEPT ![t] = s]

LEMMA Setting ==
  ASSUME Stacks, NEW t \in Threads, NEW s \in Seq(AllFrames), Sets(t, s)
  PROVE  /\ stack' \in [Threads -> Seq(AllFrames)] /\ stack'[t] = s
         /\ \A u \in Threads \ {t} : stack'[u] = stack[u]
<1>1. stack \in [Threads -> Seq(AllFrames)] BY DEF Stacks
<1> QED BY <1>1 DEF Sets

\* A stack that is not empty is its top on a rest that it is nested on.
LEMMA TopAndRest ==
  ASSUME Stacks, NEW t \in Threads, ~Idle(t), NEW f, NEW s, f = Head(stack[t]), s = Tail(stack[t])
  PROVE  /\ f \in AllFrames /\ s \in Seq(AllFrames) /\ stack[t] = <<f>> \o s
         /\ PushedOn(stack[t], s, f)
<1>1. stack[t] \in Seq(AllFrames) /\ stack[t] # <<>> BY DEF Stacks, Idle
<1>2. f \in AllFrames /\ s \in Seq(AllFrames) /\ stack[t] = <<f>> \o s BY <1>1, Popped
<1> QED BY <1>2, Pushed

\* What the owner's stack says of its top f and the rest s.
OwnSplit(f, s) ==
  /\ f \in AllFrames /\ s \in Seq(AllFrames) /\ Own = <<f>> \o s /\ PushedOn(Own, s, f)
  /\ Nested(s)
  /\ f.at = "publish" => s = <<>>
  /\ s # <<>> => BatchAt(s, Len(s)).at # "wait"
  /\ s # <<>> => (BatchAt(s, Len(s)).at = "attach" => f = Callback(BatchAt(s, Len(s)).watch))
  /\ f.at \in {"call", "attach"} => ~HasOne(s, f)
  /\ \A w : ~Waiting(s, w)
  /\ publishing <=> Lowest.at = "publish"
  /\ Lowest = IF s = <<>> THEN f ELSE BatchAt(s, 1)

LEMMA OwnTop ==
  ASSUME Stacks, ~Idle(Owner)
  PROVE  OwnSplit(Head(Own), Tail(Own))
<1>0. PICK f, s : f = Head(Own) /\ s = Tail(Own) OBVIOUS
<1>1. Owner \in Threads BY BindingsAssumption
<1>2. f \in AllFrames /\ s \in Seq(AllFrames) /\ Own = <<f>> \o s /\ PushedOn(Own, s, f)
  BY <1>0, <1>1, TopAndRest DEF Own
<1>3. Nested(<<f>> \o s) BY <1>2 DEF Stacks
<1>4. /\ publishing <=> Lowest.at = "publish"
      /\ Lowest = IF s = <<>> THEN f ELSE BatchAt(s, 1)
  BY <1>2 DEF Stacks, Lowest, PushedOn
<1>5. /\ Nested(s)
      /\ f.at = "publish" => s = <<>>
      /\ s # <<>> => BatchAt(s, Len(s)).at # "wait"
      /\ s # <<>> => (BatchAt(s, Len(s)).at = "attach" => f = Callback(BatchAt(s, Len(s)).watch))
      /\ f.at \in {"call", "attach"} => ~HasOne(s, f)
      /\ \A w : ~Waiting(s, w)
  BY <1>2, <1>3, NestedTop
<1>6. OwnSplit(f, s) BY <1>2, <1>4, <1>5 DEF OwnSplit
<1> QED BY <1>0, <1>6

\* A step of another thread, or one of the owner that leaves calls, seeds
\* and the publication as they are.
Undisturbed ==
  /\ Stacks'
  /\ \A w \in Watches : (Called(Own, w)' <=> Called(Own, w)) /\ (Seeding(Own, w)' <=> Seeding(Own, w))
  /\ publishing => Lowest' = Lowest

\* Who waits afterwards: whoever did, or t for w.
NowWaits(t, f) ==
  \A u \in Threads, w \in Watches :
      Waiting(stack[u], w)' => Waiting(stack[u], w) \/ (u = t /\ f = WaitingFor(w))

Message(f) == f \in AllFrames /\ f.at \in {"notify", "wait"}

LEMMA MessageIs ==
  ASSUME NEW f, Message(f)
  PROVE  \A w \in Watches : f # Callback(w) /\ f # Attaching(w)
  BY DEF Message, Callback, Attaching

\* A message on top of a stack, from code of the users.
LEMMA SendOn ==
  ASSUME Stacks, NEW t \in Threads, InUserCode(t), NEW f, Message(f),
         Sets(t, <<f>> \o stack[t]), publishing' = publishing
  PROVE  Undisturbed /\ NowWaits(t, f)
<1>1. stack \in [Threads -> Seq(AllFrames)] /\ stack[t] \in Seq(AllFrames) /\ f \in AllFrames BY DEF Stacks, Message
<1>2. PICK u : u = <<f>> \o stack[t] OBVIOUS
<1>3. PushedOn(u, stack[t], f) BY <1>1, <1>2, Pushed
<1>4. /\ stack' \in [Threads -> Seq(AllFrames)] /\ stack'[t] = u
      /\ \A v \in Threads \ {t} : stack'[v] = stack[v]
  BY <1>2, <1>3, Setting DEF PushedOn
<1>5. NowWaits(t, f) BY <1>3, <1>4 DEF NowWaits, Waiting, PushedOn
<1>6. Owner \in Threads BY BindingsAssumption
<1>7. CASE t = Owner
 <2>1. stack[t] # <<>> => BatchAt(stack[t], Len(stack[t])).at = "call"
  <3>1. SUFFICES ASSUME stack[t] # <<>> PROVE BatchAt(stack[t], Len(stack[t])).at = "call" OBVIOUS
  <3>2. Head(stack[t]).at = "call" BY <3>1 DEF InUserCode, Idle, Within
  <3>3. PushedOn(stack[t], Tail(stack[t]), Head(stack[t])) BY <3>1, TopAndRest DEF Idle
  <3> QED BY <3>2, <3>3 DEF PushedOn
 <2>2. Nested(stack[t]) BY <1>7 DEF Stacks, Own
 <2>3. Nested(u)
  <3>1. f.at # "publish" /\ f.at \notin {"call", "attach"} BY DEF Message
  <3> QED BY <1>1, <1>2, <2>1, <2>2, <3>1, NestedUnder
 <2>4. BatchAt(u, 1) = IF stack[t] = <<>> THEN f ELSE BatchAt(stack[t], 1) BY <1>3 DEF PushedOn
 <2>5. publishing <=> stack[t] # <<>> /\ BatchAt(stack[t], 1).at = "publish" BY <1>7 DEF Stacks, Own, Lowest
 <2>6. u # <<>> /\ (publishing <=> BatchAt(u, 1).at = "publish") BY <1>3, <2>4, <2>5 DEF PushedOn, Message
 <2>7. Stacks' BY <1>4, <1>6, <1>7, <2>3, <2>6 DEF Stacks, Own, Lowest
 <2>8. publishing => Lowest' = Lowest BY <1>4, <1>7, <2>4, <2>5 DEF Own, Lowest
 <2>9. \A w \in Watches : (Called(Own, w)' <=> Called(Own, w)) /\ (Seeding(Own, w)' <=> Seeding(Own, w))
   BY <1>3, <1>4, <1>7, MessageIs DEF Called, Seeding, Own, PushedOn
 <2> QED BY <1>5, <2>7, <2>8, <2>9 DEF Undisturbed
<1>8. CASE t # Owner
 <2>1. Own' = Own BY <1>4, <1>6, <1>8 DEF Own
 <2>2. Sends(u)
  <3>1. Sends(stack[t]) BY <1>8 DEF Stacks
  <3>2. \A h \in 1 .. Len(u) : h = Len(u) \/ h \in 1 .. Len(stack[t]) BY <1>3 DEF PushedOn
  <3> QED BY <1>3, <3>1, <3>2 DEF Sends, PushedOn, Message
 <2>3. Stacks' BY <1>4, <1>6, <1>8, <2>1, <2>2 DEF Stacks, Lowest
 <2> QED BY <1>5, <2>1, <2>3 DEF Undisturbed, Lowest
<1> QED BY <1>7, <1>8

\* A message leaves, or gives way to another.
LEMMA SendOff ==
  ASSUME Stacks, NEW t \in Threads, ~Idle(t), Message(Head(stack[t])),
         NEW u, \/ u = Tail(stack[t])
                \/ \E g : Message(g) /\ g.at = "notify" /\ Head(stack[t]).at = "notify" /\ u = <<g>> \o Tail(stack[t]),
         Sets(t, u), publishing' = publishing
  PROVE  Undisturbed /\ NowWaits(t, Head(stack[t]))
<1>1. PICK f, s : f = Head(stack[t]) /\ s = Tail(stack[t]) OBVIOUS
<1>2. f \in AllFrames /\ s \in Seq(AllFrames) /\ PushedOn(stack[t], s, f) BY <1>1, TopAndRest
<1>3. Owner \in Threads BY BindingsAssumption
<1>4. CASE u = s
 <2>1. /\ stack' \in [Threads -> Seq(AllFrames)] /\ stack'[t] = s
       /\ \A v \in Threads \ {t} : stack'[v] = stack[v]
   BY <1>2, <1>4, Setting
 <2>2. NowWaits(t, Head(stack[t])) BY <1>2, <2>1 DEF NowWaits, Waiting, PushedOn
 <2>3. CASE t = Owner
  <3>1. Own # <<>> /\ f = Head(Own) /\ s = Tail(Own) /\ ~Idle(Owner) BY <1>1, <2>3 DEF Own, Idle
  <3>0. OwnSplit(f, s) BY <3>1, OwnTop
  <3>2. /\ Nested(s) /\ (publishing <=> Lowest.at = "publish")
        /\ Lowest = IF s = <<>> THEN f ELSE BatchAt(s, 1)
    BY <3>0 DEF OwnSplit
  <3>3. f.at # "publish" BY <1>1 DEF Message
  <3>4. Own' = s BY <2>1, <2>3 DEF Own
  <3>5. Stacks' /\ (publishing => Lowest' = Lowest) BY <1>3, <2>1, <2>3, <3>2, <3>3, <3>4 DEF Stacks, Lowest
  <3>6. \A w \in Watches : (Called(Own, w)' <=> Called(Own, w)) /\ (Seeding(Own, w)' <=> Seeding(Own, w))
    BY <1>1, <1>2, <2>3, <3>4, MessageIs DEF Called, Seeding, Own, PushedOn
  <3> QED BY <2>2, <3>5, <3>6 DEF Undisturbed
 <2>4. CASE t # Owner
  <3>1. Own' = Own BY <1>3, <2>1, <2>4 DEF Own
  <3>2. Sends(s)
   <4>1. Sends(stack[t]) BY <2>4 DEF Stacks
   <4>2. \A h \in 1 .. Len(s) : h \in 1 .. Len(stack[t]) BY <1>2 DEF PushedOn
   <4> QED BY <1>2, <4>1, <4>2 DEF Sends, PushedOn
  <3>3. Stacks' BY <1>3, <2>1, <2>4, <3>1, <3>2 DEF Stacks, Lowest
  <3> QED BY <2>2, <3>1, <3>3 DEF Undisturbed, Lowest
 <2> QED BY <2>3, <2>4
<1>5. ASSUME NEW g, Message(g), g.at = "notify", f.at = "notify", u = <<g>> \o s
      PROVE  Undisturbed /\ NowWaits(t, Head(stack[t]))
 <2>1. PushedOn(u, s, g) BY <1>2, <1>5, Pushed DEF Message
 <2>2. /\ stack' \in [Threads -> Seq(AllFrames)] /\ stack'[t] = u
       /\ \A v \in Threads \ {t} : stack'[v] = stack[v]
   BY <2>1, Setting DEF PushedOn
 <2>3. \A w : g # WaitingFor(w) BY <1>5 DEF WaitingFor
 <2>4. NowWaits(t, Head(stack[t])) BY <1>2, <2>1, <2>2, <2>3 DEF NowWaits, Waiting, PushedOn
 <2>5. CASE t = Owner
  <3>1. Own # <<>> /\ f = Head(Own) /\ s = Tail(Own) /\ ~Idle(Owner) BY <1>1, <2>5 DEF Own, Idle
  <3>0. OwnSplit(f, s) BY <3>1, OwnTop
  <3>2. /\ Nested(s) /\ (publishing <=> Lowest.at = "publish")
        /\ Lowest = IF s = <<>> THEN f ELSE BatchAt(s, 1)
        /\ s # <<>> => BatchAt(s, Len(s)).at # "wait"
        /\ s # <<>> => (BatchAt(s, Len(s)).at = "attach" => f = Callback(BatchAt(s, Len(s)).watch))
    BY <3>0 DEF OwnSplit
  <3>3. Own' = u BY <2>2, <2>5 DEF Own
  <3>4. BatchAt(u, 1) = (IF s = <<>> THEN g ELSE BatchAt(s, 1)) /\ u # <<>> BY <2>1 DEF PushedOn
  <3>5. s # <<>> => BatchAt(s, Len(s)).at # "attach" BY <1>5, <3>2 DEF Callback
  <3>6. Nested(u)
   <4>1. g.at # "publish" /\ g.at \notin {"call", "attach"} /\ g \in AllFrames BY <1>5 DEF Message
   <4> QED BY <1>2, <1>5, <3>2, <3>5, <4>1, NestedUnder
  <3>7. Stacks' /\ (publishing => Lowest' = Lowest) BY <1>3, <1>5, <2>2, <2>5, <3>2, <3>3, <3>4, <3>6 DEF Stacks, Lowest
  <3>8. \A w \in Watches : (Called(Own, w)' <=> Called(Own, w)) /\ (Seeding(Own, w)' <=> Seeding(Own, w))
   <4>1. \A w \in Watches : f # Callback(w) /\ f # Attaching(w) /\ g # Callback(w) /\ g # Attaching(w)
     BY <1>1, <1>5, MessageIs
   <4>2. stack[t] = Own BY <2>5 DEF Own
   <4> QED BY <1>2, <2>1, <3>3, <4>1, <4>2 DEF Called, Seeding, PushedOn
  <3> QED BY <2>4, <3>7, <3>8 DEF Undisturbed
 <2>6. CASE t # Owner
  <3>1. Own' = Own BY <1>3, <2>2, <2>6 DEF Own
  <3>2. Sends(u)
   <4>1. Sends(stack[t]) BY <2>6 DEF Stacks
   <4>2. \A h \in 1 .. Len(s) : h \in 1 .. Len(stack[t]) BY <1>2 DEF PushedOn
   <4>3. \A h \in 1 .. Len(u) : h = Len(u) \/ h \in 1 .. Len(s) BY <2>1 DEF PushedOn
   <4> QED BY <1>2, <1>5, <2>1, <4>1, <4>2, <4>3 DEF Sends, PushedOn
  <3>3. Stacks' BY <1>3, <2>2, <2>6, <3>1, <3>2 DEF Stacks, Lowest
  <3> QED BY <2>4, <3>1, <3>3 DEF Undisturbed, Lowest
 <2> QED BY <2>5, <2>6
<1> QED BY <1>1, <1>4, <1>5

\* Steps that enter nobody and disarm nobody; watches may be detached.
QuietStep ==
  /\ UNCHANGED <<revision, closed, publishing, bindings, fresh, entered, running, operation,
                 failures, seen, threw>>
  /\ active' \subseteq active /\ held' \subseteq held
  /\ channel' \in Seq(Watches) /\ IsInjective(channel') /\ ToSet(channel') \subseteq ToSet(channel)
  /\ released' \subseteq Watches \ (fresh \cup active')
  /\ \A w \in released' : running[w] = 0

LEMMA QuietKeeps ==
  ASSUME BindingsInv, QuietStep, Undisturbed
  PROVE  GateTypes' /\ ListTypes' /\ Stacks' /\ Running' /\ Seeds' /\ Publication' /\ Reached'
<1> USE DEF BindingsInv
<1>1. /\ \A w \in Watches : (Called(Own, w)' <=> Called(Own, w)) /\ (Seeding(Own, w)' <=> Seeding(Own, w))
      /\ publishing => Lowest' = Lowest
      /\ Stacks'
  BY DEF Undisturbed
<1>2. GateTypes' BY DEF GateTypes, QuietStep
<1>3. ListTypes' BY DEF ListTypes, QuietStep
<1>4. Running' BY <1>1 DEF Running, QuietStep
<1>5. Seeds' BY <1>1 DEF Seeds, QuietStep
<1>6. Publication' BY <1>1 DEF Publication, QuietStep
<1>7. Reached'
 <2>1. \A w \in Watches : Awaits(w)' <=> Awaits(w) BY <1>1 DEF Awaits, QuietStep
 <2>2. active \subseteq Watches /\ active' \subseteq Watches BY DEF GateTypes, QuietStep
 <2> QED BY <1>1, <2>1, <2>2 DEF Reached, QuietStep
<1> QED BY <1>1, <1>2, <1>3, <1>4, <1>5, <1>6, <1>7

LEMMA QuietAction ==
  ASSUME BindingsInv, QuietStep, Undisturbed, NEW t \in Threads, NEW f, NowWaits(t, f),
         \A w \in Watches : f = WaitingFor(w) =>
             Waiting(stack[t], w) \/ (w \notin active' \cup fresh /\ (t = Owner => ~Called(Own, w)))
  PROVE  BindingsInv'
<1>1. GateTypes' /\ ListTypes' /\ Stacks' /\ Running' /\ Seeds' /\ Publication' /\ Reached' BY QuietKeeps
<1>2. Waits'
 <2>1. SUFFICES ASSUME NEW u \in Threads, NEW w \in Watches, Waiting(stack[u], w)'
                PROVE  w \notin active' \cup fresh' /\ (u = Owner => ~Called(Own, w)')
   BY DEF Waits
 <2>2. Waiting(stack[u], w) \/ (u = t /\ f = WaitingFor(w)) BY <2>1 DEF NowWaits
 <2>3. (Called(Own, w)' <=> Called(Own, w)) /\ active' \subseteq active /\ fresh' = fresh BY DEF Undisturbed, QuietStep
 <2> QED BY <2>2, <2>3 DEF BindingsInv, Waits
<1> QED BY <1>1, <1>2 DEF BindingsInv

\* A message in flight, and the waits of the resets.
LEMMA OnStack ==
  ASSUME Stacks, NEW t \in Threads, ~Idle(t)
  PROVE  Head(stack[t]) \in AllFrames /\ HasOne(stack[t], Head(stack[t]))
<1>1. PICK f, s : f = Head(stack[t]) /\ s = Tail(stack[t]) OBVIOUS
<1>2. f \in AllFrames /\ PushedOn(stack[t], s, f) BY <1>1, TopAndRest
<1> QED BY <1>1, <1>2 DEF PushedOn

LEMMA InvokedIs ==
  ASSUME Stacks, NEW t \in Threads
  PROVE  \A w \in Watches : w \in Invoked(t) <=> Called(stack[t], w)
<1>1. stack[t] \in Seq(AllFrames) BY DEF Stacks
<1>2. PICK s : s = stack[t] OBVIOUS
<1>3. DOMAIN s = 1 .. Len(s) /\ Len(s) \in Nat /\ \A i \in 1 .. Len(s) : s[i] \in AllFrames
  BY <1>1, <1>2, LenProperties, ElementOfSeq
<1>4. ASSUME NEW f PROVE HasOne(s, f) <=> f \in ToSet(s)
 <2>1. ASSUME NEW i \in 1 .. Len(s) PROVE Len(s) + 1 - i \in 1 .. Len(s) /\ Len(s) + 1 - (Len(s) + 1 - i) = i BY <1>3
 <2> QED BY <1>3, <2>1 DEF HasOne, BatchAt, ToSet
<1>5. ASSUME NEW f \in ToSet(s), f.at = "call" PROVE f.watch \in Watches /\ f = Callback(f.watch)
 <2>1. f \in AllFrames BY <1>3 DEF ToSet
 <2> QED BY <1>5, <2>1, FrameOf
<1>6. \A w \in Watches : w \in Invoked(t) <=> Callback(w) \in ToSet(s) BY <1>2, <1>5, FrameKinds DEF Invoked
<1> QED BY <1>2, <1>4, <1>6 DEF Called

LEMMA ResendStep ==
  ASSUME BindingsInv, NEW t \in Threads, NEW p \in Payloads, Resend(t, p)
  PROVE  BindingsInv'
<1>1. GateTypes /\ ListTypes /\ Stacks BY DEF BindingsInv
<1>2. p \in Payload
 <2>1. \A r \in 1 .. revision : r \in Nat \ {0} BY <1>1, BindingsAssumption DEF GateTypes
 <2>2. \A r \in 1 .. revision : Change(r) \in Payload /\ Seed(r) \in Payload BY <2>1 DEF Payload, Change, Seed
 <2> QED BY <2>2 DEF Payloads
<1>3. PICK f : f = Notifying(p, channel) OBVIOUS
<1>4. Message(f) /\ \A w \in Watches : f # WaitingFor(w) BY <1>1, <1>2, <1>3, FrameKinds DEF Message, GateTypes
<1>5. Sets(t, <<f>> \o stack[t]) /\ InUserCode(t) /\ publishing' = publishing
  BY <1>3 DEF Resend, Enter, Sets, sourceVars
<1>6. Undisturbed /\ NowWaits(t, f) BY <1>1, <1>4, <1>5, SendOn
<1>7. QuietStep
  BY <1>1 DEF Resend, QuietStep, sourceVars, listVars, gateVars, historyVars, GateTypes, ListTypes, BindingsInv, Reached
<1> QED BY <1>4, <1>6, <1>7, QuietAction

LEMMA NotifiedStep ==
  ASSUME BindingsInv, NEW t \in Threads, Notified(t)
  PROVE  BindingsInv'
<1>1. GateTypes /\ ListTypes /\ Stacks BY DEF BindingsInv
<1>2. ~Idle(t) /\ Head(stack[t]).at = "notify" BY DEF Notified, Within
<1>3. PICK f, s : f = Head(stack[t]) /\ s = Tail(stack[t]) OBVIOUS
<1>4. Message(Head(stack[t])) /\ \A w \in Watches : Head(stack[t]) # WaitingFor(w)
  BY <1>1, <1>2, OnStack DEF Message, WaitingFor
<1>5. Sets(t, Tail(stack[t])) /\ publishing' = publishing BY DEF Notified, Leave, Sets, sourceVars
<1>6. Undisturbed /\ NowWaits(t, Head(stack[t])) BY <1>1, <1>2, <1>3, <1>4, <1>5, SendOff
<1>7. QuietStep
  BY <1>1 DEF Notified, QuietStep, sourceVars, listVars, gateVars, historyVars, GateTypes, ListTypes, BindingsInv,
    Reached
<1> QED BY <1>4, <1>6, <1>7, QuietAction

LEMMA ResetReturnsStep ==
  ASSUME BindingsInv, NEW t \in Threads, ResetReturns(t)
  PROVE  BindingsInv'
<1>1. GateTypes /\ ListTypes /\ Stacks BY DEF BindingsInv
<1>2. ~Idle(t) /\ Head(stack[t]).at = "wait" BY DEF ResetReturns, Within
<1>3. PICK f : f = Head(stack[t]) OBVIOUS
<1>4. f \in AllFrames /\ HasOne(stack[t], f) /\ f.watch \in Watches /\ f = WaitingFor(f.watch)
  BY <1>1, <1>2, <1>3, OnStack, FrameOf
<1>5. Sets(t, Tail(stack[t])) /\ publishing' = publishing BY DEF ResetReturns, Leave, Sets, sourceVars
<1>6. Undisturbed /\ NowWaits(t, Head(stack[t])) BY <1>1, <1>2, <1>3, <1>4, <1>5, SendOff DEF Message
<1>7. f.watch \notin active \cup fresh /\ running[f.watch] = 0
  BY <1>3, <1>4 DEF BindingsInv, Waits, Waiting, ResetReturns
<1>8. QuietStep
  BY <1>1, <1>3, <1>4, <1>7 DEF ResetReturns, QuietStep, sourceVars, listVars, gateVars, historyVars, GateTypes,
    ListTypes, BindingsInv, Reached
<1> QED BY <1>3, <1>4, <1>6, <1>8, QuietAction DEF Waiting

\* A reset detaches the watch at once and then waits, or has nothing to wait
\* for within the watch's own callback.
LEMMA ResetStep ==
  ASSUME BindingsInv, NEW t \in Threads, NEW w \in Watches, Reset(t, w)
  PROVE  BindingsInv'
<1>1. GateTypes /\ ListTypes /\ Stacks BY DEF BindingsInv
<1>2. w \notin fresh /\ active' = active \ {w} /\ held' = held \ {w} BY <1>1 DEF Reset, GateTypes
<1>3. channel' \in Seq(Watches) /\ IsInjective(channel') /\ ToSet(channel') = ToSet(channel) \cap (Watches \ {w})
  BY <1>1, KeptIs DEF Reset, GateTypes, ListTypes
<1>4. QuietStep
  BY <1>1, <1>2, <1>3 DEF Reset, QuietStep, sourceVars, historyVars, GateTypes, ListTypes, BindingsInv, Reached
<1>5. publishing' = publishing BY DEF Reset, sourceVars
<1>6. CASE WaitsFor(t, w)
 <2>1. PICK f : f = WaitingFor(w) OBVIOUS
 <2>2. Message(f) BY <2>1, FrameKinds DEF Message
 <2>3. Sets(t, <<f>> \o stack[t]) /\ InUserCode(t) BY <1>6, <2>1 DEF Reset, Enter, Sets
 <2>4. Undisturbed /\ NowWaits(t, f) BY <1>1, <1>5, <2>2, <2>3, SendOn
 <2>5. t = Owner => ~Called(Own, w) BY <1>1, <1>6, InvokedIs DEF WaitsFor, Own
 <2>6. \A v \in Watches : f = WaitingFor(v) => v = w
  <3>1. f.watch = w BY <2>1, FrameKinds
  <3> QED BY <3>1, FrameKinds
 <2>7. \A v \in Watches : f = WaitingFor(v) => v \notin active' \cup fresh /\ (t = Owner => ~Called(Own, v))
   BY <1>2, <2>5, <2>6
 <2> QED BY <1>4, <2>4, <2>7, QuietAction
<1>7. CASE ~WaitsFor(t, w)
 <2>1. stack' = stack BY <1>7 DEF Reset
 <2>2. Undisturbed BY <1>1, <1>5, <2>1 DEF Undisturbed, Stacks, Own, Lowest, Called, Seeding
 <2>3. PICK f : f = Attaching(w) OBVIOUS
 <2>4. \A v \in Watches : f # WaitingFor(v) BY <2>3, FrameKinds
 <2>5. NowWaits(t, f) BY <2>1 DEF NowWaits, Waiting
 <2> QED BY <1>4, <2>2, <2>4, <2>5, QuietAction
<1> QED BY <1>6, <1>7

\* The bus passes a listener that may not be entered.
LEMMA PassedStep ==
  ASSUME BindingsInv, NEW t \in Threads, Deliver(t),
         ~(Head(Head(stack[t]).todo) \in ToSet(channel) /\ MayEnter(t, Head(Head(stack[t]).todo), Head(stack[t]).payload))
  PROVE  BindingsInv' /\ UNCHANGED <<seen, running>>
<1>1. GateTypes /\ ListTypes /\ Stacks BY DEF BindingsInv
<1>2. ~Idle(t) /\ Head(stack[t]).at = "notify" /\ Head(stack[t]).todo # <<>> BY DEF Deliver, Within
<1>3. PICK f : f = Head(stack[t]) OBVIOUS
<1>4. f \in AllFrames /\ f.payload \in Payload /\ f.todo \in Seq(Watches) BY <1>1, <1>2, <1>3, OnStack, FrameOf
<1>5. PICK g, p, l : p = f.payload /\ l = Tail(f.todo) /\ g = Notifying(p, l) OBVIOUS
<1>6. p \in Payload /\ l \in Seq(Watches) BY <1>2, <1>3, <1>4, <1>5, FirstAndRest
<1>7. Message(g) /\ g.at = "notify" BY <1>5, <1>6 DEF Message, Notifying, AllFrames, NotifyFrames
<1>8. Message(Head(stack[t])) /\ \A w \in Watches : Head(stack[t]) # WaitingFor(w)
  BY <1>2, <1>3, <1>4 DEF Message, WaitingFor
<1>9. PICK u : u = <<g>> \o Tail(stack[t]) OBVIOUS
<1>10. Sets(t, u) /\ publishing' = publishing /\ UNCHANGED <<entered, running, seen>>
  BY <1>3, <1>5, <1>9 DEF Deliver, ReplaceTop, Sets, sourceVars
<1>11. \E m : Message(m) /\ m.at = "notify" /\ Head(stack[t]).at = "notify" /\ u = <<m>> \o Tail(stack[t])
  BY <1>2, <1>7, <1>9
<1>12. Undisturbed /\ NowWaits(t, Head(stack[t])) BY <1>1, <1>2, <1>8, <1>10, <1>11, SendOff
<1>13. QuietStep BY <1>1, <1>10 DEF Deliver, QuietStep, sourceVars, listVars, GateTypes, ListTypes, BindingsInv, Reached
<1> QED BY <1>8, <1>10, <1>12, <1>13, QuietAction

--------------------
\* Steps of the owner.

OwnKept ==
  /\ Stacks'
  /\ publishing => Lowest' = Lowest
  /\ \A u \in Threads \ {Owner} : stack'[u] = stack[u]

\* What has left the owner's stack when f is popped.
WithoutTop(f) ==
  /\ \A g : HasOne(Own, g) <=> HasOne(Own', g) \/ g = f
  /\ f.at \in {"call", "attach"} => ~HasOne(Own', f)

LEMMA OwnLeaves ==
  ASSUME Stacks, ~Idle(Owner), Head(Own).at # "publish", Sets(Owner, Tail(Own)), publishing' = publishing
  PROVE  OwnKept /\ WithoutTop(Head(Own))
<1>1. PICK f, s : f = Head(Own) /\ s = Tail(Own) OBVIOUS
<1>2. OwnSplit(f, s) BY <1>1, OwnTop
<1>3. Owner \in Threads /\ s \in Seq(AllFrames) BY <1>2, BindingsAssumption DEF OwnSplit
<1>4. /\ stack' \in [Threads -> Seq(AllFrames)] /\ Own' = s
      /\ \A u \in Threads \ {Owner} : stack'[u] = stack[u]
  BY <1>1, <1>3, Setting DEF Own
<1>5. WithoutTop(f) BY <1>2, <1>4 DEF WithoutTop, OwnSplit, PushedOn
<1>6. Nested(s) /\ (publishing <=> Lowest.at = "publish") /\ Lowest = (IF s = <<>> THEN f ELSE BatchAt(s, 1)) /\ f.at # "publish"
  BY <1>1, <1>2 DEF OwnSplit
<1>7. Stacks' /\ (publishing => Lowest' = Lowest) BY <1>4, <1>6 DEF Stacks, Lowest
<1> QED BY <1>1, <1>4, <1>5, <1>7 DEF OwnKept

\* r may lie under another frame as the owner's stack does.
AsOwn(r) ==
  /\ r \in Seq(AllFrames) /\ r # <<>>
  /\ publishing <=> BatchAt(r, 1).at = "publish"
  /\ publishing => BatchAt(r, 1) = Lowest

LEMMA OwnEnters ==
  ASSUME Stacks, NEW f \in AllFrames, NEW r, AsOwn(r), Nested(<<f>> \o r),
         Sets(Owner, <<f>> \o r), publishing' = publishing
  PROVE  OwnKept /\ \A g : HasOne(Own', g) <=> HasOne(r, g) \/ g = f
<1>1. PICK u : u = <<f>> \o r OBVIOUS
<1>2. PushedOn(u, r, f) /\ Owner \in Threads BY <1>1, Pushed, BindingsAssumption DEF AsOwn
<1>3. /\ stack' \in [Threads -> Seq(AllFrames)] /\ Own' = u
      /\ \A v \in Threads \ {Owner} : stack'[v] = stack[v]
  BY <1>1, <1>2, Setting DEF Own, PushedOn
<1>4. BatchAt(u, 1) = BatchAt(r, 1) /\ u # <<>> BY <1>2 DEF PushedOn, AsOwn
<1>5. Stacks' /\ (publishing => Lowest' = Lowest) BY <1>1, <1>3, <1>4 DEF Stacks, Lowest, AsOwn
<1> QED BY <1>2, <1>3, <1>5 DEF OwnKept, PushedOn

\* What is lowest on the owner's stack and what it says is typed.
LEMMA WhoMayEnter ==
  ASSUME BindingsInv, NEW w \in Watches, NEW p \in Payload, MayEnter(Owner, w, p)
  PROVE  /\ w \in active /\ w \notin fresh /\ w \notin entered /\ Awaits(w) /\ operation[w] = Change(revision) /\ p = Change(revision)
         /\ running[w] = 0 /\ ~Called(Own, w) /\ seen[w] < revision /\ ~Seeding(Own, w)
<1>1. w \in active /\ w \notin entered /\ operation[w] = p BY DEF MayEnter
<1>2. operation[w] # None BY <1>1 DEF Payload, None
<1>3. ~Seeding(Own, w) BY <1>1 DEF BindingsInv, Seeds
<1>4. Awaits(w) BY <1>2, <1>3 DEF BindingsInv, Reached
<1>5. operation[w] = Change(revision) /\ seen[w] < revision /\ running[w] = 0
  BY <1>1, <1>4 DEF BindingsInv, Publication, Awaits
<1>6. ~Called(Own, w) BY <1>5 DEF BindingsInv, Running
<1> QED BY <1>1, <1>3, <1>4, <1>5, <1>6 DEF BindingsInv, GateTypes

\* The owner enters w with the change in progress, its call on top of r.
EntersFrom(w, r) ==
  /\ AsOwn(r) /\ Nested(<<Callback(w)>> \o r)
  /\ Sets(Owner, <<Callback(w)>> \o r)
  /\ \A x : Called(r, x) <=> Called(Own, x)
  /\ \A x : Seeding(r, x) <=> Seeding(Own, x)
  /\ \A x : Waiting(r, x) => Waiting(Own, x)
  /\ Entered(w, Change(revision))
  /\ UNCHANGED <<sourceVars, listVars, active, operation, failures, threw, released>>

LEMMA EnteringKeeps ==
  ASSUME BindingsInv, NEW w \in Watches, NEW p \in Payload, MayEnter(Owner, w, p), NEW r, EntersFrom(w, r)
  PROVE  /\ BindingsInv'
         /\ running' = [running EXCEPT ![w] = 1] /\ seen' = [seen EXCEPT ![w] = revision]
         /\ seen[w] < revision /\ revision' = revision
<1>1. /\ w \in active /\ w \notin fresh /\ w \notin entered /\ Awaits(w) /\ operation[w] = Change(revision)
      /\ running[w] = 0 /\ ~Called(Own, w) /\ seen[w] < revision /\ ~Seeding(Own, w)
  BY WhoMayEnter
<1>2. GateTypes /\ ListTypes /\ Stacks BY DEF BindingsInv
<1>3. /\ entered' = entered \cup {w} /\ running' = [running EXCEPT ![w] = 1]
      /\ seen' = [seen EXCEPT ![w] = revision]
  BY <1>1, <1>2 DEF EntersFrom, Entered, Change, GateTypes
<1>4. UNCHANGED <<revision, closed, publishing, bindings, channel, fresh, held, active, operation,
                  failures, threw, released>>
  BY DEF EntersFrom, sourceVars, listVars
<1>5. PICK f : f = Callback(w) OBVIOUS
<1>6. f \in AllFrames BY <1>5, FrameKinds
<1>7. AsOwn(r) /\ Nested(<<f>> \o r) /\ Sets(Owner, <<f>> \o r) BY <1>5 DEF EntersFrom
<1>8. OwnKept /\ \A g : HasOne(Own', g) <=> HasOne(r, g) \/ g = f BY <1>2, <1>4, <1>6, <1>7, OwnEnters
<1>9. \A x \in Watches : /\ Callback(x) = f => x = w
                         /\ Attaching(x) # f /\ WaitingFor(x) # f
  BY <1>5 DEF Callback, Attaching, WaitingFor
<1>10. \A x \in Watches : /\ Called(Own, x)' <=> Called(Own, x) \/ x = w
                          /\ Seeding(Own, x)' <=> Seeding(Own, x)
                          /\ Waiting(Own, x)' => Waiting(Own, x)
 <2>1. ASSUME NEW x \in Watches
       PROVE  /\ Called(Own', x) <=> Called(r, x) \/ x = w
              /\ Seeding(Own', x) <=> Seeding(r, x)
              /\ Waiting(Own', x) => Waiting(r, x)
   BY <1>5, <1>8, <1>9 DEF Called, Seeding, Waiting
 <2>2. \A x \in Watches : /\ Called(r, x) <=> Called(Own, x)
                          /\ Seeding(r, x) <=> Seeding(Own, x)
                          /\ Waiting(r, x) => Waiting(Own, x)
   BY DEF EntersFrom
 <2> QED BY <2>1, <2>2
<1>11. \A x : Awaits(x)' <=> Awaits(x) BY <1>4, <1>8 DEF Awaits, OwnKept
<1>12. revision \in Nat BY <1>2, BindingsAssumption DEF GateTypes
<1>13. GateTypes' BY <1>1, <1>2, <1>3, <1>4, <1>12 DEF GateTypes
<1>14. ListTypes' BY <1>2, <1>4 DEF ListTypes
<1>15. Running' BY <1>2, <1>3, <1>10 DEF Running, BindingsInv, GateTypes
<1>16. Waits'
 <2>1. SUFFICES ASSUME NEW u \in Threads, NEW x \in Watches, Waiting(stack[u], x)'
                PROVE  x \notin active' \cup fresh' /\ (u = Owner => ~Called(Own, x)')
   BY DEF Waits
 <2>2. Waiting(stack[u], x) BY <1>8, <1>10, <2>1 DEF OwnKept, Own
 <2>3. x \notin active \cup fresh /\ (u = Owner => ~Called(Own, x)) BY <2>2 DEF BindingsInv, Waits
 <2> QED BY <1>1, <1>4, <1>10, <2>3
<1>17. Seeds'
 <2>1. SUFFICES ASSUME NEW x \in Watches, Seeding(Own, x)'
                PROVE /\ revision > 0 /\ operation[x] = Seed(revision) /\ seen'[x] = revision
                      /\ x \in entered' /\ x \notin held /\ x \notin threw /\ x \notin ToSet(bindings)
   BY <1>4 DEF Seeds
 <2>2. x # w /\ Seeding(Own, x) BY <1>1, <1>10, <2>1
 <2> QED BY <1>2, <1>3, <2>2 DEF BindingsInv, Seeds, GateTypes
<1>18. Publication'
 <2>1. SUFFICES ASSUME publishing PROVE Publication' BY <1>4 DEF Publication
 <2>2. Lowest' = Lowest /\ Publication BY <1>8, <2>1 DEF OwnKept, BindingsInv
 <2>3. /\ revision > 0 /\ Lowest.payload = Change(revision)
       /\ IsInjective(Lowest.todo) /\ ToSet(Lowest.todo) \subseteq ToSet(bindings)
       /\ (threw # {}) <=> (Lowest.failed \/ \E x \in ToSet(Lowest.todo) : x \in threw)
   BY <2>1, <2>2 DEF Publication
 <2>4. ASSUME NEW x \in ToSet(Lowest.todo)
       PROVE  /\ operation[x] = Change(revision)
              /\ x \in entered' => seen'[x] = revision
              /\ x \notin entered' => seen'[x] < revision /\ running'[x] = 0
              /\ x \in failures <=> x \in threw
  <3>1. /\ operation[x] = Change(revision)
        /\ x \in entered => seen[x] = revision
        /\ x \notin entered => seen[x] < revision /\ running[x] = 0
        /\ x \in failures <=> x \in threw
    BY <2>1, <2>2 DEF Publication
  <3>2. x \in Watches BY <1>2, <2>3 DEF ListTypes
  <3> QED BY <1>2, <1>3, <3>1, <3>2 DEF GateTypes
 <2> QED BY <1>4, <2>2, <2>3, <2>4 DEF Publication
<1>19. Reached'
 <2>1. Reached /\ active \subseteq Watches /\ fresh \subseteq Watches BY <1>2 DEF BindingsInv, GateTypes
 <2>2. \A x \in Watches : operation[x] # None => Awaits(x)' \/ Seeding(Own, x)' BY <1>10, <1>11, <2>1 DEF Reached
 <2>3. \A x \in active : x \in ToSet(bindings) \/ Seeding(Own, x)' BY <1>10, <2>1 DEF Reached
 <2>4. \A x \in active : x \in ToSet(bindings) => seen'[x] = revision \/ Awaits(x)'
   BY <1>2, <1>3, <1>11, <2>1 DEF Reached, GateTypes
 <2>5. \A x \in fresh : seen'[x] = 0 BY <1>1, <1>2, <1>3, <2>1 DEF Reached, GateTypes
 <2>6. \A x \in fresh \cup threw \cup released : running'[x] = 0
  <3>1. w \notin fresh \cup threw \cup released BY <1>1, <1>2 DEF GateTypes
  <3>2. fresh \cup threw \cup released \subseteq Watches BY <1>2 DEF GateTypes
  <3> QED BY <1>2, <1>3, <2>1, <3>1, <3>2 DEF Reached, GateTypes
 <2> QED BY <1>4, <2>2, <2>3, <2>4, <2>5, <2>6 DEF Reached
<1> QED BY <1>1, <1>3, <1>4, <1>8, <1>13, <1>14, <1>15, <1>16, <1>17, <1>18, <1>19 DEF BindingsInv, OwnKept

\* What a step into a callback shows besides the invariant.
EnteredInOrder ==
  \E w \in Watches : /\ running' = [running EXCEPT ![w] = 1]
                     /\ seen' = [seen EXCEPT ![w] = revision]
                     /\ seen[w] < revision /\ revision' = revision

\* The publication is alone on the owner's stack when it is on top.
PublicationOnTop(f) ==
  /\ f = Lowest /\ publishing /\ Own = <<f>> \o <<>> /\ PushedOn(Own, <<>>, f)
  /\ f \in AllFrames /\ f.payload \in Payload /\ f.todo \in Seq(Watches) /\ f.failed \in BOOLEAN

LEMMA PublicationAlone ==
  ASSUME Stacks, Within(Owner, "publish")
  PROVE  PublicationOnTop(Head(Own)) /\ Tail(Own) = <<>>
<1>1. PICK f, s : f = Head(Own) /\ s = Tail(Own) OBVIOUS
<1>2. ~Idle(Owner) /\ f.at = "publish" BY <1>1 DEF Within, Own
<1>3. OwnSplit(f, s) BY <1>1, <1>2, OwnTop
<1>4. s = <<>> BY <1>2, <1>3 DEF OwnSplit
<1>5. f = Lowest /\ publishing BY <1>2, <1>3, <1>4 DEF OwnSplit
<1>6. f \in AllFrames /\ Own = <<f>> \o s /\ PushedOn(Own, s, f) BY <1>3 DEF OwnSplit
<1>7. f.payload \in Payload /\ f.todo \in Seq(Watches) /\ f.failed \in BOOLEAN BY <1>2, <1>6, FrameOf
<1> QED BY <1>1, <1>4, <1>5, <1>6, <1>7 DEF PublicationOnTop

LEMMA FallBackStep ==
  ASSUME BindingsInv, FallBack
  PROVE  BindingsInv' /\ EnteredInOrder
<1>1. Stacks /\ Within(Owner, "publish") /\ Owner \in Threads BY BindingsAssumption DEF BindingsInv, FallBack
<1>2. PICK f, w : f = Head(Own) /\ w = Head(f.todo) OBVIOUS
<1>3. PublicationOnTop(f) /\ ~Idle(Owner) /\ f.at = "publish" BY <1>1, <1>2, PublicationAlone DEF Within, Own
<1>4. f.todo # <<>> /\ MayEnter(Owner, w, f.payload) /\ Entered(w, f.payload) /\ stack' = Enter(Owner, Callback(w))
  BY <1>2 DEF FallBack, Own
<1>5. w \in Watches /\ f.payload \in Payload BY <1>2, <1>3, <1>4, FirstAndRest DEF PublicationOnTop
<1>6. f.payload = Change(revision) /\ ~Called(Own, w) /\ revision \in Nat
  BY <1>4, <1>5, WhoMayEnter, BindingsAssumption DEF BindingsInv, GateTypes
<1>7. PICK r : r = Own OBVIOUS
<1>8. AsOwn(r) BY <1>1, <1>3, <1>7 DEF AsOwn, Stacks, Own, Lowest, Idle
<1>9. Nested(<<Callback(w)>> \o r)
 <2>1. r \in Seq(AllFrames) /\ Nested(r) BY <1>1, <1>7, <1>8 DEF Stacks, AsOwn
 <2>2. BatchAt(r, Len(r)) = f BY <1>3, <1>7 DEF PublicationOnTop, PushedOn
 <2>3. ~HasOne(r, Callback(w)) BY <1>6, <1>7 DEF Called
 <2>4. PICK g : g = Callback(w) OBVIOUS
 <2>5. g \in AllFrames /\ g.at = "call" BY <1>5, <2>4, FrameKinds
 <2> QED BY <1>3, <2>1, <2>2, <2>3, <2>4, <2>5, NestedUnder
<1>10. EntersFrom(w, r) BY <1>4, <1>6, <1>7, <1>8, <1>9 DEF EntersFrom, FallBack, Enter, Sets, Own
<1>11. /\ BindingsInv'
       /\ running' = [running EXCEPT ![w] = 1] /\ seen' = [seen EXCEPT ![w] = revision]
       /\ seen[w] < revision /\ revision' = revision
  BY <1>4, <1>5, <1>10, EnteringKeeps
<1> QED BY <1>5, <1>11 DEF EnteredInOrder

LEMMA TwoOn ==
  ASSUME NEW s \in Seq(AllFrames), NEW a \in AllFrames, NEW b \in AllFrames
  PROVE  <<a, b>> \o s = <<a>> \o (<<b>> \o s)
<1>1. PICK x, y, z : x = <<a>> /\ y = <<b>> /\ z = <<a, b>> OBVIOUS
<1>2. /\ x \in Seq(AllFrames) /\ y \in Seq(AllFrames) /\ z \in Seq(AllFrames)
      /\ Len(x) = 1 /\ Len(y) = 1 /\ Len(z) = 2
      /\ x[1] = a /\ y[1] = b /\ z[1] = a /\ z[2] = b
  BY <1>1
<1>3. PICK u : u = x \o y OBVIOUS
<1>4. /\ u \in Seq(AllFrames) /\ Len(u) = Len(x) + Len(y)
      /\ \A i \in 1 .. Len(x) + Len(y) : u[i] = IF i <= Len(x) THEN x[i] ELSE y[i - Len(x)]
  BY <1>2, <1>3, ConcatProperties, Zenon
<1>5. Len(u) = Len(z) /\ \A i \in 1 .. Len(z) : u[i] = z[i] BY <1>2, <1>4
<1>6. z = x \o y BY <1>2, <1>3, <1>4, <1>5, SeqEqual
<1>7. ASSUME NEW A \in Seq(AllFrames), NEW B \in Seq(AllFrames) PROVE (A \o B) \o s = A \o (B \o s) BY ConcatAssociative
<1>8. (x \o y) \o s = x \o (y \o s) BY <1>2, <1>7, Zenon
<1> QED BY <1>1, <1>6, <1>8

LEMMA DeliverStep ==
  ASSUME BindingsInv, NEW t \in Threads, Deliver(t)
  PROVE  BindingsInv' /\ (EnteredInOrder \/ UNCHANGED <<seen, running>>)
<1>1. CASE ~(Head(Head(stack[t]).todo) \in ToSet(channel)
             /\ MayEnter(t, Head(Head(stack[t]).todo), Head(stack[t]).payload))
  BY <1>1, PassedStep
<1>2. CASE /\ Head(Head(stack[t]).todo) \in ToSet(channel)
           /\ MayEnter(t, Head(Head(stack[t]).todo), Head(stack[t]).payload)
 <2>1. t = Owner BY <1>2 DEF MayEnter
 <2>2. PICK f, s, w : f = Head(Own) /\ s = Tail(Own) /\ w = Head(f.todo) OBVIOUS
 <2>3. ~Idle(Owner) /\ f.at = "notify" /\ f.todo # <<>> /\ Stacks BY <2>1, <2>2 DEF Deliver, Within, Own, BindingsInv
 <2>4. OwnSplit(f, s) BY <2>2, <2>3, OwnTop
 <2>5. f \in AllFrames /\ s \in Seq(AllFrames) BY <2>4 DEF OwnSplit
 <2>6. f.payload \in Payload /\ f.todo \in Seq(Watches) BY <2>3, <2>5, FrameOf
 <2>7. w \in Watches /\ Tail(f.todo) \in Seq(Watches) BY <2>2, <2>3, <2>6, FirstAndRest
 <2>8. MayEnter(Owner, w, f.payload) BY <1>2, <2>1, <2>2 DEF Own
 <2>9. f.payload = Change(revision) /\ ~Called(Own, w) BY <2>6, <2>7, <2>8, WhoMayEnter
 <2>10. PICK p, l, g : p = f.payload /\ l = Tail(f.todo) /\ g = Notifying(p, l) OBVIOUS
 <2>11. g \in AllFrames /\ g.at = "notify" BY <2>6, <2>7, <2>10 DEF Notifying, AllFrames, NotifyFrames
 <2>12. PICK r : r = <<g>> \o s OBVIOUS
 <2>13. PushedOn(r, s, g) BY <2>5, <2>11, <2>12, Pushed
 <2>14. AsOwn(r)
  <3>1. /\ publishing <=> Lowest.at = "publish"
        /\ Lowest = IF s = <<>> THEN f ELSE BatchAt(s, 1)
    BY <2>4 DEF OwnSplit
  <3>2. BatchAt(r, 1) = IF s = <<>> THEN g ELSE BatchAt(s, 1) BY <2>13 DEF PushedOn
  <3> QED BY <2>3, <2>11, <2>13, <3>1, <3>2 DEF AsOwn, PushedOn
 <2>15. Nested(r)
  <3>1. /\ Nested(s)
        /\ s # <<>> => BatchAt(s, Len(s)).at # "wait"
        /\ s # <<>> => (BatchAt(s, Len(s)).at = "attach" => f = Callback(BatchAt(s, Len(s)).watch))
    BY <2>4 DEF OwnSplit
  <3>2. s # <<>> => BatchAt(s, Len(s)).at # "attach" BY <2>3, <3>1 DEF Callback
  <3>3. g.at # "publish" /\ g.at \notin {"call", "attach"} BY <2>11
  <3> QED BY <2>5, <2>11, <2>12, <3>1, <3>2, <3>3, NestedUnder
 <2>16. \A x : (Called(r, x) <=> Called(Own, x)) /\ (Seeding(r, x) <=> Seeding(Own, x)) /\ (Waiting(r, x) => Waiting(Own, x))
  <3>1. \A x : /\ g # Callback(x) /\ g # Attaching(x) /\ g # WaitingFor(x)
               /\ f # Callback(x) /\ f # Attaching(x)
    BY <2>3, <2>11 DEF Callback, Attaching, WaitingFor
  <3>2. PushedOn(Own, s, f) BY <2>4 DEF OwnSplit
  <3> QED BY <2>13, <3>1, <3>2 DEF Called, Seeding, Waiting, PushedOn
 <2>17. PICK c : c = Callback(w) OBVIOUS
 <2>18. c \in AllFrames /\ c.at = "call" BY <2>7, <2>17, FrameKinds
 <2>19. Nested(<<c>> \o r)
  <3>1. ~HasOne(r, c) BY <2>9, <2>16, <2>17 DEF Called
  <3>2. BatchAt(r, Len(r)).at = "notify" /\ r \in Seq(AllFrames) BY <2>11, <2>13 DEF PushedOn
  <3> QED BY <2>15, <2>18, <3>1, <3>2, NestedUnder
 <2>20. stack' = [stack EXCEPT ![Owner] = <<c, g>> \o Tail(@)] /\ Entered(w, f.payload)
   BY <1>2, <2>1, <2>2, <2>10, <2>17 DEF Deliver, Own
 <2>21. Sets(Owner, <<c>> \o r) BY <2>2, <2>5, <2>11, <2>12, <2>18, <2>20, TwoOn DEF Sets, Own
 <2>22. EntersFrom(w, r) BY <2>9, <2>14, <2>16, <2>17, <2>19, <2>20, <2>21 DEF EntersFrom, Deliver
 <2>23. /\ BindingsInv'
        /\ running' = [running EXCEPT ![w] = 1] /\ seen' = [seen EXCEPT ![w] = revision]
        /\ seen[w] < revision /\ revision' = revision
   BY <2>6, <2>7, <2>8, <2>22, EnteringKeeps
 <2> QED BY <2>7, <2>23 DEF EnteredInOrder
<1> QED BY <1>1, <1>2

\* The owner leaves f, the rest of the world keeping its waits.
LEMMA WaitsAfterLeaving ==
  ASSUME BindingsInv, NEW f, OwnKept, WithoutTop(f), active' \subseteq active, fresh' = fresh
  PROVE  Waits'
<1>1. SUFFICES ASSUME NEW u \in Threads, NEW x \in Watches, Waiting(stack[u], x)'
               PROVE  x \notin active' \cup fresh' /\ (u = Owner => ~Called(Own, x)')
  BY DEF Waits
<1>2. Waiting(stack[u], x) BY <1>1 DEF OwnKept, WithoutTop, Own, Waiting
<1>3. x \notin active \cup fresh /\ (u = Owner => ~Called(Own, x)) BY <1>2 DEF BindingsInv, Waits
<1>4. Called(Own, x)' => Called(Own, x) BY DEF WithoutTop, Called
<1> QED BY <1>3, <1>4

Returned == seen' = seen /\ \E w \in Watches : running' = [running EXCEPT ![w] = 0]

LEMMA CallbackReturnsStep ==
  ASSUME BindingsInv, NEW t \in Threads, NEW thrower \in BOOLEAN, CallbackReturns(t, thrower)
  PROVE  BindingsInv' /\ Returned
<1>1. GateTypes /\ ListTypes /\ Stacks /\ Owner \in Threads BY BindingsAssumption DEF BindingsInv
<1>2. PICK f : f = Head(stack[t]) OBVIOUS
<1>3. ~Idle(t) /\ f.at = "call" BY <1>2 DEF CallbackReturns, Within
<1>4. f \in AllFrames /\ HasOne(stack[t], f) BY <1>1, <1>2, <1>3, OnStack
<1>5. t = Owner BY <1>1, <1>3, <1>4 DEF Stacks, Sends, HasOne
<1>6. PICK w : w = f.watch OBVIOUS
<1>7. w \in Watches /\ f = Callback(w) BY <1>3, <1>4, <1>6, FrameOf
<1>8. Called(Own, w) /\ running[w] = 1
 <2>1. Called(Own, w) BY <1>4, <1>5, <1>7 DEF Called, Own
 <2> QED BY <1>7, <2>1 DEF BindingsInv, Running
<1>9. UNCHANGED <<revision, closed, publishing, bindings, channel, fresh, held, active, entered,
                  operation, seen, released>>
  BY DEF CallbackReturns, sourceVars, listVars
<1>10. /\ failures' = (IF thrower THEN failures \cup {w} ELSE failures \ {w})
       /\ running' = [running EXCEPT ![w] = 0]
       /\ threw' = IF thrower /\ operation[w] = Change(revision) THEN threw \cup {w} ELSE threw
  BY <1>1, <1>2, <1>6, <1>7, <1>8 DEF CallbackReturns, GateTypes
<1>11. f = Head(Own) /\ ~Idle(Owner) /\ Sets(Owner, Tail(Own)) BY <1>2, <1>3, <1>5 DEF Own, CallbackReturns, Leave, Sets
<1>12. OwnKept /\ WithoutTop(f) BY <1>1, <1>3, <1>9, <1>11, OwnLeaves
<1>13. \A x \in Watches : /\ Called(Own, x)' <=> Called(Own, x) /\ x # w
                          /\ Seeding(Own, x)' <=> Seeding(Own, x)
 <2>1. \A x \in Watches : (Callback(x) = f <=> x = w) /\ Attaching(x) # f BY <1>7 DEF Callback, Attaching
 <2>2. f.at \in {"call", "attach"} BY <1>3
 <2> QED BY <1>7, <1>12, <2>1, <2>2 DEF WithoutTop, Called, Seeding
<1>14. w \notin fresh \cup threw \cup released /\ w \in Watches \ fresh BY <1>7, <1>8 DEF BindingsInv, Reached
<1>15. revision \in Nat /\ revision # 0 BY <1>1, <1>14, BindingsAssumption DEF GateTypes
<1>16. operation[w] = Change(revision) => Awaits(w) /\ ~Seeding(Own, w) /\ w \in entered
 <2>1. SUFFICES ASSUME operation[w] = Change(revision) PROVE Awaits(w) /\ ~Seeding(Own, w) /\ w \in entered OBVIOUS
 <2>2. operation[w] # None /\ operation[w] # Seed(revision) BY <1>15, <2>1 DEF None, Change, Seed
 <2>3. ~Seeding(Own, w) BY <1>7, <2>2 DEF BindingsInv, Seeds
 <2>4. Awaits(w) BY <1>7, <2>2, <2>3 DEF BindingsInv, Reached
 <2>5. w \in entered BY <1>8, <2>4 DEF BindingsInv, Publication, Awaits
 <2> QED BY <2>3, <2>4, <2>5
<1>17. GateTypes' BY <1>1, <1>9, <1>10, <1>14, <1>16 DEF GateTypes
<1>18. ListTypes' BY <1>1, <1>9 DEF ListTypes
<1>19. Running' BY <1>1, <1>10, <1>13 DEF Running, BindingsInv, GateTypes
<1>20. Waits' BY <1>9, <1>12, WaitsAfterLeaving
<1>21. Seeds'
 <2>1. SUFFICES ASSUME NEW x \in Watches, Seeding(Own, x)'
                PROVE /\ revision > 0 /\ operation[x] = Seed(revision) /\ seen[x] = revision
                      /\ x \in entered /\ x \notin held /\ x \notin threw' /\ x \notin ToSet(bindings)
   BY <1>9 DEF Seeds
 <2>2. Seeding(Own, x) BY <1>13, <2>1
 <2>3. x \notin threw' BY <1>10, <1>16, <2>2 DEF BindingsInv, Seeds
 <2> QED BY <2>2, <2>3 DEF BindingsInv, Seeds
<1>22. Publication'
 <2>1. SUFFICES ASSUME publishing PROVE Publication' BY <1>9 DEF Publication
 <2>2. Lowest' = Lowest /\ Publication BY <1>12, <2>1 DEF OwnKept, BindingsInv
 <2>3. /\ revision > 0 /\ Lowest.payload = Change(revision)
       /\ IsInjective(Lowest.todo) /\ ToSet(Lowest.todo) \subseteq ToSet(bindings)
       /\ (threw # {}) <=> (Lowest.failed \/ \E x \in ToSet(Lowest.todo) : x \in threw)
   BY <2>1, <2>2 DEF Publication
 <2>4. ASSUME NEW x \in ToSet(Lowest.todo)
       PROVE  /\ operation[x] = Change(revision)
              /\ x \in entered => seen[x] = revision
              /\ x \notin entered => seen[x] < revision /\ running'[x] = 0
              /\ x \in failures' <=> x \in threw'
  <3>1. /\ operation[x] = Change(revision)
        /\ x \in entered => seen[x] = revision
        /\ x \notin entered => seen[x] < revision /\ running[x] = 0
        /\ x \in failures <=> x \in threw
    BY <2>1, <2>2 DEF Publication
  <3>2. x \in Watches BY <1>1, <2>3 DEF ListTypes
  <3>3. x \in failures' <=> x \in threw' BY <1>10, <1>14, <3>1
  <3>4. running'[x] = IF x = w THEN 0 ELSE running[x] BY <1>1, <1>10, <3>2 DEF GateTypes
  <3> QED BY <3>1, <3>3, <3>4
 <2>5. (threw' # {}) <=> (Lowest.failed \/ \E x \in ToSet(Lowest.todo) : x \in threw')
  <3>1. CASE thrower /\ operation[w] = Change(revision)
   <4>1. w \in ToSet(Lowest.todo) BY <1>16, <3>1 DEF Awaits
   <4> QED BY <1>10, <3>1, <4>1
  <3>2. CASE ~(thrower /\ operation[w] = Change(revision)) BY <1>10, <2>3, <3>2
  <3> QED BY <3>1, <3>2
 <2> QED BY <1>9, <2>2, <2>3, <2>4, <2>5 DEF Publication
<1>23. Reached'
 <2>1. Reached /\ active \subseteq Watches /\ fresh \subseteq Watches BY <1>1 DEF BindingsInv, GateTypes
 <2>2. \A x \in Watches : Awaits(x)' <=> Awaits(x) BY <1>9, <1>12 DEF Awaits, OwnKept
 <2>3. \A x \in Watches : operation[x] # None => Awaits(x)' \/ Seeding(Own, x)' BY <1>13, <2>1, <2>2 DEF Reached
 <2>4. \A x \in active : x \in ToSet(bindings) \/ Seeding(Own, x)' BY <1>13, <2>1 DEF Reached
 <2>5. \A x \in active : x \in ToSet(bindings) => seen[x] = revision \/ Awaits(x)' BY <2>1, <2>2 DEF Reached
 <2>6. \A x \in fresh \cup threw' \cup released : running'[x] = 0
  <3>1. fresh \cup threw \cup released \subseteq Watches BY <1>1 DEF GateTypes
  <3>2. \A x \in fresh \cup threw' \cup released : x = w \/ x \in fresh \cup threw \cup released BY <1>10
  <3> QED BY <1>1, <1>7, <1>10, <2>1, <3>1, <3>2 DEF Reached, GateTypes
 <2> QED BY <1>9, <2>1, <2>3, <2>4, <2>5, <2>6 DEF Reached
<1>24. Returned BY <1>7, <1>9, <1>10 DEF Returned
<1> QED BY <1>9, <1>12, <1>17, <1>18, <1>19, <1>20, <1>21, <1>22, <1>23, <1>24 DEF BindingsInv, OwnKept

\* Nothing is called, attached or waited for on a stack of one publication.
LEMMA JustPublishing ==
  ASSUME NEW f, f.at = "publish", NEW u, PushedOn(u, <<>>, f)
  PROVE  \A x \in Watches : ~Called(u, x) /\ ~Seeding(u, x) /\ ~Waiting(u, x)
<1>1. \A g : ~HasOne(<<>>, g) BY DEF HasOne
<1>2. \A x \in Watches : f # Callback(x) /\ f # Attaching(x) /\ f # WaitingFor(x) BY DEF Callback, Attaching, WaitingFor
<1> QED BY <1>1, <1>2 DEF Called, Seeding, Waiting, PushedOn

LEMMA NothingThere ==
  ASSUME Own = <<>>
  PROVE  \A x : ~Called(Own, x) /\ ~Seeding(Own, x) /\ ~Waiting(Own, x)
<1>1. \A g : ~HasOne(<<>>, g) BY DEF HasOne
<1> QED BY <1>1 DEF Called, Seeding, Waiting

LEMMA NestedAlone ==
  ASSUME NEW f \in AllFrames
  PROVE  Nested(<<f>> \o <<>>)
<1>1. <<>> \in Seq(AllFrames) /\ Nested(<<>>) /\ ~HasOne(<<>>, f) BY DEF Nested, HasOne
<1> QED BY <1>1, NestedUnder

LEMMA CollectStep ==
  ASSUME BindingsInv, Collect
  PROVE  BindingsInv' /\ UNCHANGED <<seen, running>>
<1>1. GateTypes /\ ListTypes /\ Stacks /\ Within(Owner, "publish") /\ Owner \in Threads
  BY BindingsAssumption DEF BindingsInv, Collect
<1>2. PICK f, w, rest : f = Head(Own) /\ w = Head(f.todo) /\ rest = Tail(f.todo) OBVIOUS
<1>3. PublicationOnTop(f) /\ f.at = "publish" /\ Tail(Own) = <<>> BY <1>1, <1>2, PublicationAlone DEF Within, Own
<1>4. f.todo # <<>> /\ ~MayEnter(Owner, w, f.payload) /\ operation' = [operation EXCEPT ![w] = None]
  BY <1>2 DEF Collect, Own
<1>5. UNCHANGED <<revision, closed, publishing, bindings, channel, fresh, held, active, entered,
                  running, failures, seen, threw, released>>
  BY DEF Collect, sourceVars, listVars, historyVars
<1>6. f = Lowest /\ publishing /\ f.payload \in Payload /\ f.todo \in Seq(Watches) /\ f.failed \in BOOLEAN
  BY <1>3 DEF PublicationOnTop
<1>7. /\ revision > 0 /\ f.payload = Change(revision)
      /\ IsInjective(f.todo) /\ ToSet(f.todo) \subseteq ToSet(bindings)
      /\ (threw # {}) <=> (f.failed \/ \E x \in ToSet(f.todo) : x \in threw)
      /\ \A x \in ToSet(f.todo) :
            /\ operation[x] = Change(revision)
            /\ x \in entered => seen[x] = revision
            /\ x \notin entered => seen[x] < revision /\ running[x] = 0
            /\ x \in failures <=> x \in threw
  BY <1>6 DEF BindingsInv, Publication
<1>8. w \in ToSet(f.todo) /\ w \in Watches /\ rest \in Seq(Watches) /\ IsInjective(rest) /\ ToSet(rest) = ToSet(f.todo) \ {w}
  BY <1>2, <1>4, <1>6, <1>7, FirstAndRest
<1>9. w \notin active \/ (w \in entered /\ seen[w] = revision) BY <1>4, <1>7, <1>8 DEF MayEnter
<1>10. PICK b \in BOOLEAN : b = (f.failed \/ w \in failures) BY <1>6
<1>11. PICK g : g = Publishing(f.payload, rest, b) OBVIOUS
<1>12. /\ g \in AllFrames /\ g.at = "publish" /\ g.payload = f.payload /\ g.todo = rest
       /\ g.failed <=> (f.failed \/ w \in failures)
  BY <1>6, <1>8, <1>10, <1>11 DEF Publishing, AllFrames, PublishFrames
<1>13. PICK u : u = <<g>> \o <<>> OBVIOUS
<1>14. PushedOn(u, <<>>, g) /\ u \in Seq(AllFrames)
 <2>0. PICK e : e = <<>> OBVIOUS
 <2>1. e \in Seq(AllFrames) BY <2>0
 <2>2. PushedOn(<<g>> \o e, e, g) BY <1>12, <2>1, Pushed
 <2>3. PushedOn(u, <<>>, g) BY <1>13, <2>0, <2>2
 <2> QED BY <2>3 DEF PushedOn
<1>15. Sets(Owner, u) BY <1>2, <1>3, <1>10, <1>11, <1>13 DEF Collect, ReplaceTop, Sets, Own
<1>16. /\ stack' \in [Threads -> Seq(AllFrames)] /\ Own' = u
       /\ \A v \in Threads \ {Owner} : stack'[v] = stack[v]
  BY <1>1, <1>14, <1>15, Setting DEF Own
<1>17. Lowest' = g /\ Own' # <<>> BY <1>14, <1>16 DEF Lowest, PushedOn
<1>18. Stacks' BY <1>1, <1>5, <1>6, <1>12, <1>13, <1>16, <1>17, NestedAlone DEF Stacks
<1>19. \A x \in Watches : ~Called(Own, x) /\ ~Seeding(Own, x) /\ ~Waiting(Own, x)
  BY <1>3, JustPublishing DEF PublicationOnTop
<1>20. \A x \in Watches : ~Called(Own, x)' /\ ~Seeding(Own, x)' /\ ~Waiting(Own, x)'
  BY <1>12, <1>14, <1>16, JustPublishing
<1>21. GateTypes' BY <1>1, <1>4, <1>5 DEF GateTypes
<1>22. ListTypes' BY <1>1, <1>5 DEF ListTypes
<1>23. Running' BY <1>5, <1>19, <1>20 DEF Running, BindingsInv
<1>24. Waits'
 <2>1. SUFFICES ASSUME NEW v \in Threads, NEW x \in Watches, Waiting(stack[v], x)'
                PROVE  x \notin active' \cup fresh' /\ (v = Owner => ~Called(Own, x)')
   BY DEF Waits
 <2>2. v # Owner BY <1>20, <2>1 DEF Own
 <2>3. Waiting(stack[v], x) BY <1>16, <2>1, <2>2
 <2> QED BY <1>5, <2>2, <2>3 DEF BindingsInv, Waits
<1>25. Seeds' BY <1>20 DEF Seeds
<1>26. Publication'
 <2>1. \A x \in ToSet(rest) : operation'[x] = operation[x] BY <1>1, <1>4, <1>8 DEF GateTypes
 <2>2. w \in failures <=> w \in threw BY <1>7, <1>8
 <2>3. (threw # {}) <=> (g.failed \/ \E x \in ToSet(rest) : x \in threw) BY <1>7, <1>8, <1>12, <2>2
 <2> QED BY <1>5, <1>7, <1>8, <1>12, <1>17, <2>1, <2>3 DEF Publication
<1>27. Reached'
 <2>1. Reached /\ active \subseteq Watches BY <1>1 DEF BindingsInv, GateTypes
 <2>2. \A x \in Watches : Awaits(x) => Awaits(x)' \/ x = w BY <1>5, <1>6, <1>8, <1>12, <1>17 DEF Awaits
 <2>3. \A x \in Watches : operation'[x] # None => Awaits(x)'
   BY <1>1, <1>4, <1>8, <1>19, <2>1, <2>2 DEF Reached, GateTypes
 <2>4. \A x \in active : x \in ToSet(bindings) BY <1>19, <2>1 DEF Reached
 <2>5. \A x \in active : x \in ToSet(bindings) => seen[x] = revision \/ Awaits(x)' BY <1>9, <2>1, <2>2 DEF Reached
 <2> QED BY <1>5, <2>1, <2>3, <2>4, <2>5 DEF Reached
<1> QED BY <1>5, <1>18, <1>21, <1>22, <1>23, <1>24, <1>25, <1>26, <1>27 DEF BindingsInv

LEMMA PublishEndsStep ==
  ASSUME BindingsInv, PublishEnds
  PROVE  BindingsInv' /\ UNCHANGED <<seen, running>>
<1>1. GateTypes /\ ListTypes /\ Stacks /\ Within(Owner, "publish") /\ Owner \in Threads
  BY BindingsAssumption DEF BindingsInv, PublishEnds
<1>2. PICK f : f = Head(Own) OBVIOUS
<1>3. PublicationOnTop(f) /\ f.at = "publish" /\ Tail(Own) = <<>> /\ f.todo = <<>>
  BY <1>1, <1>2, PublicationAlone DEF Within, Own, PublishEnds
<1>4. UNCHANGED <<revision, closed, channel, fresh, held, active, entered, running, operation,
                  failures, seen, threw, released>>
  BY DEF PublishEnds, gateVars, historyVars
<1>5. f = Lowest /\ publishing /\ publishing' = FALSE BY <1>3 DEF PublicationOnTop, PublishEnds
<1>6. bindings' \in Seq(Watches) /\ IsInjective(bindings') /\ ToSet(bindings') = ToSet(bindings) \cap active
  BY <1>1, KeptIs DEF PublishEnds, GateTypes, ListTypes
<1>7. <<>> \in Seq(AllFrames) /\ Sets(Owner, <<>>)
 <2>1. stack' = [stack EXCEPT ![Owner] = Tail(stack[Owner])] BY DEF PublishEnds, Leave
 <2>2. Tail(stack[Owner]) = <<>> BY <1>3 DEF Own
 <2>3. stack' = [stack EXCEPT ![Owner] = <<>>] BY <2>1, <2>2
 <2> QED BY <2>3 DEF Sets
<1>8. /\ stack' \in [Threads -> Seq(AllFrames)] /\ Own' = <<>>
      /\ \A v \in Threads \ {Owner} : stack'[v] = stack[v]
  BY <1>1, <1>7, Setting DEF Own
<1>9. Stacks'
 <2>1. Nested(<<>>) BY DEF Nested
 <2> QED BY <1>1, <1>5, <1>8, <2>1 DEF Stacks
<1>10. \A x \in Watches : ~Called(Own, x) /\ ~Seeding(Own, x) /\ ~Waiting(Own, x)
  BY <1>3, JustPublishing DEF PublicationOnTop
<1>11. \A x \in Watches : ~Called(Own, x)' /\ ~Seeding(Own, x)' /\ ~Waiting(Own, x)'
 <2>1. \A g : ~HasOne(<<>>, g) BY DEF HasOne
 <2> QED BY <1>8, <2>1 DEF Called, Seeding, Waiting
<1>12. GateTypes' BY <1>1, <1>4, <1>5, <1>6 DEF GateTypes
<1>13. ListTypes' BY <1>1, <1>4, <1>6 DEF ListTypes
<1>14. Running' BY <1>4, <1>10, <1>11 DEF Running, BindingsInv
<1>15. Waits'
 <2>1. SUFFICES ASSUME NEW v \in Threads, NEW x \in Watches, Waiting(stack[v], x)'
                PROVE  x \notin active' \cup fresh' /\ (v = Owner => ~Called(Own, x)')
   BY DEF Waits
 <2>2. v # Owner BY <1>11, <2>1 DEF Own
 <2>3. Waiting(stack[v], x) BY <1>8, <2>1, <2>2
 <2> QED BY <1>4, <2>2, <2>3 DEF BindingsInv, Waits
<1>16. Seeds' /\ Publication' BY <1>5, <1>11 DEF Seeds, Publication
<1>17. Reached'
 <2>1. Reached /\ active \subseteq Watches BY <1>1 DEF BindingsInv, GateTypes
 <2>2. \A x : ~Awaits(x) BY <1>3, <1>5, NoList DEF Awaits
 <2>3. \A x \in Watches : operation[x] = None BY <1>10, <2>1, <2>2 DEF Reached
 <2>4. \A x \in active : x \in ToSet(bindings) /\ seen[x] = revision BY <1>10, <2>1, <2>2 DEF Reached
 <2> QED BY <1>4, <1>6, <2>1, <2>3, <2>4 DEF Reached
<1> QED BY <1>4, <1>9, <1>12, <1>13, <1>14, <1>15, <1>16, <1>17 DEF BindingsInv

LEMMA WatchEndsStep ==
  ASSUME BindingsInv, WatchEnds
  PROVE  BindingsInv' /\ UNCHANGED <<seen, running>>
<1>1. GateTypes /\ ListTypes /\ Stacks /\ Owner \in Threads BY BindingsAssumption DEF BindingsInv
<1>2. PICK f, w : f = Head(Own) /\ w = f.watch OBVIOUS
<1>3. ~Idle(Owner) /\ f.at = "attach" BY <1>2 DEF WatchEnds, Within, Own
<1>4. f \in AllFrames /\ HasOne(Own, f) BY <1>1, <1>2, <1>3, OnStack DEF Own
<1>5. w \in Watches /\ f = Attaching(w) BY <1>2, <1>3, <1>4, FrameOf
<1>6. Seeding(Own, w) BY <1>4, <1>5 DEF Seeding
<1>7. /\ revision > 0 /\ operation[w] = Seed(revision) /\ seen[w] = revision
      /\ w \in entered /\ w \notin held /\ w \notin threw /\ w \notin ToSet(bindings)
  BY <1>5, <1>6 DEF BindingsInv, Seeds
<1>8. UNCHANGED <<revision, closed, publishing, fresh, entered, running, failures, seen, threw,
                  released>>
  BY DEF WatchEnds, sourceVars, historyVars
<1>9. operation' = [operation EXCEPT ![w] = None] /\ Sets(Owner, Tail(Own)) BY <1>2 DEF WatchEnds, Own, Leave, Sets
<1>10. OwnKept /\ WithoutTop(f) BY <1>1, <1>2, <1>3, <1>8, <1>9, OwnLeaves
<1>11. \A x \in Watches : /\ Called(Own, x)' <=> Called(Own, x)
                          /\ Seeding(Own, x)' <=> Seeding(Own, x) /\ x # w
 <2>1. \A x \in Watches : (Attaching(x) = f <=> x = w) /\ Callback(x) # f BY <1>5 DEF Callback, Attaching
 <2>2. f.at \in {"call", "attach"} BY <1>3
 <2> QED BY <1>5, <1>10, <2>1, <2>2 DEF WithoutTop, Called, Seeding
<1>12. \/ /\ w \in failures /\ active' = active \ {w} /\ bindings' = bindings /\ held' = held
          /\ channel' \in Kept(channel, Watches \ {w})
       \/ /\ w \notin failures /\ active' = active /\ bindings' = Append(bindings, w)
          /\ held' = held \cup {w} /\ channel' = channel
  BY <1>2 DEF WatchEnds, Own
<1>13. channel' \in Seq(Watches) /\ IsInjective(channel') /\ ToSet(channel') \subseteq ToSet(channel)
  BY <1>1, <1>12, KeptIs DEF GateTypes, ListTypes
<1>14. /\ bindings' \in Seq(Watches) /\ IsInjective(bindings')
       /\ ToSet(bindings) \subseteq ToSet(bindings') /\ ToSet(bindings') \subseteq ToSet(bindings) \cup {w}
       /\ w \in active' => w \in ToSet(bindings')
 <2>0. bindings \in Seq(Watches) /\ IsInjective(bindings) BY <1>1 DEF GateTypes, ListTypes
 <2>1. CASE bindings' = bindings /\ active' = active \ {w} BY <2>0, <2>1
 <2>2. CASE bindings' = Append(bindings, w)
  <3>1. /\ Append(bindings, w) \in Seq(Watches) /\ IsInjective(Append(bindings, w))
        /\ ToSet(Append(bindings, w)) = ToSet(bindings) \cup {w}
    BY <1>5, <1>7, <2>0, Appended
  <3> QED BY <2>2, <3>1
 <2> QED BY <1>12, <2>1, <2>2
<1>15. active' \subseteq active /\ held' \subseteq held \cup {w} /\ w \in Watches \ fresh
  BY <1>1, <1>7, <1>12 DEF GateTypes
<1>16. GateTypes' BY <1>1, <1>8, <1>9, <1>13, <1>14, <1>15 DEF GateTypes
<1>17. ListTypes' BY <1>1, <1>8, <1>13, <1>14, <1>15 DEF ListTypes
<1>18. Running' BY <1>8, <1>11 DEF Running, BindingsInv
<1>19. Waits' BY <1>8, <1>10, <1>15, WaitsAfterLeaving
<1>20. Seeds'
 <2>1. \A x \in Watches : x # w => operation'[x] = operation[x] BY <1>1, <1>9 DEF GateTypes
 <2> QED BY <1>8, <1>11, <1>14, <1>15, <2>1 DEF Seeds, BindingsInv
<1>21. Publication'
 <2>1. SUFFICES ASSUME publishing PROVE Publication' BY <1>8 DEF Publication
 <2>2. Lowest' = Lowest /\ Publication BY <1>10, <2>1 DEF OwnKept, BindingsInv
 <2>3. ToSet(Lowest.todo) \subseteq ToSet(bindings) /\ ToSet(Lowest.todo) \subseteq Watches
   BY <1>1, <2>1, <2>2 DEF Publication, ListTypes
 <2>4. \A x \in ToSet(Lowest.todo) : operation'[x] = operation[x] BY <1>1, <1>7, <1>9, <2>3 DEF GateTypes
 <2> QED BY <1>8, <1>14, <2>1, <2>2, <2>4 DEF Publication
<1>22. Reached'
 <2>1. Reached /\ active \subseteq Watches BY <1>1 DEF BindingsInv, GateTypes
 <2>2. \A x \in Watches : Awaits(x)' <=> Awaits(x) BY <1>8, <1>10 DEF Awaits, OwnKept
 <2>3. \A x \in Watches : operation'[x] # None => x # w /\ operation[x] # None BY <1>1, <1>5, <1>9 DEF GateTypes
 <2>4. \A x \in Watches : operation'[x] # None => Awaits(x)' \/ Seeding(Own, x)' BY <1>11, <2>1, <2>2, <2>3 DEF Reached
 <2>5. \A x \in active' : x \in ToSet(bindings') \/ Seeding(Own, x)' BY <1>11, <1>14, <1>15, <2>1 DEF Reached
 <2>6. \A x \in active' : x \in ToSet(bindings') => seen[x] = revision \/ Awaits(x)'
   BY <1>7, <1>14, <1>15, <2>1, <2>2 DEF Reached
 <2> QED BY <1>8, <2>1, <2>4, <2>5, <2>6 DEF Reached
<1> QED BY <1>8, <1>10, <1>16, <1>17, <1>18, <1>19, <1>20, <1>21, <1>22 DEF BindingsInv, OwnKept

\* watch() enters the seed before it lists the watch.
LEMMA WatchStep ==
  ASSUME BindingsInv, NEW w \in Watches, Watch(w)
  PROVE  BindingsInv' /\ EnteredInOrder
<1>1. GateTypes /\ ListTypes /\ Stacks /\ Owner \in Threads BY BindingsAssumption DEF BindingsInv
<1>2. /\ InUserCode(Owner) /\ revision > 0 /\ w \in fresh
      /\ fresh' = fresh \ {w} /\ bindings' \in Pruned /\ channel' = Append(channel, w)
      /\ active' = active \cup {w} /\ operation' = [operation EXCEPT ![w] = Seed(revision)]
  BY DEF Watch
<1>3. UNCHANGED <<revision, closed, publishing, held, failures, threw, released>> BY DEF Watch, sourceVars
<1>4. /\ w \notin held /\ w \notin active /\ w \notin entered /\ w \notin failures /\ w \notin threw /\ w \notin released
      /\ w \notin ToSet(bindings) /\ w \notin ToSet(channel)
  BY <1>1, <1>2 DEF GateTypes, ListTypes
<1>5. running[w] = 0 /\ seen[w] = 0 BY <1>2 DEF BindingsInv, Reached
<1>6. ~Called(Own, w) /\ ~Seeding(Own, w) BY <1>4, <1>5 DEF BindingsInv, Running, Seeds
<1>7. /\ entered' = entered \cup {w} /\ running' = [running EXCEPT ![w] = 1]
      /\ seen' = [seen EXCEPT ![w] = revision]
  BY <1>1, <1>5 DEF Watch, Entered, Seed, GateTypes
<1>8. revision \in Nat /\ Seed(revision) \in Payload
 <2>1. revision \in Nat BY <1>1, BindingsAssumption DEF GateTypes
 <2> QED BY <1>2, <2>1 DEF Seed, Payload
<1>9. channel' \in Seq(Watches) /\ IsInjective(channel') /\ ToSet(channel') = ToSet(channel) \cup {w}
  BY <1>1, <1>2, <1>4, Appended DEF GateTypes, ListTypes
<1>10. /\ bindings' \in Seq(Watches) /\ IsInjective(bindings')
       /\ ToSet(bindings') \subseteq ToSet(bindings) /\ ToSet(bindings) \cap active \subseteq ToSet(bindings')
       /\ publishing => bindings' = bindings
 <2>1. CASE publishing BY <1>1, <1>2, <2>1 DEF Pruned, GateTypes, ListTypes
 <2>2. CASE ~publishing
  <3>1. bindings' \in Kept(bindings, active) BY <1>2, <2>2 DEF Pruned
  <3>2. bindings' \in Seq(Watches) /\ IsInjective(bindings') /\ ToSet(bindings') = ToSet(bindings) \cap active
    BY <1>1, <3>1, KeptIs DEF GateTypes, ListTypes
  <3> QED BY <2>2, <3>2
 <2> QED BY <2>1, <2>2
<1>11. PICK a, c, s : a = Attaching(w) /\ c = Callback(w) /\ s = Own OBVIOUS
<1>12. /\ a \in AllFrames /\ a.at = "attach" /\ c \in AllFrames /\ c.at = "call"
       /\ s \in Seq(AllFrames) /\ Nested(s)
  BY <1>1, <1>11, FrameKinds DEF Stacks, Own
<1>13. s # <<>> => BatchAt(s, Len(s)).at = "call"
 <2>1. SUFFICES ASSUME s # <<>> PROVE BatchAt(s, Len(s)).at = "call" OBVIOUS
 <2>2. ~Idle(Owner) /\ Head(Own).at = "call" BY <1>2, <1>11, <2>1 DEF InUserCode, Idle, Within, Own
 <2>3. OwnSplit(Head(Own), Tail(Own)) BY <1>1, <2>2, OwnTop
 <2> QED BY <1>11, <2>2, <2>3 DEF OwnSplit, PushedOn
<1>14. PICK r : r = <<a>> \o s OBVIOUS
<1>15. PushedOn(r, s, a) BY <1>12, <1>14, Pushed
<1>16. Nested(r)
 <2>1. ~HasOne(s, a) BY <1>6, <1>11 DEF Seeding
 <2> QED BY <1>12, <1>13, <1>14, <2>1, NestedUnder
<1>17. AsOwn(r)
 <2>1. publishing <=> s # <<>> /\ Lowest.at = "publish" BY <1>1, <1>11 DEF Stacks
 <2>2. Lowest = BatchAt(s, 1) BY <1>11 DEF Lowest
 <2>3. BatchAt(r, 1) = IF s = <<>> THEN a ELSE BatchAt(s, 1) BY <1>15 DEF PushedOn
 <2> QED BY <1>12, <1>15, <2>1, <2>2, <2>3 DEF AsOwn, PushedOn
<1>18. Nested(<<c>> \o r)
 <2>1. BatchAt(r, Len(r)) = a /\ r \in Seq(AllFrames) BY <1>15 DEF PushedOn
 <2>2. ~HasOne(r, c)
  <3>1. c # a /\ ~HasOne(s, c) BY <1>6, <1>11, <1>12 DEF Called
  <3> QED BY <1>15, <3>1 DEF PushedOn
 <2>3. a.watch = w BY <1>11, FrameKinds
 <2> QED BY <1>11, <1>12, <1>16, <2>1, <2>2, <2>3, NestedUnder
<1>19. Sets(Owner, <<c>> \o r)
 <2>1. stack' = [stack EXCEPT ![Owner] = <<c, a>> \o s] BY <1>11 DEF Watch, Own
 <2>2. <<c, a>> \o s = <<c>> \o r BY <1>12, <1>14, TwoOn
 <2> QED BY <2>1, <2>2 DEF Sets
<1>20. OwnKept /\ \A g : HasOne(Own', g) <=> HasOne(r, g) \/ g = c BY <1>1, <1>3, <1>12, <1>17, <1>18, <1>19, OwnEnters
<1>21. \A g : HasOne(Own', g) <=> HasOne(Own, g) \/ g = a \/ g = c BY <1>11, <1>15, <1>20 DEF PushedOn
<1>22. \A x \in Watches : /\ Called(Own, x)' <=> Called(Own, x) \/ x = w
                          /\ Seeding(Own, x)' <=> Seeding(Own, x) \/ x = w
                          /\ Waiting(Own, x)' => Waiting(Own, x)
 <2>1. \A x \in Watches : /\ Callback(x) = c <=> x = w
                          /\ Attaching(x) = a <=> x = w
                          /\ Callback(x) # a /\ Attaching(x) # c /\ WaitingFor(x) # a /\ WaitingFor(x) # c
   BY <1>11 DEF Callback, Attaching, WaitingFor
 <2> QED BY <1>21, <2>1 DEF Called, Seeding, Waiting
<1>23. \A x : Awaits(x)' <=> Awaits(x) BY <1>3, <1>20 DEF Awaits, OwnKept
<1>24. GateTypes' BY <1>1, <1>2, <1>3, <1>4, <1>7, <1>8, <1>9, <1>10 DEF GateTypes
<1>25. ListTypes' BY <1>1, <1>2, <1>4, <1>9, <1>10 DEF ListTypes
<1>26. Running' BY <1>1, <1>7, <1>22 DEF Running, BindingsInv, GateTypes
<1>27. Waits'
 <2>1. SUFFICES ASSUME NEW u \in Threads, NEW x \in Watches, Waiting(stack[u], x)'
                PROVE  x \notin active' \cup fresh' /\ (u = Owner => ~Called(Own, x)')
   BY DEF Waits
 <2>2. Waiting(stack[u], x) BY <1>20, <1>22, <2>1 DEF OwnKept, Own
 <2>3. x \notin active \cup fresh /\ (u = Owner => ~Called(Own, x)) BY <2>2 DEF BindingsInv, Waits
 <2> QED BY <1>2, <1>22, <2>3
<1>28. Seeds'
 <2>1. SUFFICES ASSUME NEW x \in Watches, Seeding(Own, x)'
                PROVE /\ revision > 0 /\ operation'[x] = Seed(revision) /\ seen'[x] = revision
                      /\ x \in entered' /\ x \notin held /\ x \notin threw /\ x \notin ToSet(bindings')
   BY <1>3 DEF Seeds
 <2>2. CASE x = w BY <1>1, <1>2, <1>4, <1>7, <1>10, <2>2 DEF GateTypes
 <2>3. CASE x # w
  <3>1. Seeding(Own, x) BY <1>22, <2>1, <2>3
  <3> QED BY <1>1, <1>2, <1>7, <1>10, <2>3, <3>1 DEF BindingsInv, Seeds, GateTypes
 <2> QED BY <2>2, <2>3
<1>29. Publication'
 <2>1. SUFFICES ASSUME publishing PROVE Publication' BY <1>3 DEF Publication
 <2>2. Lowest' = Lowest /\ Publication /\ bindings' = bindings BY <1>10, <1>20, <2>1 DEF OwnKept, BindingsInv
 <2>3. /\ revision > 0 /\ Lowest.payload = Change(revision)
       /\ IsInjective(Lowest.todo) /\ ToSet(Lowest.todo) \subseteq ToSet(bindings)
       /\ (threw # {}) <=> (Lowest.failed \/ \E x \in ToSet(Lowest.todo) : x \in threw)
   BY <2>1, <2>2 DEF Publication
 <2>4. ASSUME NEW x \in ToSet(Lowest.todo)
       PROVE  /\ operation'[x] = Change(revision)
              /\ x \in entered' => seen'[x] = revision
              /\ x \notin entered' => seen'[x] < revision /\ running'[x] = 0
              /\ x \in failures <=> x \in threw
  <3>1. /\ operation[x] = Change(revision)
        /\ x \in entered => seen[x] = revision
        /\ x \notin entered => seen[x] < revision /\ running[x] = 0
        /\ x \in failures <=> x \in threw
    BY <2>1, <2>2 DEF Publication
  <3>2. x \in Watches /\ x # w BY <1>1, <1>4, <2>3 DEF ListTypes
  <3> QED BY <1>1, <1>2, <1>7, <3>1, <3>2 DEF GateTypes
 <2> QED BY <1>3, <2>2, <2>3, <2>4 DEF Publication
<1>30. Reached'
 <2>1. Reached /\ active \subseteq Watches /\ fresh \subseteq Watches BY <1>1 DEF BindingsInv, GateTypes
 <2>2. \A x \in Watches : operation'[x] # None => Awaits(x)' \/ Seeding(Own, x)'
   BY <1>1, <1>2, <1>22, <1>23, <2>1 DEF Reached, GateTypes
 <2>3. \A x \in active' : x \in ToSet(bindings') \/ Seeding(Own, x)' BY <1>2, <1>10, <1>22, <2>1 DEF Reached
 <2>4. \A x \in active' : x \in ToSet(bindings') => seen'[x] = revision \/ Awaits(x)'
   BY <1>1, <1>2, <1>7, <1>10, <1>23, <2>1 DEF Reached, GateTypes
 <2>5. \A x \in fresh' : seen'[x] = 0 BY <1>1, <1>2, <1>7, <2>1 DEF Reached, GateTypes
 <2>6. \A x \in fresh' \cup threw \cup released : running'[x] = 0
  <3>1. w \notin fresh' \cup threw \cup released /\ fresh' \subseteq fresh BY <1>2, <1>4
  <3>2. fresh \cup threw \cup released \subseteq Watches BY <1>1 DEF GateTypes
  <3> QED BY <1>1, <1>7, <2>1, <3>1, <3>2 DEF Reached, GateTypes
 <2> QED BY <1>3, <2>2, <2>3, <2>4, <2>5, <2>6 DEF Reached
<1>31. EnteredInOrder BY <1>2, <1>3, <1>5, <1>7, <1>8 DEF EnteredInOrder
<1> QED BY <1>3, <1>20, <1>24, <1>25, <1>26, <1>27, <1>28, <1>29, <1>30, <1>31 DEF BindingsInv, OwnKept

\* What the invariant says while the owner is outside every call.
LEMMA WhenIdle ==
  ASSUME BindingsInv, Idle(Owner)
  PROVE  /\ Own = <<>> /\ publishing = FALSE
         /\ \A x : ~Called(Own, x) /\ ~Seeding(Own, x) /\ ~Waiting(Own, x)
         /\ \A x \in Watches : operation[x] = None /\ running[x] = 0
         /\ active \subseteq ToSet(bindings)
         /\ \A x \in active : seen[x] = revision
<1>1. Own = <<>> BY DEF Idle, Own
<1>2. publishing = FALSE BY <1>1 DEF BindingsInv, Stacks, GateTypes
<1>3. \A x : ~Called(Own, x) /\ ~Seeding(Own, x) /\ ~Waiting(Own, x) BY <1>1, NothingThere
<1>4. Reached /\ (\A x : ~Awaits(x)) /\ active \subseteq Watches BY <1>2 DEF BindingsInv, Awaits, GateTypes
<1>5. \A x \in Watches : running[x] = 0 BY <1>3 DEF BindingsInv, Running, GateTypes
<1> QED BY <1>1, <1>2, <1>3, <1>4, <1>5 DEF Reached

LEMMA CloseStep ==
  ASSUME BindingsInv, Close
  PROVE  BindingsInv' /\ UNCHANGED <<seen, running>>
<1>1. GateTypes /\ ListTypes /\ Stacks /\ Idle(Owner) BY DEF BindingsInv, Close
<1>2. /\ closed' = TRUE /\ active' = active \ ToSet(bindings) /\ bindings' = <<>>
      /\ channel' \in Kept(channel, Watches \ ToSet(bindings))
      /\ UNCHANGED <<revision, publishing, fresh, held, entered, running, operation, failures,
                     stack, seen, threw, released>>
  BY DEF Close, historyVars
<1>3. channel' \in Seq(Watches) /\ IsInjective(channel') /\ ToSet(channel') \subseteq ToSet(channel)
  BY <1>1, <1>2, KeptIs DEF GateTypes, ListTypes
<1>4. /\ Own = <<>> /\ publishing = FALSE
      /\ \A x : ~Called(Own, x) /\ ~Seeding(Own, x) /\ ~Waiting(Own, x)
      /\ \A x \in Watches : operation[x] = None /\ running[x] = 0
      /\ active \subseteq ToSet(bindings)
  BY <1>1, WhenIdle
<1>5. Own' = Own /\ active' = {} /\ ToSet(bindings') = {} BY <1>2, <1>4, NoList DEF Own
<1>6. GateTypes' BY <1>1, <1>2, <1>3, <1>5, NoList DEF GateTypes
<1>7. ListTypes' BY <1>1, <1>2, <1>3, NoList DEF ListTypes
<1>8. Stacks' BY <1>1, <1>2, <1>5 DEF Stacks, Lowest
<1>9. Running' BY <1>2, <1>5 DEF Running, BindingsInv
<1>10. Waits' BY <1>2, <1>5 DEF Waits, BindingsInv
<1>11. Seeds' /\ Publication' BY <1>2, <1>4, <1>5 DEF Seeds, Publication
<1>12. Reached' BY <1>2, <1>4, <1>5 DEF Reached, BindingsInv
<1> QED BY <1>2, <1>6, <1>7, <1>8, <1>9, <1>10, <1>11, <1>12 DEF BindingsInv

LEMMA SelectStep ==
  ASSUME BindingsInv, Select
  PROVE  BindingsInv' /\ UNCHANGED <<seen, running>>
<1>1. GateTypes /\ ListTypes /\ Stacks /\ Idle(Owner) /\ Owner \in Threads BY BindingsAssumption DEF BindingsInv, Select
<1>2. /\ Own = <<>> /\ publishing = FALSE
      /\ \A x : ~Called(Own, x) /\ ~Seeding(Own, x) /\ ~Waiting(Own, x)
      /\ \A x \in Watches : operation[x] = None /\ running[x] = 0
      /\ active \subseteq ToSet(bindings)
  BY <1>1, WhenIdle
<1>3. PICK next, listed : next = revision + 1 /\ listed = ToSet(bindings) OBVIOUS
<1>4. /\ revision' = next /\ publishing' = TRUE /\ revision < MaxRevision
      /\ operation' = [w \in Watches |-> IF w \in listed THEN Change(next) ELSE operation[w]]
      /\ entered' = entered \ listed /\ failures' = failures \ listed /\ threw' = {}
      /\ UNCHANGED <<closed, bindings, channel, fresh, held, active, running, seen, released>>
  BY <1>3 DEF Select, listVars
<1>5. PICK todo \in Snapshot :
          stack' = [stack EXCEPT ![Owner] = <<Notifying(Change(next), todo), Publishing(Change(next), bindings, FALSE)>>]
  BY <1>3 DEF Select
<1>6. next \in Nat \ {0} /\ next \in 0 .. MaxRevision /\ revision \in Nat /\ next > revision
  BY <1>1, <1>3, <1>4, BindingsAssumption DEF GateTypes
<1>7. Change(next) \in Payload BY <1>6 DEF Change, Payload
<1>8. todo \in Seq(Watches) /\ listed \subseteq Watches BY <1>1, <1>3, NoList DEF Snapshot, GateTypes, ListTypes
<1>9. PICK n, f : n = Notifying(Change(next), todo) /\ f = Publishing(Change(next), bindings, FALSE) OBVIOUS
<1>10. n \in AllFrames /\ n.at = "notify" BY <1>7, <1>8, <1>9 DEF Notifying, AllFrames, NotifyFrames
<1>11. f \in AllFrames /\ f.at = "publish" /\ f.payload = Change(next) /\ f.todo = bindings /\ f.failed = FALSE
  BY <1>1, <1>7, <1>9 DEF Publishing, AllFrames, PublishFrames, GateTypes
<1>12. PICK e, r, u : e = <<>> /\ r = <<f>> \o e /\ u = <<n>> \o r OBVIOUS
<1>13. e \in Seq(AllFrames) BY <1>12
<1>14. PushedOn(r, e, f) BY <1>11, <1>12, <1>13, Pushed
<1>15. r \in Seq(AllFrames) /\ PushedOn(u, r, n)
 <2>1. r \in Seq(AllFrames) BY <1>14 DEF PushedOn
 <2> QED BY <1>10, <1>12, <2>1, Pushed
<1>16. Sets(Owner, u)
 <2>1. <<n, f>> \o e = u BY <1>10, <1>11, <1>12, <1>13, TwoOn
 <2>2. PICK z : z = <<n, f>> OBVIOUS
 <2>3. z \in Seq(AllFrames) BY <1>10, <1>11, <2>2
 <2>4. z \o e = z BY <1>12, <2>3, ConcatEmptySeq
 <2> QED BY <1>5, <1>9, <2>1, <2>2, <2>4 DEF Sets
<1>17. /\ stack' \in [Threads -> Seq(AllFrames)] /\ Own' = u
       /\ \A v \in Threads \ {Owner} : stack'[v] = stack[v]
 <2>1. u \in Seq(AllFrames) BY <1>15 DEF PushedOn
 <2> QED BY <1>1, <1>16, <2>1, Setting DEF Own
<1>18. Nested(u)
 <2>1. Nested(r) BY <1>11, <1>12, NestedAlone
 <2>2. BatchAt(r, Len(r)) = f BY <1>14 DEF PushedOn
 <2> QED BY <1>10, <1>11, <1>12, <1>15, <2>1, <2>2, NestedUnder
<1>19. Lowest' = f /\ Own' # <<>>
 <2>1. BatchAt(r, 1) = f /\ r # <<>> BY <1>12, <1>14 DEF PushedOn
 <2>2. BatchAt(u, 1) = f /\ u # <<>> BY <1>15, <2>1 DEF PushedOn
 <2> QED BY <1>17, <2>2 DEF Lowest
<1>20. Stacks' BY <1>1, <1>4, <1>11, <1>17, <1>18, <1>19 DEF Stacks
<1>21. \A x \in Watches : ~Called(Own, x)' /\ ~Seeding(Own, x)' /\ ~Waiting(Own, x)'
 <2>1. \A g : ~HasOne(e, g) BY <1>12 DEF HasOne
 <2>2. \A g : HasOne(u, g) => g = n \/ g = f BY <1>14, <1>15, <2>1 DEF PushedOn
 <2>3. \A x \in Watches : /\ n # Callback(x) /\ n # Attaching(x) /\ n # WaitingFor(x)
                          /\ f # Callback(x) /\ f # Attaching(x) /\ f # WaitingFor(x)
   BY <1>10, <1>11 DEF Callback, Attaching, WaitingFor
 <2> QED BY <1>17, <2>2, <2>3 DEF Called, Seeding, Waiting
<1>22. GateTypes'
 <2>1. seen \in [Watches -> 0 .. next] BY <1>1, <1>6 DEF GateTypes
 <2>2. operation' \in [Watches -> {None} \cup Payload] BY <1>1, <1>4, <1>7 DEF GateTypes
 <2> QED BY <1>1, <1>4, <1>6, <2>1, <2>2 DEF GateTypes
<1>23. ListTypes' BY <1>1, <1>4 DEF ListTypes
<1>24. Running' BY <1>2, <1>4, <1>21 DEF Running
<1>25. Waits'
 <2>1. SUFFICES ASSUME NEW v \in Threads, NEW x \in Watches, Waiting(stack[v], x)'
                PROVE  x \notin active' \cup fresh' /\ (v = Owner => ~Called(Own, x)')
   BY DEF Waits
 <2>2. v # Owner BY <1>21, <2>1 DEF Own
 <2>3. Waiting(stack[v], x) BY <1>17, <2>1, <2>2
 <2> QED BY <1>4, <2>2, <2>3 DEF BindingsInv, Waits
<1>26. Seeds' BY <1>21 DEF Seeds
<1>27. Publication'
 <2>1. \A x \in listed : /\ operation'[x] = Change(next) /\ x \notin entered' /\ x \notin failures'
                         /\ seen[x] < next /\ running[x] = 0
   BY <1>1, <1>2, <1>4, <1>6, <1>8 DEF GateTypes
 <2>2. Lowest'.payload = Change(next) /\ Lowest'.todo = bindings /\ Lowest'.failed = FALSE /\ IsInjective(bindings)
   BY <1>1, <1>11, <1>19 DEF ListTypes
 <2> QED BY <1>3, <1>4, <1>6, <2>1, <2>2 DEF Publication
<1>28. Reached'
 <2>1. Reached BY DEF BindingsInv
 <2>2. \A x \in listed : Awaits(x)' BY <1>3, <1>4, <1>11, <1>19 DEF Awaits
 <2>3. \A x \in Watches : operation'[x] # None => x \in listed BY <1>2, <1>4
 <2> QED BY <1>2, <1>3, <1>4, <2>1, <2>2, <2>3 DEF Reached
<1> QED BY <1>4, <1>20, <1>22, <1>23, <1>24, <1>25, <1>26, <1>27, <1>28 DEF BindingsInv

--------------------
\* The specification.

LEMMA BindingsStart == BindingsInit => BindingsInv
<1>1. SUFFICES ASSUME BindingsInit PROVE BindingsInv OBVIOUS
<1>2. Owner \in Threads /\ MaxRevision \in Nat BY BindingsAssumption
<1>3. /\ revision = 0 /\ closed = FALSE /\ publishing = FALSE /\ bindings = <<>> /\ channel = <<>>
      /\ fresh = Watches /\ held = {} /\ active = {} /\ entered = {} /\ failures = {} /\ threw = {} /\ released = {}
      /\ running = [w \in Watches |-> 0] /\ seen = [w \in Watches |-> 0]
      /\ operation = [w \in Watches |-> None]
  BY <1>1 DEF BindingsInit
<1>4. stack \in [Threads -> Seq(AllFrames)] /\ \A t \in Threads : stack[t] = <<>>
 <2>1. PICK e : e = <<>> OBVIOUS
 <2>2. e \in Seq(AllFrames) BY <2>1
 <2>3. stack = [t \in Threads |-> e] BY <1>1, <2>1 DEF BindingsInit
 <2> QED BY <2>1, <2>2, <2>3
<1>5. Own = <<>> BY <1>2, <1>4 DEF Own
<1>6. \A g : ~HasOne(<<>>, g) BY DEF HasOne
<1>7. \A t \in Threads, w \in Watches : ~Called(stack[t], w) /\ ~Seeding(stack[t], w) /\ ~Waiting(stack[t], w)
  BY <1>4, <1>6 DEF Called, Seeding, Waiting
<1>8. \A w \in Watches : ~Called(Own, w) /\ ~Seeding(Own, w) BY <1>2, <1>7 DEF Own
<1>9. GateTypes
 <2>1. running \in [Watches -> {0, 1}] /\ seen \in [Watches -> 0 .. revision] BY <1>3
 <2>2. operation \in [Watches -> {None} \cup Payload] BY <1>3
 <2>3. bindings \in Seq(Watches) /\ channel \in Seq(Watches) BY <1>3, NoList
 <2>4. revision \in 0 .. MaxRevision BY <1>2, <1>3
 <2> QED BY <1>3, <2>1, <2>2, <2>3, <2>4 DEF GateTypes
<1>10. ListTypes BY <1>3, NoList DEF ListTypes
<1>11. Stacks
 <2>1. Nested(<<>>) BY DEF Nested
 <2>2. \A t \in Threads : Sends(stack[t]) BY <1>4 DEF Sends
 <2> QED BY <1>3, <1>4, <1>5, <2>1, <2>2 DEF Stacks
<1>12. Running BY <1>3, <1>8 DEF Running
<1>13. Waits BY <1>7 DEF Waits
<1>14. Seeds /\ Publication BY <1>3, <1>8 DEF Seeds, Publication
<1>15. Reached BY <1>3 DEF Reached
<1> QED BY <1>9, <1>10, <1>11, <1>12, <1>13, <1>14, <1>15 DEF BindingsInv

InOrder ==
  \A w \in Watches :
      /\ seen'[w] >= seen[w]
      /\ running'[w] > running[w] => seen'[w] = revision' /\ seen'[w] > seen[w]

LEMMA StepInOrder ==
  ASSUME BindingsInv, EnteredInOrder \/ UNCHANGED <<seen, running>> \/ Returned
  PROVE  InOrder
<1>1. /\ running \in [Watches -> {0, 1}] /\ seen \in [Watches -> 0 .. revision] /\ revision \in Nat
  BY BindingsAssumption DEF BindingsInv, GateTypes
<1>2. \A w \in Watches : seen[w] \in Nat /\ running[w] \in {0, 1} BY <1>1
<1>3. CASE EnteredInOrder BY <1>1, <1>2, <1>3 DEF EnteredInOrder, InOrder
<1>4. CASE UNCHANGED <<seen, running>> BY <1>2, <1>4 DEF InOrder
<1>5. CASE Returned BY <1>1, <1>2, <1>5 DEF Returned, InOrder
<1> QED BY <1>3, <1>4, <1>5

LEMMA BindingsMove ==
  ASSUME BindingsInv, [BindingsNext]_bindingsVars
  PROVE  BindingsInv' /\ InOrder
<1>1. CASE Select BY <1>1, SelectStep, StepInOrder
<1>2. CASE Close BY <1>2, CloseStep, StepInOrder
<1>3. ASSUME NEW w \in Watches, Watch(w) PROVE BindingsInv' /\ InOrder BY <1>3, WatchStep, StepInOrder
<1>4. ASSUME NEW t \in Threads, Proceed(t) PROVE BindingsInv' /\ InOrder
 <2>1. CASE CallbackReturns(t, FALSE) BY <2>1, CallbackReturnsStep, StepInOrder
 <2>2. CASE CallbackReturns(t, TRUE) BY <2>2, CallbackReturnsStep, StepInOrder
 <2>3. CASE Deliver(t) BY <2>3, DeliverStep, StepInOrder
 <2>4. CASE Notified(t)
  <3>1. UNCHANGED <<seen, running>> BY <2>4 DEF Notified, gateVars, historyVars
  <3> QED BY <2>4, <3>1, NotifiedStep, StepInOrder
 <2>5. CASE ResetReturns(t)
  <3>1. UNCHANGED <<seen, running>> BY <2>5 DEF ResetReturns, gateVars
  <3> QED BY <2>5, <3>1, ResetReturnsStep, StepInOrder
 <2>6. CASE WatchEnds BY <2>6, WatchEndsStep, StepInOrder
 <2>7. CASE FallBack BY <2>7, FallBackStep, StepInOrder
 <2>8. CASE Collect BY <2>8, CollectStep, StepInOrder
 <2>9. CASE PublishEnds BY <2>9, PublishEndsStep, StepInOrder
 <2> QED BY <1>4, <2>1, <2>2, <2>3, <2>4, <2>5, <2>6, <2>7, <2>8, <2>9 DEF Proceed
<1>5. ASSUME NEW t \in Threads, NEW w \in Watches, Reset(t, w) PROVE BindingsInv' /\ InOrder
 <2>1. UNCHANGED <<seen, running>> BY <1>5 DEF Reset, historyVars
 <2> QED BY <1>5, <2>1, ResetStep, StepInOrder
<1>6. ASSUME NEW t \in Threads, NEW p \in Payloads, Resend(t, p) PROVE BindingsInv' /\ InOrder
 <2>1. UNCHANGED <<seen, running>> BY <1>6 DEF Resend, gateVars, historyVars
 <2> QED BY <1>6, <2>1, ResendStep, StepInOrder
<1>7. CASE UNCHANGED bindingsVars
 <2>1. UNCHANGED <<revision, closed, publishing, bindings, channel, fresh, held, active, entered,
                   running,
                   operation, failures, stack, seen, threw, released>>
   BY <1>7 DEF bindingsVars, sourceVars, listVars, gateVars, historyVars
 <2>2. BindingsInv'
   BY <2>1 DEF BindingsInv, GateTypes, ListTypes, Stacks, Running, Waits, Seeds, Publication, Reached, Own, Lowest,
     Awaits, Called, Seeding, Waiting
 <2>3. UNCHANGED <<seen, running>> BY <2>1
 <2> QED BY <2>2, <2>3, StepInOrder
<1> QED BY <1>1, <1>2, <1>3, <1>4, <1>5, <1>6, <1>7 DEF BindingsNext

LEMMA BindingsInvHolds == BindingsSpec => []BindingsInv
<1>1. BindingsInv /\ [BindingsNext]_bindingsVars => BindingsInv' BY BindingsMove
<1> QED BY <1>1, BindingsStart, PTL DEF BindingsSpec

--------------------
\* What follows.

LEMMA OthersCallNobody ==
  ASSUME Stacks, NEW t \in Threads, t # Owner
  PROVE  \A w \in Watches : ~Called(stack[t], w)
<1>1. Sends(stack[t]) BY DEF Stacks
<1> QED BY <1>1 DEF Sends, Called, HasOne, Callback

LEMMA FramesAre ==
  ASSUME Stacks, NEW t \in Threads, NEW f \in ToSet(stack[t])
  PROVE  f \in AllFrames /\ HasOne(stack[t], f)
<1>1. PICK s \in Seq(AllFrames) : s = stack[t] BY DEF Stacks
<1>2. DOMAIN s = 1 .. Len(s) /\ Len(s) \in Nat /\ \A i \in 1 .. Len(s) : s[i] \in AllFrames
  BY <1>1, LenProperties, ElementOfSeq
<1>3. PICK i \in 1 .. Len(s) : s[i] = f BY <1>1, <1>2 DEF ToSet
<1>4. Len(s) + 1 - i \in 1 .. Len(s) /\ Len(s) + 1 - (Len(s) + 1 - i) = i BY <1>2, <1>3
<1>5. HasOne(s, f) BY <1>3, <1>4 DEF HasOne, BatchAt
<1> QED BY <1>1, <1>2, <1>3, <1>5

LEMMA QuietHolds == BindingsInv => QuietAfterReset
<1>1. SUFFICES ASSUME BindingsInv PROVE QuietAfterReset OBVIOUS
<1>2. GateTypes /\ Stacks /\ Owner \in Threads BY <1>1, BindingsAssumption DEF BindingsInv
<1>3. ASSUME NEW t \in Threads, NEW w \in Watches, Called(stack[t], w) PROVE t = Owner /\ Called(Own, w) /\ running[w] = 1
 <2>1. t = Owner BY <1>2, <1>3, OthersCallNobody
 <2>2. Called(Own, w) BY <1>3, <2>1 DEF Own
 <2> QED BY <1>1, <2>1, <2>2 DEF BindingsInv, Running
<1>4. ASSUME NEW w \in released, NEW t \in Threads PROVE w \notin Invoked(t)
 <2>1. w \in Watches /\ running[w] = 0 BY <1>1, <1>2 DEF GateTypes, BindingsInv, Reached
 <2>2. ~Called(stack[t], w) BY <1>3, <2>1
 <2> QED BY <1>2, <2>1, <2>2, InvokedIs
<1>5. ASSUME NEW t \in Threads, Within(t, "wait") PROVE Head(stack[t]).watch \notin Invoked(t)
 <2>1. PICK f, w : f = Head(stack[t]) /\ w = f.watch OBVIOUS
 <2>2. ~Idle(t) /\ f.at = "wait" BY <1>5, <2>1 DEF Within
 <2>3. f \in AllFrames /\ HasOne(stack[t], f) BY <1>2, <2>1, <2>2, OnStack
 <2>4. w \in Watches /\ f = WaitingFor(w) BY <2>1, <2>2, <2>3, FrameOf
 <2>5. t = Owner => ~Called(Own, w) BY <1>1, <2>3, <2>4 DEF BindingsInv, Waits, Waiting
 <2>6. ~Called(stack[t], w) BY <1>3, <2>4, <2>5
 <2> QED BY <1>2, <2>1, <2>4, <2>6, InvokedIs
<1> QED BY <1>4, <1>5 DEF QuietAfterReset

LEMMA FailuresHold == BindingsInv => FailuresSurface
<1>1. SUFFICES ASSUME BindingsInv, NEW f \in Frames(Owner, "publish"), f.todo = <<>> PROVE f.failed <=> threw # {}
  BY DEF FailuresSurface
<1>2. Stacks /\ Owner \in Threads /\ f \in ToSet(stack[Owner]) /\ f.at = "publish"
  BY <1>1, BindingsAssumption DEF BindingsInv, Frames
<1>3. f \in AllFrames /\ HasOne(Own, f) BY <1>2, FramesAre DEF Own
<1>4. PICK h \in 1 .. Len(Own) : BatchAt(Own, h) = f BY <1>3 DEF HasOne
<1>5. h = 1 BY <1>2, <1>4 DEF Stacks, Nested
<1>6. f = Lowest BY <1>4, <1>5 DEF Lowest
<1>7. Own # <<>>
 <2>1. Own \in Seq(AllFrames) BY <1>2 DEF Stacks, Own
 <2> QED BY <1>4, <2>1, EmptySeq
<1>8. publishing BY <1>2, <1>6, <1>7 DEF Stacks
<1>9. (threw # {}) <=> (f.failed \/ \E w \in ToSet(f.todo) : w \in threw)
  BY <1>1, <1>6, <1>8 DEF BindingsInv, Publication
<1> QED BY <1>1, <1>9, NoList

\* A publication leaves no attached watch behind, whatever the bus delivers.
THEOREM NobodyIsLeftBehind == BindingsSpec => []NoneLeftBehind
<1>1. BindingsInv => NoneLeftBehind
 <2>1. SUFFICES ASSUME BindingsInv PROVE NoneLeftBehind OBVIOUS
 <2>2. ~publishing => \A w \in active \cap ToSet(bindings) : seen[w] = revision BY <2>1 DEF BindingsInv, Reached, Awaits
 <2>3. Idle(Owner) => /\ active \subseteq ToSet(bindings)
                      /\ \A w \in Watches : operation[w] = None
   BY <2>1, WhenIdle
 <2> QED BY <2>1, <2>2, <2>3, QuietHolds, FailuresHold DEF NoneLeftBehind
<1> QED BY <1>1, BindingsInvHolds, PTL

LEMMA TypesHold == BindingsInv => BindingsTypeOK /\ OwnersThreadOnly
<1>1. SUFFICES ASSUME BindingsInv PROVE BindingsTypeOK /\ OwnersThreadOnly OBVIOUS
<1>2. GateTypes /\ ListTypes /\ Stacks /\ revision \in Nat BY <1>1, BindingsAssumption DEF BindingsInv, GateTypes
<1>3. \A w \in Watches : operation[w] \in {None} \cup Payloads
 <2>1. SUFFICES ASSUME NEW w \in Watches, operation[w] # None PROVE operation[w] \in Payloads OBVIOUS
 <2>2. Awaits(w) \/ Seeding(Own, w) BY <1>1, <2>1 DEF BindingsInv, Reached
 <2>3. CASE Awaits(w) BY <1>1, <1>2, <2>3 DEF BindingsInv, Publication, Awaits, Payloads
 <2>4. CASE Seeding(Own, w) BY <1>1, <1>2, <2>4 DEF BindingsInv, Seeds, Payloads
 <2> QED BY <2>2, <2>3, <2>4
<1>4. \A t \in Threads : \A f \in ToSet(stack[t]) : f.at \in {"publish", "notify", "attach", "call", "wait"}
  BY <1>2, FramesAre, FrameOf
<1>5. BindingsTypeOK BY <1>2, <1>3, <1>4 DEF BindingsTypeOK, GateTypes, ListTypes
<1>6. ASSUME NEW t \in Threads, Frames(t, "call") # {} PROVE t = Owner
 <2>1. PICK f \in ToSet(stack[t]) : f.at = "call" BY <1>6 DEF Frames
 <2>2. f \in AllFrames /\ HasOne(stack[t], f) BY <1>2, FramesAre
 <2>3. f.watch \in Watches /\ f = Callback(f.watch) BY <2>1, <2>2, FrameOf
 <2> QED BY <1>2, <2>2, <2>3, OthersCallNobody DEF Called
<1> QED BY <1>5, <1>6 DEF OwnersThreadOnly

\* A watch sees the revisions in order, each once and on the owner's thread.
THEOREM WatchesSeeInOrder == BindingsSpec => RevisionsInOrder
<1>1. BindingsInv /\ [BindingsNext]_bindingsVars => InOrder BY BindingsMove
<1>2. BindingsSpec => [](BindingsTypeOK /\ OwnersThreadOnly) BY TypesHold, BindingsInvHolds, PTL
<1>3. BindingsSpec => [][InOrder]_bindingsVars BY <1>1, BindingsInvHolds, PTL DEF BindingsSpec
<1> QED BY <1>2, <1>3 DEF RevisionsInOrder, InOrder

\* ---- The native objects of a renderer and what listeners hear of it. ----
Slots == [id : Names \cup {0}, pending : BOOLEAN]
Counts == [tracked : Nat, live : Nat, pending : Nat, deleted : Nat, abandoned : Nat]
Named == {s \in DOMAIN entries : entries[s].id # 0}

\* A slot's name is not deleted before the slot is taken off the books; all
\* that is alive has a slot of its own, or none and then only once.
SlotsOwnNames ==
  /\ entries \in Seq(Slots) /\ (\A s \in DOMAIN entries : entries[s].id = 0 => ~entries[s].pending)
  /\ native = {entries[s].id : s \in Named} \cup orphans /\ orphans \subseteq Names
  /\ \A s \in Named : entries[s].id \notin orphans
  /\ \A s, t \in Named : s # t => entries[s].id # entries[t].id

HandlesOwnSlots ==
  /\ \A h \in DOMAIN handles : handles[h] \in [slot : Nat, id : Names]
  /\ lifetimeActive =>
        /\ \A h \in DOMAIN handles : /\ handles[h].slot \in DOMAIN entries
                                     /\ entries[handles[h].slot] = [id |-> handles[h].id, pending |-> FALSE]
        /\ {handles[h].slot : h \in DOMAIN handles} = Named \ ToSet(pending)
        /\ \A g, h \in DOMAIN handles : g # h => handles[g].slot # handles[h].slot

ListsHoldSlots ==
  /\ pending \in Seq(Nat) /\ IsInjective(pending) /\ ToSet(pending) = {s \in Named : entries[s].pending}
  /\ free \in Seq(Nat) /\ IsInjective(free) /\ ToSet(free) = DOMAIN entries \ Named

StatsCount ==
  /\ stats \in Counts
  /\ stats.live = Cardinality(Named) /\ stats.pending = Len(pending)
  /\ stats.tracked = stats.live + stats.deleted + stats.abandoned

Phases ==
  /\ lifetimeActive \in BOOLEAN /\ (lifetimeActive <=> phase = "ready")
  /\ ~lifetimeActive => entries = <<>>
  /\ phase = "new" => handles = <<>>

\* The sequences up to k, in their order.
UpTo(k) == SubSeq(<<1, 2>>, 1, k)

\* What listeners were told, are being told and have still to be told.
Told ==
  /\ phase \in {"new", "ready", "stopped", "destroyed"} /\ telling \in BOOLEAN
  /\ domain \in 0 .. 2 /\ published \in 0 .. domain /\ remaining \in 0 .. 2 /\ terminal \in {0, 2}
  /\ phase = "new" => domain = 0
  /\ phase = "ready" => domain = 1
  /\ phase = "stopped" => domain = 2
  /\ telling => remaining > 0
  /\ phase # "destroyed" =>
        /\ terminal = 0 /\ heard = UpTo(published)
        /\ remaining = 0 => published = domain
        /\ published = 0 => domain < 2 /\ ~telling /\ remaining # 1
        /\ telling /\ remaining = 1 => published = 2
  /\ phase = "destroyed" =>
        /\ remaining = 0
        /\ heard \in {UpTo(0), UpTo(1), UpTo(2)} /\ (terminal = 2 => heard = UpTo(1))

NativeInv == SlotsOwnNames /\ HandlesOwnSlots /\ ListsHoldSlots /\ StatsCount /\ Phases /\ Told

\* Lists of slots.

LEMMA SlotList ==
  ASSUME NEW l \in Seq(Nat)
  PROVE  /\ Len(l) \in Nat /\ DOMAIN l = 1 .. Len(l) /\ \A i \in 1 .. Len(l) : l[i] \in Nat
         /\ l = <<>> <=> Len(l) = 0
         /\ ToSet(l) \subseteq Nat
<1>1. Len(l) \in Nat /\ DOMAIN l = 1 .. Len(l) /\ \A i \in 1 .. Len(l) : l[i] \in Nat BY LenProperties, ElementOfSeq
<1>2. l = <<>> <=> Len(l) = 0 BY EmptySeq
<1> QED BY <1>1, <1>2 DEF ToSet

LEMMA NoSlots == <<>> \in Seq(Nat) /\ ToSet(<<>>) = {} /\ IsInjective(<<>>) /\ Len(<<>>) = 0
  BY EmptySeq DEF ToSet, IsInjective

LEMMA SlotInFront ==
  ASSUME NEW l \in Seq(Nat), IsInjective(l), NEW x \in Nat, x \notin ToSet(l)
  PROVE  /\ <<x>> \o l \in Seq(Nat) /\ IsInjective(<<x>> \o l) /\ ToSet(<<x>> \o l) = ToSet(l) \cup {x}
         /\ Len(<<x>> \o l) = Len(l) + 1
<1>1. DOMAIN l = 1 .. Len(l) /\ Len(l) \in Nat BY SlotList
<1>2. PICK k, o : o = <<x>> /\ k = o \o l OBVIOUS
<1>3. o \in Seq(Nat) /\ Len(o) = 1 /\ o[1] = x BY <1>2
<1>4. /\ k \in Seq(Nat) /\ Len(k) = Len(o) + Len(l)
      /\ \A i \in 1 .. Len(o) + Len(l) : k[i] = IF i <= Len(o) THEN o[i] ELSE l[i - Len(o)]
  BY <1>2, <1>3, ConcatProperties, Zenon
<1>5. DOMAIN k = 1 .. Len(l) + 1 BY <1>1, <1>3, <1>4, SlotList
<1>6. \A i \in DOMAIN k : i \in Nat /\ k[i] = (IF i = 1 THEN x ELSE l[i - 1]) /\ (i # 1 => i - 1 \in DOMAIN l)
  BY <1>1, <1>3, <1>4, <1>5
<1>7. \A i \in DOMAIN l : i \in Nat /\ i + 1 \in DOMAIN k /\ k[i + 1] = l[i]
 <2>1. SUFFICES ASSUME NEW i \in 1 .. Len(l) PROVE i + 1 \in DOMAIN k /\ k[i + 1] = l[i] BY <1>1
 <2>2. PICK j : j = i + 1 OBVIOUS
 <2>3. j \in 1 .. Len(l) + 1 /\ j # 1 /\ j - 1 = i BY <1>1, <2>2
 <2>4. j \in DOMAIN k /\ k[j] = l[j - 1] BY <1>5, <1>6, <2>3
 <2> QED BY <2>2, <2>3, <2>4
<1>8. 1 \in DOMAIN k BY <1>1, <1>5
<1>9. ToSet(k) = ToSet(l) \cup {x} BY <1>6, <1>7, <1>8 DEF ToSet
<1>10. IsInjective(k)
 <2>1. SUFFICES ASSUME NEW i \in DOMAIN k, NEW j \in DOMAIN k, k[i] = k[j] PROVE i = j BY DEF IsInjective
 <2>2. \A m \in DOMAIN l : l[m] # x BY DEF ToSet
 <2>3. i # 1 /\ j # 1 => i - 1 = j - 1 BY <1>6, <2>1 DEF IsInjective
 <2> QED BY <1>6, <2>1, <2>2, <2>3
<1> QED BY <1>1, <1>2, <1>3, <1>4, <1>9, <1>10

LEMMA FirstSlot ==
  ASSUME NEW l \in Seq(Nat), IsInjective(l), l # <<>>
  PROVE  /\ Head(l) \in ToSet(l) /\ Head(l) \in Nat
         /\ Tail(l) \in Seq(Nat) /\ IsInjective(Tail(l)) /\ ToSet(Tail(l)) = ToSet(l) \ {Head(l)}
<1>1. DOMAIN l = 1 .. Len(l) /\ Len(l) \in Nat /\ Len(l) >= 1 /\ ToSet(l) \subseteq Nat BY SlotList
<1>2. PICK k, h : k = Tail(l) /\ h = Head(l) OBVIOUS
<1>3. k \in Seq(Nat) /\ Len(k) = Len(l) - 1 /\ (\A i \in 1 .. Len(k) : k[i] = l[i + 1]) /\ h = l[1]
  BY <1>2, HeadTailProperties
<1>4. DOMAIN k = 1 .. Len(l) - 1 BY <1>3, SlotList
<1>5. h \in ToSet(l) BY <1>1, <1>3 DEF ToSet
<1>6. \A i \in DOMAIN k : i \in Nat /\ i >= 1 /\ i + 1 \in DOMAIN l /\ k[i] = l[i + 1] BY <1>1, <1>3, <1>4
<1>7. IsInjective(k)
 <2>1. SUFFICES ASSUME NEW i \in DOMAIN k, NEW j \in DOMAIN k, k[i] = k[j] PROVE i = j BY DEF IsInjective
 <2>2. i + 1 = j + 1 BY <1>6, <2>1 DEF IsInjective
 <2> QED BY <1>6, <2>2
<1>8. ToSet(k) = ToSet(l) \ {h}
 <2>1. ToSet(k) \subseteq ToSet(l) BY <1>6 DEF ToSet
 <2>2. h \notin ToSet(k)
  <3>1. SUFFICES ASSUME NEW i \in DOMAIN k, k[i] = h PROVE FALSE BY DEF ToSet
  <3>2. i + 1 = 1 BY <1>1, <1>3, <1>6, <3>1 DEF IsInjective
  <3> QED BY <1>6, <3>2
 <2>3. ASSUME NEW w \in ToSet(l), w # h PROVE w \in ToSet(k)
  <3>1. PICK i \in DOMAIN l : w = l[i] BY DEF ToSet
  <3>2. i # 1 BY <1>3, <2>3, <3>1
  <3>3. i - 1 \in DOMAIN k /\ k[i - 1] = w BY <1>1, <1>3, <1>4, <3>1, <3>2
  <3> QED BY <3>3 DEF ToSet
 <2> QED BY <2>1, <2>2, <2>3
<1> QED BY <1>1, <1>2, <1>3, <1>5, <1>7, <1>8

LEMMA Freed ==
  ASSUME NEW p \in Seq(Nat), IsInjective(p), NEW f \in Seq(Nat), IsInjective(f), ToSet(p) \cap ToSet(f) = {}
  PROVE  /\ Reverse(p) \o f \in Seq(Nat) /\ IsInjective(Reverse(p) \o f)
         /\ ToSet(Reverse(p) \o f) = ToSet(p) \cup ToSet(f)
<1>1. PICK n \in Nat : n = Len(p) /\ DOMAIN p = 1 .. n /\ \A i \in 1 .. n : p[i] \in Nat BY SlotList
<1>2. PICK m \in Nat : m = Len(f) /\ DOMAIN f = 1 .. m BY SlotList
<1>3. PICK r, k : r = Reverse(p) /\ k = r \o f OBVIOUS
<1>4. r = [i \in 1 .. n |-> p[n - i + 1]] BY <1>1, <1>3 DEF Reverse
<1>5. \A i \in 1 .. n : n - i + 1 \in 1 .. n /\ n - (n - i + 1) + 1 = i BY <1>1
<1>6. r \in [1 .. n -> Nat] /\ DOMAIN r = 1 .. n /\ \A i \in 1 .. n : r[i] = p[n - i + 1] BY <1>1, <1>4, <1>5
<1>7. r \in Seq(Nat) /\ Len(r) = n
 <2>1. r \in Seq(Nat) BY <1>6, SeqDef
 <2>2. Len(r) \in Nat /\ DOMAIN r = 1 .. Len(r) BY <2>1, SlotList
 <2>3. 1 .. Len(r) = 1 .. n BY <1>6, <2>2
 <2>4. ~(Len(r) > n)
  <3>1. SUFFICES ASSUME Len(r) > n PROVE FALSE OBVIOUS
  <3>2. Len(r) \in 1 .. Len(r) BY <1>1, <2>2, <3>1
  <3> QED BY <2>3, <3>1, <3>2
 <2>5. ~(Len(r) < n)
  <3>1. SUFFICES ASSUME Len(r) < n PROVE FALSE OBVIOUS
  <3>2. n \in 1 .. n BY <2>2, <3>1
  <3> QED BY <2>3, <3>1, <3>2
 <2>7. \A c \in Nat : ~(c > n) /\ ~(c < n) => c = n BY <1>1
 <2>6. Len(r) = n BY <2>2, <2>4, <2>5, <2>7
 <2> QED BY <2>1, <2>6
<1>8. /\ k \in Seq(Nat) /\ Len(k) = Len(r) + Len(f)
      /\ \A i \in 1 .. Len(r) + Len(f) : k[i] = IF i <= Len(r) THEN r[i] ELSE f[i - Len(r)]
  BY <1>3, <1>7, ConcatProperties, Zenon
<1>9. DOMAIN k = 1 .. n + m BY <1>2, <1>7, <1>8, SlotList
<1>15. \A i \in 1 .. n + m : k[i] = IF i <= n THEN r[i] ELSE f[i - n] BY <1>2, <1>7, <1>8
<1>10. \A i \in DOMAIN k : /\ i \in Nat
                           /\ i <= n => n - i + 1 \in DOMAIN p /\ k[i] = p[n - i + 1]
                           /\ i > n => i - n \in DOMAIN f /\ k[i] = f[i - n]
 <2>1. SUFFICES ASSUME NEW i \in 1 .. n + m
                PROVE  /\ i <= n => n - i + 1 \in DOMAIN p /\ k[i] = p[n - i + 1]
                       /\ i > n => i - n \in DOMAIN f /\ k[i] = f[i - n]
   BY <1>9
 <2>2. CASE i <= n BY <1>1, <1>5, <1>6, <1>15, <2>2
 <2>3. CASE i > n BY <1>1, <1>2, <1>15, <2>3
 <2> QED BY <2>2, <2>3
<1>11. \A i \in DOMAIN p : i \in Nat /\ n - i + 1 \in DOMAIN k /\ k[n - i + 1] = p[i]
 <2>1. SUFFICES ASSUME NEW i \in 1 .. n PROVE n - i + 1 \in DOMAIN k /\ k[n - i + 1] = p[i] BY <1>1
 <2>2. PICK j : j = n - i + 1 OBVIOUS
 <2>3. j \in 1 .. n /\ n - j + 1 = i /\ j \in 1 .. n + m BY <2>2
 <2>4. k[j] = r[j] /\ r[j] = p[i] BY <1>6, <1>15, <2>3
 <2> QED BY <1>9, <2>2, <2>3, <2>4
<1>12. \A i \in DOMAIN f : i \in Nat /\ i + n \in DOMAIN k /\ k[i + n] = f[i]
 <2>1. SUFFICES ASSUME NEW i \in 1 .. m PROVE i + n \in DOMAIN k /\ k[i + n] = f[i] BY <1>2
 <2>2. PICK j : j = i + n OBVIOUS
 <2>3. j \in 1 .. n + m /\ ~(j <= n) /\ j - n = i BY <2>2
 <2> QED BY <1>9, <1>15, <2>2, <2>3
<1>13. ToSet(k) = ToSet(p) \cup ToSet(f)
 <2>1. ASSUME NEW i \in DOMAIN k PROVE k[i] \in ToSet(p) \cup ToSet(f)
  <3>1. i <= n \/ i > n BY <1>1, <1>10
  <3> QED BY <1>10, <3>1 DEF ToSet
 <2> QED BY <1>11, <1>12, <2>1 DEF ToSet
<1>14. IsInjective(k)
 <2>1. SUFFICES ASSUME NEW i \in DOMAIN k, NEW j \in DOMAIN k, k[i] = k[j] PROVE i = j BY DEF IsInjective
 <2>2. \A a \in DOMAIN p, b \in DOMAIN f : p[a] # f[b] BY DEF ToSet
 <2>3. i <= n /\ j <= n => n - i + 1 = n - j + 1 BY <1>10, <2>1 DEF IsInjective
 <2>4. i > n /\ j > n => i - n = j - n BY <1>10, <2>1 DEF IsInjective
 <2>5. i \in Nat /\ j \in Nat BY <1>10
 <2>6. ~(i <= n /\ j > n) /\ ~(i > n /\ j <= n) BY <1>10, <2>1, <2>2
 <2> QED BY <1>1, <2>3, <2>4, <2>5, <2>6
<1> QED BY <1>3, <1>8, <1>13, <1>14

LEMMA SlotsCounted ==
  ASSUME NEW l \in Seq(Nat), IsInjective(l)
  PROVE  IsFiniteSet(ToSet(l)) /\ Cardinality(ToSet(l)) = Len(l)
<1>1. PICK n \in Nat : n = Len(l) /\ DOMAIN l = 1 .. n BY SlotList
<1>2. PICK S : S = ToSet(l) OBVIOUS
<1>3. l \in [1 .. n -> Nat] BY <1>1, SlotList, SeqDef
<1>4. ExistsBijection(1 .. n, S)
 <2>1. l \in [1 .. n -> S] BY <1>1, <1>2, <1>3 DEF ToSet
 <2>2. l \in Injection(1 .. n, S) BY <1>1, <2>1 DEF Injection, IsInjective
 <2>3. l \in Surjection(1 .. n, S) BY <1>1, <1>2, <2>1 DEF Surjection, ToSet
 <2> QED BY <2>2, <2>3 DEF ExistsBijection, Bijection
<1>5. IsFiniteSet(1 .. n) /\ Cardinality(1 .. n) = n BY FS_Interval
<1> QED BY <1>1, <1>2, <1>4, <1>5, FS_Bijection, FS_SameCardinalityBij

--------------------
\* Slots and their names.

LEMMA SlotTable ==
  ASSUME NEW e \in Seq(Slots)
  PROVE  Len(e) \in Nat /\ DOMAIN e = 1 .. Len(e) /\ \A s \in 1 .. Len(e) : e[s] \in Slots
  BY LenProperties, ElementOfSeq

LEMMA NamedAre ==
  ASSUME SlotsOwnNames
  PROVE  /\ IsFiniteSet(Named) /\ Cardinality(Named) \in Nat /\ Named \subseteq DOMAIN entries
         /\ DOMAIN entries \subseteq Nat
<1>1. Len(entries) \in Nat /\ DOMAIN entries = 1 .. Len(entries) BY SlotTable DEF SlotsOwnNames
<1>2. IsFiniteSet(DOMAIN entries) BY <1>1, FS_Interval
<1>3. Named \subseteq DOMAIN entries BY DEF Named
<1> QED BY <1>1, <1>2, <1>3, FS_Subset, FS_CardinalityType

\* name is put into slot, for the handle h.
IsPlaced(h, slot, name) ==
  /\ slot \in Nat /\ slot \notin Named
  /\ entries' \in Seq(Slots) /\ DOMAIN entries' = DOMAIN entries \cup {slot}
  /\ entries'[slot] = [id |-> name, pending |-> FALSE]
  /\ \A s \in DOMAIN entries \ {slot} : entries'[s] = entries[s]
  /\ free' \in Seq(Nat) /\ IsInjective(free') /\ ToSet(free') = DOMAIN entries' \ (Named \cup {slot})
  /\ handles' = [g \in DOMAIN handles \cup {h} |-> IF g = h THEN [slot |-> slot, id |-> name] ELSE handles[g]]

LEMMA TrackPlaces ==
  ASSUME SlotsOwnNames, ListsHoldSlots, NEW h, NEW name \in Names, Track(h, name)
  PROVE  \E slot : IsPlaced(h, slot, name)
<1>1. entries \in Seq(Slots) /\ free \in Seq(Nat) /\ IsInjective(free) /\ ToSet(free) = DOMAIN entries \ Named
  BY DEF SlotsOwnNames, ListsHoldSlots
<1>2. PICK n \in Nat : n = Len(entries) /\ DOMAIN entries = 1 .. n /\ \A s \in 1 .. n : entries[s] \in Slots
  BY <1>1, SlotTable
<1>3. PICK new \in Slots : new = [id |-> name, pending |-> FALSE] BY DEF Slots
<1>4. CASE free # <<>>
 <2>1. PICK slot : slot = Head(free) OBVIOUS
 <2>2. /\ slot \in ToSet(free) /\ slot \in Nat
       /\ Tail(free) \in Seq(Nat) /\ IsInjective(Tail(free)) /\ ToSet(Tail(free)) = ToSet(free) \ {slot}
   BY <1>1, <1>4, <2>1, FirstSlot
 <2>3. slot \in DOMAIN entries /\ slot \notin Named BY <1>1, <2>2
 <2>4. entries' = [entries EXCEPT ![slot] = new] /\ free' = Tail(free) BY <1>3, <1>4, <2>1 DEF Track
 <2>5. entries' \in Seq(Slots) /\ DOMAIN entries' = DOMAIN entries
  <3>1. entries' \in [1 .. n -> Slots]
   <4>1. entries \in [1 .. n -> Slots] BY <1>1, <1>2, SeqDef
   <4> QED BY <2>4, <4>1
  <3>2. entries' \in Seq(Slots) BY <3>1, SeqDef
  <3> QED BY <1>2, <3>1, <3>2
 <2>6. entries'[slot] = new /\ \A s \in DOMAIN entries \ {slot} : entries'[s] = entries[s] BY <2>3, <2>4
 <2>7. handles' = [g \in DOMAIN handles \cup {h} |-> IF g = h THEN [slot |-> slot, id |-> name] ELSE handles[g]]
   BY <1>4, <2>1 DEF Track
 <2>8. DOMAIN entries' = DOMAIN entries \cup {slot} BY <2>3, <2>5
 <2>9. free' \in Seq(Nat) /\ IsInjective(free') /\ ToSet(free') = DOMAIN entries' \ (Named \cup {slot})
   BY <1>1, <2>2, <2>4, <2>5
 <2> QED BY <1>3, <2>2, <2>3, <2>5, <2>6, <2>7, <2>8, <2>9 DEF IsPlaced
<1>5. CASE free = <<>>
 <2>1. PICK slot : slot = n + 1 OBVIOUS
 <2>2. entries' = Append(entries, new) /\ free' = free BY <1>3, <1>5 DEF Track
 <2>3. /\ entries' \in Seq(Slots) /\ Len(entries') = n + 1
       /\ (\A s \in 1 .. n : entries'[s] = entries[s]) /\ entries'[n + 1] = new
   BY <1>1, <1>2, <2>2, AppendProperties
 <2>4. DOMAIN entries' = 1 .. n + 1 BY <2>3, SlotTable
 <2>5. DOMAIN entries' = DOMAIN entries \cup {slot} /\ slot \notin DOMAIN entries /\ slot \in Nat BY <1>2, <2>1, <2>4
 <2>6. slot \notin Named BY <2>5 DEF Named
 <2>7. DOMAIN entries \subseteq Named BY <1>1, <1>5, NoSlots
 <2>8. free' \in Seq(Nat) /\ IsInjective(free') /\ ToSet(free') = DOMAIN entries' \ (Named \cup {slot})
   BY <1>1, <1>5, <2>2, <2>5, <2>7, NoSlots
 <2>9. handles' = [g \in DOMAIN handles \cup {h} |-> IF g = h THEN [slot |-> slot, id |-> name] ELSE handles[g]]
   BY <1>2, <1>5, <2>1 DEF Track
 <2>10. entries'[slot] = new /\ \A s \in DOMAIN entries \ {slot} : entries'[s] = entries[s] BY <1>2, <2>1, <2>3
 <2> QED BY <1>3, <2>3, <2>5, <2>6, <2>8, <2>9, <2>10 DEF IsPlaced
<1> QED BY <1>4, <1>5

Books == SlotsOwnNames /\ HandlesOwnSlots /\ ListsHoldSlots /\ StatsCount

LEMMA TrackKeeps ==
  ASSUME Books, lifetimeActive, NEW h, h \notin DOMAIN handles, NEW name \in Names, name \notin native,
         Track(h, name), orphans' = orphans
  PROVE  Books'
<1>1. SlotsOwnNames /\ HandlesOwnSlots /\ ListsHoldSlots /\ StatsCount BY DEF Books
<1>2. PICK slot : IsPlaced(h, slot, name) BY <1>1, TrackPlaces
<1>3. /\ slot \in Nat /\ slot \notin Named
      /\ entries' \in Seq(Slots) /\ DOMAIN entries' = DOMAIN entries \cup {slot}
      /\ entries'[slot] = [id |-> name, pending |-> FALSE]
      /\ \A s \in DOMAIN entries \ {slot} : entries'[s] = entries[s]
  BY <1>2 DEF IsPlaced
<1>4. name # 0 /\ entries'[slot].id = name /\ entries'[slot].pending = FALSE BY <1>3, NativeAssumption
<1>5. /\ native' = native \cup {name} /\ pending' = pending /\ lifetimeActive' = lifetimeActive
      /\ stats' = [stats EXCEPT !.tracked = @ + 1, !.live = @ + 1]
  BY DEF Track
<1>6. Named' = Named \cup {slot} /\ \A s \in Named : s # slot /\ s \in DOMAIN entries /\ entries'[s] = entries[s]
  BY <1>3, <1>4 DEF Named
<1>7. native \subseteq Names /\ \A s \in Named : entries[s].id \in native
 <2>1. \A s \in DOMAIN entries : entries[s] \in Slots BY <1>1, SlotTable DEF SlotsOwnNames
 <2> QED BY <1>1, <2>1 DEF SlotsOwnNames, Named, Slots
<1>8. SlotsOwnNames'
 <2>1. entries' \in Seq(Slots) /\ (\A s \in DOMAIN entries' : entries'[s].id = 0 => ~entries'[s].pending)
   BY <1>1, <1>3, <1>4 DEF SlotsOwnNames
 <2>2. native' = {entries'[s].id : s \in Named'} \cup orphans BY <1>1, <1>4, <1>5, <1>6 DEF SlotsOwnNames
 <2>3. \A s \in Named' : entries'[s].id \notin orphans BY <1>1, <1>4, <1>6 DEF SlotsOwnNames
 <2>4. \A s, t \in Named' : s # t => entries'[s].id # entries'[t].id BY <1>1, <1>4, <1>6, <1>7 DEF SlotsOwnNames
 <2> QED BY <1>1, <2>1, <2>2, <2>3, <2>4 DEF SlotsOwnNames
<1>9. /\ DOMAIN handles' = DOMAIN handles \cup {h} /\ handles'[h] = [slot |-> slot, id |-> name]
      /\ \A g \in DOMAIN handles : g # h /\ handles'[g] = handles[g]
  BY <1>2 DEF IsPlaced
<1>10. /\ \A g \in DOMAIN handles : /\ handles[g] \in [slot : Nat, id : Names]
                                    /\ handles[g].slot \in DOMAIN entries
                                    /\ entries[handles[g].slot] = [id |-> handles[g].id, pending |-> FALSE]
       /\ {handles[g].slot : g \in DOMAIN handles} = Named \ ToSet(pending)
       /\ \A f, g \in DOMAIN handles : f # g => handles[f].slot # handles[g].slot
  BY <1>1 DEF HandlesOwnSlots
<1>11. \A g \in DOMAIN handles : handles[g].slot \in Named BY <1>10
<1>12. slot \notin ToSet(pending) BY <1>1, <1>3 DEF ListsHoldSlots
<1>13. HandlesOwnSlots'
 <2>0. ASSUME NEW g \in DOMAIN handles'
       PROVE  /\ handles'[g] \in [slot : Nat, id : Names]
              /\ handles'[g].slot \in DOMAIN entries'
              /\ entries'[handles'[g].slot] = [id |-> handles'[g].id, pending |-> FALSE]
  <3>1. CASE g = h
   <4>1. [slot |-> slot, id |-> name] \in [slot : Nat, id : Names] BY <1>3
   <4> QED BY <1>3, <1>9, <3>1, <4>1
  <3>2. CASE g # h
   <4>1. g \in DOMAIN handles /\ handles'[g] = handles[g] BY <1>9, <3>2
   <4> QED BY <1>3, <1>6, <1>10, <1>11, <4>1
  <3> QED BY <3>1, <3>2
 <2>1. \A g \in DOMAIN handles' : handles'[g] \in [slot : Nat, id : Names] BY <2>0
 <2>2. \A g \in DOMAIN handles' : /\ handles'[g].slot \in DOMAIN entries'
                                  /\ entries'[handles'[g].slot] = [id |-> handles'[g].id, pending |-> FALSE]
   BY <2>0
 <2>3. {handles'[g].slot : g \in DOMAIN handles'} = {handles[g].slot : g \in DOMAIN handles} \cup {slot} BY <1>9
 <2>4. {handles'[g].slot : g \in DOMAIN handles'} = Named' \ ToSet(pending) BY <1>6, <1>10, <1>12, <2>3
 <2>5. \A f, g \in DOMAIN handles' : f # g => handles'[f].slot # handles'[g].slot BY <1>3, <1>9, <1>10, <1>11
 <2> QED BY <1>5, <2>1, <2>2, <2>4, <2>5 DEF HandlesOwnSlots
<1>14. ListsHoldSlots'
 <2>1. {s \in Named' : entries'[s].pending} = {s \in Named : entries[s].pending} BY <1>4, <1>6
 <2>2. free' \in Seq(Nat) /\ IsInjective(free') /\ ToSet(free') = DOMAIN entries' \ Named' BY <1>2, <1>6 DEF IsPlaced
 <2> QED BY <1>1, <1>5, <2>1, <2>2 DEF ListsHoldSlots
<1>15. StatsCount'
 <2>1. IsFiniteSet(Named) /\ Cardinality(Named) \in Nat BY <1>1, NamedAre
 <2>2. Cardinality(Named') = Cardinality(Named) + 1 BY <1>3, <1>6, <2>1, FS_AddElement
 <2>3. stats \in Counts /\ stats.live = Cardinality(Named) /\ stats.pending = Len(pending)
       /\ stats.tracked = stats.live + stats.deleted + stats.abandoned
   BY <1>1 DEF StatsCount
 <2>4. stats' \in Counts /\ stats'.live = stats.live + 1 /\ stats'.tracked = stats.tracked + 1
       /\ stats'.pending = stats.pending /\ stats'.deleted = stats.deleted /\ stats'.abandoned = stats.abandoned
  <3>1. PICK a \in Nat, b \in Nat : a = stats.tracked + 1 /\ b = stats.live + 1 BY <2>3 DEF Counts
  <3>2. stats' = [stats EXCEPT !.tracked = a, !.live = b] BY <1>5, <3>1
  <3> QED BY <2>3, <3>1, <3>2 DEF Counts
 <2>5. stats'.tracked = stats'.live + stats'.deleted + stats'.abandoned BY <2>3, <2>4 DEF Counts
 <2> QED BY <1>5, <2>2, <2>3, <2>4, <2>5 DEF StatsCount
<1> QED BY <1>8, <1>13, <1>14, <1>15 DEF Books

\* The handles give up slot, whatever they are called afterwards.
HandlesLose(slot) ==
  /\ \A g \in DOMAIN handles' : \E k \in DOMAIN handles : handles'[g] = handles[k]
  /\ lifetimeActive =>
        /\ slot \in {handles[g].slot : g \in DOMAIN handles}
        /\ {handles'[g].slot : g \in DOMAIN handles'} = {handles[g].slot : g \in DOMAIN handles} \ {slot}
        /\ \A f, g \in DOMAIN handles' : f # g => handles'[f].slot # handles'[g].slot

LEMMA RetireKeeps ==
  ASSUME Books, lifetimeActive \in BOOLEAN, NEW slot, Retire(slot), HandlesLose(slot),
         native' = native, orphans' = orphans
  PROVE  Books' /\ lifetimeActive' = lifetimeActive /\ (~lifetimeActive => entries' = entries)
<1>1. SlotsOwnNames /\ HandlesOwnSlots /\ ListsHoldSlots /\ StatsCount BY DEF Books
<1>2. \A g \in DOMAIN handles : handles[g] \in [slot : Nat, id : Names] BY <1>1 DEF HandlesOwnSlots
<1>3. \A g \in DOMAIN handles' : handles'[g] \in [slot : Nat, id : Names] BY <1>2 DEF HandlesLose
<1>4. CASE ~lifetimeActive
 <2>1. UNCHANGED <<lifetimeActive, entries, pending, free, stats>> BY <1>4 DEF Retire, lifetimeVars
 <2>2. Named' = Named BY <2>1 DEF Named
 <2>3. SlotsOwnNames' /\ ListsHoldSlots' /\ StatsCount'
   BY <1>1, <2>1, <2>2 DEF SlotsOwnNames, ListsHoldSlots, StatsCount
 <2>4. HandlesOwnSlots' BY <1>3, <1>4, <2>1 DEF HandlesOwnSlots
 <2> QED BY <2>1, <2>3, <2>4 DEF Books
<1>5. CASE lifetimeActive
 <2>1. /\ {handles[g].slot : g \in DOMAIN handles} = Named \ ToSet(pending)
       /\ \A g \in DOMAIN handles : /\ handles[g].slot \in DOMAIN entries
                                    /\ entries[handles[g].slot] = [id |-> handles[g].id, pending |-> FALSE]
   BY <1>1, <1>5 DEF HandlesOwnSlots
 <2>2. slot \in Named /\ slot \notin ToSet(pending) BY <1>5, <2>1 DEF HandlesLose
 <2>3. slot \in DOMAIN entries /\ entries[slot].id # 0 /\ ~entries[slot].pending BY <1>1, <2>2 DEF Named, ListsHoldSlots
 <2>4. /\ entries' = [entries EXCEPT ![slot].pending = TRUE] /\ pending' = <<slot>> \o pending
       /\ stats' = [stats EXCEPT !.pending = @ + 1]
       /\ lifetimeActive' = lifetimeActive /\ free' = free
   BY <1>5, <2>3 DEF Retire
 <2>5. PICK n \in Nat : n = Len(entries) /\ DOMAIN entries = 1 .. n /\ \A s \in 1 .. n : entries[s] \in Slots
   BY <1>1, SlotTable DEF SlotsOwnNames
 <2>6. entries \in [1 .. n -> Slots] BY <1>1, <2>5, SeqDef DEF SlotsOwnNames
 <2>7. PICK new \in Slots : new = [entries[slot] EXCEPT !.pending = TRUE] /\ new.id = entries[slot].id /\ new.pending = TRUE
  <3>1. PICK e \in Slots : e = entries[slot] BY <2>3, <2>5
  <3>2. PICK new : new = [e EXCEPT !.pending = TRUE] OBVIOUS
  <3>3. new \in Slots /\ new.id = e.id /\ new.pending = TRUE BY <3>2 DEF Slots
  <3> QED BY <3>1, <3>2, <3>3
 <2>8. entries' = [entries EXCEPT ![slot] = new] BY <2>4, <2>7
 <2>9. entries' \in [1 .. n -> Slots] BY <2>6, <2>8
 <2>10. entries' \in Seq(Slots) /\ DOMAIN entries' = DOMAIN entries BY <2>5, <2>9, SeqDef
 <2>11. /\ entries'[slot].id = entries[slot].id /\ entries'[slot].pending = TRUE
        /\ \A s \in DOMAIN entries \ {slot} : entries'[s] = entries[s]
   BY <2>3, <2>5, <2>6, <2>7, <2>8
 <2>12. \A s \in DOMAIN entries : entries'[s].id = entries[s].id BY <2>11
 <2>13. Named' = Named BY <2>10, <2>12 DEF Named
 <2>14. SlotsOwnNames'
  <3>1. \A s \in DOMAIN entries' : entries'[s].id = 0 => ~entries'[s].pending
    BY <1>1, <2>3, <2>10, <2>11 DEF SlotsOwnNames
  <3>2. \A s \in Named : entries'[s].id = entries[s].id BY <2>12 DEF Named
  <3> QED BY <1>1, <2>10, <2>13, <3>1, <3>2 DEF SlotsOwnNames
 <2>15. pending \in Seq(Nat) /\ IsInjective(pending) /\ slot \in Nat BY <1>1, <2>3, <2>5 DEF ListsHoldSlots
 <2>16. pending' \in Seq(Nat) /\ IsInjective(pending') /\ ToSet(pending') = ToSet(pending) \cup {slot} /\ Len(pending') = Len(pending) + 1
   BY <2>2, <2>4, <2>15, SlotInFront
 <2>17. HandlesOwnSlots'
  <3>1. {handles'[g].slot : g \in DOMAIN handles'} = Named' \ ToSet(pending')
    BY <1>5, <2>1, <2>13, <2>16 DEF HandlesLose
  <3>2. ASSUME NEW g \in DOMAIN handles'
        PROVE  /\ handles'[g].slot \in DOMAIN entries'
               /\ entries'[handles'[g].slot] = [id |-> handles'[g].id, pending |-> FALSE]
   <4>1. PICK k \in DOMAIN handles : handles'[g] = handles[k] BY DEF HandlesLose
   <4>2. handles'[g].slot # slot BY <3>1, <2>16
   <4> QED BY <2>1, <2>10, <2>11, <4>1, <4>2
  <3>3. \A f, g \in DOMAIN handles' : f # g => handles'[f].slot # handles'[g].slot BY <1>5 DEF HandlesLose
  <3> QED BY <1>3, <3>1, <3>2, <3>3 DEF HandlesOwnSlots
 <2>18. ListsHoldSlots'
  <3>1. {s \in Named : entries'[s].pending} = {s \in Named : entries[s].pending} \cup {slot}
   <4>1. \A s \in Named : s \in DOMAIN entries BY DEF Named
   <4> QED BY <2>2, <2>11, <4>1
  <3>2. ToSet(free) = DOMAIN entries \ Named /\ free \in Seq(Nat) /\ IsInjective(free) /\ ToSet(pending) = {s \in Named : entries[s].pending}
    BY <1>1 DEF ListsHoldSlots
  <3> QED BY <2>4, <2>10, <2>13, <2>16, <3>1, <3>2 DEF ListsHoldSlots
 <2>19. StatsCount'
  <3>1. stats \in Counts /\ stats.live = Cardinality(Named) /\ stats.pending = Len(pending)
        /\ stats.tracked = stats.live + stats.deleted + stats.abandoned
    BY <1>1 DEF StatsCount
  <3>2. PICK a \in Nat : a = stats.pending + 1 BY <3>1 DEF Counts
  <3>3. stats' = [stats EXCEPT !.pending = a] BY <2>4, <3>2
  <3>4. stats' \in Counts /\ stats'.live = stats.live /\ stats'.tracked = stats.tracked
        /\ stats'.pending = a /\ stats'.deleted = stats.deleted /\ stats'.abandoned = stats.abandoned
    BY <3>1, <3>2, <3>3 DEF Counts
  <3> QED BY <2>13, <2>16, <3>1, <3>2, <3>4 DEF StatsCount
 <2> QED BY <2>4, <2>14, <2>17, <2>18, <2>19, <1>5 DEF Books
<1> QED BY <1>4, <1>5

LEMMA DropLoses ==
  ASSUME HandlesOwnSlots, NEW h \in DOMAIN handles, handles' = [g \in DOMAIN handles \ {h} |-> handles[g]]
  PROVE  HandlesLose(handles[h].slot)
<1>1. DOMAIN handles' = DOMAIN handles \ {h} /\ \A g \in DOMAIN handles' : handles'[g] = handles[g] OBVIOUS
<1>2. CASE lifetimeActive
 <2>1. \A g, k \in DOMAIN handles : g # k => handles[g].slot # handles[k].slot BY <1>2 DEF HandlesOwnSlots
 <2> QED BY <1>1, <2>1 DEF HandlesLose
<1>3. CASE ~lifetimeActive BY <1>1, <1>3 DEF HandlesLose
<1> QED BY <1>2, <1>3

LEMMA MoveLoses ==
  ASSUME HandlesOwnSlots, NEW h \in DOMAIN handles, NEW from \in DOMAIN handles, h # from,
         handles' = [g \in DOMAIN handles \ {from} |-> IF g = h THEN handles[from] ELSE handles[g]]
  PROVE  HandlesLose(handles[h].slot)
<1>1. /\ DOMAIN handles' = DOMAIN handles \ {from} /\ handles'[h] = handles[from]
      /\ \A g \in DOMAIN handles' : g # h => handles'[g] = handles[g]
  OBVIOUS
<1>2. CASE lifetimeActive
 <2>1. \A g, k \in DOMAIN handles : g # k => handles[g].slot # handles[k].slot BY <1>2 DEF HandlesOwnSlots
 <2>2. \A g \in DOMAIN handles' : \E k \in DOMAIN handles : handles'[g] = handles[k] BY <1>1
 <2>3. \A f, g \in DOMAIN handles' : f # g => handles'[f].slot # handles'[g].slot BY <1>1, <2>1
 <2>4. {handles'[g].slot : g \in DOMAIN handles'} = {handles[g].slot : g \in DOMAIN handles} \ {handles[h].slot}
  <3>1. \A g \in DOMAIN handles' : \E k \in DOMAIN handles : k # h /\ handles'[g].slot = handles[k].slot BY <1>1
  <3>2. \A k \in DOMAIN handles : k # h => \E g \in DOMAIN handles' : handles'[g].slot = handles[k].slot BY <1>1
  <3> QED BY <2>1, <3>1, <3>2
 <2> QED BY <1>1, <2>2, <2>3, <2>4 DEF HandlesLose
<1>3. CASE ~lifetimeActive BY <1>1, <1>3 DEF HandlesLose
<1> QED BY <1>2, <1>3

\* maintain_resources()
LEMMA MaintainKeeps ==
  ASSUME Books, lifetimeActive \in BOOLEAN, Maintain
  PROVE  Books'
<1>1. SlotsOwnNames /\ HandlesOwnSlots /\ ListsHoldSlots /\ StatsCount BY DEF Books
<1>2. /\ native' = native \ {entries[s].id : s \in ToSet(pending)}
      /\ stats' = [stats EXCEPT !.live = @ - Len(pending), !.pending = 0, !.deleted = @ + Len(pending)]
      /\ entries' = Collected /\ free' = Reverse(pending) \o free /\ pending' = <<>>
      /\ UNCHANGED <<lifetimeActive, orphans, handles>>
  BY DEF Maintain
<1>3. PICK P : P = ToSet(pending) /\ P = {s \in Named : entries[s].pending} BY <1>1 DEF ListsHoldSlots
<1>4. PICK n \in Nat : n = Len(entries) /\ DOMAIN entries = 1 .. n /\ \A s \in 1 .. n : entries[s] \in Slots
  BY <1>1, SlotTable DEF SlotsOwnNames
<1>5. NoSlot \in Slots /\ NoSlot.id = 0 /\ NoSlot.pending = FALSE BY DEF NoSlot, Slots
<1>6. /\ DOMAIN entries' = DOMAIN entries
      /\ \A s \in DOMAIN entries : entries'[s] = IF entries[s].pending THEN NoSlot ELSE entries[s]
  BY <1>2 DEF Collected
<1>7. entries' \in Seq(Slots)
 <2>1. entries' = [s \in 1 .. n |-> IF entries[s].pending THEN NoSlot ELSE entries[s]] BY <1>2, <1>4 DEF Collected
 <2>2. entries' \in [1 .. n -> Slots] BY <1>4, <1>5, <2>1
 <2> QED BY <2>2, SeqDef
<1>8. Named' = Named \ P /\ \A s \in Named \ P : s \in DOMAIN entries /\ entries'[s] = entries[s]
  BY <1>3, <1>5, <1>6 DEF Named
<1>9. P \subseteq Named /\ \A s \in DOMAIN entries : entries[s].pending => s \in P
  BY <1>1, <1>3 DEF Named, SlotsOwnNames
<1>10. SlotsOwnNames'
 <2>1. \A s \in DOMAIN entries' : entries'[s].id = 0 => ~entries'[s].pending BY <1>5, <1>6
 <2>2. /\ native = {entries[s].id : s \in Named} \cup orphans
       /\ \A s \in Named : entries[s].id \notin orphans
       /\ \A s, t \in Named : s # t => entries[s].id # entries[t].id
   BY <1>1 DEF SlotsOwnNames
 <2>3. native' = {entries[s].id : s \in Named \ P} \cup orphans
  <3>1. native' = native \ {entries[s].id : s \in P} BY <1>2, <1>3
  <3>2. {entries[s].id : s \in Named} \ {entries[s].id : s \in P} = {entries[s].id : s \in Named \ P} BY <1>9, <2>2
  <3>3. orphans \cap {entries[s].id : s \in P} = {} BY <1>9, <2>2
  <3> QED BY <2>2, <3>1, <3>2, <3>3
 <2>4. native' = {entries'[s].id : s \in Named'} \cup orphans' BY <1>2, <1>8, <2>3
 <2>5. \A s \in Named' : entries'[s].id \notin orphans' BY <1>2, <1>8, <2>2
 <2>6. \A s, t \in Named' : s # t => entries'[s].id # entries'[t].id BY <1>8, <2>2
 <2> QED BY <1>1, <1>2, <1>7, <2>1, <2>4, <2>5, <2>6 DEF SlotsOwnNames
<1>11. HandlesOwnSlots'
 <2>1. CASE lifetimeActive
  <3>1. /\ \A g \in DOMAIN handles : /\ handles[g] \in [slot : Nat, id : Names] /\ handles[g].slot \in DOMAIN entries
                                     /\ entries[handles[g].slot] = [id |-> handles[g].id, pending |-> FALSE]
        /\ {handles[g].slot : g \in DOMAIN handles} = Named \ P
        /\ \A f, g \in DOMAIN handles : f # g => handles[f].slot # handles[g].slot
    BY <1>1, <1>3, <2>1 DEF HandlesOwnSlots
  <3>2. \A g \in DOMAIN handles : handles[g].slot \in Named \ P BY <3>1
  <3>3. ToSet(pending') = {} BY <1>2, NoSlots
  <3>4. \A g \in DOMAIN handles : /\ handles[g].slot \in DOMAIN entries'
                                  /\ entries'[handles[g].slot] = [id |-> handles[g].id, pending |-> FALSE]
    BY <1>6, <1>8, <3>1, <3>2
  <3>5. Named' \ ToSet(pending') = Named \ P BY <1>8, <3>3
  <3>6. handles' = handles BY <1>2
  <3>7. \A g \in DOMAIN handles' : handles'[g] \in [slot : Nat, id : Names] BY <3>1, <3>6
  <3>8. \A g \in DOMAIN handles' : /\ handles'[g].slot \in DOMAIN entries'
                                   /\ entries'[handles'[g].slot] = [id |-> handles'[g].id, pending |-> FALSE]
    BY <3>4, <3>6
  <3>9. {handles'[g].slot : g \in DOMAIN handles'} = Named' \ ToSet(pending') BY <3>1, <3>5, <3>6
  <3>10. \A f, g \in DOMAIN handles' : f # g => handles'[f].slot # handles'[g].slot BY <3>1, <3>6
  <3> QED BY <3>7, <3>8, <3>9, <3>10 DEF HandlesOwnSlots
 <2>2. CASE ~lifetimeActive BY <1>1, <1>2, <2>2 DEF HandlesOwnSlots
 <2> QED BY <2>1, <2>2
<1>12. ListsHoldSlots'
 <2>1. /\ pending \in Seq(Nat) /\ IsInjective(pending) /\ ToSet(pending) = P
       /\ free \in Seq(Nat) /\ IsInjective(free) /\ ToSet(free) = DOMAIN entries \ Named
   BY <1>1, <1>3 DEF ListsHoldSlots
 <2>2. ToSet(pending) \cap ToSet(free) = {} BY <1>9, <2>1
 <2>3. free' \in Seq(Nat) /\ IsInjective(free') /\ ToSet(free') = P \cup (DOMAIN entries \ Named)
   BY <1>2, <2>1, <2>2, Freed
 <2>4. ToSet(free') = DOMAIN entries' \ Named'
  <3>1. Named \subseteq DOMAIN entries BY DEF Named
  <3> QED BY <1>6, <1>8, <1>9, <2>3, <3>1
 <2>5. {s \in Named' : entries'[s].pending} = {} BY <1>3, <1>5, <1>6, <1>8
 <2> QED BY <1>2, <2>3, <2>4, <2>5, NoSlots DEF ListsHoldSlots
<1>13. StatsCount'
 <2>1. stats \in Counts /\ stats.live = Cardinality(Named) /\ stats.pending = Len(pending)
       /\ stats.tracked = stats.live + stats.deleted + stats.abandoned
   BY <1>1 DEF StatsCount
 <2>2. IsFiniteSet(P) /\ Cardinality(P) = Len(pending) BY <1>1, <1>3, SlotsCounted DEF ListsHoldSlots
 <2>3. IsFiniteSet(Named) /\ Cardinality(Named) \in Nat BY <1>1, NamedAre
 <2>4. Cardinality(Named \ P) = Cardinality(Named) - Cardinality(P) /\ Cardinality(P) <= Cardinality(Named)
  <3>1. Named \cap P = P BY <1>9
  <3>2. Cardinality(Named \ P) = Cardinality(Named) - Cardinality(Named \cap P) BY <2>2, <2>3, FS_Difference
  <3>3. Cardinality(P) <= Cardinality(Named) BY <1>9, <2>3, FS_Subset
  <3> QED BY <3>1, <3>2, <3>3
 <2>5. PICK p \in Nat : p = Len(pending) BY <2>2, FS_CardinalityType
 <2>6. PICK l \in Nat, d \in Nat : l = stats.live - p /\ d = stats.deleted + p BY <2>1, <2>2, <2>4, <2>5 DEF Counts
 <2>7. stats' = [stats EXCEPT !.live = l, !.pending = 0, !.deleted = d] BY <1>2, <2>5, <2>6
 <2>8. /\ stats' \in Counts /\ stats'.live = l /\ stats'.pending = 0 /\ stats'.deleted = d
       /\ stats'.tracked = stats.tracked /\ stats'.abandoned = stats.abandoned
   BY <2>1, <2>6, <2>7 DEF Counts
 <2>9. stats'.live = Cardinality(Named') BY <1>8, <2>1, <2>2, <2>4, <2>5, <2>6, <2>8
 <2>10. stats'.tracked = stats'.live + stats'.deleted + stats'.abandoned BY <2>1, <2>5, <2>6, <2>8 DEF Counts
 <2> QED BY <1>2, <2>8, <2>9, <2>10, NoSlots DEF StatsCount
<1> QED BY <1>10, <1>11, <1>12, <1>13 DEF Books

--------------------
\* The steps.

LEMMA NoEntries ==
    /\ <<>> \in Seq(Slots) /\ DOMAIN <<>> = {}
    /\ IsFiniteSet({}) /\ Cardinality({}) = 0
<1>1. <<>> \in Seq(Slots) /\ Len(<<>>) = 0 BY EmptySeq
<1>2. DOMAIN <<>> = {} OBVIOUS
<1> QED BY <1>1, <1>2, FS_EmptySet


LEMMA ClosedKeeps ==
  ASSUME Books, entries' = <<>>, pending' = <<>>, free' = <<>>, lifetimeActive' = FALSE, handles' = handles,
         native' = orphans', orphans' \subseteq Names,
         \/ stats' = [stats EXCEPT !.deleted = @ + stats.live, !.live = 0, !.pending = 0]
         \/ stats' = [stats EXCEPT !.abandoned = @ + stats.live, !.live = 0, !.pending = 0]
  PROVE  Books'
<1>1. SlotsOwnNames /\ HandlesOwnSlots /\ ListsHoldSlots /\ StatsCount BY DEF Books
<1>2. entries' \in Seq(Slots) /\ DOMAIN entries' = {} BY NoEntries
<1>3. Named' = {} BY <1>2 DEF Named
<1>4. SlotsOwnNames' BY <1>2, <1>3 DEF SlotsOwnNames
<1>5. HandlesOwnSlots' BY <1>1 DEF HandlesOwnSlots
<1>6. ListsHoldSlots' BY <1>2, <1>3, NoSlots DEF ListsHoldSlots
<1>7. StatsCount'
 <2>1. stats \in Counts /\ stats.tracked = stats.live + stats.deleted + stats.abandoned BY <1>1 DEF StatsCount
 <2>2. PICK a \in Nat, b \in Nat : a = stats.deleted + stats.live /\ b = stats.abandoned + stats.live BY <2>1 DEF Counts
 <2>3. CASE stats' = [stats EXCEPT !.deleted = @ + stats.live, !.live = 0, !.pending = 0]
  <3>1. stats' = [stats EXCEPT !.deleted = a, !.live = 0, !.pending = 0] BY <2>2, <2>3
  <3>2. /\ stats' \in Counts /\ stats'.live = 0 /\ stats'.pending = 0
        /\ stats'.tracked = stats.tracked /\ stats'.deleted = a /\ stats'.abandoned = stats.abandoned
    BY <2>1, <2>2, <3>1 DEF Counts
  <3>3. stats'.tracked = stats'.live + stats'.deleted + stats'.abandoned BY <2>1, <2>2, <3>2 DEF Counts
  <3> QED BY <1>3, <3>2, <3>3, NoEntries, NoSlots DEF StatsCount
 <2>4. CASE stats' = [stats EXCEPT !.abandoned = @ + stats.live, !.live = 0, !.pending = 0]
  <3>1. stats' = [stats EXCEPT !.abandoned = b, !.live = 0, !.pending = 0] BY <2>2, <2>4
  <3>2. /\ stats' \in Counts /\ stats'.live = 0 /\ stats'.pending = 0
        /\ stats'.tracked = stats.tracked /\ stats'.deleted = stats.deleted /\ stats'.abandoned = b
    BY <2>1, <2>2, <3>1 DEF Counts
  <3>3. stats'.tracked = stats'.live + stats'.deleted + stats'.abandoned BY <2>1, <2>2, <3>2 DEF Counts
  <3> QED BY <1>3, <3>2, <3>3, NoEntries, NoSlots DEF StatsCount
 <2> QED BY <2>3, <2>4
<1> QED BY <1>4, <1>5, <1>6, <1>7 DEF Books

LEMMA ShutdownKeeps ==
  ASSUME Books, Shutdown \/ Abandon, handles' = handles
  PROVE  Books' /\ lifetimeActive' = FALSE /\ entries' = <<>> /\ domain' = 2
<1>1. SlotsOwnNames BY DEF Books
<1>2. /\ native = {entries[s].id : s \in Named} \cup orphans /\ orphans \subseteq Names
      /\ \A s \in Named : entries[s].id \notin orphans
  BY <1>1 DEF SlotsOwnNames
<1>3. \A s \in DOMAIN entries : entries[s].id \in Names \cup {0} BY <1>1, SlotTable DEF SlotsOwnNames, Slots
<1>4. /\ entries' = <<>> /\ pending' = <<>> /\ free' = <<>> /\ lifetimeActive' = FALSE /\ domain' = 2
  BY DEF Shutdown, Abandon
<1>5. CASE Shutdown
 <2>1. native' = native \ {entries[s].id : s \in DOMAIN entries} /\ orphans' = orphans
       /\ stats' = [stats EXCEPT !.deleted = @ + stats.live, !.live = 0, !.pending = 0]
   BY <1>5 DEF Shutdown
 <2>2. {entries[s].id : s \in Named} \subseteq {entries[s].id : s \in DOMAIN entries} BY DEF Named
 <2>3. \A s \in DOMAIN entries : entries[s].id \notin orphans
  <3>1. ASSUME NEW s \in DOMAIN entries, entries[s].id = 0 PROVE entries[s].id \notin orphans
    BY <1>2, <3>1, NativeAssumption
  <3> QED BY <1>2, <3>1 DEF Named
 <2>4. native' = orphans' BY <1>2, <2>1, <2>2, <2>3
 <2>5. Books' BY <1>2, <1>4, <2>1, <2>4, ClosedKeeps
 <2> QED BY <1>4, <2>5
<1>6. CASE Abandon
 <2>1. orphans' = orphans \cup ({entries[s].id : s \in DOMAIN entries} \ {0}) /\ native' = native
       /\ stats' = [stats EXCEPT !.abandoned = @ + stats.live, !.live = 0, !.pending = 0]
   BY <1>6 DEF Abandon
 <2>2. {entries[s].id : s \in Named} = {entries[s].id : s \in DOMAIN entries} \ {0} BY DEF Named
 <2>3. native' = orphans' BY <1>2, <2>1, <2>2
 <2>4. orphans' \subseteq Names BY <1>2, <1>3, <2>1
 <2>5. Books' BY <1>4, <2>1, <2>3, <2>4, ClosedKeeps
 <2> QED BY <1>4, <2>5
<1> QED BY <1>5, <1>6

LEMMA BooksStay ==
  ASSUME Books, UNCHANGED <<lifetimeVars, native, orphans, handles>>
  PROVE  Books'
<1>1. UNCHANGED <<lifetimeActive, entries, pending, free, stats, native, orphans, handles>> BY DEF lifetimeVars
<1>2. Named' = Named BY <1>1 DEF Named
<1> QED BY <1>1, <1>2 DEF Books, SlotsOwnNames, HandlesOwnSlots, ListsHoldSlots, StatsCount

\* Before the first initialize() there are no slots and so no handles yet;
\* the books balance whichever handles outlived an earlier domain.
LEMMA ActiveWithNone ==
  ASSUME Books, entries = <<>>, handles = <<>>, lifetimeActive' = TRUE,
         UNCHANGED <<entries, pending, free, stats, native, orphans, handles>>
  PROVE  Books'
<1>1. SlotsOwnNames /\ HandlesOwnSlots /\ ListsHoldSlots /\ StatsCount BY DEF Books
<1>2. DOMAIN entries = {} /\ DOMAIN handles = {} BY NoEntries
<1>3. Named' = {} /\ Named = {} BY <1>2 DEF Named
<1>4. SlotsOwnNames' /\ ListsHoldSlots' /\ StatsCount'
  BY <1>1, <1>3 DEF SlotsOwnNames, ListsHoldSlots, StatsCount, Named
<1>5. HandlesOwnSlots' BY <1>2, <1>3 DEF HandlesOwnSlots
<1> QED BY <1>4, <1>5 DEF Books

LEMMA Sequences ==
    /\ UpTo(0) = <<>> /\ UpTo(1) = <<1>> /\ UpTo(2) = <<1, 2>>
    /\ Append(UpTo(0), 1) = UpTo(1) /\ Append(UpTo(1), 2) = UpTo(2)
<1>0. ASSUME NEW l \in Seq(Nat), NEW t \in Nat
      PROVE  /\ Append(l, t) \in Seq(Nat) /\ Len(Append(l, t)) = Len(l) + 1 /\ Append(l, t)[Len(l) + 1] = t
             /\ \A i \in 1 .. Len(l) : Append(l, t)[i] = l[i]
  BY AppendProperties
<1>1. /\ <<>> \in Seq(Nat) /\ <<1>> \in Seq(Nat) /\ <<1, 2>> \in Seq(Nat)
      /\ Len(<<>>) = 0 /\ Len(<<1>>) = 1 /\ Len(<<1, 2>>) = 2
      /\ <<1>>[1] = 1 /\ <<1, 2>>[1] = 1 /\ <<1, 2>>[2] = 2
  OBVIOUS
<1>2. PICK a, b, c : a = <<>> /\ b = <<1>> /\ c = <<1, 2>> OBVIOUS
<1>3. /\ a \in Seq(Nat) /\ Len(a) = 0 /\ b \in Seq(Nat) /\ Len(b) = 1 /\ b[1] = 1
      /\ c \in Seq(Nat) /\ Len(c) = 2 /\ c[1] = 1 /\ c[2] = 2
  BY <1>1, <1>2
<1>4. /\ Append(a, 1) \in Seq(Nat) /\ Len(Append(a, 1)) = Len(a) + 1 /\ Append(a, 1)[Len(a) + 1] = 1
  BY <1>3, AppendProperties
<1>5. Append(a, 1) = b BY <1>3, <1>4, SeqEqual
<1>6. /\ Append(b, 2) \in Seq(Nat) /\ Len(Append(b, 2)) = Len(b) + 1 /\ Append(b, 2)[Len(b) + 1] = 2
      /\ \A i \in 1 .. Len(b) : Append(b, 2)[i] = b[i]
 <2>1. b \in Seq(Nat) /\ 2 \in Nat BY <1>3
 <2> QED BY <1>0, <2>1
<1>7. Append(b, 2) = c
 <2>1. Append(b, 2)[1] = 1 /\ Append(b, 2)[2] = 2 /\ Len(Append(b, 2)) = 2 BY <1>3, <1>6
 <2> QED BY <1>3, <1>6, <2>1, SeqEqual
<1>8. SubSeq(c, 1, 0) = a BY <1>2, <1>3, SubSeqProperties, EmptySeq
<1>9. SubSeq(c, 1, 1) = b
 <2>1. SubSeq(c, 1, 1) \in Seq(Nat) /\ Len(SubSeq(c, 1, 1)) = 1 /\ SubSeq(c, 1, 1)[1] = 1 BY <1>3, SubSeqProperties
 <2> QED BY <1>3, <2>1, SeqEqual
<1>10. SubSeq(c, 1, 2) = c
 <2>1. SubSeq(c, 1, 2) \in Seq(Nat) /\ Len(SubSeq(c, 1, 2)) = 2 /\ SubSeq(c, 1, 2)[1] = 1 /\ SubSeq(c, 1, 2)[2] = 2
   BY <1>3, SubSeqProperties
 <2> QED BY <1>3, <2>1, SeqEqual
<1> QED BY <1>2, <1>5, <1>7, <1>8, <1>9, <1>10 DEF UpTo

LEMMA PublishTells ==
  ASSUME Told, Publish
  PROVE  Told'
<1>1. phase # "destroyed" /\ remaining > 0 /\ ~telling BY DEF Publish, Told
<1>2. UNCHANGED <<phase, domain, terminal>> BY DEF Publish
<1>3. CASE domain <= published
 <2>1. remaining' = 0 /\ UNCHANGED <<published, telling, heard>> BY <1>3 DEF Publish
 <2> QED BY <1>1, <1>2, <1>3, <2>1 DEF Told
<1>4. CASE ~(domain <= published)
 <2>1. \/ published = 0 /\ domain = 1
       \/ published = 1 /\ domain = 2
   BY <1>1, <1>4 DEF Told
 <2>2. published' = domain /\ heard' = Append(heard, domain) /\ telling' = TRUE /\ remaining' = remaining
   BY <1>4, <2>1 DEF Publish
 <2>3. heard = UpTo(published) BY <1>1 DEF Told
 <2>4. heard' = UpTo(published') BY <2>1, <2>2, <2>3, Sequences
 <2> QED BY <1>1, <1>2, <2>1, <2>2, <2>4 DEF Told
<1> QED BY <1>3, <1>4

LEMMA CallTells ==
  ASSUME Told, Phases,
         \/ InitializeSucceeds \/ InitializeFails \/ MakeCurrentFails
         \/ phase = "ready" /\ Callable /\ phase' = "stopped" /\ domain' = 2 /\ Publishes
  PROVE  Told'
<1>1. phase # "destroyed" /\ phase' # "destroyed" BY DEF InitializeSucceeds, InitializeFails, MakeCurrentFails
<1>2. Callable /\ Publishes /\ UNCHANGED <<published, telling, terminal, heard>>
  BY DEF InitializeSucceeds, InitializeFails, MakeCurrentFails, Publishes
<1>3. \/ phase = "new" /\ phase' = "ready" /\ domain' = 1
      \/ phase \in {"new", "ready"} /\ phase' = phase /\ domain' = domain
      \/ phase = "ready" /\ phase' = "stopped" /\ domain' = 2
  BY DEF InitializeSucceeds, InitializeFails, MakeCurrentFails
<1>4. \/ remaining = 0 /\ remaining' = 2
      \/ remaining > 0 /\ telling /\ remaining' = remaining
  BY <1>2 DEF Callable, Publishes, Told
<1>5. heard' = UpTo(published') BY <1>1, <1>2 DEF Told
<1>6. CASE remaining = 0 /\ remaining' = 2 BY <1>1, <1>2, <1>3, <1>5, <1>6 DEF Told
<1>7. CASE remaining > 0 /\ telling /\ remaining' = remaining
 <2>1. published > 0 /\ phase = "ready" BY <1>1, <1>3, <1>7 DEF Told
 <2>2. published = 1 /\ domain = 1 /\ remaining = 2 BY <1>1, <1>7, <2>1 DEF Told
 <2> QED BY <1>1, <1>2, <1>3, <1>5, <1>7, <2>1, <2>2 DEF Told
<1> QED BY <1>4, <1>6, <1>7

LEMMA ToldStays ==
  ASSUME Told, UNCHANGED <<phase, domain, tellingVars>>
  PROVE  Told'
  BY DEF Told, tellingVars

LEMMA ReturnTells ==
  ASSUME Told, ListenersReturn
  PROVE  Told'
<1>1. telling /\ telling' = FALSE /\ remaining' = remaining - 1 /\ UNCHANGED <<phase, domain, published, terminal, heard>>
  BY DEF ListenersReturn
<1>2. phase # "destroyed" /\ remaining \in 1 .. 2 /\ published # 0 BY <1>1 DEF Told
<1>3. remaining = 1 => published = domain BY <1>1, <1>2 DEF Told
<1>4. remaining' \in 0 .. 1 /\ (remaining' = 0 => published' = domain') BY <1>1, <1>2, <1>3
<1>5. published' # 0 /\ ~telling' /\ heard' = UpTo(published') /\ phase' # "destroyed" /\ terminal' = 0
  BY <1>1, <1>2 DEF Told
<1>6. /\ phase' \in {"new", "ready", "stopped", "destroyed"} /\ domain' \in 0 .. 2 /\ published' \in 0 .. domain'
      /\ (phase' = "new" => domain' = 0) /\ (phase' = "ready" => domain' = 1) /\ (phase' = "stopped" => domain' = 2)
  BY <1>1 DEF Told
<1>7. telling' \in BOOLEAN /\ remaining' \in 0 .. 2 /\ terminal' \in {0, 2}
 <2>1. telling' \in BOOLEAN BY <1>1, Zenon
 <2> QED BY <1>4, <1>5, <2>1
<1>8. /\ telling' => remaining' > 0
      /\ published' = 0 => domain' < 2 /\ ~telling' /\ remaining' # 1
      /\ (telling' /\ remaining' = 1) => published' = 2
  BY <1>5
<1> QED BY <1>4, <1>5, <1>6, <1>7, <1>8 DEF Told

LEMMA DestroyTells ==
  ASSUME Told, Destroy
  PROVE  Told'
<1>1. phase # "destroyed" /\ remaining = 0 /\ phase' = "destroyed" /\ UNCHANGED <<telling, remaining, heard>>
  BY DEF Destroy
<1>2. published = domain /\ terminal = 0 /\ heard = UpTo(published) /\ ~telling BY <1>1 DEF Told
<1>3. phase = "ready" => domain' = 2 BY DEF Destroy, Shutdown, Abandon
<1>4. phase # "ready" => domain' = domain BY DEF Destroy
<1>5. domain' > published => published' = domain' /\ terminal' \in {0, domain'} BY DEF Destroy
<1>6. ~(domain' > published) => UNCHANGED <<published, terminal>> BY DEF Destroy
<1>7. heard' \in {UpTo(0), UpTo(1), UpTo(2)} BY <1>1, <1>2 DEF Told
<1>8. CASE phase = "ready"
 <2>1. domain = 1 /\ published' = 2 /\ terminal' \in {0, 2} /\ heard' = UpTo(1) BY <1>1, <1>2, <1>3, <1>5, <1>8 DEF Told
 <2> QED BY <1>1, <1>2, <1>3, <1>7, <1>8, <2>1 DEF Told
<1>9. CASE phase # "ready"
 <2>1. domain' = domain /\ published' = published /\ terminal' = 0 BY <1>2, <1>4, <1>6, <1>9 DEF Told
 <2> QED BY <1>1, <1>2, <1>7, <2>1 DEF Told
<1> QED BY <1>8, <1>9

LEMMA TerminalTells ==
  ASSUME Told, TerminalTold
  PROVE  Told'
<1>1. terminal > 0 /\ terminal' = 0 /\ heard' = Append(heard, terminal) /\ UNCHANGED <<phase, domain, published, telling, remaining>>
  BY DEF TerminalTold
<1>2. terminal = 2 /\ phase = "destroyed" /\ heard = UpTo(1) BY <1>1 DEF Told
<1>3. heard' = UpTo(2) BY <1>1, <1>2, Sequences
<1>4. phase' = "destroyed" /\ terminal' = 0 /\ remaining' = 0 /\ telling' \in BOOLEAN /\ remaining' \in 0 .. 2
  BY <1>1, <1>2 DEF Told
<1>5. domain' \in 0 .. 2 /\ published' \in 0 .. domain' /\ ~telling' BY <1>1, <1>2 DEF Told
<1>6. heard' \in {UpTo(0), UpTo(1), UpTo(2)} BY <1>3
<1> QED BY <1>4, <1>5, <1>6 DEF Told

LEMMA CreationFailsKeeps ==
  ASSUME Books, NEW names \in SUBSET Names, CreationFails(names)
  PROVE  Books'
<1>1. /\ names \cap native = {} /\ native' = native \cup names /\ orphans' = orphans \cup names
      /\ UNCHANGED <<lifetimeActive, entries, pending, free, stats, handles>>
  BY DEF CreationFails, lifetimeVars
<1>2. SlotsOwnNames /\ HandlesOwnSlots /\ ListsHoldSlots /\ StatsCount BY DEF Books
<1>3. Named' = Named BY <1>1 DEF Named
<1>4. /\ native = {entries[s].id : s \in Named} \cup orphans
      /\ \A s \in Named : entries[s].id \notin orphans
  BY <1>2 DEF SlotsOwnNames
<1>5. \A s \in Named : entries[s].id \notin orphans' BY <1>1, <1>4
<1>6. SlotsOwnNames'
 <2>1. native' = {entries[s].id : s \in Named} \cup orphans' BY <1>1, <1>4
 <2> QED BY <1>1, <1>2, <1>3, <1>5, <2>1 DEF SlotsOwnNames
<1>7. HandlesOwnSlots' /\ ListsHoldSlots' /\ StatsCount'
  BY <1>1, <1>2, <1>3 DEF HandlesOwnSlots, ListsHoldSlots, StatsCount
<1> QED BY <1>6, <1>7 DEF Books

LEMMA NativeStarts == NativeInit => NativeInv
<1> SUFFICES ASSUME NativeInit PROVE NativeInv OBVIOUS
<1>1. /\ entries = <<>> /\ pending = <<>> /\ free = <<>> /\ handles = <<>> /\ native = {} /\ orphans = {}
      /\ phase = "new" /\ lifetimeActive = FALSE
  BY DEF NativeInit
<1>2. DOMAIN entries = {} /\ DOMAIN handles = {} /\ entries \in Seq(Slots) BY <1>1, NoEntries
<1>3. Named = {} BY <1>2 DEF Named
<1>4. SlotsOwnNames BY <1>1, <1>2, <1>3 DEF SlotsOwnNames
<1>5. HandlesOwnSlots BY <1>1, <1>2 DEF HandlesOwnSlots
<1>6. ListsHoldSlots BY <1>1, <1>2, <1>3, NoSlots DEF ListsHoldSlots
<1>7. StatsCount
 <2>1. stats = [tracked |-> 0, live |-> 0, pending |-> 0, deleted |-> 0, abandoned |-> 0] BY DEF NativeInit
 <2>2. stats \in Counts /\ stats.live = 0 /\ stats.pending = 0 /\ stats.tracked = stats.live + stats.deleted + stats.abandoned
   BY <2>1 DEF Counts
 <2> QED BY <1>1, <1>3, <2>2, NoEntries, NoSlots DEF StatsCount
<1>8. Phases BY <1>1 DEF Phases
<1>9. Told
 <2>1. domain = 0 /\ published = 0 /\ telling = FALSE /\ remaining = 0 /\ terminal = 0 /\ heard = <<>> BY DEF NativeInit
 <2>2. heard = UpTo(published) BY <2>1, Sequences
 <2>3. ~telling /\ telling \in BOOLEAN BY <2>1, Zenon
 <2>4. remaining \in 0 .. 2 /\ domain \in 0 .. 2 /\ published \in 0 .. domain BY <2>1
 <2> QED BY <1>1, <2>1, <2>2, <2>3, <2>4 DEF Told
<1> QED BY <1>4, <1>5, <1>6, <1>7, <1>8, <1>9 DEF NativeInv

LEMMA NativeSteps == NativeInv /\ [NativeNext]_nativeVars => NativeInv'
<1> SUFFICES ASSUME NativeInv, [NativeNext]_nativeVars PROVE NativeInv' OBVIOUS
<1>1. Books /\ Phases /\ Told BY DEF NativeInv, Books
<1>2. lifetimeActive \in BOOLEAN /\ (lifetimeActive <=> phase = "ready") /\ (~lifetimeActive => entries = <<>>)
      /\ (phase = "new" => handles = <<>>)
  BY <1>1 DEF Phases
<1>3. Books' /\ Phases' /\ Told' => NativeInv' BY DEF NativeInv, Books
<1>4. CASE UNCHANGED nativeVars
 <2>1. UNCHANGED <<phase, domain, handles, lifetimeVars, native, orphans, tellingVars>>
   BY <1>4 DEF nativeVars, lifetimeVars, tellingVars
 <2>2. Phases' BY <1>1, <2>1 DEF Phases, lifetimeVars
 <2> QED BY <1>1, <1>3, <2>1, <2>2, BooksStay, ToldStays
<1>5. CASE Publish
 <2>1. UNCHANGED <<phase, handles, lifetimeVars, native, orphans>> BY <1>5 DEF Publish
 <2>2. Phases' BY <1>1, <2>1 DEF Phases, lifetimeVars
 <2> QED BY <1>1, <1>3, <1>5, <2>1, <2>2, BooksStay, PublishTells
<1>6. CASE ListenersReturn
 <2>1. UNCHANGED <<phase, handles, lifetimeVars, native, orphans>> BY <1>6 DEF ListenersReturn
 <2>2. Phases' BY <1>1, <2>1 DEF Phases, lifetimeVars
 <2> QED BY <1>1, <1>3, <1>6, <2>1, <2>2, BooksStay, ReturnTells
<1>7. CASE InitializeSucceeds
 <2>1. /\ phase = "new" /\ phase' = "ready" /\ lifetimeActive' = TRUE
       /\ UNCHANGED <<entries, pending, free, stats, native, orphans, handles>>
   BY <1>7 DEF InitializeSucceeds
 <2>2. entries = <<>> /\ handles = <<>> BY <1>2, <2>1
 <2>3. Books' BY <1>1, <2>1, <2>2, ActiveWithNone
 <2>4. Phases' BY <2>1 DEF Phases
 <2> QED BY <1>1, <1>3, <1>7, <2>3, <2>4, CallTells
<1>8. CASE InitializeFails \/ MakeCurrentFails
 <2>1. UNCHANGED <<phase, handles, lifetimeVars, native, orphans>> BY <1>8 DEF InitializeFails, MakeCurrentFails
 <2>2. Phases' BY <1>1, <2>1 DEF Phases, lifetimeVars
 <2>3. Told' BY <1>1, <1>8, CallTells
 <2> QED BY <1>1, <1>3, <2>1, <2>2, <2>3, BooksStay
<1>9. CASE Deinitialize
 <2>1. phase = "ready" /\ Callable /\ phase' = "stopped" /\ Shutdown /\ Publishes /\ handles' = handles
   BY <1>9 DEF Deinitialize
 <2>2. Books' /\ lifetimeActive' = FALSE /\ entries' = <<>> /\ domain' = 2 BY <1>1, <2>1, ShutdownKeeps
 <2>3. Phases' BY <2>1, <2>2 DEF Phases
 <2> QED BY <1>1, <1>3, <2>1, <2>2, <2>3, CallTells
<1>10. CASE Destroy
 <2>1. phase' = "destroyed" /\ handles' = handles BY <1>10 DEF Destroy
 <2>2. Told' BY <1>1, <1>10, DestroyTells
 <2>3. CASE phase = "ready"
  <3>1. Shutdown \/ Abandon BY <1>10, <2>3 DEF Destroy
  <3>2. Books' /\ lifetimeActive' = FALSE /\ entries' = <<>> BY <1>1, <2>1, <3>1, ShutdownKeeps
  <3>3. Phases' BY <2>1, <3>2 DEF Phases
  <3> QED BY <1>3, <2>2, <3>2, <3>3
 <2>4. CASE phase # "ready"
  <3>1. UNCHANGED <<lifetimeVars, native, orphans, handles>> BY <1>10, <2>4 DEF Destroy
  <3>2. lifetimeActive' = FALSE /\ entries' = <<>> BY <1>2, <2>4, <3>1 DEF lifetimeVars
  <3>3. Phases' BY <2>1, <3>2 DEF Phases
  <3> QED BY <1>1, <1>3, <2>2, <3>1, <3>3, BooksStay
 <2> QED BY <2>3, <2>4
<1>11. CASE TerminalTold
 <2>1. UNCHANGED <<phase, handles, lifetimeVars, native, orphans>> BY <1>11 DEF TerminalTold
 <2>2. Phases' BY <1>1, <2>1 DEF Phases, lifetimeVars
 <2> QED BY <1>1, <1>3, <1>11, <2>1, <2>2, BooksStay, TerminalTells
<1>12. CASE ContextChanges
 <2>1. UNCHANGED <<phase, domain, handles, lifetimeVars, native, orphans, tellingVars>> BY <1>12 DEF ContextChanges
 <2>2. Phases' BY <1>1, <2>1 DEF Phases, lifetimeVars
 <2> QED BY <1>1, <1>3, <2>1, <2>2, BooksStay, ToldStays
<1>13. ASSUME NEW h \in Handles, NEW name \in Names, Create(h, name) \/ \E option \in SamplerOptions : CreateSampler(option, h, name)
       PROVE  NativeInv'
 <2>1. /\ phase = "ready" /\ h \notin DOMAIN handles /\ name \notin native /\ Track(h, name)
       /\ UNCHANGED <<phase, orphans, domain, tellingVars>>
   BY <1>13 DEF Create, CreateSampler, Usable
 <2>2. Books' BY <1>1, <1>2, <2>1, TrackKeeps
 <2>3. lifetimeActive' = lifetimeActive BY <2>1 DEF Track
 <2>4. Phases' BY <1>2, <2>1, <2>3 DEF Phases
 <2> QED BY <1>1, <1>3, <2>1, <2>2, <2>4, ToldStays
<1>14. ASSUME NEW names \in SUBSET Names, CreationFails(names) PROVE NativeInv'
 <2>1. UNCHANGED <<phase, domain, handles, lifetimeVars, tellingVars>> BY <1>14 DEF CreationFails
 <2>2. Phases' BY <1>1, <2>1 DEF Phases, lifetimeVars
 <2> QED BY <1>1, <1>3, <1>14, <2>1, <2>2, CreationFailsKeeps, ToldStays
<1>15. ASSUME NEW h \in Handles, Retire(handles[h].slot), HandlesLose(handles[h].slot), h \in DOMAIN handles,
              UNCHANGED <<phase, native, orphans, domain, tellingVars>>
       PROVE  NativeInv'
 <2>1. Books' /\ lifetimeActive' = lifetimeActive /\ (~lifetimeActive => entries' = entries)
   BY <1>1, <1>2, <1>15, RetireKeeps
 <2>2. phase # "new" BY <1>2, <1>15, NoEntries
 <2>3. Phases' BY <1>2, <1>15, <2>1, <2>2 DEF Phases
 <2> QED BY <1>1, <1>3, <1>15, <2>1, <2>3, ToldStays
<1>16. ASSUME NEW h \in Handles, Drop(h) PROVE NativeInv'
 <2>1. /\ h \in DOMAIN handles /\ Retire(handles[h].slot) /\ handles' = [g \in DOMAIN handles \ {h} |-> handles[g]]
       /\ UNCHANGED <<phase, native, orphans, domain, tellingVars>>
   BY <1>16 DEF Drop
 <2>2. HandlesLose(handles[h].slot) BY <1>1, <2>1, DropLoses DEF Books
 <2> QED BY <1>15, <2>1, <2>2
<1>17. ASSUME NEW h \in Handles, NEW from \in Handles, MoveAssign(h, from) PROVE NativeInv'
 <2>1. /\ h \in DOMAIN handles /\ from \in DOMAIN handles /\ h # from /\ Retire(handles[h].slot)
       /\ handles' = [g \in DOMAIN handles \ {from} |-> IF g = h THEN handles[from] ELSE handles[g]]
       /\ UNCHANGED <<phase, native, orphans, domain, tellingVars>>
   BY <1>17 DEF MoveAssign
 <2>2. HandlesLose(handles[h].slot) BY <1>1, <2>1, MoveLoses DEF Books
 <2> QED BY <1>15, <2>1, <2>2
<1>18. CASE Maintain
 <2>1. phase = "ready" /\ UNCHANGED <<phase, lifetimeActive, handles, domain, tellingVars>>
   BY <1>18 DEF Maintain, Usable
 <2>2. Books' BY <1>1, <1>2, <1>18, MaintainKeeps
 <2>3. Phases' BY <1>2, <2>1 DEF Phases
 <2> QED BY <1>1, <1>3, <2>1, <2>2, <2>3, ToldStays
<1> QED BY <1>4, <1>5, <1>6, <1>7, <1>8, <1>9, <1>10, <1>11, <1>12, <1>13, <1>14, <1>16, <1>17, <1>18 DEF NativeNext

LEMMA NativeMeans == NativeInv => NativeIsAccountedFor
<1> SUFFICES ASSUME NativeInv PROVE NativeIsAccountedFor OBVIOUS
<1>1. SlotsOwnNames /\ HandlesOwnSlots /\ ListsHoldSlots /\ StatsCount /\ Phases /\ Told BY DEF NativeInv
<1>2. NamesAccountedFor
  BY <1>1 DEF NamesAccountedFor, Named, SlotsOwnNames, HandlesOwnSlots, ListsHoldSlots, StatsCount, Phases
<1>3. \A i, j \in DOMAIN heard : i < j => heard[i] < heard[j]
 <2>1. heard \in {<<>>, <<1>>, <<1, 2>>}
  <3>1. published \in 0 .. 2 BY <1>1 DEF Told
  <3>2. published \in {0, 1, 2} BY <3>1
  <3>3. heard \in {UpTo(0), UpTo(1), UpTo(2)} BY <1>1, <3>2 DEF Told
  <3> QED BY <3>3, Sequences
 <2> QED BY <2>1
<1>4. remaining = 0 /\ phase # "destroyed" => heard = SubSeq(<<1, 2>>, 1, domain) BY <1>1 DEF Told, UpTo
<1> QED BY <1>2, <1>3, <1>4 DEF NativeIsAccountedFor, DomainToldInOrder

\* Whatever is made, moved, dropped on any thread, collected, shut down or
\* abandoned, every name the driver holds is on the renderer's books or left
\* to the end of the context, live handles name their own objects, and
\* listeners hear of the domain's beginning and end once and in this order.
THEOREM NativeAccounted == NativeSpec => []NativeIsAccountedFor
<1>1. NativeSpec => []NativeInv BY NativeStarts, NativeSteps, PTL DEF NativeSpec
<1> QED BY <1>1, NativeMeans, PTL

\* ---- Gamepads. ----
Pads == [source : Nat, revision : Nat, epoch : Nat, known : BOOLEAN, available : BOOLEAN, closed : BOOLEAN]
PadChanges == [current : Pads, previous : Pads]
PadHistories == [changes : Seq(PadChanges), quiet : SUBSET Nat]
PadChange(after, before) == [current |-> after, previous |-> before]

\* A change moves its source forward.
MovesForward(after, before) ==
  /\ after.source = before.source /\ ~before.closed /\ after.revision > before.revision
  /\ after.available /\ ~after.closed => after.epoch > before.epoch

\* What was published is what the slot was, and the slot itself when it
\* has the same revision.
PadBehind(before, after) ==
  /\ before.source = after.source /\ before.revision <= after.revision /\ before.epoch <= after.epoch
  /\ before.revision = after.revision \/ before.closed => before = after
  /\ ~after.closed => after.revision < MaxGamepadRevision
  /\ after.revision > before.revision => MovesForward(after, before)

\* Each change told begins at the one before of its source, ...
PadsFollow(c) ==
  \A i \in DOMAIN c :
    /\ MovesForward(c[i].current, c[i].previous)
    /\ \A j \in 1 .. i - 1 : c[j].current.source = c[i].current.source => c[i].previous = c[i - 1].current

\* ... and what was published was the last of them, or of a new source, or
\* a closure that was told or on purpose not.
PadsTold(p, t) ==
  /\ PadsFollow(t.changes)
  /\ \A i \in DOMAIN t.changes : t.changes[i].current.source <= p.source
  /\ ~p.closed => \A i \in DOMAIN t.changes : t.changes[i].current.source = p.source => t.changes[Len(t.changes)].current = p
  /\ p.closed /\ p.source > 0 /\ p.source \notin t.quiet => \E i \in DOMAIN t.changes : t.changes[i].current = p

GamepadKept ==
  /\ gamepad \in Pads /\ gamepadPublished \in Pads /\ gamepadTold \in PadHistories
  /\ fanout \in {"none", "first", "terminal"}
  /\ PadBehind(gamepadPublished, gamepad)
  /\ fanout = "terminal" => gamepad.closed
  /\ gamepad.closed /\ fanout # "first" => gamepadPublished = gamepad
  /\ PadsTold(gamepadPublished, gamepadTold)

LEMMA PadTold ==
  ASSUME NEW p \in Pads, NEW after \in Pads, NEW t \in PadHistories, PadsTold(p, t), MovesForward(after, p)
  PROVE  /\ [t EXCEPT !.changes = Append(@, PadChange(after, p))] \in PadHistories
         /\ PadsTold(after, [t EXCEPT !.changes = Append(@, PadChange(after, p))])
<1> DEFINE c == t.changes
           e == PadChange(after, p)
           d == Append(c, e)
           u == [t EXCEPT !.changes = d]
<1>1. c \in Seq(PadChanges) /\ t.quiet \in SUBSET Nat BY DEF PadHistories
<1>2. e \in PadChanges /\ e.current = after /\ e.previous = p BY DEF PadChange, PadChanges
<1>3. d \in Seq(PadChanges) /\ Len(d) = Len(c) + 1 BY <1>1, <1>2
<1>4. DOMAIN c = 1 .. Len(c) /\ DOMAIN d = 1 .. Len(c) + 1 /\ Len(c) \in Nat BY <1>1, <1>3
<1>5. d[Len(c) + 1] = e /\ \A i \in 1 .. Len(c) : d[i] = c[i] BY <1>1, <1>2
<1>6. u.changes = d /\ u.quiet = t.quiet /\ u \in PadHistories BY <1>3, <1>1 DEF PadHistories
<1>7. \A i \in 1 .. Len(c) : c[i] \in PadChanges /\ c[i].current \in Pads /\ c[i].current.source \in Nat
 <2>1. ASSUME NEW i \in 1 .. Len(c) PROVE c[i] \in PadChanges BY <1>1, <1>4
 <2>2. \A o \in PadChanges : o.current \in Pads /\ o.current.source \in Nat BY DEF PadChanges, Pads
 <2> QED BY <2>1, <2>2
<1> HIDE DEF c, e, d, u
<1>8. PadsFollow(c) /\ \A i \in 1 .. Len(c) : c[i].current.source <= p.source BY <1>4 DEF PadsTold, c
<1>9. \A i \in 1 .. Len(c) : c[i].current.source = p.source => c[Len(c)].current = p
  BY <1>4 DEF PadsTold, c, MovesForward
<1>10. PadsFollow(d)
 <2>1. SUFFICES ASSUME NEW i \in 1 .. Len(c) + 1
       PROVE /\ MovesForward(d[i].current, d[i].previous)
             /\ \A j \in 1 .. i - 1 : d[j].current.source = d[i].current.source => d[i].previous = d[i - 1].current
   BY <1>4 DEF PadsFollow
 <2>2. CASE i \in 1 .. Len(c)
  <3>1. d[i] = c[i] /\ \A j \in 1 .. i - 1 : d[j] = c[j] /\ d[i - 1] = c[i - 1] BY <2>2, <1>5, <1>4
  <3> QED BY <3>1, <2>2, <1>8, <1>4 DEF PadsFollow
 <2>3. CASE i = Len(c) + 1
  <3>1. d[i].current = after /\ d[i].previous = p BY <2>3, <1>5, <1>2
  <3>2. ASSUME NEW j \in 1 .. Len(c), d[j].current.source = after.source PROVE p = d[Len(c)].current
   <4>1. c[j].current.source = p.source /\ d[Len(c)] = c[Len(c)] BY <3>2, <1>5, <1>4 DEF MovesForward
   <4> QED BY <4>1, <1>9, <3>2
  <3> QED BY <3>1, <3>2, <2>3, <1>4
 <2> QED BY <2>2, <2>3, <1>4, <2>1
<1>11. \A i \in 1 .. Len(c) + 1 : d[i].current.source <= after.source
  BY <1>5, <1>8, <1>2, <1>4, <1>7 DEF MovesForward, Pads
<1>12. Len(d) = Len(c) + 1 /\ d[Len(d)].current = after BY <1>3, <1>5, <1>2
<1>13. PadsTold(after, u) BY <1>6, <1>10, <1>11, <1>12, <1>4 DEF PadsTold
<1> QED BY <1>6, <1>13 DEF u, d, e, c

LEMMA PadUntold ==
  ASSUME NEW p \in Pads, NEW after \in Pads, NEW t \in PadHistories, PadsTold(p, t), after.source = p.source, after.closed
  PROVE  /\ [t EXCEPT !.quiet = @ \cup {after.source}] \in PadHistories
         /\ PadsTold(after, [t EXCEPT !.quiet = @ \cup {after.source}])
BY DEF PadsTold, PadHistories, Pads

LEMMA PadOpened ==
  ASSUME NEW p \in Pads, NEW after \in Pads, NEW t \in PadHistories, PadsTold(p, t), after.source = p.source + 1, ~after.closed
  PROVE  PadsTold(after, t)
<1>1. \A i \in DOMAIN t.changes : t.changes[i].current.source \in Nat
 <2>1. ASSUME NEW i \in DOMAIN t.changes PROVE t.changes[i] \in PadChanges
  <3>1. t.changes \in Seq(PadChanges) BY DEF PadHistories
  <3> QED BY <3>1
 <2>2. \A o \in PadChanges : o.current.source \in Nat BY DEF PadChanges, Pads
 <2> QED BY <2>1, <2>2
<1> QED BY <1>1 DEF PadsTold, Pads

LEMMA PadBegins == GamepadInit => GamepadKept
BY GamepadAssumption DEF GamepadInit, GamepadKept, Unopened, Pads, PadHistories, PadBehind, PadsTold, PadsFollow

LEMMA PadClosed ==
  ASSUME NEW p \in Pads, NEW r \in Nat
  PROVE  [p EXCEPT !.closed = TRUE, !.revision = r] \in Pads
BY DEF Pads

LEMMA PadSet ==
  ASSUME NEW p \in Pads, NEW r \in Nat, NEW e \in Nat, NEW a \in BOOLEAN
  PROVE  [p EXCEPT !.revision = r, !.epoch = e, !.known = TRUE, !.available = a] \in Pads
BY DEF Pads

\* Whatever a poll or a closing finds, the slot moves on or stays.
SlotMoves(after) ==
  /\ after \in Pads
  /\ \/ after = gamepad
     \/ /\ MovesForward(after, gamepad) /\ after.epoch >= gamepad.epoch
        /\ ~after.closed => after.revision < MaxGamepadRevision
        /\ after.available /\ ~after.closed => after.epoch = gamepad.epoch + 1

LEMMA ClosingMoves ==
  ASSUME GamepadKept, ~gamepad.closed,
         NEW after, after = [gamepad EXCEPT !.closed = TRUE, !.revision = IF @ = MaxGamepadRevision THEN @ ELSE @ + 1]
  PROVE  SlotMoves(after) /\ after.closed
<1>1. gamepad \in Pads /\ gamepad.revision < MaxGamepadRevision BY DEF GamepadKept, PadBehind
<1>2. gamepad.revision \in Nat /\ gamepad.revision # MaxGamepadRevision BY <1>1, GamepadAssumption DEF Pads
<1>3. after \in Pads
 <2>1. gamepad.revision + 1 \in Nat /\ gamepad \in Pads BY <1>1, <1>2
 <2>2. after = [gamepad EXCEPT !.closed = TRUE, !.revision = gamepad.revision + 1] BY <1>1, <1>2 DEF Pads
 <2> QED BY <2>1, <2>2, PadClosed
<1>4. after.source = gamepad.source /\ after.revision = gamepad.revision + 1 /\ after.epoch = gamepad.epoch /\ after.closed
  BY <1>1, <1>2 DEF Pads
<1>5. MovesForward(after, gamepad) /\ after.epoch >= gamepad.epoch BY <1>1, <1>4 DEF MovesForward, Pads
<1> QED BY <1>3, <1>4, <1>5 DEF SlotMoves

LEMMA PollMoves ==
  ASSUME GamepadKept, NEW available \in BOOLEAN
  PROVE  SlotMoves(CommittedPad(available))
<1>1. gamepad \in Pads /\ (~gamepad.closed => gamepad.revision < MaxGamepadRevision) BY DEF GamepadKept, PadBehind
<1>2. CASE gamepad.closed \/ (gamepad.known /\ gamepad.available = available) BY <1>1, <1>2 DEF CommittedPad, SlotMoves
<1>3. CASE ~(gamepad.closed \/ (gamepad.known /\ gamepad.available = available)) /\ gamepad.revision >= MaxGamepadRevision - 1
 <2>1. CommittedPad(available) = [gamepad EXCEPT !.closed = TRUE, !.revision = IF @ = MaxGamepadRevision THEN @ ELSE @ + 1]
   BY <1>3 DEF CommittedPad
 <2> QED BY <2>1, <1>3, ClosingMoves
<1>4. CASE ~(gamepad.closed \/ (gamepad.known /\ gamepad.available = available)) /\ ~(gamepad.revision >= MaxGamepadRevision - 1)
 <2>1. CommittedPad(available) = [gamepad EXCEPT !.revision = @ + 1, !.epoch = IF available THEN @ + 1 ELSE @, !.known = TRUE, !.available = available]
   BY <1>4 DEF CommittedPad
 <2>2. gamepad.source \in Nat /\ gamepad.revision \in Nat /\ gamepad.epoch \in Nat /\ ~gamepad.closed
   BY <1>1, <1>4 DEF Pads
 <2> DEFINE after == CommittedPad(available)
 <2>3. after.source = gamepad.source /\ after.revision = gamepad.revision + 1 /\ after.available = available /\ after.closed = gamepad.closed
       /\ after.epoch = (IF available THEN gamepad.epoch + 1 ELSE gamepad.epoch)
   BY <2>1, <1>1 DEF Pads
 <2>4. after \in Pads
  <3>1. gamepad \in Pads /\ gamepad.revision + 1 \in Nat /\ (IF available THEN gamepad.epoch + 1 ELSE gamepad.epoch) \in Nat
    BY <1>1, <2>2
  <3>2. after = [gamepad EXCEPT !.revision = gamepad.revision + 1, !.epoch = IF available THEN gamepad.epoch + 1 ELSE gamepad.epoch,
                              !.known = TRUE, !.available = available]
    BY <2>1, <1>1 DEF Pads
  <3>3. \A r, e \in Nat, a \in BOOLEAN : [gamepad EXCEPT !.revision = r, !.epoch = e, !.known = TRUE, !.available = a] \in Pads
    BY <3>1, PadSet
  <3>4. PICK e \in Nat : e = IF available THEN gamepad.epoch + 1 ELSE gamepad.epoch BY <3>1
  <3>5. PICK r \in Nat : r = gamepad.revision + 1 BY <3>1
  <3>6. after = [gamepad EXCEPT !.revision = r, !.epoch = e, !.known = TRUE, !.available = available]
    BY <3>2, <3>4, <3>5
  <3> HIDE DEF after
  <3>7. [gamepad EXCEPT !.revision = r, !.epoch = e, !.known = TRUE, !.available = available] \in Pads BY <3>3, Zenon
  <3> QED BY <3>6, <3>7
 <2>5. after.revision < MaxGamepadRevision /\ after.epoch >= gamepad.epoch /\ (after.available => after.epoch = gamepad.epoch + 1)
   BY <2>2, <2>3, <1>4, GamepadAssumption
 <2> HIDE DEF after
 <2>6. MovesForward(after, gamepad) BY <2>2, <2>3, <2>5 DEF MovesForward
 <2> QED BY <2>4, <2>5, <2>6 DEF SlotMoves, after
<1> QED BY <1>2, <1>3, <1>4

LEMMA StaysBehind ==
  ASSUME GamepadKept, NEW after, SlotMoves(after)
  PROVE  PadBehind(gamepadPublished, after)
BY DEF GamepadKept, SlotMoves, PadBehind, MovesForward, Pads

LEMMA PublishKeeps ==
  ASSUME GamepadKept, fanout = "none", SlotMoves(gamepad'), PublishChange(gamepad', "first")
  PROVE  GamepadKept'
<1>1. PadBehind(gamepadPublished, gamepad') /\ gamepad' \in Pads BY StaysBehind DEF SlotMoves
<1>2. CASE gamepad'.source = gamepadPublished.source /\ gamepad'.revision = gamepadPublished.revision
 <2>1. gamepadPublished' = gamepad' /\ gamepadPublished' = gamepadPublished /\ gamepadTold' = gamepadTold /\ fanout' = "none"
   BY <1>1, <1>2 DEF PublishChange, PadBehind
 <2> QED BY <2>1, <1>1 DEF GamepadKept
<1>3. CASE ~(gamepad'.source = gamepadPublished.source /\ gamepad'.revision = gamepadPublished.revision)
 <2>1. /\ gamepadPublished' = gamepad' /\ fanout' = "first"
       /\ gamepadTold' = [gamepadTold EXCEPT !.changes = Append(@, PadChange(gamepad', gamepadPublished))]
   BY <1>3 DEF PublishChange, PadChange
 <2>2. MovesForward(gamepad', gamepadPublished) BY <1>1, <1>3 DEF PadBehind, GamepadKept, Pads
 <2>3. gamepadTold' \in PadHistories /\ PadsTold(gamepad', gamepadTold') BY <2>1, <2>2, <1>1, PadTold DEF GamepadKept
 <2>4. PadBehind(gamepad', gamepad') BY <1>1 DEF PadBehind, Pads
 <2> QED BY <2>1, <2>3, <2>4, <1>1 DEF GamepadKept
<1> QED BY <1>2, <1>3

LEMMA PublishUnlessOutKeeps ==
  ASSUME GamepadKept, SlotMoves(gamepad'), PublishUnlessOut(gamepad')
  PROVE  GamepadKept'
<1>1. CASE fanout = "none" BY <1>1, PublishKeeps DEF PublishUnlessOut
<1>2. CASE fanout # "none"
 <2>1. gamepadPublished' = gamepadPublished /\ fanout' = fanout /\ gamepadTold' = gamepadTold
   BY <1>2 DEF PublishUnlessOut
 <2>2. PadBehind(gamepadPublished, gamepad') /\ gamepad' \in Pads BY StaysBehind DEF SlotMoves
 <2>3. fanout = "terminal" => gamepad' = gamepad BY <1>2 DEF GamepadKept, SlotMoves, MovesForward
 <2> QED BY <2>1, <2>2, <2>3, <1>2 DEF GamepadKept
<1> QED BY <1>1, <1>2

LEMMA GamepadStepKeeps ==
  ASSUME GamepadKept, GamepadNext
  PROVE  GamepadKept'
<1>1. CASE OpenAvailability
 <2>1. /\ gamepad' = [source |-> gamepad.source + 1, revision |-> 0, epoch |-> gamepad.epoch, known |-> FALSE, available |-> FALSE, closed |-> FALSE]
       /\ gamepadPublished' = gamepad' /\ fanout' = "none" /\ gamepadTold' = gamepadTold
       /\ gamepadPublished = gamepad
   BY <1>1 DEF OpenAvailability, Unopened, GamepadKept
 <2>2. gamepad' \in Pads /\ PadBehind(gamepad', gamepad') /\ ~gamepad'.closed /\ gamepad'.source = gamepadPublished.source + 1
   BY <2>1, GamepadAssumption DEF GamepadKept, Pads, PadBehind
 <2>3. PadsTold(gamepad', gamepadTold) BY <2>2, PadOpened DEF GamepadKept
 <2> QED BY <2>1, <2>2, <2>3 DEF GamepadKept
<1>2. CASE FanoutReturns
 <2>1. CASE fanout = "first" /\ gamepad.closed
  <3>1. gamepad' = gamepad /\ PublishChange(gamepad, "terminal") BY <1>2, <2>1 DEF FanoutReturns
  <3>2. CASE gamepad.source = gamepadPublished.source /\ gamepad.revision = gamepadPublished.revision
    BY <3>1, <3>2 DEF PublishChange, GamepadKept, PadBehind
  <3>3. CASE ~(gamepad.source = gamepadPublished.source /\ gamepad.revision = gamepadPublished.revision)
   <4>1. /\ gamepadPublished' = gamepad /\ fanout' = "terminal"
         /\ gamepadTold' = [gamepadTold EXCEPT !.changes = Append(@, PadChange(gamepad, gamepadPublished))]
     BY <3>1, <3>3 DEF PublishChange, PadChange
   <4>2. MovesForward(gamepad, gamepadPublished) /\ PadBehind(gamepad, gamepad) BY <3>3 DEF GamepadKept, PadBehind, Pads
   <4>3. gamepadTold' \in PadHistories /\ PadsTold(gamepad, gamepadTold') BY <4>1, <4>2, PadTold DEF GamepadKept
   <4> QED BY <3>1, <4>1, <4>2, <4>3, <2>1 DEF GamepadKept
  <3> QED BY <3>2, <3>3
 <2>2. CASE ~(fanout = "first" /\ gamepad.closed)
  <3>1. gamepad' = gamepad /\ fanout' = "none" /\ gamepadPublished' = gamepadPublished /\ gamepadTold' = gamepadTold
    BY <1>2, <2>2 DEF FanoutReturns
  <3> QED BY <3>1, <2>2 DEF GamepadKept
 <2> QED BY <2>1, <2>2
<1>3. ASSUME NEW available \in BOOLEAN, PollPad(available) PROVE GamepadKept'
  BY <1>3, PollMoves, PublishUnlessOutKeeps DEF PollPad
<1>4. ASSUME NEW notify \in BOOLEAN, CloseAvailability(notify) PROVE GamepadKept'
 <2>1. SlotMoves(gamepad') /\ gamepad'.closed BY <1>4, ClosingMoves DEF CloseAvailability
 <2>2. CASE notify BY <1>4, <2>1, <2>2, PublishUnlessOutKeeps DEF CloseAvailability
 <2>3. CASE ~notify
  <3>1. gamepad'.source = gamepad.source /\ gamepad' \in Pads /\ PadBehind(gamepad', gamepad')
    BY <2>1 DEF SlotMoves, MovesForward, PadBehind, Pads
  <3>2. /\ gamepadPublished' = gamepad' /\ fanout' = fanout
        /\ gamepadTold' = [gamepadTold EXCEPT !.quiet = @ \cup {gamepad'.source}]
    BY <1>4, <2>3, <3>1 DEF CloseAvailability
  <3>3. gamepad'.source = gamepadPublished.source BY <3>1 DEF GamepadKept, PadBehind
  <3>4. gamepadTold' \in PadHistories /\ PadsTold(gamepad', gamepadTold')
    BY <3>1, <3>2, <3>3, <2>1, PadUntold DEF GamepadKept
  <3> QED BY <2>1, <3>1, <3>2, <3>4 DEF GamepadKept
 <2> QED BY <2>2, <2>3
<1> QED BY <1>1, <1>2, <1>3, <1>4 DEF GamepadNext

LEMMA GamepadStays ==
  ASSUME GamepadKept, UNCHANGED gamepadVars
  PROVE  GamepadKept'
BY DEF GamepadKept, gamepadVars, PadBehind, PadsTold, PadsFollow, MovesForward

LEMMA GamepadFollowed == GamepadKept => ListenersFollow
<1>1. SUFFICES ASSUME GamepadKept PROVE ListenersFollow OBVIOUS
<1>2. \A i \in DOMAIN gamepadTold.changes :
        /\ MovesForward(gamepadTold.changes[i].current, gamepadTold.changes[i].previous)
        /\ \A j \in 1 .. i - 1 : gamepadTold.changes[j].current.source = gamepadTold.changes[i].current.source
                                    => gamepadTold.changes[i].previous = gamepadTold.changes[i - 1].current
  BY <1>1 DEF GamepadKept, PadsTold, PadsFollow
<1>3. fanout = "none" /\ gamepad.closed /\ gamepad.source > 0 /\ gamepad.source \notin gamepadTold.quiet =>
         \E i \in DOMAIN gamepadTold.changes : gamepadTold.changes[i].current = gamepad
  BY <1>1 DEF GamepadKept, PadsTold
<1> QED BY <1>2, <1>3 DEF ListenersFollow, MovesForward

\* ---- Pressure. ----
LagInput == [lag : BOOLEAN, input : BOOLEAN]
PressureStates == [revision : Nat, conditions : LagInput, previous : LagInput, dropped : Nat, closed : BOOLEAN]

\* The states that a watch is told of follow each other, ...
NextTo(old, new) ==
  /\ new.revision = old.revision + 1 /\ new.previous = old.conditions
  /\ new.conditions # new.previous /\ new.dropped >= old.dropped
SameState(old, new) ==
  old.revision = new.revision /\ old.conditions = new.conditions /\ old.dropped = new.dropped
HeardOf(s) == s \in Seq(PressureStates) /\ Len(s) <= 2 /\ \A i \in DOMAIN s \ {1} : NextTo(s[i - 1], s[i])

\* ... and the current one is what it was told last, or is yet to be told.
TellsOnce(q, audience) ==
  /\ q \in Seq(PressureWatches) /\ \A i, j \in DOMAIN q : q[i] = q[j] => i = j
  /\ ToSet(q) \subseteq audience
KeepsUp(sofar, waiting, after) ==
  sofar # <<>> /\ IF waiting THEN NextTo(sofar[Len(sofar)], after) ELSE SameState(sofar[Len(sofar)], after)
Heard == {w \in PressureWatches : got[w] # <<>>}

WatchesKept ==
  /\ state \in PressureStates
  /\ watched \subseteq PressureWatches
  /\ got \in [PressureWatches -> Seq(PressureStates)]
  /\ \A w \in PressureWatches : HeardOf(got[w])
  /\ TellsOnce(untold, Heard)
  /\ \A w \in watched : KeepsUp(got[w], w \in ToSet(untold), state)
  /\ state.revision = 0 => state.conditions = NoPressure

DiagnosisKept ==
  /\ lag \in [warning : BOOLEAN, dropped : Nat, reported : Nat, next : Nat]
  /\ staged \in [lag : BOOLEAN, dropped : Nat]
  /\ intervals \in [decisive : Nat, since : Nat]
  /\ lag.reported + intervals.since = lag.dropped /\ staged.dropped = lag.reported
  /\ state.dropped \in 0 .. staged.dropped
  /\ lag.warning <=> intervals.decisive >= 2
  /\ staged.lag <=> lag.warning

StrainKept ==
  /\ instant \in Nat /\ strained \in {Never} \cup (0 .. instant)
  /\ strain \in [started : Int, warning : BOOLEAN, next : Nat]
  /\ strain.started = strained
  /\ strain.warning => strained # Never /\ instant - strained >= Threshold

PressureKept == WatchesKept /\ DiagnosisKept /\ StrainKept

LEMMA PressureBegins == PressureInit => PressureKept
<1>1. SUFFICES ASSUME PressureInit PROVE WatchesKept /\ DiagnosisKept /\ StrainKept BY DEF PressureKept
<1>2. NoPressure \in LagInput BY DEF NoPressure, LagInput
<1>3. state \in PressureStates BY <1>1, <1>2 DEF PressureInit, PressureStates
<1>4. \A w \in PressureWatches : got[w] = <<>> /\ HeardOf(got[w]) BY <1>1 DEF PressureInit, HeardOf
<1>5. TellsOnce(untold, Heard) BY <1>1 DEF PressureInit, TellsOnce, ToSet
<1>6. WatchesKept BY <1>1, <1>3, <1>4, <1>5 DEF PressureInit, WatchesKept
<1> QED BY <1>1, <1>6 DEF PressureInit, DiagnosisKept, StrainKept, Never

LEMMA SetToSeqTells ==
  ASSUME NEW S, S \subseteq PressureWatches
  PROVE  TellsOnce(SetToSeq(S), S) /\ ToSet(SetToSeq(S)) = S
<1>1. IsFiniteSet(S) BY PressureAssumption, FS_Subset
<1>2. PICK n \in Nat : n = Cardinality(S) BY <1>1, FS_CardinalityType
<1>3. ExistsBijection(1 .. n, S) BY <1>1, <1>2, FS_CardinalityType
<1>4. PICK g \in [1 .. n -> S] : (\A a, b \in 1 .. n : a # b => g[a] # g[b]) /\ (\A t \in S : \E s \in 1 .. n : g[s] = t)
  BY <1>3 DEF ExistsBijection, Bijection, Injection, Surjection, IsInjective
<1> DEFINE q == SetToSeq(S)
<1>5. g \in [1 .. n -> S] /\ IsInjective(g) BY <1>4 DEF IsInjective
<1>6. q \in [1 .. n -> S] /\ IsInjective(q) BY <1>5, <1>2 DEF SetToSeq
<1>7. DOMAIN q = 1 .. n /\ \A i, j \in 1 .. n : q[i] = q[j] => i = j BY <1>6 DEF IsInjective
<1>8. q \in Seq(S) /\ Len(q) = n BY <1>6
<1>9. ToSet(q) \subseteq S BY <1>6 DEF ToSet
<1>10. \A t \in S : \E i \in 1 .. n : q[i] = t
 <2>1. n \in Nat /\ Cardinality(1 .. n) = n BY <1>2, FS_Interval
 <2>2. q \in Injection(1 .. n, S) BY <1>6 DEF Injection
 <2>3. q \in Surjection(1 .. n, S) BY <2>1, <2>2, <1>1, <1>2, FS_Injection
 <2> QED BY <2>3 DEF Surjection
<1>11. ToSet(q) = S BY <1>9, <1>10, <1>7 DEF ToSet
<1> QED BY <1>7, <1>8, <1>11 DEF TellsOnce

LEMMA HeardGrows ==
  ASSUME NEW s, HeardOf(s), s # <<>>, NEW after \in PressureStates, NextTo(s[Len(s)], after)
  PROVE  HeardOf(<<Last(s), after>>)
<1>1. s \in Seq(PressureStates) /\ Len(s) \in Nat /\ Len(s) >= 1 BY DEF HeardOf
<1>2. Last(s) \in PressureStates /\ Last(s) = s[Len(s)] BY <1>1 DEF Last
<1> DEFINE u == <<Last(s), after>>
<1>3. u \in Seq(PressureStates) /\ Len(u) = 2 /\ DOMAIN u = 1 .. 2 /\ u[1] = Last(s) /\ u[2] = after BY <1>2
<1>4. \A i \in DOMAIN u \ {1} : i = 2 BY <1>3
<1> HIDE DEF u
<1>5. HeardOf(u) BY <1>2, <1>3, <1>4 DEF HeardOf
<1> QED BY <1>5 DEF u

LEMMA ToldNext ==
  ASSUME NEW q, NEW audience, TellsOnce(q, audience), q # <<>>
  PROVE  /\ Head(q) \in PressureWatches /\ Head(q) \in audience /\ Head(q) \in ToSet(q)
         /\ TellsOnce(Tail(q), audience)
         /\ ToSet(Tail(q)) = ToSet(q) \ {Head(q)}
<1>1. q \in Seq(PressureWatches) /\ Len(q) \in Nat /\ Len(q) >= 1 /\ DOMAIN q = 1 .. Len(q) BY DEF TellsOnce
<1>2. Head(q) = q[1] /\ 1 \in DOMAIN q BY <1>1
<1>3. Tail(q) \in Seq(PressureWatches) /\ Len(Tail(q)) = Len(q) - 1 /\ DOMAIN Tail(q) = 1 .. Len(q) - 1 BY <1>1
<1>4. \A i \in 1 .. Len(q) - 1 : Tail(q)[i] = q[i + 1] BY <1>1, <1>3
<1>5. \A i, j \in 1 .. Len(q) : q[i] = q[j] => i = j BY <1>1 DEF TellsOnce
<1>6. \A w \in ToSet(Tail(q)) : w \in ToSet(q) /\ w # Head(q)
 <2>1. SUFFICES ASSUME NEW i \in 1 .. Len(q) - 1 PROVE Tail(q)[i] \in ToSet(q) /\ Tail(q)[i] # Head(q) BY <1>3 DEF ToSet
 <2>2. Tail(q)[i] = q[i + 1] /\ i + 1 \in 1 .. Len(q) /\ 1 \in 1 .. Len(q) /\ i + 1 # 1 BY <1>1, <1>4
 <2> QED BY <2>2, <1>1, <1>2, <1>5 DEF ToSet
<1>7. \A w \in ToSet(q) : w # Head(q) => w \in ToSet(Tail(q))
 <2>1. SUFFICES ASSUME NEW i \in 1 .. Len(q), q[i] # q[1] PROVE q[i] \in ToSet(Tail(q)) BY <1>1, <1>2 DEF ToSet
 <2>2. i - 1 \in 1 .. Len(q) - 1 /\ (i - 1) + 1 = i BY <1>1, <2>1
 <2>3. Tail(q)[i - 1] = q[i] BY <2>2, <1>4
 <2> QED BY <2>2, <2>3, <1>3 DEF ToSet
<1>8. ToSet(Tail(q)) = ToSet(q) \ {Head(q)} BY <1>6, <1>7
<1>9. \A i, j \in DOMAIN Tail(q) : Tail(q)[i] = Tail(q)[j] => i = j
 <2>1. SUFFICES ASSUME NEW i \in 1 .. Len(q) - 1, NEW j \in 1 .. Len(q) - 1, Tail(q)[i] = Tail(q)[j] PROVE i = j BY <1>3
 <2>2. q[i + 1] = q[j + 1] /\ i + 1 \in 1 .. Len(q) /\ j + 1 \in 1 .. Len(q) BY <2>1, <1>1, <1>4
 <2>3. i + 1 = j + 1 BY <2>2, <1>5
 <2> QED BY <2>3
<1>10. Head(q) \in PressureWatches /\ Head(q) \in ToSet(q) BY <1>1, <1>2 DEF ToSet
<1>11. TellsOnce(Tail(q), audience) BY <1>3, <1>8, <1>9 DEF TellsOnce
<1> QED BY <1>8, <1>10, <1>11 DEF TellsOnce

LEMMA TellKeeps ==
  ASSUME WatchesKept, Tell
  PROVE  WatchesKept'
<1>1. PICK w : w = Head(untold) OBVIOUS
<1>2. /\ untold' = Tail(untold) /\ state' = state /\ watched' = watched
      /\ got' = IF w \in watched THEN [got EXCEPT ![w] = <<Last(@), state>>] ELSE got
  BY <1>1 DEF Tell
<1>3. /\ w \in PressureWatches /\ w \in Heard /\ w \in ToSet(untold)
      /\ TellsOnce(Tail(untold), Heard) /\ ToSet(untold') = ToSet(untold) \ {w}
  BY <1>1, <1>2, ToldNext DEF WatchesKept, Tell
<1>4. got \in [PressureWatches -> Seq(PressureStates)] /\ state \in PressureStates BY DEF WatchesKept
<1>5. CASE w \notin watched
 <2>1. got' = got BY <1>2, <1>5
 <2>2. \A v \in watched : v \in ToSet(untold') <=> v \in ToSet(untold) BY <1>3, <1>5
 <2>3. \A v \in watched' : KeepsUp(got'[v], v \in ToSet(untold'), state') BY <1>2, <2>1, <2>2 DEF WatchesKept, KeepsUp
 <2>4. TellsOnce(untold', Heard') BY <1>2, <1>3, <2>1 DEF Heard
 <2> QED BY <1>2, <2>1, <2>3, <2>4 DEF WatchesKept
<1>6. CASE w \in watched
 <2>1. HeardOf(got[w]) /\ got[w] # <<>> /\ NextTo(got[w][Len(got[w])], state) BY <1>3, <1>6 DEF WatchesKept, KeepsUp
 <2>2. PICK u : u = <<Last(got[w]), state>> OBVIOUS
 <2>3. HeardOf(u) /\ u \in Seq(PressureStates) /\ u # <<>> /\ u[Len(u)] = state
  <3>1. HeardOf(u) BY <2>1, <2>2, <1>4, HeardGrows
  <3>2. Len(u) = 2 /\ u[2] = state BY <2>2
  <3> QED BY <3>1, <3>2 DEF HeardOf
 <2>4. got' = [got EXCEPT ![w] = u] BY <1>2, <1>6, <2>2
 <2>5. got' \in [PressureWatches -> Seq(PressureStates)] /\ got'[w] = u /\ \A v \in PressureWatches : v # w => got'[v] = got[v]
   BY <2>4, <2>3, <1>3, <1>4
 <2>6. \A v \in PressureWatches : HeardOf(got'[v]) BY <2>5, <2>3 DEF WatchesKept
 <2>7. Heard' = Heard BY <2>5, <2>1, <2>3, <1>3 DEF Heard
 <2>8. \A v \in watched' : KeepsUp(got'[v], v \in ToSet(untold'), state')
  <3>1. SUFFICES ASSUME NEW v \in watched PROVE KeepsUp(got'[v], v \in ToSet(untold'), state) BY <1>2
  <3>2. v \in PressureWatches /\ KeepsUp(got[v], v \in ToSet(untold), state) BY <3>1 DEF WatchesKept
  <3>3. CASE v = w
   <4>1. got'[v] = u /\ v \notin ToSet(untold') BY <3>3, <2>5, <1>3
   <4> QED BY <4>1, <2>3 DEF KeepsUp, SameState
  <3>4. CASE v # w
   <4>1. got'[v] = got[v] /\ (v \in ToSet(untold') <=> v \in ToSet(untold)) BY <3>4, <3>2, <2>5, <1>3
   <4> QED BY <4>1, <3>2 DEF KeepsUp
  <3> QED BY <3>3, <3>4
 <2>9. TellsOnce(untold', Heard') BY <1>2, <1>3, <2>7
 <2> QED BY <1>2, <2>5, <2>6, <2>8, <2>9 DEF WatchesKept
<1> QED BY <1>5, <1>6

LEMMA WatchKeeps ==
  ASSUME WatchesKept, NEW w \in PressureWatches, WatchPressure(w)
  PROVE  WatchesKept'
<1>1. /\ untold' = untold /\ state' = state /\ got[w] = <<>>
      /\ watched' \subseteq watched \cup {w} /\ watched' \subseteq PressureWatches
  BY DEF WatchPressure, WatchesKept
<1>2. PICK u : u = <<state>> OBVIOUS
<1>3. got' = [got EXCEPT ![w] = u] /\ got \in [PressureWatches -> Seq(PressureStates)] /\ state \in PressureStates
  BY <1>2 DEF WatchPressure, WatchesKept
<1>4. u \in Seq(PressureStates) /\ Len(u) = 1 /\ DOMAIN u = {1} /\ u[1] = state /\ u # <<>> BY <1>2, <1>3
<1>5. HeardOf(u) BY <1>4 DEF HeardOf
<1>6. got' \in [PressureWatches -> Seq(PressureStates)] /\ got'[w] = u /\ \A v \in PressureWatches : v # w => got'[v] = got[v]
  BY <1>3, <1>4
<1>7. Heard \subseteq Heard' /\ w \notin Heard BY <1>1, <1>4, <1>6 DEF Heard
<1>8. TellsOnce(untold', Heard') /\ w \notin ToSet(untold) BY <1>1, <1>7 DEF WatchesKept, TellsOnce
<1>9. \A v \in watched' : KeepsUp(got'[v], v \in ToSet(untold'), state')
 <2>1. SUFFICES ASSUME NEW v \in watched' PROVE KeepsUp(got'[v], v \in ToSet(untold), state) BY <1>1
 <2>2. CASE v = w BY <2>2, <1>4, <1>6, <1>8 DEF KeepsUp, SameState
 <2>3. CASE v # w
  <3>1. v \in watched /\ v \in PressureWatches BY <2>3, <1>1
  <3>2. got'[v] = got[v] /\ KeepsUp(got[v], v \in ToSet(untold), state) BY <3>1, <2>3, <1>6 DEF WatchesKept
  <3> QED BY <3>2
 <2> QED BY <2>2, <2>3
<1>10. \A v \in PressureWatches : HeardOf(got'[v]) BY <1>5, <1>6 DEF WatchesKept
<1> QED BY <1>1, <1>6, <1>8, <1>9, <1>10 DEF WatchesKept

LEMMA ChangeKeeps ==
  ASSUME WatchesKept, DiagnosisKept, untold = <<>>, NEW warning \in BOOLEAN,
         got' = got, watched' = watched,
         IF SelectedNow(warning) = state.conditions THEN UNCHANGED <<state, untold>>
         ELSE state' = Changed(warning) /\ untold' = SetToSeq(watched)
  PROVE  WatchesKept' /\ state'.dropped \in 0 .. staged.dropped
<1>1. state \in PressureStates /\ staged.lag \in BOOLEAN /\ staged.dropped \in Nat /\ state.dropped \in 0 .. staged.dropped
  BY DEF WatchesKept, DiagnosisKept
<1>2. CASE SelectedNow(warning) = state.conditions BY <1>2, <1>1 DEF WatchesKept, Heard
<1>3. CASE SelectedNow(warning) # state.conditions
 <2>1. state' = Changed(warning) /\ untold' = SetToSeq(watched) BY <1>3
 <2>2. SelectedNow(warning) \in LagInput BY <1>1 DEF SelectedNow, LagInput
 <2>3. /\ state'.revision = state.revision + 1 /\ state'.conditions = SelectedNow(warning)
       /\ state'.previous = state.conditions /\ state'.dropped = staged.dropped /\ state'.closed = FALSE
   BY <2>1 DEF Changed
 <2>4. state' \in PressureStates
  <3>1. state.revision + 1 \in Nat /\ state.conditions \in LagInput BY <1>1 DEF PressureStates
  <3> QED BY <2>1, <2>2, <1>1, <3>1 DEF Changed, PressureStates
 <2>5. watched \subseteq PressureWatches /\ watched \subseteq Heard BY DEF WatchesKept, KeepsUp, Heard
 <2>6. TellsOnce(untold', watched) /\ ToSet(untold') = watched BY <2>1, <2>5, SetToSeqTells
 <2>7. TellsOnce(untold', Heard') BY <2>5, <2>6 DEF TellsOnce, Heard
 <2>8. \A v \in watched : NextTo(got[v][Len(got[v])], state') /\ got[v] # <<>>
  <3>1. SUFFICES ASSUME NEW v \in watched PROVE NextTo(got[v][Len(got[v])], state') /\ got[v] # <<>> OBVIOUS
  <3>2. v \notin ToSet(untold) BY DEF ToSet
  <3>3. got[v] # <<>> /\ SameState(got[v][Len(got[v])], state) BY <3>2 DEF WatchesKept, KeepsUp
  <3> QED BY <3>3, <2>3, <1>1, <1>3 DEF NextTo, SameState
 <2>9. \A v \in watched' : KeepsUp(got'[v], v \in ToSet(untold'), state') BY <2>6, <2>8 DEF KeepsUp
 <2>10. state'.revision # 0 BY <2>3, <1>1 DEF PressureStates
 <2> QED BY <2>3, <2>4, <2>7, <2>9, <2>10, <1>1 DEF WatchesKept
<1> QED BY <1>2, <1>3

LEMMA CloseKeeps ==
  ASSUME WatchesKept, ClosePressure
  PROVE  WatchesKept' /\ state'.dropped = state.dropped
<1>1. untold = <<>> /\ untold' = untold /\ watched' = watched /\ got' = got /\ state \in PressureStates
  BY DEF ClosePressure, WatchesKept
<1>2. /\ state' \in PressureStates /\ state'.revision = state.revision /\ state'.conditions = state.conditions
      /\ state'.dropped = state.dropped
  BY <1>1 DEF ClosePressure, PressureStates
<1>3. \A v \in watched : KeepsUp(got[v], v \in ToSet(untold), state) /\ v \notin ToSet(untold)
  BY <1>1 DEF WatchesKept, ToSet
<1>4. \A v \in watched' : KeepsUp(got'[v], v \in ToSet(untold'), state') BY <1>1, <1>2, <1>3 DEF KeepsUp, SameState
<1> QED BY <1>1, <1>2, <1>4 DEF WatchesKept, Heard

LEMMA TimingKeeps ==
  ASSUME DiagnosisKept, StrainKept, NEW drops \in {0, 1}, ObserveTiming(drops)
  PROVE  DiagnosisKept'
<1>1. /\ lag \in [warning : BOOLEAN, dropped : Nat, reported : Nat, next : Nat]
      /\ staged \in [lag : BOOLEAN, dropped : Nat] /\ intervals \in [decisive : Nat, since : Nat]
      /\ instant \in Nat /\ state' = state /\ ReportEvery \in Nat
  BY PressureAssumption DEF DiagnosisKept, StrainKept, ObserveTiming
<1>2. PICK dropped \in Nat : dropped = lag.dropped + drops BY <1>1
<1>3. PICK counted \in Nat : counted = intervals.since + drops BY <1>1
<1>4. counted = dropped - lag.reported /\ lag.reported \in Nat /\ dropped >= lag.reported
  BY <1>1, <1>2, <1>3 DEF DiagnosisKept
<1>5. CASE instant < lag.next
 <2>1. lag' = [lag EXCEPT !.dropped = dropped] /\ intervals' = [intervals EXCEPT !.since = counted] /\ staged' = staged
   BY <1>2, <1>3, <1>5 DEF ObserveTiming
 <2>2. /\ lag' \in [warning : BOOLEAN, dropped : Nat, reported : Nat, next : Nat]
       /\ lag'.dropped = dropped /\ lag'.reported = lag.reported /\ lag'.warning = lag.warning
   BY <1>1, <2>1
 <2>3. /\ intervals' \in [decisive : Nat, since : Nat] /\ intervals'.since = counted /\ intervals'.decisive = intervals.decisive
   BY <1>1, <2>1
 <2> QED BY <2>1, <2>2, <2>3, <1>1, <1>4 DEF DiagnosisKept
<1>6. CASE ~(instant < lag.next)
 <2>1. PICK warning \in BOOLEAN : warning = Diagnosed(dropped)
  <3>1. Diagnosed(dropped) \in BOOLEAN
   <4>1. CASE NewlyDropped(dropped) = 1 BY <4>1, <1>1 DEF Diagnosed
   <4>2. CASE NewlyDropped(dropped) # 1 BY <4>2 DEF Diagnosed
   <4> QED BY <4>1, <4>2
  <3> QED BY <3>1
 <2>2. /\ lag' = [warning |-> warning, dropped |-> dropped, reported |-> dropped, next |-> instant + ReportEvery]
       /\ intervals' = [decisive |-> IF counted = 1 THEN intervals.decisive ELSE counted, since |-> 0]
       /\ staged' = [lag |-> warning, dropped |-> dropped]
   BY <1>2, <1>3, <1>6, <2>1 DEF ObserveTiming
 <2>3. /\ lag' \in [warning : BOOLEAN, dropped : Nat, reported : Nat, next : Nat]
       /\ staged' \in [lag : BOOLEAN, dropped : Nat] /\ intervals' \in [decisive : Nat, since : Nat]
   BY <2>2, <1>1
 <2>4. /\ lag'.reported = dropped /\ lag'.dropped = dropped /\ intervals'.since = 0 /\ staged'.dropped = dropped BY <2>2
 <2>5. state.dropped \in 0 .. dropped BY <1>1, <1>4 DEF DiagnosisKept
 <2>6. warning <=> intervals'.decisive >= 2
  <3>1. CASE counted = 1
   <4>1. warning <=> lag.warning BY <2>1, <3>1, <1>4 DEF Diagnosed, NewlyDropped
   <4>2. intervals'.decisive = intervals.decisive BY <2>2, <3>1
   <4> QED BY <4>1, <4>2 DEF DiagnosisKept
  <3>2. CASE counted # 1
   <4>1. warning <=> counted >= 2 BY <2>1, <3>2, <1>4 DEF Diagnosed, NewlyDropped
   <4>2. intervals'.decisive = counted BY <2>2, <3>2
   <4> QED BY <4>1, <4>2
  <3> QED BY <3>1, <3>2
 <2>7. (lag'.warning <=> warning) /\ (staged'.lag <=> warning) BY <2>2
 <2> QED BY <2>3, <2>4, <2>5, <2>6, <2>7, <1>1 DEF DiagnosisKept
<1> QED BY <1>5, <1>6

LEMMA ObservedKeeps ==
  ASSUME StrainKept, NEW pressure \in BOOLEAN, instant' = instant, strain' = Observed(instant, pressure),
         strained' = IF ~pressure THEN Never ELSE IF strained = Never THEN instant ELSE strained
  PROVE  StrainKept'
<1>1. /\ instant \in Nat /\ strain \in [started : Int, warning : BOOLEAN, next : Nat]
      /\ strained \in {Never} \cup (0 .. instant) /\ strain.started = strained
      /\ (strain.warning => strained # Never /\ instant - strained >= Threshold)
      /\ ReportEvery \in Nat /\ Threshold \in Nat
  BY PressureAssumption DEF StrainKept
<1>2. strained' \in {Never} \cup (0 .. instant) /\ strained' \in Int BY <1>1 DEF Never
<1>3. PICK s : s = IF ~pressure THEN Relieved(instant)
                   ELSE IF strain.started = Never THEN [strain EXCEPT !.started = instant] ELSE strain
  OBVIOUS
<1>4. s \in [started : Int, warning : BOOLEAN, next : Nat] /\ s.started = strained'
 <2>1. CASE ~pressure
  <3>1. s = Relieved(instant) /\ strained' = Never /\ Never \in Int BY <2>1, <1>3 DEF Never
  <3>2. s = [strain EXCEPT !.started = Never, !.warning = FALSE] BY <3>1 DEF Relieved
  <3> QED BY <3>1, <3>2, <1>1
 <2>2. CASE pressure /\ strain.started = Never
  <3>1. s = [strain EXCEPT !.started = instant] BY <2>2, <1>3
  <3>2. strained = Never /\ instant \in Int BY <2>2, <1>1
  <3>3. strained' = instant BY <2>2, <3>2
  <3> QED BY <3>1, <3>2, <3>3, <1>1
 <2>3. CASE pressure /\ strain.started # Never BY <2>3, <1>1, <1>3
 <2> QED BY <2>1, <2>2, <2>3
<1>5. s.warning => pressure /\ strained' # Never /\ instant - strained' >= Threshold
 <2>1. CASE ~pressure BY <2>1, <1>1, <1>3 DEF Relieved
 <2>2. CASE pressure /\ strain.started = Never
  <3>1. s.warning = strain.warning BY <2>2, <1>1, <1>3
  <3> QED BY <3>1, <2>2, <1>1
 <2>3. CASE pressure /\ strain.started # Never BY <2>3, <1>1, <1>3
 <2> QED BY <2>1, <2>2, <2>3
<1>6. CASE instant < s.next
 <2>1. strain' = s BY <1>3, <1>6 DEF Observed
 <2> QED BY <2>1, <1>1, <1>2, <1>4, <1>5 DEF StrainKept
<1>7. CASE ~(instant < s.next)
 <2>1. strain' = [s EXCEPT !.next = instant + ReportEvery, !.warning = @ \/ (pressure /\ instant - s.started >= Threshold)]
   BY <1>3, <1>7 DEF Observed
 <2>2. instant + ReportEvery \in Nat BY <1>1
 <2>3. strain' \in [started : Int, warning : BOOLEAN, next : Nat] /\ strain'.started = s.started BY <2>1, <2>2, <1>4
 <2>4. strain'.warning => s.warning \/ (pressure /\ instant - s.started >= Threshold) BY <2>1, <1>4
 <2>5. pressure => strained' # Never BY <1>1 DEF Never
 <2>6. strain'.warning => strained' # Never /\ instant - strained' >= Threshold BY <2>4, <2>5, <1>4, <1>5
 <2> QED BY <1>1, <1>2, <1>4, <2>3, <2>6 DEF StrainKept
<1> QED BY <1>6, <1>7

LEMMA PressureStepKeeps ==
  ASSUME PressureKept, PressureNext
  PROVE  PressureKept'
<1>1. WatchesKept /\ DiagnosisKept /\ StrainKept BY DEF PressureKept
<1>2. CASE TimeGoesOn
 <2>1. WatchesKept' /\ DiagnosisKept' BY <1>1, <1>2 DEF TimeGoesOn, WatchesKept, DiagnosisKept, Heard
 <2>2. StrainKept' BY <1>1, <1>2, PressureAssumption DEF TimeGoesOn, StrainKept, Never
 <2> QED BY <2>1, <2>2 DEF PressureKept
<1>3. CASE Tell
 <2>1. WatchesKept' BY <1>1, <1>3, TellKeeps
 <2>2. DiagnosisKept' /\ StrainKept' BY <1>1, <1>3 DEF Tell, DiagnosisKept, StrainKept
 <2> QED BY <2>1, <2>2 DEF PressureKept
<1>4. CASE ClosePressure
 <2>1. WatchesKept' /\ state'.dropped = state.dropped BY <1>1, <1>4, CloseKeeps
 <2>2. DiagnosisKept' /\ StrainKept' BY <1>1, <1>4, <2>1 DEF ClosePressure, DiagnosisKept, StrainKept
 <2> QED BY <2>1, <2>2 DEF PressureKept
<1>5. ASSUME NEW drops \in {0, 1}, ObserveTiming(drops) PROVE PressureKept'
 <2>1. DiagnosisKept' BY <1>1, <1>5, TimingKeeps
 <2>2. WatchesKept' /\ StrainKept' BY <1>1, <1>5 DEF ObserveTiming, WatchesKept, StrainKept, Heard
 <2> QED BY <2>1, <2>2 DEF PressureKept
<1>6. ASSUME NEW pressure \in BOOLEAN, PlatformLoop(pressure) PROVE PressureKept'
 <2>1. StrainKept' BY <1>1, <1>6, ObservedKeeps DEF PlatformLoop
 <2>2. strain'.warning \in BOOLEAN BY <2>1 DEF StrainKept
 <2>3. WatchesKept' /\ state'.dropped \in 0 .. staged.dropped BY <1>1, <1>6, <2>2, ChangeKeeps DEF PlatformLoop
 <2>4. DiagnosisKept' BY <1>1, <1>6, <2>3 DEF PlatformLoop, DiagnosisKept
 <2> QED BY <2>1, <2>3, <2>4 DEF PressureKept
<1>7. ASSUME NEW w \in PressureWatches, WatchPressure(w) \/ ResetWatch(w) PROVE PressureKept'
 <2>1. WatchesKept'
  <3>1. CASE WatchPressure(w) BY <1>1, <3>1, WatchKeeps
  <3>2. CASE ResetWatch(w) BY <1>1, <3>2 DEF ResetWatch, WatchesKept, Heard
  <3> QED BY <1>7, <3>1, <3>2
 <2>2. DiagnosisKept' /\ StrainKept' BY <1>1, <1>7 DEF WatchPressure, ResetWatch, DiagnosisKept, StrainKept
 <2> QED BY <2>1, <2>2 DEF PressureKept
<1> QED BY <1>2, <1>3, <1>4, <1>5, <1>6, <1>7 DEF PressureNext

LEMMA PressureStays ==
  ASSUME PressureKept, UNCHANGED pressureVars
  PROVE  PressureKept'
BY DEF PressureKept, pressureVars, WatchesKept, DiagnosisKept, StrainKept, Heard

LEMMA PressureFollowed == PressureKept => PressureIsTold
<1>1. SUFFICES ASSUME WatchesKept, DiagnosisKept, StrainKept PROVE PressureIsTold BY DEF PressureKept
<1>2. ASSUME NEW w \in PressureWatches, NEW i \in DOMAIN got[w] \ {1}
      PROVE  /\ got[w][i].revision = got[w][i - 1].revision + 1
             /\ got[w][i].previous = got[w][i - 1].conditions
             /\ got[w][i].conditions # got[w][i].previous
             /\ got[w][i].dropped >= got[w][i - 1].dropped
  BY <1>1 DEF WatchesKept, HeardOf, NextTo
<1>3. \A w \in watched : w \in ToSet(untold) \/ Last(got[w]).revision = state.revision
  BY <1>1 DEF WatchesKept, KeepsUp, SameState, Last
<1>4. lag.warning = (intervals.decisive >= 2) /\ staged.lag = lag.warning BY <1>1 DEF DiagnosisKept
<1>5. (strain.warning => strained # Never /\ instant - strained >= Threshold) /\ strain.started = strained
  BY <1>1 DEF StrainKept
<1>6. state.conditions.input => state.revision > 0
 <2>1. state.revision \in Nat /\ (state.revision = 0 => ~state.conditions.input)
   BY <1>1 DEF WatchesKept, PressureStates, NoPressure
 <2> QED BY <2>1
<1> QED BY <1>2, <1>3, <1>4, <1>5, <1>6 DEF PressureIsTold

\* ---- Shared values. ----
Asking == [at : {"look", "construct", "make", "made", "published"}, by : {"initialize", "get", "look"}, won : BOOLEAN]
IsMaking(c) == caller[c].at \in {"make", "made", "published"}
HasWon(c) == caller[c] # NoCaller /\ caller[c].won

\* A singleton: whoever is inside is alone there, an answer that needs the
\* value finds it, and one who constructed it says so once.
SingletonKept ==
  /\ caller \in [Sharers -> {NoCaller} \cup Asking]
  /\ flag \in {"unused", "running", "done"} /\ present \in BOOLEAN
  /\ \A c, d \in Sharers : IsMaking(c) /\ IsMaking(d) => c = d
  /\ \A c \in Sharers : IsMaking(c) => flag = "running"
  /\ \A c \in Sharers : caller[c].at = "published" => present
  /\ flag = "done" => present
  /\ \A c \in Sharers : caller[c].at = "look" /\ caller[c].by # "look" => flag = "done"
  /\ \A c \in Sharers : HasWon(c) => flag = "done" /\ answers.won = 0 /\ caller[c].at = "look"
  /\ \A c, d \in Sharers : HasWon(c) /\ HasWon(d) => c = d
  /\ answers.won \in {0, 1} /\ (answers.won = 1 => flag = "done")
  /\ answers.last # <<>> => answers.last[2] # "nothing" /\ answers.last # <<"get", "refused">>

\* A versioned variable: its revisions number the values stored, and who
\* sleeps does so since the current one or is about to be woken.
GivenTo(o, last, stored) == o.got.revision \in 0 .. last /\ o.got.value = stored[o.got.revision + 1] /\ o.got.revision > o.since
VariableKept ==
  /\ versioned \in [value : Values, revision : Nat] /\ sets \in Seq(Values)
  /\ Len(sets) = versioned.revision + 1 /\ versioned.value = sets[versioned.revision + 1]
  /\ DOMAIN caller = Sharers
  /\ \A c \in Sharers : caller[c].at \in {"idle", "notify", "observe", "awake", "asleep", "got"}
  /\ \A c \in Sharers : caller[c].at \in {"awake", "asleep"} => caller[c].since \in 0 .. versioned.revision
  /\ \A c \in Sharers : caller[c].at = "got" => GivenTo(caller[c], versioned.revision, sets)
  /\ \A c \in Sharers : caller[c].at = "asleep" /\ caller[c].since # versioned.revision => \E d \in Sharers : caller[d].at = "notify"
  /\ answers = [won |-> 0, last |-> <<>>]

SharedKept ==
  /\ template \in {"singleton", "variable"}
  /\ template = "singleton" => SingletonKept
  /\ template = "variable" => VariableKept

LEMMA SharedBegins == SharedInit => SharedKept
<1>1. SUFFICES ASSUME SharedInit PROVE SharedKept OBVIOUS
<1>2. \A c \in Sharers : caller[c] = NoCaller /\ caller[c].at = "idle" BY <1>1 DEF SharedInit, NoCaller
<1>3. SingletonKept
 <2>1. caller \in [Sharers -> {NoCaller} \cup Asking] BY <1>1 DEF SharedInit
 <2>2. flag = "unused" /\ ~present /\ present \in BOOLEAN /\ answers.won = 0 /\ answers.last = <<>>
   BY <1>1 DEF SharedInit
 <2>3. \A c \in Sharers : ~IsMaking(c) /\ ~HasWon(c) BY <1>2 DEF IsMaking, HasWon
 <2> QED BY <1>2, <2>1, <2>2, <2>3 DEF SingletonKept
<1>4. VariableKept BY <1>1, <1>2 DEF SharedInit, VariableKept
<1> QED BY <1>1, <1>3, <1>4 DEF SharedInit, SharedKept

LEMMA AskKeeps ==
  ASSUME SingletonKept, NEW c \in Sharers, NEW by \in {"initialize", "get", "look"}, AskSingleton(c, by)
  PROVE  SingletonKept'
<1> DEFINE x == [at |-> IF by = "look" THEN "look" ELSE "construct", by |-> by, won |-> FALSE]
<1>1. x \in Asking /\ x.at \in {"look", "construct"} /\ (x.at = "look" => x.by = "look") /\ ~x.won BY DEF Asking
<1>2. caller' = [caller EXCEPT ![c] = x] /\ flag' = flag /\ present' = present /\ answers' = answers BY DEF AskSingleton
<1> HIDE DEF x
<1>3. caller'[c] = x /\ \A d \in Sharers : d # c => caller'[d] = caller[d] BY <1>2 DEF SingletonKept
<1>4. caller' \in [Sharers -> {NoCaller} \cup Asking] BY <1>1, <1>2 DEF SingletonKept
<1> QED BY <1>1, <1>2, <1>3, <1>4 DEF SingletonKept, IsMaking, HasWon

LEMMA EnterKeeps ==
  ASSUME SingletonKept, NEW c \in Sharers, EnterOnce(c)
  PROVE  SingletonKept'
<1>1. caller[c] \in Asking /\ caller[c].at = "construct" BY DEF EnterOnce, SingletonKept, NoCaller
<1>2. PICK x : x = [caller[c] EXCEPT !.at = Enters] OBVIOUS
<1>3. Enters \in {"look", "make"} /\ (Enters = "look" <=> flag = "done") /\ (Enters = "make" => flag = "unused")
  BY DEF Enters, EnterOnce, SingletonKept
<1>4. x \in Asking /\ x.at = Enters /\ x.by = caller[c].by /\ (x.won <=> caller[c].won) BY <1>1, <1>2, <1>3 DEF Asking
<1>5. caller' = [caller EXCEPT ![c] = x] /\ present' = present /\ answers' = answers
  BY <1>2 DEF EnterOnce, SingletonKept
<1>6. flag' = IF Enters = "make" THEN "running" ELSE flag BY DEF EnterOnce
<1>7. caller'[c] = x /\ \A d \in Sharers : d # c => caller'[d] = caller[d] BY <1>5 DEF SingletonKept
<1>8. caller' \in [Sharers -> {NoCaller} \cup Asking] BY <1>4, <1>5 DEF SingletonKept
<1>9. ~x.won BY <1>1, <1>4 DEF SingletonKept, HasWon, NoCaller
<1>10. CASE Enters = "look" BY <1>3, <1>4, <1>5, <1>6, <1>7, <1>8, <1>9, <1>10 DEF SingletonKept, IsMaking, HasWon
<1>11. CASE Enters = "make"
 <2>1. flag = "unused" /\ flag' = "running" /\ \A d \in Sharers : ~IsMaking(d) /\ ~HasWon(d)
   BY <1>3, <1>6, <1>11 DEF SingletonKept
 <2>2. \A d \in Sharers : caller[d].at = "look" => caller[d].by = "look" BY <2>1 DEF SingletonKept
 <2>3. answers.won = 0 BY <2>1 DEF SingletonKept
 <2> QED BY <1>4, <1>5, <1>7, <1>8, <1>9, <1>11, <2>1, <2>2, <2>3 DEF SingletonKept, IsMaking, HasWon
<1> QED BY <1>3, <1>10, <1>11

LEMMA ConstructKeeps ==
  ASSUME SingletonKept, NEW c \in Sharers, ConstructValue(c)
  PROVE  SingletonKept'
<1>1. caller[c] \in Asking /\ caller[c].at = "make" /\ IsMaking(c) /\ flag = "running"
  BY DEF ConstructValue, SingletonKept, NoCaller, IsMaking
<1>2. present' = present /\ answers' = answers BY DEF ConstructValue
<1>3. \A d \in Sharers : ~HasWon(d) /\ (d # c => ~IsMaking(d)) /\ (caller[d].at = "look" => caller[d].by = "look")
  BY <1>1 DEF SingletonKept
<1>4. answers.won = 0 BY <1>1 DEF SingletonKept
<1>5. CASE caller' = [caller EXCEPT ![c].at = "made"] /\ UNCHANGED <<flag, thrown>>
 <2>1. PICK x : x = [caller[c] EXCEPT !.at = "made"] OBVIOUS
 <2>2. x \in Asking /\ x.at = "made" /\ ~x.won BY <1>1, <1>3, <2>1 DEF Asking, HasWon, NoCaller
 <2>3. caller' = [caller EXCEPT ![c] = x] BY <1>5, <2>1 DEF SingletonKept
 <2>4. caller'[c] = x /\ (\A d \in Sharers : d # c => caller'[d] = caller[d]) /\ caller' \in [Sharers -> {NoCaller} \cup Asking]
   BY <2>2, <2>3 DEF SingletonKept
 <2> QED BY <1>1, <1>2, <1>3, <1>4, <1>5, <2>2, <2>4 DEF SingletonKept, IsMaking, HasWon
<1>6. CASE UserThrows /\ flag' = "unused" /\ caller' = [caller EXCEPT ![c] = NoCaller]
 <2>1. caller'[c] = NoCaller /\ (\A d \in Sharers : d # c => caller'[d] = caller[d]) /\ caller' \in [Sharers -> {NoCaller} \cup Asking]
   BY <1>6 DEF SingletonKept
 <2>2. NoCaller.at = "idle" BY DEF NoCaller
 <2> QED BY <1>1, <1>2, <1>3, <1>4, <1>6, <2>1, <2>2 DEF SingletonKept, IsMaking, HasWon
<1> QED BY <1>5, <1>6 DEF ConstructValue

LEMMA PublishValueKeeps ==
  ASSUME SingletonKept, NEW c \in Sharers, PublishValue(c)
  PROVE  SingletonKept'
<1>1. caller[c] \in Asking /\ IsMaking(c) /\ flag = "running" /\ flag' = flag /\ present' /\ answers' = answers
  BY DEF PublishValue, SingletonKept, NoCaller, IsMaking
<1>2. \A d \in Sharers : ~HasWon(d) /\ (d # c => ~IsMaking(d)) /\ (caller[d].at = "look" => caller[d].by = "look")
  BY <1>1 DEF SingletonKept
<1>3. PICK x : x = [caller[c] EXCEPT !.at = "published"] OBVIOUS
<1>4. x \in Asking /\ x.at = "published" /\ ~x.won BY <1>1, <1>2, <1>3 DEF Asking, HasWon, NoCaller
<1>5. caller' = [caller EXCEPT ![c] = x] BY <1>3 DEF PublishValue, SingletonKept
<1>6. caller'[c] = x /\ (\A d \in Sharers : d # c => caller'[d] = caller[d]) /\ caller' \in [Sharers -> {NoCaller} \cup Asking]
  BY <1>4, <1>5 DEF SingletonKept
<1> QED BY <1>1, <1>2, <1>4, <1>6 DEF SingletonKept, IsMaking, HasWon, PublishValue

LEMMA LeaveKeeps ==
  ASSUME SingletonKept, NEW c \in Sharers, LeaveOnce(c)
  PROVE  SingletonKept'
<1>1. caller[c] \in Asking /\ IsMaking(c) /\ flag = "running" /\ flag' = "done" /\ present /\ present' = present /\ answers' = answers
  BY DEF LeaveOnce, SingletonKept, NoCaller, IsMaking
<1>2. \A d \in Sharers : ~HasWon(d) /\ (d # c => ~IsMaking(d)) BY <1>1 DEF SingletonKept
<1>3. answers.won = 0 BY <1>1 DEF SingletonKept
<1>4. PICK x : x = [[caller[c] EXCEPT !.at = "look"] EXCEPT !.won = TRUE] OBVIOUS
<1>5. x \in Asking /\ x.at = "look" BY <1>1, <1>4 DEF Asking
<1>6. caller' = [caller EXCEPT ![c] = x] BY <1>1, <1>4 DEF LeaveOnce, SingletonKept
<1>7. caller'[c] = x /\ (\A d \in Sharers : d # c => caller'[d] = caller[d]) /\ caller' \in [Sharers -> {NoCaller} \cup Asking]
  BY <1>5, <1>6 DEF SingletonKept
<1> QED BY <1>1, <1>2, <1>3, <1>5, <1>7 DEF SingletonKept, IsMaking, HasWon

LEMMA AnswerKeeps ==
  ASSUME SingletonKept, NEW c \in Sharers, Answer(c)
  PROVE  SingletonKept'
<1>1. caller[c] \in Asking /\ caller[c] # NoCaller /\ caller[c].at = "look" /\ flag' = flag /\ present' = present
  BY DEF Answer, SingletonKept, NoCaller
<1>2. caller'[c] = NoCaller /\ (\A d \in Sharers : d # c => caller'[d] = caller[d]) /\ caller' \in [Sharers -> {NoCaller} \cup Asking]
  BY DEF Answer, SingletonKept
<1>3. answers'.won = IF caller[c].won THEN answers.won + 1 ELSE answers.won BY DEF Answer
<1>4. NoCaller.at = "idle" BY DEF NoCaller
<1>5. PICK refused : refused = IF caller[c].by = "initialize" THEN ~caller[c].won ELSE ~present OBVIOUS
<1>6. PICK word : word = IF refused THEN "refused" ELSE IF present THEN "found" ELSE "nothing" OBVIOUS
<1>7. answers'.last = <<caller[c].by, word>> BY <1>5, <1>6 DEF Answer
<1>8. word # "nothing"
 <2>1. caller[c].won => present BY <1>1 DEF SingletonKept, HasWon
 <2> QED BY <2>1, <1>5, <1>6
<1>9. caller[c].by = "get" => word # "refused"
 <2>1. caller[c].by = "get" => present BY <1>1 DEF SingletonKept
 <2> QED BY <2>1, <1>5, <1>6
<1>10. answers'.last[2] # "nothing" /\ answers'.last # <<"get", "refused">> BY <1>7, <1>8, <1>9
<1>11. CASE caller[c].won
 <2>1. HasWon(c) /\ flag = "done" /\ answers.won = 0 BY <1>1, <1>11 DEF SingletonKept, HasWon
 <2>2. answers'.won = 1 BY <1>3, <1>11, <2>1
 <2>3. \A d \in Sharers : d # c => ~HasWon(d) BY <2>1 DEF SingletonKept
 <2> QED BY <1>1, <1>2, <1>4, <1>10, <2>1, <2>2, <2>3 DEF SingletonKept, IsMaking, HasWon
<1>12. CASE ~caller[c].won
 <2>1. answers'.won = answers.won BY <1>3, <1>12
 <2> QED BY <1>1, <1>2, <1>4, <1>10, <2>1 DEF SingletonKept, IsMaking, HasWon
<1> QED BY <1>11, <1>12

LEMMA SetKeeps ==
  ASSUME VariableKept, NEW c \in Sharers, NEW new \in Values, Set(c, new)
  PROVE  VariableKept'
<1>1. caller[c].at = "idle" /\ answers' = answers /\ DOMAIN caller = Sharers BY DEF Set, NoCaller, VariableKept
<1>2. versioned \in [value : Values, revision : Nat] /\ sets \in Seq(Values) /\ Len(sets) = versioned.revision + 1
  BY DEF VariableKept
<1>3. CASE new # versioned.value
 <2>1. PICK x : x = [at |-> "notify", told |-> 0] OBVIOUS
 <2>2. caller' = [caller EXCEPT ![c] = x] /\ versioned' = [value |-> new, revision |-> versioned.revision + 1] /\ sets' = Append(sets, new)
   BY <1>3, <2>1 DEF Set
 <2>3. /\ DOMAIN caller' = Sharers /\ caller'[c] = x /\ x.at = "notify"
       /\ \A d \in Sharers : d # c => caller'[d] = caller[d]
   BY <2>1, <2>2, <1>1
 <2>4. /\ versioned' \in [value : Values, revision : Nat] /\ versioned'.revision = versioned.revision + 1 /\ versioned'.value = new
       /\ sets' \in Seq(Values) /\ Len(sets') = Len(sets) + 1 /\ sets'[Len(sets) + 1] = new
       /\ \A i \in 1 .. Len(sets) : sets'[i] = sets[i]
   BY <1>2, <2>2
 <2>5. \A d \in Sharers : caller'[d].at \in {"awake", "asleep"} => caller'[d].since \in 0 .. versioned'.revision
   BY <2>3, <2>4, <1>2 DEF VariableKept
 <2>6. \A d \in Sharers : caller'[d].at = "got" => GivenTo(caller'[d], versioned'.revision, sets')
  <3>1. SUFFICES ASSUME NEW d \in Sharers, caller'[d].at = "got" PROVE GivenTo(caller'[d], versioned'.revision, sets')
    OBVIOUS
  <3>2. caller'[d] = caller[d] /\ GivenTo(caller[d], versioned.revision, sets) BY <3>1, <2>3 DEF VariableKept
  <3>3. caller[d].got.revision + 1 \in 1 .. Len(sets) BY <3>2, <1>2 DEF GivenTo
  <3>4. caller[d].got.revision \in 0 .. versioned'.revision BY <3>2, <2>4, <1>2 DEF GivenTo
  <3> QED BY <3>2, <3>3, <3>4, <2>4 DEF GivenTo
 <2> QED BY <2>3, <2>4, <2>5, <2>6, <1>1, <1>2 DEF VariableKept
<1>4. CASE new = versioned.value
 <2>1. PICK x : x = [at |-> "observe", told |-> 0] OBVIOUS
 <2>2. caller' = [caller EXCEPT ![c] = x] /\ versioned' = [value |-> new, revision |-> versioned.revision + 0] /\ sets' = sets
   BY <1>4, <2>1 DEF Set
 <2>3. versioned' = versioned BY <1>2, <1>4, <2>2
 <2>4. /\ DOMAIN caller' = Sharers /\ caller'[c] = x /\ x.at = "observe"
       /\ \A d \in Sharers : d # c => caller'[d] = caller[d]
   BY <2>1, <2>2, <1>1
 <2>5. \A d \in Sharers : caller'[d].at = "got" => GivenTo(caller'[d], versioned'.revision, sets')
   BY <2>2, <2>3, <2>4 DEF VariableKept, GivenTo
 <2>6. \A d \in Sharers : caller[d].at = "notify" => caller'[d].at = "notify" BY <2>4, <1>1
 <2> QED BY <2>2, <2>3, <2>4, <2>5, <2>6, <1>1 DEF VariableKept
<1> QED BY <1>3, <1>4

LEMMA NotifyKeeps ==
  ASSUME VariableKept, NEW c \in Sharers, NotifyAll(c)
  PROVE  VariableKept'
<1>1. versioned' = versioned /\ sets' = sets /\ answers' = answers /\ caller[c].at = "notify" BY DEF NotifyAll
<1>2. PICK x : x = [caller[c] EXCEPT !.at = "observe"] OBVIOUS
<1>3. caller' = [d \in Sharers |-> IF d = c THEN x ELSE IF caller[d].at = "asleep" THEN [caller[d] EXCEPT !.at = "awake"] ELSE caller[d]]
  BY <1>2 DEF NotifyAll, Woken
<1>4. DOMAIN caller' = Sharers /\ caller'[c] = x BY <1>3
<1>5. ASSUME NEW d \in Sharers
      PROVE  /\ caller'[d].at \in {"idle", "notify", "observe", "awake", "got"}
             /\ caller'[d].at = "awake" => caller'[d].since \in 0 .. versioned.revision
             /\ caller'[d].at = "got" => GivenTo(caller'[d], versioned.revision, sets)
 <2>1. CASE d = c
  <3>1. x.at = "observe" BY <1>1, <1>2
  <3> QED BY <3>1, <2>1, <1>4
 <2>2. CASE d # c /\ caller[d].at = "asleep"
  <3>1. PICK y : y = [caller[d] EXCEPT !.at = "awake"] OBVIOUS
  <3>2. caller'[d] = y /\ y.at = "awake" /\ y.since = caller[d].since BY <3>1, <2>2, <1>3
  <3> QED BY <3>2, <2>2 DEF VariableKept
 <2>3. CASE d # c /\ caller[d].at # "asleep"
  <3>1. caller'[d] = caller[d] BY <2>3, <1>3
  <3> QED BY <3>1, <2>3 DEF VariableKept
 <2> QED BY <2>1, <2>2, <2>3
<1>6. \A d \in Sharers : caller'[d].at = "got" => GivenTo(caller'[d], versioned'.revision, sets')
  BY <1>1, <1>5 DEF GivenTo
<1> QED BY <1>1, <1>4, <1>5, <1>6 DEF VariableKept

LEMMA CallerMoves ==
  ASSUME VariableKept, NEW c \in Sharers, NEW x, caller[c].at # "notify",
         caller' = [caller EXCEPT ![c] = x], versioned' = versioned, sets' = sets, answers' = answers,
         x.at \in {"idle", "observe", "awake", "asleep", "got"},
         x.at \in {"awake", "asleep"} => x.since \in 0 .. versioned.revision,
         x.at = "got" => GivenTo(x, versioned.revision, sets),
         x.at = "asleep" => x.since = versioned.revision
  PROVE  VariableKept'
<1>1. DOMAIN caller' = Sharers /\ caller'[c] = x /\ \A d \in Sharers : d # c => caller'[d] = caller[d]
  BY DEF VariableKept
<1>2. \A d \in Sharers : caller'[d].at = "got" => GivenTo(caller'[d], versioned'.revision, sets')
  BY <1>1 DEF VariableKept, GivenTo
<1>3. \A d \in Sharers : caller[d].at = "notify" => caller'[d].at = "notify" BY <1>1
<1> QED BY <1>1, <1>2, <1>3 DEF VariableKept

LEMMA ObserveKeeps ==
  ASSUME VariableKept, NEW c \in Sharers, Observe(c)
  PROVE  VariableKept'
<1>1. versioned' = versioned /\ sets' = sets /\ answers' = answers /\ caller[c].at = "observe" /\ c \in DOMAIN caller
  BY DEF Observe, VariableKept
<1>2. PICK x : x \in {NoCaller, [at |-> "observe", told |-> caller[c].told + 1]} /\ caller' = [caller EXCEPT ![c] = x]
  BY <1>1 DEF Observe
<1>3. x.at \in {"idle", "observe"} BY <1>2 DEF NoCaller
<1> QED BY <1>1, <1>2, <1>3, CallerMoves

LEMMA WaitKeeps ==
  ASSUME VariableKept, NEW c \in Sharers, NEW since \in 0 .. versioned.revision, WaitForChange(c, since)
  PROVE  VariableKept'
<1>1. versioned' = versioned /\ sets' = sets /\ answers' = answers /\ caller[c].at = "idle"
  BY DEF WaitForChange, NoCaller
<1>2. PICK x : x = [at |-> "awake", since |-> since] OBVIOUS
<1>3. caller' = [caller EXCEPT ![c] = x] BY <1>2 DEF WaitForChange
<1>4. x.at = "awake" /\ x.since = since BY <1>2
<1> QED BY <1>1, <1>3, <1>4, CallerMoves

LEMMA LookKeeps ==
  ASSUME VariableKept, NEW c \in Sharers, Look(c)
  PROVE  VariableKept'
<1>1. versioned' = versioned /\ sets' = sets /\ answers' = answers /\ caller[c].at = "awake" /\ c \in DOMAIN caller
  BY DEF Look, VariableKept
<1>2. PICK x : x = IF versioned.revision # caller[c].since THEN [at |-> "got", since |-> caller[c].since, got |-> versioned]
                   ELSE [at |-> "asleep", since |-> caller[c].since]
  OBVIOUS
<1>3. caller' = [caller EXCEPT ![c] = x] BY <1>1, <1>2 DEF Look
<1>4. caller[c].since \in 0 .. versioned.revision /\ versioned.revision \in Nat BY <1>1 DEF VariableKept
<1>5. CASE versioned.revision # caller[c].since
 <2>1. x.at = "got" /\ x.since = caller[c].since /\ x.got = versioned BY <1>2, <1>5
 <2>2. GivenTo(x, versioned.revision, sets) BY <2>1, <1>4, <1>5 DEF GivenTo, VariableKept
 <2> QED BY <1>1, <1>3, <2>1, <2>2, CallerMoves
<1>6. CASE versioned.revision = caller[c].since
 <2>1. x.at = "asleep" /\ x.since = versioned.revision BY <1>2, <1>6
 <2>2. x.since \in 0 .. versioned.revision BY <2>1, <1>4
 <2> QED BY <1>1, <1>3, <2>1, <2>2, CallerMoves
<1> QED BY <1>5, <1>6

LEMMA TakeKeeps ==
  ASSUME VariableKept, NEW c \in Sharers, TakeChange(c)
  PROVE  VariableKept'
<1>1. NoCaller.at = "idle" BY DEF NoCaller
<1> QED BY <1>1, CallerMoves DEF TakeChange

LEMMA SharedStepKeeps ==
  ASSUME SharedKept, SharedNext
  PROVE  SharedKept'
<1>1. PICK c \in Sharers :
        \/ \E by \in {"initialize", "get", "look"} : AskSingleton(c, by)
        \/ EnterOnce(c) \/ ConstructValue(c) \/ PublishValue(c) \/ LeaveOnce(c) \/ Answer(c)
        \/ \E new \in Values : Set(c, new)
        \/ NotifyAll(c) \/ Observe(c) \/ Look(c) \/ TakeChange(c)
        \/ \E since \in 0 .. versioned.revision : WaitForChange(c, since)
  BY DEF SharedNext
<1>2. CASE (\E by \in {"initialize", "get", "look"} : AskSingleton(c, by))
           \/ EnterOnce(c) \/ ConstructValue(c) \/ PublishValue(c) \/ LeaveOnce(c) \/ Answer(c)
 <2>1. template = "singleton" /\ template' = template
   BY <1>2 DEF AskSingleton, EnterOnce, ConstructValue, PublishValue, LeaveOnce, Answer
 <2>2. SingletonKept BY <2>1 DEF SharedKept
 <2>3. SingletonKept' BY <2>2, <1>2, AskKeeps, EnterKeeps, ConstructKeeps, PublishValueKeeps, LeaveKeeps, AnswerKeeps
 <2> QED BY <2>1, <2>3 DEF SharedKept
<1>3. CASE (\E new \in Values : Set(c, new))
           \/ NotifyAll(c) \/ Observe(c) \/ Look(c) \/ TakeChange(c)
           \/ \E since \in 0 .. versioned.revision : WaitForChange(c, since)
 <2>1. template = "variable" /\ template' = template
   BY <1>3 DEF Set, NotifyAll, Observe, Look, TakeChange, WaitForChange
 <2>2. VariableKept BY <2>1 DEF SharedKept
 <2>3. VariableKept' BY <2>2, <1>3, SetKeeps, NotifyKeeps, ObserveKeeps, LookKeeps, TakeKeeps, WaitKeeps
 <2> QED BY <2>1, <2>3 DEF SharedKept
<1> QED BY <1>1, <1>2, <1>3

LEMMA SharedStays ==
  ASSUME SharedKept, UNCHANGED sharedVars
  PROVE  SharedKept'
<1>1. SingletonKept => SingletonKept' BY DEF sharedVars, SingletonKept, IsMaking, HasWon
<1>2. VariableKept => VariableKept' BY DEF sharedVars, VariableKept, GivenTo
<1> QED BY <1>1, <1>2 DEF SharedKept, sharedVars

LEMMA SharedAgree == SharedKept => SharedAsOne
<1>1. SUFFICES ASSUME SharedKept PROVE SharedAsOne OBVIOUS
<1> DEFINE inside == {c \in Sharers : caller[c].at \in {"make", "made", "published"}}
<1>2. (\A c, d \in inside : c = d) => Cardinality(inside) <= 1
 <2>1. CASE inside = {} BY <2>1, FS_EmptySet
 <2>2. CASE inside # {}
  <3>1. PICK c : c \in inside BY <2>2
  <3>2. ASSUME \A a, b \in inside : a = b PROVE inside = {c} BY <3>1, <3>2
  <3>3. Cardinality({c}) = 1 BY FS_Singleton
  <3> HIDE DEF inside
  <3> QED BY <3>2, <3>3
 <2> QED BY <2>1, <2>2
<1>3. CASE template = "singleton"
 <2>1. SingletonKept BY <1>1, <1>3 DEF SharedKept
 <2>2. \A c, d \in inside : c = d BY <2>1 DEF SingletonKept, IsMaking
 <2>3. \A c \in Sharers : caller[c].at \notin {"asleep", "got"} BY <2>1 DEF SingletonKept, NoCaller, Asking
 <2>4. NoChangeMissed BY <2>3 DEF NoChangeMissed
 <2>5. answers.won <= 1 /\ (answers.last # <<>> => answers.last[2] # "nothing" /\ answers.last # <<"get", "refused">>)
   BY <2>1 DEF SingletonKept
 <2> QED BY <1>2, <2>2, <2>4, <2>5 DEF ConstructedOnce, SharedAsOne
<1>4. CASE template = "variable"
 <2>1. VariableKept BY <1>1, <1>4 DEF SharedKept
 <2>2. \A c, d \in inside : c = d BY <2>1 DEF VariableKept
 <2>3. answers.won = 0 /\ answers.last = <<>> BY <2>1 DEF VariableKept
 <2>4. NoChangeMissed BY <2>1 DEF VariableKept, NoChangeMissed, GivenTo
 <2> QED BY <1>2, <2>2, <2>3, <2>4 DEF ConstructedOnce, SharedAsOne
<1> QED BY <1>1, <1>3, <1>4 DEF SharedKept

\* ---- Windows. ----
Extents == Sizes \cup {MonitorSize, 0}
SizePairs == [logical : Extents, pixels : Extents]
CallFrames ==
  {frame \in [op : {"tell", "resize", "mode"}, channel : {"none", "legacy", "typed"}, size : Extents, keeps : BOOLEAN] :
      frame.op = "tell" => frame.channel # "none"}

WindowTyped ==
  /\ nativeWindow \in SizePairs /\ news \in Seq(SizePairs)
  /\ pane \in [is : {"open", "closed"}, logical : Extents, pixels : Extents, mode : Modes, saved : Extents, failed : BOOLEAN]
  /\ frames \in Seq(CallFrames)
  /\ toldOf \in [legacy : Extents, typed : Extents, nested : BOOLEAN]
  /\ faults \in [thrown : Nat, told : Nat] /\ normal \in Extents
  /\ pane.is = "closed" => pane = Closed /\ frames = <<>> /\ news = <<>>

\* The last callback that is to come brings the window to its sizes, ...
SizesKnown(n, coming, p, left) ==
  /\ coming # <<>> => coming[Len(coming)] = n
  /\ p.is = "open" /\ coming = <<>> => p.logical = n.logical /\ p.pixels = n.pixels
  /\ p.is = "open" /\ coming = <<>> /\ p.mode = "normal" => p.saved = n.logical
  /\ p.is = "open" /\ p.mode # "normal" => p.saved = left

\* ... a call in progress that tells of them is the innermost, unless a
\* listener changed the window again, ...
TellsFirst(calls, pixels, typed) ==
  /\ \A i \in DOMAIN calls : calls[i].op = "tell" => i = 1 /\ calls[i].size = pixels /\ (calls[i].channel = "typed" => typed = pixels)
  /\ calls = <<>> \/ calls[1].op # "tell" => typed = pixels
ChannelsTold(calls, p, said, missed) ==
  /\ p.is = "open" /\ missed = 0 => ~p.failed /\ said.legacy = p.pixels
  /\ p.is = "open" /\ missed = 0 /\ ~said.nested => TellsFirst(calls, p.pixels, said.typed)

\* ... and a failure waits below the callback that kept it, where nobody
\* is being told.
KeepersApart(calls) ==
  \A i \in DOMAIN calls : calls[i].keeps => calls[i].op = "tell" /\ (i + 1 \in DOMAIN calls => calls[i + 1].op # "tell")
FailuresWait(calls, p, f) ==
  /\ KeepersApart(calls)
  /\ calls # <<>> /\ calls[1].op = "tell" => ~p.failed
  /\ f.thrown = f.told + (IF p.failed THEN 1 ELSE 0)

LibraryKept(l) ==
  /\ l \in [displays : Nat, hook : Hosts \cup {"engine"}, host : Hosts, previous : Hosts \cup {"engine", "none"}, errors : Nat, reported : Nat]
  /\ IF l.displays = 0 THEN l.hook = l.host /\ l.reported = l.errors
     ELSE IF l.hook = "engine" THEN l.previous = l.host ELSE l.hook = l.host

WindowKept ==
  /\ WindowTyped
  /\ SizesKnown(nativeWindow, news, pane, normal)
  /\ ChannelsTold(frames, pane, toldOf, faults.thrown)
  /\ FailuresWait(frames, pane, faults)
  /\ LibraryKept(library)

LEMMA WindowBegins == WindowInit => WindowKept
<1>1. SUFFICES ASSUME WindowInit PROVE WindowKept OBVIOUS
<1>2. pane = Closed /\ pane.is = "closed" /\ ~pane.failed /\ pane.failed \in BOOLEAN BY <1>1 DEF WindowInit, Closed
<1>3. nativeWindow \in SizePairs BY <1>1 DEF WindowInit, NoWindow, SizePairs, Extents
<1>4. pane \in [is : {"open", "closed"}, logical : Extents, pixels : Extents, mode : Modes, saved : Extents, failed : BOOLEAN]
  BY <1>2 DEF Closed, Extents, Modes
<1>5. toldOf \in [legacy : Extents, typed : Extents, nested : BOOLEAN] BY <1>1 DEF WindowInit, Extents
<1>6. WindowTyped BY <1>1, <1>2, <1>3, <1>4, <1>5 DEF WindowInit, WindowTyped, Extents
<1>7. LibraryKept(library) BY <1>1 DEF WindowInit, LibraryKept
<1>8. faults.thrown = 0 /\ faults.told = 0 /\ frames = <<>> /\ news = <<>> BY <1>1 DEF WindowInit
<1>9. FailuresWait(frames, pane, faults) BY <1>2, <1>8 DEF FailuresWait, KeepersApart
<1>10. SizesKnown(nativeWindow, news, pane, normal) /\ ChannelsTold(frames, pane, toldOf, faults.thrown)
  BY <1>2, <1>8 DEF SizesKnown, ChannelsTold
<1> QED BY <1>6, <1>7, <1>9, <1>10 DEF WindowKept

\* The library.
LEMMA LibraryKeeps ==
  ASSUME WindowKept, OpenDisplay \/ OpenFails \/ CloseDisplay \/ HostReplaces \/ NativeError
  PROVE  WindowKept'
<1>1. /\ nativeWindow' = nativeWindow /\ news' = news /\ pane' = pane /\ frames' = frames /\ toldOf' = toldOf
      /\ faults' = faults /\ normal' = normal
  BY DEF OpenDisplay, OpenFails, CloseDisplay, HostReplaces, NativeError
<1>2. /\ library \in [displays : Nat, hook : Hosts \cup {"engine"}, host : Hosts, previous : Hosts \cup {"engine", "none"}, errors : Nat, reported : Nat]
      /\ LibraryKept(library)
  BY DEF WindowKept, LibraryKept
<1>3. LibraryKept(library')
 <2>1. CASE OpenDisplay
  <3>1. CASE library.displays = 0
   <4>1. library' = [library EXCEPT !.displays = 1, !.hook = "engine", !.previous = library.hook, !.errors = 0, !.reported = 0]
     BY <2>1, <3>1 DEF OpenDisplay
   <4>2. library.hook = library.host /\ library.hook \in Hosts BY <3>1, <1>2 DEF LibraryKept
   <4>3. /\ library' \in [displays : Nat, hook : Hosts \cup {"engine"}, host : Hosts, previous : Hosts \cup {"engine", "none"}, errors : Nat, reported : Nat]
         /\ library'.displays = 1 /\ library'.hook = "engine" /\ library'.previous = library'.host
     BY <4>1, <4>2, <1>2
   <4> QED BY <4>3 DEF LibraryKept
  <3>2. CASE library.displays # 0
   <4>1. library' = [library EXCEPT !.displays = @ + 1] BY <2>1, <3>2 DEF OpenDisplay
   <4> QED BY <4>1, <3>2, <1>2 DEF LibraryKept
  <3> QED BY <3>1, <3>2
 <2>2. CASE OpenFails
  <3>1. library' = [library EXCEPT !.errors = 1, !.reported = 1] /\ library.displays = 0 BY <2>2 DEF OpenFails
  <3> QED BY <3>1, <1>2 DEF LibraryKept
 <2>3. CASE CloseDisplay
  <3>1. CASE library.displays = 1
   <4>1. library' = [library EXCEPT !.displays = 0, !.hook = RestoredHook, !.previous = "none", !.reported = library.errors]
     BY <2>3, <3>1 DEF CloseDisplay
   <4>2. RestoredHook = library.host /\ RestoredHook \in Hosts BY <3>1, <1>2 DEF RestoredHook, LibraryKept
   <4> QED BY <4>1, <4>2, <1>2 DEF LibraryKept
  <3>2. CASE library.displays # 1
   <4>1. library' = [library EXCEPT !.displays = @ - 1, !.reported = library.errors] /\ library.displays > 1
     BY <2>3, <3>2, <1>2 DEF CloseDisplay
   <4>5. library.displays - 1 \in Nat /\ library.displays - 1 # 0 BY <4>1, <1>2
   <4>2. /\ library' \in [displays : Nat, hook : Hosts \cup {"engine"}, host : Hosts, previous : Hosts \cup {"engine", "none"}, errors : Nat, reported : Nat]
         /\ library'.displays # 0 /\ library'.hook = library.hook /\ library'.previous = library.previous /\ library'.host = library.host
     BY <4>1, <4>5, <1>2
   <4> QED BY <4>1, <4>2, <1>2 DEF LibraryKept
  <3> QED BY <3>1, <3>2
 <2>4. CASE HostReplaces
  <3>1. PICK h \in Hosts : library' = [library EXCEPT !.hook = h, !.host = h] /\ library.displays > 0
    BY <2>4 DEF HostReplaces
  <3> QED BY <3>1, <1>2, HostAssumption DEF LibraryKept
 <2>5. CASE NativeError
  <3>1. library' = [library EXCEPT !.errors = @ + 1] /\ library.displays > 0 BY <2>5 DEF NativeError
  <3> QED BY <3>1, <1>2 DEF LibraryKept
 <2> QED BY <2>1, <2>2, <2>3, <2>4, <2>5
<1> QED BY <1>1, <1>3 DEF WindowKept, WindowTyped

LEMMA CreateKeeps ==
  ASSUME WindowKept, CreateWindow
  PROVE  WindowKept'
<1>1. PICK s \in Sizes :
        /\ pane.is = "closed" /\ nativeWindow' = SizeOf(s) /\ news' = <<>> /\ normal' = s
        /\ pane' = [is |-> "open", logical |-> s, pixels |-> s, mode |-> "normal", saved |-> s, failed |-> FALSE]
        /\ toldOf' = [legacy |-> s, typed |-> s, nested |-> FALSE]
        /\ frames' = frames /\ faults' = faults /\ library' = library
  BY DEF CreateWindow
<1>2. s \in Extents /\ frames = <<>> /\ ~pane.failed /\ WindowTyped BY <1>1 DEF WindowKept, WindowTyped, Closed, Extents
<1>3. nativeWindow' \in SizePairs /\ nativeWindow'.logical = s /\ nativeWindow'.pixels = s
  BY <1>1, <1>2 DEF SizePairs, SizeOf
<1>4. /\ pane' \in [is : {"open", "closed"}, logical : Extents, pixels : Extents, mode : Modes, saved : Extents, failed : BOOLEAN]
      /\ pane'.is = "open" /\ pane'.logical = s /\ pane'.pixels = s /\ pane'.mode = "normal" /\ pane'.saved = s /\ ~pane'.failed
  BY <1>1, <1>2 DEF Modes
<1>5. toldOf' \in [legacy : Extents, typed : Extents, nested : BOOLEAN] /\ toldOf'.legacy = s /\ toldOf'.typed = s
  BY <1>1, <1>2
<1>6. WindowTyped' BY <1>1, <1>2, <1>3, <1>4, <1>5 DEF WindowTyped
<1>7. SizesKnown(nativeWindow', news', pane', normal') BY <1>1, <1>3, <1>4 DEF SizesKnown
<1>8. ChannelsTold(frames', pane', toldOf', faults'.thrown) BY <1>1, <1>2, <1>4, <1>5 DEF ChannelsTold, TellsFirst
<1>9. FailuresWait(frames', pane', faults') BY <1>1, <1>2, <1>4 DEF WindowKept, FailuresWait
<1> QED BY <1>1, <1>6, <1>7, <1>8, <1>9 DEF WindowKept

LEMMA DestroyKeeps ==
  ASSUME WindowKept, DestroyWindow
  PROVE  WindowKept'
<1>1. /\ nativeWindow' = NoWindow /\ news' = <<>> /\ pane' = Closed /\ frames = <<>> /\ frames' = frames
      /\ faults' = [faults EXCEPT !.told = IF pane.failed THEN @ + 1 ELSE @]
      /\ toldOf' = toldOf /\ normal' = normal /\ library' = library
  BY DEF DestroyWindow
<1>2. faults \in [thrown : Nat, told : Nat] /\ pane.failed \in BOOLEAN /\ FailuresWait(frames, pane, faults)
  BY DEF WindowKept, WindowTyped
<1>3. nativeWindow' \in SizePairs BY <1>1 DEF NoWindow, SizePairs, Extents
<1>4. /\ pane' \in [is : {"open", "closed"}, logical : Extents, pixels : Extents, mode : Modes, saved : Extents, failed : BOOLEAN]
      /\ pane'.is = "closed" /\ ~pane'.failed
  BY <1>1 DEF Closed, Extents, Modes
<1>5. faults' \in [thrown : Nat, told : Nat] /\ faults'.thrown = faults'.told
 <2>1. CASE pane.failed
  <3>1. faults' = [faults EXCEPT !.told = @ + 1] BY <1>1, <2>1
  <3> QED BY <3>1, <2>1, <1>2 DEF FailuresWait
 <2>2. CASE ~pane.failed
  <3>1. faults' = faults BY <1>1, <1>2, <2>2
  <3> QED BY <3>1, <2>2, <1>2 DEF FailuresWait
 <2> QED BY <2>1, <2>2
<1>6. WindowTyped' BY <1>1, <1>3, <1>4, <1>5 DEF WindowKept, WindowTyped
<1>7. SizesKnown(nativeWindow', news', pane', normal') /\ ChannelsTold(frames', pane', toldOf', faults'.thrown)
  BY <1>1, <1>4 DEF SizesKnown, ChannelsTold
<1>8. FailuresWait(frames', pane', faults') BY <1>1, <1>4, <1>5 DEF FailuresWait, KeepersApart
<1> QED BY <1>1, <1>6, <1>7, <1>8 DEF WindowKept

\* Sizes.
LEMMA Becoming ==
  ASSUME NEW after \in SizePairs, WindowTyped, pane.is = "open", Becomes(after)
  PROVE  /\ nativeWindow' \in SizePairs /\ nativeWindow' = after /\ news' \in Seq(SizePairs)
         /\ (news' # <<>> => news'[Len(news')] = nativeWindow') \/ (news' = news /\ nativeWindow' = nativeWindow)
         /\ news' = <<>> => nativeWindow' = nativeWindow /\ news' = news
<1>1. news \in Seq(SizePairs) BY DEF WindowTyped
<1>2. CASE after = nativeWindow BY <1>1, <1>2 DEF Becomes
<1>3. CASE after # nativeWindow
 <2>1. nativeWindow' = after /\ news' = Append(news, after) BY <1>3 DEF Becomes
 <2>2. news' \in Seq(SizePairs) /\ Len(news') = Len(news) + 1 /\ news'[Len(news) + 1] = after /\ Len(news) \in Nat
   BY <1>1, <2>1
 <2>3. news' # <<>> BY <2>2
 <2> QED BY <2>1, <2>2, <2>3
<1> QED BY <1>2, <1>3

LEMMA UserKeeps ==
  ASSUME WindowKept, UserResizes
  PROVE  WindowKept'
<1>1. PICK n \in Sizes, p \in Sizes :
        /\ pane.is = "open" /\ frames = <<>> /\ Becomes([logical |-> n, pixels |-> p])
        /\ pane' = pane /\ frames' = frames /\ toldOf' = toldOf /\ faults' = faults /\ normal' = normal /\ library' = library
  BY DEF UserResizes
<1>2. PICK after \in SizePairs : after = [logical |-> n, pixels |-> p] BY DEF SizePairs, Extents
<1>3. /\ nativeWindow' \in SizePairs /\ news' \in Seq(SizePairs)
      /\ (news' # <<>> => news'[Len(news')] = nativeWindow') \/ (news' = news /\ nativeWindow' = nativeWindow)
      /\ news' = <<>> => nativeWindow' = nativeWindow /\ news' = news
  BY <1>1, <1>2, Becoming DEF WindowKept
<1>4. WindowTyped' BY <1>1, <1>3 DEF WindowKept, WindowTyped
<1>5. SizesKnown(nativeWindow', news', pane', normal') BY <1>1, <1>3 DEF WindowKept, SizesKnown
<1> QED BY <1>1, <1>4, <1>5 DEF WindowKept

\* What a callback or a return puts on top of the calls.
LEMMA CallsPushed ==
  ASSUME NEW calls \in Seq(CallFrames), NEW o \in CallFrames
  PROVE  /\ <<o>> \o calls \in Seq(CallFrames) /\ <<o>> \o calls # <<>> /\ (<<o>> \o calls)[1] = o
         /\ \A i \in DOMAIN (<<o>> \o calls) : i # 1 => i - 1 \in DOMAIN calls /\ (<<o>> \o calls)[i] = calls[i - 1]
         /\ \A i \in DOMAIN calls : i + 1 \in DOMAIN (<<o>> \o calls)
         /\ DOMAIN (<<o>> \o calls) = 1 .. Len(calls) + 1
<1> DEFINE u == <<o>> \o calls
<1>1. <<o>> \in Seq(CallFrames) /\ Len(<<o>>) = 1 /\ <<o>>[1] = o OBVIOUS
<1>2. u \in Seq(CallFrames) /\ Len(u) = Len(calls) + 1 /\ DOMAIN u = 1 .. Len(calls) + 1 /\ Len(calls) \in Nat /\ DOMAIN calls = 1 .. Len(calls)
  BY <1>1
<1>3. u[1] = o /\ \A i \in 2 .. Len(calls) + 1 : u[i] = calls[i - 1] BY <1>1, <1>2
<1> HIDE DEF u
<1>4. u # <<>> BY <1>2
<1>5. ASSUME NEW i \in DOMAIN u, i # 1 PROVE i - 1 \in DOMAIN calls /\ u[i] = calls[i - 1]
 <2>1. i \in 2 .. Len(calls) + 1 /\ i - 1 \in 1 .. Len(calls) BY <1>2, <1>5
 <2> QED BY <2>1, <1>2, <1>3
<1>6. \A i \in DOMAIN calls : i + 1 \in DOMAIN u BY <1>2
<1> QED BY <1>2, <1>3, <1>4, <1>5, <1>6 DEF u

LEMMA CallsPopped ==
  ASSUME NEW calls \in Seq(CallFrames), calls # <<>>
  PROVE  /\ Tail(calls) \in Seq(CallFrames) /\ Head(calls) = calls[1] /\ calls[1] \in CallFrames /\ 1 \in DOMAIN calls
         /\ \A i \in DOMAIN Tail(calls) : i + 1 \in DOMAIN calls /\ Tail(calls)[i] = calls[i + 1] /\ i \in Nat /\ i > 0
         /\ \A i \in DOMAIN calls : i > 1 => i - 1 \in DOMAIN Tail(calls)
         /\ DOMAIN Tail(calls) \subseteq DOMAIN calls
<1>1. Len(calls) \in Nat /\ Len(calls) >= 1 /\ DOMAIN calls = 1 .. Len(calls) OBVIOUS
<1>2. Tail(calls) \in Seq(CallFrames) /\ Len(Tail(calls)) = Len(calls) - 1 /\ DOMAIN Tail(calls) = 1 .. Len(calls) - 1
  BY <1>1
<1>3. \A i \in 1 .. Len(calls) - 1 : Tail(calls)[i] = calls[i + 1] BY <1>1, <1>2
<1> QED BY <1>1, <1>2, <1>3

LEMMA KeepersPushed ==
  ASSUME NEW calls \in Seq(CallFrames), KeepersApart(calls), NEW o \in CallFrames,
         o.keeps => o.op = "tell" /\ (calls # <<>> => calls[1].op # "tell")
  PROVE  KeepersApart(<<o>> \o calls)
<1> DEFINE u == <<o>> \o calls
<1>1. /\ u[1] = o /\ (\A i \in DOMAIN u : i # 1 => i - 1 \in DOMAIN calls /\ u[i] = calls[i - 1])
      /\ DOMAIN u = 1 .. Len(calls) + 1 /\ DOMAIN calls = 1 .. Len(calls) /\ Len(calls) \in Nat
  BY CallsPushed
<1> HIDE DEF u
<1>2. SUFFICES ASSUME NEW i \in DOMAIN u, u[i].keeps
      PROVE u[i].op = "tell" /\ (i + 1 \in DOMAIN u => u[i + 1].op # "tell")
  BY DEF KeepersApart, u
<1>3. CASE i = 1
 <2>1. 2 \in DOMAIN u => u[2] = calls[1] /\ calls # <<>> BY <1>1
 <2> QED BY <2>1, <1>1, <1>2, <1>3
<1>4. CASE i # 1
 <2>1. i - 1 \in DOMAIN calls /\ u[i] = calls[i - 1] BY <1>1, <1>2, <1>4
 <2>2. i + 1 \in DOMAIN u => i \in DOMAIN calls /\ u[i + 1] = calls[i] /\ (i - 1) + 1 = i BY <1>1, <1>2, <1>4
 <2> QED BY <2>1, <2>2, <1>2 DEF KeepersApart
<1> QED BY <1>3, <1>4

LEMMA KeepersPopped ==
  ASSUME NEW calls \in Seq(CallFrames), KeepersApart(calls), calls # <<>>
  PROVE  KeepersApart(Tail(calls))
<1> DEFINE u == Tail(calls)
<1>1. \A i \in DOMAIN u : i + 1 \in DOMAIN calls /\ u[i] = calls[i + 1] /\ i \in Nat BY CallsPopped
<1> HIDE DEF u
<1>2. SUFFICES ASSUME NEW i \in DOMAIN u, u[i].keeps
      PROVE u[i].op = "tell" /\ (i + 1 \in DOMAIN u => u[i + 1].op # "tell")
  BY DEF KeepersApart, u
<1>3. calls[i + 1].keeps /\ i + 1 \in DOMAIN calls BY <1>1, <1>2
<1>4. i + 1 \in DOMAIN u => (i + 1) + 1 \in DOMAIN calls /\ u[i + 1] = calls[(i + 1) + 1] BY <1>1
<1> QED BY <1>1, <1>2, <1>3, <1>4 DEF KeepersApart

LEMMA LeftBelow ==
  ASSUME NEW calls \in Seq(CallFrames), KeepersApart(calls), NEW k \in DOMAIN calls, calls[k].keeps
  PROVE  /\ SubSeq(calls, k + 1, Len(calls)) \in Seq(CallFrames)
         /\ KeepersApart(SubSeq(calls, k + 1, Len(calls)))
         /\ SubSeq(calls, k + 1, Len(calls)) # <<>> => SubSeq(calls, k + 1, Len(calls))[1].op # "tell"
<1> DEFINE u == SubSeq(calls, k + 1, Len(calls))
<1>1. Len(calls) \in Nat /\ DOMAIN calls = 1 .. Len(calls) /\ k \in 1 .. Len(calls) OBVIOUS
<1>2. u \in Seq(CallFrames) /\ Len(u) = Len(calls) - k /\ DOMAIN u = 1 .. Len(calls) - k BY <1>1
<1>3. \A i \in 1 .. Len(calls) - k : u[i] = calls[k + i] BY <1>1
<1> HIDE DEF u
<1>4. \A i \in DOMAIN u : i \in Nat /\ k + i \in DOMAIN calls /\ u[i] = calls[k + i] BY <1>1, <1>2, <1>3
<1>5. KeepersApart(u)
 <2>1. SUFFICES ASSUME NEW i \in DOMAIN u, u[i].keeps
       PROVE u[i].op = "tell" /\ (i + 1 \in DOMAIN u => u[i + 1].op # "tell")
   BY DEF KeepersApart
 <2>2. calls[k + i].keeps /\ k + i \in DOMAIN calls /\ u[i] = calls[k + i] BY <1>4, <2>1
 <2>3. i + 1 \in DOMAIN u => (k + i) + 1 \in DOMAIN calls /\ u[i + 1] = calls[(k + i) + 1] BY <1>1, <1>4, <2>1
 <2> QED BY <2>2, <2>3 DEF KeepersApart
<1>6. u # <<>> => u[1].op # "tell"
 <2>1. SUFFICES ASSUME u # <<>> PROVE u[1].op # "tell" OBVIOUS
 <2>2. 1 \in DOMAIN u BY <1>2, <2>1
 <2>3. k + 1 \in DOMAIN calls /\ u[1] = calls[k + 1] BY <1>4, <2>2
 <2> QED BY <2>3 DEF KeepersApart
<1> QED BY <1>2, <1>5, <1>6 DEF u

Panes == [is : {"open", "closed"}, logical : Extents, pixels : Extents, mode : Modes, saved : Extents, failed : BOOLEAN]

LEMMA ThrowKeeps ==
  ASSUME WindowKept, NEW newly \in {0, 1}, NEW after \in Panes, after.is = "open", ThrowFrom(newly, after),
         newly = 0 <=> pane.failed,
         nativeWindow' = nativeWindow, news' = news, toldOf' = toldOf, normal' = normal, LibraryKept(library'),
         SizesKnown(nativeWindow, news, after, normal)
  PROVE  WindowKept'
<1>1. WindowTyped /\ FailuresWait(frames, pane, faults) BY DEF WindowKept
<1>2. frames \in Seq(CallFrames) /\ faults \in [thrown : Nat, told : Nat] /\ KeepersApart(frames)
  BY <1>1 DEF WindowTyped, FailuresWait
<1>3. PICK still \in BOOLEAN : pane' = [after EXCEPT !.failed = still] /\ (still <=> Keepers # {}) BY DEF ThrowFrom
<1>4. /\ pane' \in Panes /\ pane'.is = "open" /\ pane'.logical = after.logical /\ pane'.pixels = after.pixels
      /\ pane'.mode = after.mode /\ pane'.saved = after.saved /\ (pane'.failed <=> still)
  BY <1>3 DEF Panes
<1>5. faults.thrown + newly = faults.told + 1 BY <1>1, <1>2 DEF FailuresWait
<1>6. SizesKnown(nativeWindow', news', pane', normal') BY <1>4 DEF SizesKnown
<1>7. /\ frames' \in Seq(CallFrames) /\ KeepersApart(frames') /\ (frames' # <<>> => frames'[1].op # "tell")
      /\ faults' \in [thrown : Nat, told : Nat] /\ faults'.thrown = faults'.told + (IF still THEN 1 ELSE 0) /\ faults'.thrown > 0
 <2>1. CASE Keepers = {}
  <3>1. frames' = <<>> /\ faults' = [thrown |-> faults.thrown + newly, told |-> faults.told + 1] BY <2>1 DEF ThrowFrom
  <3>2. ~still BY <1>3, <2>1
  <3>3. KeepersApart(frames') BY <3>1 DEF KeepersApart
  <3>4. faults' \in [thrown : Nat, told : Nat] /\ faults'.thrown = faults'.told /\ faults'.thrown > 0
    BY <3>1, <1>2, <1>5
  <3> QED BY <3>1, <3>2, <3>3, <3>4
 <2>2. CASE Keepers # {}
  <3>1. PICK k \in Keepers : frames' = SubSeq(frames, k + 1, Len(frames)) /\ faults' = [faults EXCEPT !.thrown = @ + newly]
    BY <2>2 DEF ThrowFrom
  <3>2. k \in DOMAIN frames /\ frames[k].keeps BY <3>1 DEF Keepers
  <3>3. still BY <1>3, <2>2
  <3>4. faults' \in [thrown : Nat, told : Nat] /\ faults'.thrown = faults'.told + 1 /\ faults'.thrown > 0
    BY <3>1, <1>2, <1>5
  <3>5. frames' \in Seq(CallFrames) /\ KeepersApart(frames') /\ (frames' # <<>> => frames'[1].op # "tell")
    BY <3>1, <3>2, <1>2, LeftBelow
  <3> QED BY <3>3, <3>4, <3>5
 <2> QED BY <2>1, <2>2
<1>8. FailuresWait(frames', pane', faults') BY <1>4, <1>7 DEF FailuresWait
<1>9. ChannelsTold(frames', pane', toldOf', faults'.thrown) BY <1>7 DEF ChannelsTold
<1>10. WindowTyped' BY <1>1, <1>4, <1>7 DEF WindowTyped, Panes
<1> QED BY <1>6, <1>8, <1>9, <1>10 DEF WindowKept

LEMMA NewsTaken ==
  ASSUME NEW s \in Seq(SizePairs), s # <<>>, NEW n, s[Len(s)] = n
  PROVE  /\ Head(s) \in SizePairs /\ Tail(s) \in Seq(SizePairs)
         /\ Tail(s) = <<>> => Head(s) = n
         /\ Tail(s) # <<>> => Tail(s)[Len(Tail(s))] = n
<1>1. Len(s) \in Nat /\ Len(s) >= 1 /\ Head(s) = s[1] /\ Tail(s) \in Seq(SizePairs) /\ Len(Tail(s)) = Len(s) - 1 OBVIOUS
<1>2. \A i \in 1 .. Len(s) - 1 : Tail(s)[i] = s[i + 1] BY <1>1
<1>3. Head(s) \in SizePairs OBVIOUS
<1>4. Tail(s) = <<>> <=> Len(s) = 1
 <2>1. \A q \in Seq(SizePairs) : q = <<>> <=> Len(q) = 0 OBVIOUS
 <2>2. Tail(s) = <<>> <=> Len(Tail(s)) = 0 BY <2>1, <1>1, Zenon
 <2>3. Len(Tail(s)) = Len(s) - 1 /\ Len(s) \in Nat BY <1>1
 <2> QED BY <2>2, <2>3
<1>5. CASE Len(s) = 1 BY <1>1, <1>3, <1>4, <1>5
<1>6. CASE Len(s) > 1
 <2>1. Len(s) - 1 \in 1 .. Len(s) - 1 /\ (Len(s) - 1) + 1 = Len(s) BY <1>1, <1>6
 <2>2. Tail(s)[Len(s) - 1] = s[Len(s)] BY <2>1, <1>2
 <2> QED BY <1>1, <1>3, <1>4, <1>6, <2>2
<1> QED BY <1>1, <1>5, <1>6

LEMMA CallbackKeeps ==
  ASSUME WindowKept, SizeCallback
  PROVE  WindowKept'
<1>1. WindowTyped /\ pane.is = "open" /\ news # <<>> /\ (frames = <<>> \/ Inside) BY DEF WindowKept, SizeCallback
<1>2. PICK size : size = Head(news) OBVIOUS
<1>3. PICK tells \in BOOLEAN : tells <=> ~pane.failed /\ pane.pixels # size.pixels OBVIOUS
<1>4. PICK saved : saved = IF pane.mode = "normal" THEN size.logical ELSE pane.saved OBVIOUS
<1>5. pane \in Panes /\ frames \in Seq(CallFrames) /\ news \in Seq(SizePairs) /\ news[Len(news)] = nativeWindow
  BY <1>1 DEF WindowTyped, Panes, WindowKept, SizesKnown
<1>6. /\ size \in SizePairs /\ Tail(news) \in Seq(SizePairs)
      /\ Tail(news) = <<>> => size = nativeWindow
      /\ Tail(news) # <<>> => Tail(news)[Len(Tail(news))] = nativeWindow
  BY <1>1, <1>2, <1>5, NewsTaken
<1>7. size.logical \in Extents /\ size.pixels \in Extents BY <1>6 DEF SizePairs
<1>8. /\ pane' = [pane EXCEPT !.logical = size.logical, !.pixels = size.pixels, !.saved = saved]
      /\ news' = Tail(news) /\ nativeWindow' = nativeWindow /\ faults' = faults /\ normal' = normal /\ library' = library
  BY <1>2, <1>4 DEF SizeCallback
<1>9. saved \in Extents BY <1>4, <1>5, <1>7 DEF Panes
<1>10. /\ pane' \in Panes /\ pane'.is = "open" /\ pane'.logical = size.logical /\ pane'.pixels = size.pixels
       /\ pane'.mode = pane.mode /\ pane'.saved = saved /\ (pane'.failed <=> pane.failed)
  BY <1>1, <1>5, <1>7, <1>8, <1>9 DEF Panes
<1>11. SizesKnown(nativeWindow', news', pane', normal')
 <2>1. pane.mode # "normal" => pane.saved = normal BY <1>1 DEF WindowKept, SizesKnown
 <2> QED BY <1>4, <1>6, <1>8, <1>10, <2>1 DEF SizesKnown
<1>12. frames = <<>> \/ frames[1].op # "tell" BY <1>1, <1>5 DEF Inside
<1>13. PICK o : o = Telling(size.pixels, TRUE) OBVIOUS
<1>14. o \in CallFrames /\ o.op = "tell" /\ o.channel = "legacy" /\ o.size = size.pixels
  BY <1>7, <1>13 DEF Telling, CallFrames
<1>15. CASE tells
 <2>1. frames' = <<o>> \o frames /\ toldOf' = [toldOf EXCEPT !.legacy = size.pixels]
   BY <1>2, <1>3, <1>13, <1>15 DEF SizeCallback
 <2>2. /\ frames' \in Seq(CallFrames) /\ frames' # <<>> /\ frames'[1] = o
       /\ \A i \in DOMAIN frames' : i # 1 => i - 1 \in DOMAIN frames /\ frames'[i] = frames[i - 1]
   BY <2>1, <1>5, <1>14, CallsPushed
 <2>3. /\ toldOf' \in [legacy : Extents, typed : Extents, nested : BOOLEAN] /\ toldOf'.legacy = size.pixels
       /\ toldOf'.typed = toldOf.typed /\ (toldOf'.nested <=> toldOf.nested)
   BY <2>1, <1>1, <1>7 DEF WindowTyped
 <2>4. KeepersApart(frames') BY <2>1, <1>5, <1>12, <1>14, KeepersPushed DEF WindowKept, FailuresWait
 <2>5. FailuresWait(frames', pane', faults') BY <2>4, <1>3, <1>8, <1>10, <1>15 DEF WindowKept, FailuresWait
 <2>6. ChannelsTold(frames', pane', toldOf', faults'.thrown)
  <3>1. faults.thrown = 0 /\ ~toldOf.nested => \A i \in DOMAIN frames : frames[i].op # "tell"
    BY <1>1, <1>12 DEF WindowKept, ChannelsTold, TellsFirst
  <3>2. faults.thrown = 0 /\ ~toldOf.nested => TellsFirst(frames', size.pixels, toldOf.typed)
    BY <3>1, <2>2, <1>14 DEF TellsFirst
  <3> QED BY <3>2, <2>3, <1>3, <1>8, <1>10, <1>15 DEF ChannelsTold
 <2>7. WindowTyped' BY <2>2, <2>3, <1>1, <1>6, <1>8, <1>10 DEF WindowTyped, Panes
 <2> QED BY <2>5, <2>6, <2>7, <1>8, <1>11 DEF WindowKept
<1>16. CASE ~tells
 <2>1. frames' = frames /\ toldOf' = toldOf BY <1>2, <1>3, <1>16 DEF SizeCallback
 <2>2. FailuresWait(frames', pane', faults') BY <2>1, <1>8, <1>10 DEF WindowKept, FailuresWait
 <2>3. ~pane.failed => size.pixels = pane.pixels BY <1>3, <1>16
 <2>4. ChannelsTold(frames', pane', toldOf', faults'.thrown)
   BY <2>1, <2>3, <1>1, <1>8, <1>10 DEF WindowKept, ChannelsTold
 <2>5. WindowTyped' BY <2>1, <1>1, <1>6, <1>8, <1>10 DEF WindowTyped, Panes
 <2> QED BY <2>2, <2>4, <2>5, <1>8, <1>11 DEF WindowKept
<1> QED BY <1>15, <1>16

LEMMA PushKeeps ==
  ASSUME WindowTyped, FailuresWait(frames, pane, faults), frames = <<>> \/ Listening, NEW o \in CallFrames, o.op # "tell", ~o.keeps,
         ~pane.failed, NEW after, ~after.failed,
         toldOf' = [toldOf EXCEPT !.nested = @ \/ Listening], pane.is = "open",
         after.is = "open", after.pixels = pane.pixels, ChannelsTold(frames, pane, toldOf, faults.thrown)
  PROVE  /\ <<o>> \o frames \in Seq(CallFrames) /\ toldOf' \in [legacy : Extents, typed : Extents, nested : BOOLEAN]
         /\ FailuresWait(<<o>> \o frames, after, faults)
         /\ ChannelsTold(<<o>> \o frames, after, toldOf', faults.thrown)
<1>1. frames \in Seq(CallFrames) /\ KeepersApart(frames) BY DEF WindowTyped, FailuresWait
<1>2. PICK u : u = <<o>> \o frames OBVIOUS
<1>3. /\ u \in Seq(CallFrames) /\ u # <<>> /\ u[1] = o
      /\ \A i \in DOMAIN u : i # 1 => i - 1 \in DOMAIN frames /\ u[i] = frames[i - 1]
  BY <1>1, <1>2, CallsPushed
<1>4. KeepersApart(u) BY <1>1, <1>2, KeepersPushed
<1>5. FailuresWait(u, after, faults) BY <1>3, <1>4 DEF FailuresWait
<1>6. /\ toldOf' \in [legacy : Extents, typed : Extents, nested : BOOLEAN] /\ toldOf'.legacy = toldOf.legacy /\ toldOf'.typed = toldOf.typed
      /\ (toldOf'.nested <=> toldOf.nested \/ Listening)
 <2>1. toldOf \in [legacy : Extents, typed : Extents, nested : BOOLEAN] BY DEF WindowTyped
 <2>2. (toldOf.nested \/ Listening) \in BOOLEAN OBVIOUS
 <2> QED BY <2>1, <2>2
<1>7. faults.thrown = 0 /\ ~toldOf'.nested => TellsFirst(u, pane.pixels, toldOf.typed)
 <2>1. SUFFICES ASSUME faults.thrown = 0, ~toldOf'.nested PROVE TellsFirst(u, pane.pixels, toldOf.typed) OBVIOUS
 <2>2. frames = <<>> /\ toldOf.typed = pane.pixels BY <2>1, <1>6 DEF ChannelsTold, TellsFirst
 <2>3. \A i \in DOMAIN u : u[i].op # "tell" BY <2>2, <1>3
 <2> QED BY <2>2, <2>3 DEF TellsFirst
<1>8. ChannelsTold(u, after, toldOf', faults.thrown) BY <1>6, <1>7 DEF ChannelsTold
<1> QED BY <1>2, <1>3, <1>5, <1>6, <1>8

LEMMA ResizeKeeps ==
  ASSUME WindowKept, Resize
  PROVE  WindowKept'
<1>1. PICK s \in Sizes :
        /\ MayRequest /\ normal' = normal /\ library' = library
        /\ IF pane.failed THEN Throw(0) /\ UNCHANGED <<nativeWindow, news, toldOf>>
           ELSE /\ Becomes(SizeOf(s)) /\ frames' = <<Native("resize")>> \o frames
                /\ toldOf' = [toldOf EXCEPT !.nested = @ \/ Listening]
                /\ UNCHANGED <<pane, faults>>
  BY DEF Resize
<1>2. pane.is = "open" /\ (frames = <<>> \/ Listening) /\ WindowTyped /\ pane \in Panes
  BY <1>1 DEF MayRequest, WindowKept, WindowTyped, Panes
<1>3. CASE pane.failed
 <2>1. ThrowFrom(0, pane) /\ nativeWindow' = nativeWindow /\ news' = news /\ toldOf' = toldOf BY <1>1, <1>3 DEF Throw
 <2>2. LibraryKept(library') /\ SizesKnown(nativeWindow, news, pane, normal) BY <1>1 DEF WindowKept
 <2> QED BY <2>1, <2>2, <1>1, <1>2, <1>3, ThrowKeeps
<1>4. CASE ~pane.failed
 <2>1. PICK o : o = Native("resize") OBVIOUS
 <2>2. o \in CallFrames /\ o.op # "tell" /\ ~o.keeps BY <2>1 DEF Native, CallFrames, Extents
 <2>3. /\ Becomes(SizeOf(s)) /\ frames' = <<o>> \o frames /\ pane' = pane /\ faults' = faults
       /\ toldOf' = [toldOf EXCEPT !.nested = @ \/ Listening]
   BY <2>1, <1>1, <1>4
 <2>4. SizeOf(s) \in SizePairs BY DEF SizeOf, SizePairs, Extents
 <2>5. /\ nativeWindow' \in SizePairs /\ news' \in Seq(SizePairs)
       /\ (news' # <<>> => news'[Len(news')] = nativeWindow') \/ (news' = news /\ nativeWindow' = nativeWindow)
       /\ news' = <<>> => nativeWindow' = nativeWindow /\ news' = news
   BY <2>3, <2>4, <1>2, Becoming
 <2>6. SizesKnown(nativeWindow', news', pane', normal') BY <1>1, <2>3, <2>5 DEF WindowKept, SizesKnown
 <2>7. /\ frames' \in Seq(CallFrames) /\ toldOf' \in [legacy : Extents, typed : Extents, nested : BOOLEAN]
       /\ FailuresWait(frames', pane', faults') /\ ChannelsTold(frames', pane', toldOf', faults'.thrown)
   BY <2>2, <2>3, <1>2, <1>4, PushKeeps DEF WindowKept
 <2>8. WindowTyped' BY <2>3, <2>5, <2>7, <1>1, <1>2 DEF WindowTyped
 <2> QED BY <2>6, <2>7, <2>8, <1>1 DEF WindowKept
<1> QED BY <1>3, <1>4

LEMMA SetModeKeeps ==
  ASSUME WindowKept, SetMode
  PROVE  WindowKept'
<1>1. PICK saved : saved = IF pane.mode = "normal" THEN nativeWindow.logical ELSE pane.saved OBVIOUS
<1>2. PICK m \in Modes \ {pane.mode} :
        /\ MayRequest /\ library' = library
        /\ IF pane.failed THEN Throw(0) /\ UNCHANGED <<nativeWindow, news, toldOf, normal>>
           ELSE /\ Becomes(SizeOf(IF m = "fullscreen" THEN MonitorSize ELSE saved))
                /\ pane' = [pane EXCEPT !.mode = m, !.saved = saved]
                /\ normal' = IF pane.mode = "normal" THEN nativeWindow.logical ELSE normal
                /\ frames' = <<Native("mode")>> \o frames
                /\ toldOf' = [toldOf EXCEPT !.nested = @ \/ Listening]
                /\ UNCHANGED faults
  BY <1>1 DEF SetMode
<1>3. pane.is = "open" /\ (frames = <<>> \/ Listening) /\ WindowTyped /\ pane \in Panes /\ nativeWindow \in SizePairs /\ normal \in Extents
  BY <1>2 DEF MayRequest, WindowKept, WindowTyped, Panes
<1>4. CASE pane.failed
 <2>1. ThrowFrom(0, pane) /\ nativeWindow' = nativeWindow /\ news' = news /\ toldOf' = toldOf /\ normal' = normal
   BY <1>2, <1>4 DEF Throw
 <2>2. LibraryKept(library') /\ SizesKnown(nativeWindow, news, pane, normal) BY <1>2 DEF WindowKept
 <2> QED BY <2>1, <2>2, <1>2, <1>3, <1>4, ThrowKeeps
<1>5. CASE ~pane.failed
 <2>1. PICK o : o = Native("mode") OBVIOUS
 <2>2. o \in CallFrames /\ o.op # "tell" /\ ~o.keeps BY <2>1 DEF Native, CallFrames, Extents
 <2>3. PICK size : size = SizeOf(IF m = "fullscreen" THEN MonitorSize ELSE saved) OBVIOUS
 <2>4. /\ Becomes(size) /\ frames' = <<o>> \o frames /\ faults' = faults
       /\ pane' = [pane EXCEPT !.mode = m, !.saved = saved]
       /\ normal' = IF pane.mode = "normal" THEN nativeWindow.logical ELSE normal
       /\ toldOf' = [toldOf EXCEPT !.nested = @ \/ Listening]
   BY <2>1, <2>3, <1>2, <1>5
 <2>5. saved \in Extents /\ nativeWindow.logical \in Extents BY <1>1, <1>3 DEF Panes, SizePairs
 <2>6. size \in SizePairs /\ (m = "normal" => size.logical = saved)
  <3>1. (IF m = "fullscreen" THEN MonitorSize ELSE saved) \in Extents BY <2>5 DEF Extents
  <3> QED BY <3>1, <2>3 DEF SizeOf, SizePairs
 <2>7. /\ nativeWindow' \in SizePairs /\ nativeWindow' = size /\ news' \in Seq(SizePairs)
       /\ (news' # <<>> => news'[Len(news')] = nativeWindow') \/ (news' = news /\ nativeWindow' = nativeWindow)
       /\ news' = <<>> => nativeWindow' = nativeWindow /\ news' = news
   BY <2>4, <2>6, <1>3, Becoming
 <2>8. m \in Modes OBVIOUS
 <2>9. /\ pane' \in Panes /\ pane'.is = "open" /\ pane'.logical = pane.logical /\ pane'.pixels = pane.pixels
       /\ pane'.mode = m /\ pane'.saved = saved /\ ~pane'.failed
   BY <2>4, <2>5, <2>8, <1>3, <1>5 DEF Panes
 <2>10. SizesKnown(nativeWindow', news', pane', normal')
  <3>1. saved = normal'
   <4>1. pane.mode # "normal" => pane.saved = normal BY <1>3 DEF WindowKept, SizesKnown
   <4> QED BY <4>1, <2>4, <1>1
  <3>2. news' # <<>> => news'[Len(news')] = nativeWindow' BY <2>7 DEF WindowKept, SizesKnown
  <3>3. news' = <<>> => pane.logical = nativeWindow'.logical /\ pane.pixels = nativeWindow'.pixels
    BY <2>7, <1>3 DEF WindowKept, SizesKnown
  <3>4. m = "normal" => saved = nativeWindow'.logical BY <2>6, <2>7
  <3> QED BY <3>1, <3>2, <3>3, <3>4, <2>9 DEF SizesKnown
 <2>11. /\ frames' \in Seq(CallFrames) /\ toldOf' \in [legacy : Extents, typed : Extents, nested : BOOLEAN]
        /\ FailuresWait(frames', pane', faults') /\ ChannelsTold(frames', pane', toldOf', faults'.thrown)
   BY <2>2, <2>4, <2>9, <1>3, <1>5, PushKeeps DEF WindowKept
 <2>12. normal' \in Extents BY <2>4, <2>5, <1>3
 <2>13. WindowTyped' BY <2>4, <2>7, <2>9, <2>11, <2>12, <1>3 DEF WindowTyped, Panes
 <2> QED BY <2>10, <2>11, <2>13, <1>2 DEF WindowKept
<1> QED BY <1>4, <1>5

LEMMA ReturnKeeps ==
  ASSUME WindowKept, NativeReturns
  PROVE  WindowKept'
<1>1. /\ WindowTyped /\ Inside /\ pane \in Panes /\ nativeWindow \in SizePairs /\ frames \in Seq(CallFrames) /\ frames # <<>>
      /\ nativeWindow' = nativeWindow /\ news' = news /\ normal' = normal /\ library' = library
  BY DEF WindowKept, WindowTyped, NativeReturns, Inside, Panes
<1>2. pane.is = "open" BY <1>1 DEF WindowTyped, Panes
<1>3. frames[1].op # "tell" BY <1>1 DEF Inside
<1>4. PICK saved : saved = IF Head(frames).op = "resize" /\ pane.mode = "normal" THEN nativeWindow.logical ELSE pane.saved
  OBVIOUS
<1>5. PICK after : after = [pane EXCEPT !.logical = nativeWindow.logical, !.saved = saved] OBVIOUS
<1>6. nativeWindow.logical \in Extents /\ nativeWindow.pixels \in Extents /\ saved \in Extents
  BY <1>1, <1>4 DEF SizePairs, Panes
<1>7. /\ after \in Panes /\ after.is = "open" /\ after.logical = nativeWindow.logical /\ after.pixels = pane.pixels
      /\ after.mode = pane.mode /\ after.saved = saved /\ (after.failed <=> pane.failed)
  BY <1>1, <1>2, <1>5, <1>6 DEF Panes
<1>8. SizesKnown(nativeWindow, news, after, normal) BY <1>2, <1>4, <1>7 DEF WindowKept, SizesKnown
<1>9. /\ pane.failed => ThrowFrom(0, after) /\ toldOf' = toldOf
      /\ ~pane.failed =>
           /\ pane' = [after EXCEPT !.pixels = nativeWindow.pixels] /\ faults' = faults
           /\ frames' = IF pane.pixels # nativeWindow.pixels THEN <<Telling(nativeWindow.pixels, FALSE)>> \o Tail(frames) ELSE Tail(frames)
           /\ toldOf' = IF pane.pixels # nativeWindow.pixels THEN [toldOf EXCEPT !.legacy = nativeWindow.pixels] ELSE toldOf
  BY <1>4, <1>5 DEF NativeReturns, AfterNative
<1>10. CASE pane.failed
 <2>1. LibraryKept(library') BY <1>1 DEF WindowKept
 <2> QED BY <2>1, <1>1, <1>7, <1>8, <1>9, <1>10, ThrowKeeps
<1>11. CASE ~pane.failed
 <2>1. pane' = [after EXCEPT !.pixels = nativeWindow.pixels] /\ faults' = faults BY <1>9, <1>11
 <2>2. /\ pane' \in Panes /\ pane'.is = "open" /\ pane'.logical = after.logical /\ pane'.pixels = nativeWindow.pixels
       /\ pane'.mode = after.mode /\ pane'.saved = after.saved /\ ~pane'.failed
   BY <2>1, <1>6, <1>7, <1>11 DEF Panes
 <2>3. SizesKnown(nativeWindow', news', pane', normal')
  <3>1. SizesKnown(nativeWindow, news, pane', normal) BY <2>2, <1>7, <1>8 DEF SizesKnown
  <3> QED BY <3>1, <1>1
 <2>4. PICK rest : rest = Tail(frames) OBVIOUS
 <2>5. /\ rest \in Seq(CallFrames) /\ KeepersApart(rest)
       /\ \A i \in DOMAIN rest : i + 1 \in DOMAIN frames /\ rest[i] = frames[i + 1] /\ i \in Nat /\ i > 0
   BY <2>4, <1>1, CallsPopped, KeepersPopped DEF WindowKept, FailuresWait
 <2>6. faults.thrown = 0 /\ ~toldOf.nested => toldOf.typed = pane.pixels /\ \A i \in DOMAIN rest : rest[i].op # "tell"
  <3>1. SUFFICES ASSUME faults.thrown = 0, ~toldOf.nested
        PROVE toldOf.typed = pane.pixels /\ \A i \in DOMAIN rest : rest[i].op # "tell"
    OBVIOUS
  <3>2. TellsFirst(frames, pane.pixels, toldOf.typed) BY <3>1, <1>2 DEF WindowKept, ChannelsTold
  <3> QED BY <3>2, <2>5, <1>3 DEF TellsFirst
 <2>7. faults.thrown = faults.told /\ faults.told \in Nat BY <1>1, <1>11 DEF WindowKept, WindowTyped, FailuresWait
 <2>8. CASE pane.pixels # nativeWindow.pixels
  <3>1. PICK o : o = Telling(nativeWindow.pixels, FALSE) OBVIOUS
  <3>2. o \in CallFrames /\ o.op = "tell" /\ o.channel = "legacy" /\ o.size = nativeWindow.pixels /\ ~o.keeps
    BY <3>1, <1>6 DEF Telling, CallFrames
  <3>3. frames' = <<o>> \o rest /\ toldOf' = [toldOf EXCEPT !.legacy = nativeWindow.pixels]
    BY <3>1, <2>4, <2>8, <1>9, <1>11
  <3>4. /\ frames' \in Seq(CallFrames) /\ frames' # <<>> /\ frames'[1] = o
        /\ \A i \in DOMAIN frames' : i # 1 => i - 1 \in DOMAIN rest /\ frames'[i] = rest[i - 1]
    BY <3>2, <3>3, <2>5, CallsPushed
  <3>5. KeepersApart(frames') BY <3>2, <3>3, <2>5, KeepersPushed
  <3>6. /\ toldOf' \in [legacy : Extents, typed : Extents, nested : BOOLEAN] /\ toldOf'.legacy = nativeWindow.pixels
        /\ toldOf'.typed = toldOf.typed /\ (toldOf'.nested <=> toldOf.nested)
    BY <3>3, <1>1, <1>6 DEF WindowTyped
  <3>7. FailuresWait(frames', pane', faults') BY <3>5, <2>1, <2>2, <2>7 DEF FailuresWait
  <3>8. faults.thrown = 0 /\ ~toldOf.nested => TellsFirst(frames', nativeWindow.pixels, toldOf.typed)
    BY <3>2, <3>4, <2>6 DEF TellsFirst
  <3>9. ChannelsTold(frames', pane', toldOf', faults'.thrown) BY <3>6, <3>8, <2>1, <2>2 DEF ChannelsTold
  <3>10. WindowTyped' BY <3>4, <3>6, <2>1, <2>2, <1>1 DEF WindowTyped, Panes
  <3> QED BY <3>7, <3>9, <3>10, <2>3, <1>1 DEF WindowKept
 <2>9. CASE pane.pixels = nativeWindow.pixels
  <3>1. frames' = rest /\ toldOf' = toldOf BY <2>4, <2>9, <1>9, <1>11
  <3>2. FailuresWait(frames', pane', faults') BY <3>1, <2>1, <2>2, <2>5, <2>7 DEF FailuresWait
  <3>3. faults.thrown = 0 /\ ~toldOf.nested => TellsFirst(rest, nativeWindow.pixels, toldOf.typed)
    BY <2>6, <2>9 DEF TellsFirst
  <3>4. ChannelsTold(frames', pane', toldOf', faults'.thrown)
    BY <3>1, <3>3, <2>1, <2>2, <2>9, <1>2 DEF ChannelsTold, WindowKept
  <3>5. WindowTyped' BY <3>1, <2>1, <2>2, <2>5, <1>1 DEF WindowTyped, Panes
  <3> QED BY <3>2, <3>4, <3>5, <2>3, <1>1 DEF WindowKept
 <2> QED BY <2>8, <2>9
<1> QED BY <1>10, <1>11

LEMMA ListenerKeeps ==
  ASSUME WindowKept, ListenerReturns
  PROVE  WindowKept'
<1>1. /\ WindowTyped /\ frames \in Seq(CallFrames) /\ frames # <<>> /\ frames[1].op = "tell"
      /\ nativeWindow' = nativeWindow /\ news' = news /\ pane' = pane /\ faults' = faults /\ normal' = normal /\ library' = library
  BY DEF WindowKept, WindowTyped, ListenerReturns, Listening
<1>2. pane.is = "open" /\ ~pane.failed BY <1>1 DEF WindowKept, WindowTyped, FailuresWait
<1>3. PICK rest : rest = Tail(frames) OBVIOUS
<1>4. /\ rest \in Seq(CallFrames) /\ Head(frames) = frames[1] /\ frames[1] \in CallFrames /\ 1 \in DOMAIN frames
      /\ \A i \in DOMAIN rest : i + 1 \in DOMAIN frames /\ rest[i] = frames[i + 1] /\ i \in Nat /\ i > 0
  BY <1>1, <1>3, CallsPopped
<1>5. KeepersApart(rest) BY <1>1, <1>3, KeepersPopped DEF WindowKept, FailuresWait
<1>6. faults.thrown = faults.told /\ faults.told \in Nat BY <1>1, <1>2 DEF WindowKept, WindowTyped, FailuresWait
<1>7. faults.thrown = 0 /\ ~toldOf.nested =>
        /\ \A i \in DOMAIN rest : rest[i].op # "tell"
        /\ frames[1].size = pane.pixels /\ (frames[1].channel = "typed" => toldOf.typed = pane.pixels)
  BY <1>1, <1>2, <1>4 DEF WindowKept, ChannelsTold, TellsFirst
<1>8. CASE frames[1].channel = "legacy"
 <2>1. PICK o : o = [frames[1] EXCEPT !.channel = "typed"] OBVIOUS
 <2>2. o \in CallFrames /\ o.op = "tell" /\ o.channel = "typed" /\ o.size = frames[1].size /\ (o.keeps <=> frames[1].keeps)
   BY <2>1, <1>1, <1>4 DEF CallFrames
 <2>3. frames' = <<o>> \o rest /\ toldOf' = [toldOf EXCEPT !.typed = frames[1].size]
   BY <2>1, <1>3, <1>4, <1>8 DEF ListenerReturns
 <2>4. /\ frames' \in Seq(CallFrames) /\ frames' # <<>> /\ frames'[1] = o
       /\ \A i \in DOMAIN frames' : i # 1 => i - 1 \in DOMAIN rest /\ frames'[i] = rest[i - 1]
   BY <2>2, <2>3, <1>4, CallsPushed
 <2>5. frames[1].keeps => (rest # <<>> => rest[1].op # "tell")
  <3>1. SUFFICES ASSUME frames[1].keeps, rest # <<>> PROVE rest[1].op # "tell" OBVIOUS
  <3>2. 1 \in DOMAIN rest BY <3>1, <1>4
  <3>3. 1 + 1 \in DOMAIN frames /\ rest[1] = frames[1 + 1] BY <3>2, <1>4
  <3> QED BY <3>1, <3>3, <1>4 DEF WindowKept, FailuresWait, KeepersApart
 <2>6. KeepersApart(frames') BY <2>2, <2>3, <2>5, <1>4, <1>5, KeepersPushed
 <2>7. /\ toldOf' \in [legacy : Extents, typed : Extents, nested : BOOLEAN] /\ toldOf'.legacy = toldOf.legacy
       /\ toldOf'.typed = frames[1].size /\ (toldOf'.nested <=> toldOf.nested)
   BY <2>3, <1>1, <1>4 DEF WindowTyped, CallFrames
 <2>8. FailuresWait(frames', pane', faults') BY <2>6, <1>1, <1>2, <1>6 DEF FailuresWait
 <2>9. faults.thrown = 0 /\ ~toldOf.nested => TellsFirst(frames', pane.pixels, frames[1].size)
   BY <2>2, <2>4, <1>7 DEF TellsFirst
 <2>10. ChannelsTold(frames', pane', toldOf', faults'.thrown) BY <2>7, <2>9, <1>1, <1>2 DEF ChannelsTold, WindowKept
 <2>11. WindowTyped' BY <2>4, <2>7, <1>1, <1>2 DEF WindowTyped
 <2> QED BY <2>8, <2>10, <2>11, <1>1 DEF WindowKept
<1>9. CASE frames[1].channel # "legacy"
 <2>1. frames' = rest /\ toldOf' = toldOf BY <1>3, <1>4, <1>9 DEF ListenerReturns
 <2>2. FailuresWait(frames', pane', faults') BY <2>1, <1>1, <1>2, <1>5, <1>6 DEF FailuresWait
 <2>3. frames[1].channel = "typed" BY <1>1, <1>4, <1>9 DEF CallFrames, WindowKept
 <2>4. faults.thrown = 0 /\ ~toldOf.nested => TellsFirst(rest, pane.pixels, toldOf.typed) BY <2>3, <1>7 DEF TellsFirst
 <2>5. ChannelsTold(frames', pane', toldOf', faults'.thrown) BY <2>1, <2>4, <1>1, <1>2 DEF ChannelsTold, WindowKept
 <2>6. WindowTyped' BY <2>1, <1>1, <1>2, <1>4 DEF WindowTyped
 <2> QED BY <2>2, <2>5, <2>6, <1>1 DEF WindowKept
<1> QED BY <1>8, <1>9

LEMMA WindowStepKeeps ==
  ASSUME WindowKept, WindowNext
  PROVE  WindowKept'
<1>1. CASE OpenDisplay \/ OpenFails \/ CloseDisplay \/ HostReplaces \/ NativeError BY <1>1, LibraryKeeps
<1>2. CASE CreateWindow \/ DestroyWindow \/ UserResizes \/ SizeCallback
  BY <1>2, CreateKeeps, DestroyKeeps, UserKeeps, CallbackKeeps
<1>3. CASE Resize \/ SetMode \/ NativeReturns \/ ListenerReturns
  BY <1>3, ResizeKeeps, SetModeKeeps, ReturnKeeps, ListenerKeeps
<1>4. CASE ListenerThrows
 <2>1. Listening /\ ThrowFrom(1, pane) /\ UNCHANGED <<nativeWindow, news, toldOf, normal, library>>
   BY <1>4 DEF ListenerThrows, Throw
 <2>2. pane \in Panes /\ pane.is = "open" /\ ~pane.failed
   BY <2>1 DEF WindowKept, WindowTyped, Panes, FailuresWait, Listening
 <2>3. SizesKnown(nativeWindow, news, pane, normal) /\ LibraryKept(library') BY <2>1 DEF WindowKept
 <2> QED BY <2>1, <2>2, <2>3, ThrowKeeps
<1>5. CASE ObserveWindow
 <2>1. /\ pane.is = "open" /\ frames = <<>> /\ library' = [library EXCEPT !.reported = library.errors]
       /\ UNCHANGED <<nativeWindow, news, toldOf, normal, used>>
       /\ IF pane.failed THEN Throw(0) ELSE UNCHANGED <<frames, pane, faults>>
   BY <1>5 DEF ObserveWindow
 <2>2. LibraryKept(library') BY <2>1 DEF WindowKept, LibraryKept
 <2>3. pane \in Panes /\ SizesKnown(nativeWindow, news, pane, normal) BY DEF WindowKept, WindowTyped, Panes
 <2>4. CASE pane.failed BY <2>1, <2>2, <2>3, <2>4, ThrowKeeps DEF Throw
 <2>5. CASE ~pane.failed BY <2>1, <2>2, <2>5 DEF WindowKept, WindowTyped
 <2> QED BY <2>4, <2>5
<1> QED BY <1>1, <1>2, <1>3, <1>4, <1>5 DEF WindowNext

LEMMA WindowStays ==
  ASSUME WindowKept, UNCHANGED windowVars
  PROVE  WindowKept'
BY DEF WindowKept, WindowTyped, windowVars

LEMMA WindowKnown == WindowKept => WindowIsTrue
<1>1. SUFFICES ASSUME WindowKept PROVE WindowIsTrue OBVIOUS
<1>2. SizesFollow
 <2>1. SUFFICES ASSUME Settled
       PROVE  /\ pane.logical = nativeWindow.logical /\ pane.pixels = nativeWindow.pixels
              /\ faults.thrown = 0 => toldOf.legacy = pane.pixels /\ (~toldOf.nested => toldOf.typed = pane.pixels)
              /\ pane.saved = IF pane.mode = "normal" THEN nativeWindow.logical ELSE normal
   BY DEF SizesFollow
 <2>2. SizesKnown(nativeWindow, news, pane, normal) /\ ChannelsTold(frames, pane, toldOf, faults.thrown)
   BY <1>1 DEF WindowKept
 <2> QED BY <2>1, <2>2 DEF Settled, SizesKnown, ChannelsTold, TellsFirst
<1>3. FailuresReachAnOwner BY <1>1 DEF WindowKept, FailuresWait, LibraryKept, FailuresReachAnOwner
<1> QED BY <1>2, <1>3 DEF WindowIsTrue

\* ---- The terminal. ----
Starting == {"save", "directory", "output", "socket", "launch"}
Accepted == {"acknowledge", "stdout", "stderr", "tell"}
Early == Starting \cup Accepted \cup {"await"}
Ending == {"notify", "stop", "clean", "ended"}
Sessions ==
  [at : Early \cup Ending \cup {"register", "run", "finish", "crashed"}, tried : Nat, looks : Nat,
   known : BOOLEAN, committed : BOOLEAN, reaper : {"none", "watching", "returned"},
   closed : BOOLEAN, notified : BOOLEAN, failed : BOOLEAN, writes : Nat]
Handled == {"drain", "decide", "poll", "remove"}
Viewers ==
  [at : Handled \cup {"none", "connect", "ready", "ended"}, closed : BOOLEAN, retained : BOOLEAN,
   normal : BOOLEAN, shown : Nat, drained : {"none", "empty", "pending", "closed"}]
Controls ==
  [listens : BOOLEAN, connected : BOOLEAN, accepted : BOOLEAN, up : Seq({"ready"}),
   down : Seq({"started", "normal"}), ownerEnd : BOOLEAN, viewerEnd : BOOLEAN]
TerminalTypes ==
  /\ session \in Sessions /\ streams \in [Both -> {"capture", "original"}]
  /\ window \in {"none", "open", "gone", "reaped"} /\ viewer \in Viewers /\ control \in Controls
  /\ disk \in SUBSET Files /\ written \in Nat /\ attended \in BOOLEAN

Uncommitted(s) == s.at = "run" /\ ~s.committed
WasTold(s) == s.at = "register" \/ s.committed

\* Streams are captured from the commitment on until the end begins.
StreamsKept(s, to) ==
  /\ s.at \in (Early \ {"stderr", "tell"}) \cup Ending \/ Uncommitted(s) => \A n \in Both : to[n] = "original"
  /\ s.at = "stderr" => to["stdout"] = "capture"
  /\ s.at \in {"tell", "register"} \/ (s.at = "run" /\ s.committed) => \A n \in Both : to[n] = "capture"

\* What a session has done at each of its places, ...
SessionKept(s, win, ctl, dir, count) ==
  /\ s.committed => s.at \in Ending \cup {"run", "finish", "crashed"}
  /\ s.notified => s.at \in (Ending \ {"notify"}) \cup {"crashed"} \/ Uncommitted(s)
  /\ s.at \in {"clean", "ended"} \/ Uncommitted(s) => s.reaper # "watching"
  /\ s.closed => win = "reaped"
  /\ s.known => win # "none"
  /\ ~s.known => win \in {"none", "reaped"}
  /\ s.at \in Starting => win = "none" /\ ~s.known
  /\ s.at = "clean" /\ ~s.committed => win \in {"none", "reaped"}
  /\ Uncommitted(s) => dir = {} /\ win \in {"none", "reaped"}
  /\ s.at = "ended" => (~s.committed => dir = {}) /\ (dir # {} => s.notified /\ ~s.closed)
  /\ count > 0 => s.committed
  /\ s.at \in Accepted \/ WasTold(s) => ctl.accepted

\* ... what the viewer has, which shows all of a capture before it goes,
\* unless the window does first, ...
ViewerKept(s, win, v, ctl, dir, count, attends) ==
  /\ win = "none" <=> v.at = "none"
  /\ win \in {"gone", "reaped"} => v.at \in Handled \cup {"ended"} /\ (attends => v.at = "ended")
  /\ ctl.accepted => ctl.connected
  /\ ctl.connected => v.at \notin {"none", "connect"}
  /\ ctl.viewerEnd <=> v.at \in Handled \cup {"ready"}
  /\ v.normal => s.notified
  /\ v.closed \/ v.drained = "closed" => ~attends
  /\ v.shown <= count
  /\ v.at = "decide" /\ v.normal /\ v.drained = "empty" => v.shown = count
  /\ v.at = "remove" /\ attends => v.normal /\ v.shown = count
  /\ WasTold(s) /\ v.at = "ended" /\ attends => v.normal /\ v.shown = count /\ dir = {}
  /\ WasTold(s) /\ dir = {} /\ attends => v.at = "ended"
  /\ (s.at \in Accepted \cup {"socket", "launch", "await"} \/ WasTold(s)) /\ v.at \in {"none", "connect", "ready"} => "output" \in dir
  /\ s.at \in {"stop", "clean"} /\ s.committed /\ ~s.notified => v.at = "ended"

\* ... and what is on its way from the one to the other.
ChannelKept(s, v, down) ==
  /\ s.at \in Early => v.at \notin Handled /\ down = <<>>
  /\ \A i \in DOMAIN down :
       /\ down[i] = "started" => i = 1 /\ v.at \in {"ready", "ended"}
       /\ down[i] = "normal" => s.notified
  /\ WasTold(s) /\ v.at = "ready" => down # <<>> /\ down[1] = "started"

TerminalKept ==
  /\ TerminalTypes /\ StreamsKept(session, streams)
  /\ SessionKept(session, window, control, disk, written)
  /\ ViewerKept(session, window, viewer, control, disk, written, attended)
  /\ ChannelKept(session, viewer, control.down)

LEMMA TerminalBegins == TerminalInit => TerminalKept
<1>1. SUFFICES ASSUME TerminalInit PROVE TerminalKept OBVIOUS
<1>2. TerminalTypes
  BY <1>1 DEF TerminalInit, TerminalTypes, Sessions, Viewers, Controls, NoViewer, Early, Starting, Both
<1>3. StreamsKept(session, streams) /\ SessionKept(session, window, control, disk, written)
  BY <1>1 DEF TerminalInit, StreamsKept, SessionKept, Uncommitted, WasTold, Early, Starting, Accepted, Ending
<1>4. ViewerKept(session, window, viewer, control, disk, written, attended) /\ ChannelKept(session, viewer, control.down)
  BY <1>1 DEF TerminalInit, ViewerKept, ChannelKept, NoViewer, WasTold, Early, Starting, Accepted, Handled
<1> QED BY <1>2, <1>3, <1>4 DEF TerminalKept

\* A session that only goes on.
LEMMA SessionGoesOn ==
  ASSUME TerminalKept, SaveStreams \/ RegisterExit \/ StartFailure \/ (Exit /\ UNCHANGED window)
  PROVE  TerminalKept'
<1> USE DEF Early, Starting, Accepted, Ending, Handled, Both, Files, Start
<1>1. UNCHANGED <<streams, window, viewer, control, disk, written, attended>> /\ control.down' = control.down
  BY DEF SaveStreams, RegisterExit, StartFailure, StartFails, Exit
<1>2. /\ session' \in Sessions /\ session'.known = session.known /\ session'.reaper = session.reaper
      /\ session'.closed = session.closed /\ session'.notified = session.notified
      /\ session'.committed <=> (session.committed \/ session'.at = "run")
      /\ \/ session.at = "save" /\ session'.at = "directory"
         \/ session.at = "register" /\ session'.at = "run"
         \/ session.at \in Early \cup {"register"} /\ session'.at = "finish"
         \/ session.at = "run" /\ session'.at = IF session.committed THEN "finish" ELSE "ended"
 <2>1. session \in Sessions /\ (session.committed => session.at \notin Early \cup {"register"})
   BY DEF TerminalKept, TerminalTypes, SessionKept
 <2>2. CASE SaveStreams BY <2>1, <2>2 DEF SaveStreams, Sessions
 <2>3. CASE RegisterExit BY <2>1, <2>3 DEF RegisterExit, Sessions
 <2>4. CASE StartFailure
  <3>1. session.at \in Early \cup {"register"} /\ session' = [session EXCEPT !.at = "finish", !.failed = TRUE]
    BY <2>4 DEF StartFailure, StartFails
  <3> QED BY <2>1, <3>1 DEF Sessions
 <2>5. CASE Exit BY <2>1, <2>5 DEF Exit, Sessions
 <2> QED BY <2>2, <2>3, <2>4, <2>5
<1>3. TerminalTypes' BY <1>1, <1>2 DEF TerminalKept, TerminalTypes
<1>4. StreamsKept(session', streams)
  BY <1>1, <1>2 DEF TerminalKept, TerminalTypes, StreamsKept, Uncommitted, Sessions, SessionKept
<1>5. SessionKept(session', window, control, disk, written)
  BY <1>2 DEF TerminalKept, SessionKept, Uncommitted, WasTold, TerminalTypes, Sessions
<1>6. ViewerKept(session', window, viewer, control, disk, written, attended)
  BY <1>2 DEF TerminalKept, ViewerKept, WasTold, SessionKept
<1>7. ChannelKept(session', viewer, control.down) BY <1>2 DEF TerminalKept, ChannelKept, WasTold, SessionKept
<1> QED BY <1>1, <1>3, <1>4, <1>5, <1>6, <1>7 DEF TerminalKept

LEMMA FileIsMade ==
  ASSUME TerminalKept, CreateFile
  PROVE  TerminalKept'
<1> USE DEF Early, Starting, Accepted, Ending, Handled, Both, Files, Start, View
<1>1. UNCHANGED <<streams, window, viewer, written, attended>> BY DEF CreateFile
<1>2. /\ session' \in Sessions /\ session.at \in Files /\ session'.at \in {"output", "socket", "launch"}
      /\ (session'.at # "output" => session.at # "directory") /\ (session.at # "directory" => session'.at # "output")
      /\ session'.known = session.known /\ session'.reaper = session.reaper /\ session'.closed = session.closed
      /\ session'.notified = session.notified /\ session'.committed = session.committed
      /\ disk \subseteq disk' /\ disk' \subseteq Files /\ (session.at = "output" => "output" \in disk')
      /\ (session.at = "socket" <=> session'.at = "launch")
  BY DEF CreateFile, TerminalKept, TerminalTypes, Sessions
<1>8. /\ control' \in Controls /\ control'.connected = control.connected /\ control'.accepted = control.accepted
      /\ control'.down = control.down /\ control'.viewerEnd = control.viewerEnd
 <2>1. PICK b \in BOOLEAN : control' = [control EXCEPT !.listens = b] BY DEF CreateFile
 <2> QED BY <2>1 DEF TerminalKept, TerminalTypes, Controls
<1>3. TerminalTypes' BY <1>1, <1>2, <1>8 DEF TerminalKept, TerminalTypes
<1>4. StreamsKept(session', streams)
  BY <1>1, <1>2 DEF TerminalKept, TerminalTypes, StreamsKept, Uncommitted, Sessions, SessionKept
<1>5. SessionKept(session', window, control', disk', written)
  BY <1>1, <1>2, <1>8 DEF TerminalKept, SessionKept, Uncommitted, WasTold, TerminalTypes, Sessions
<1>6. ViewerKept(session', window, viewer, control', disk', written, attended)
  BY <1>1, <1>2, <1>8 DEF TerminalKept, ViewerKept, WasTold, SessionKept, TerminalTypes, Sessions
<1>7. ChannelKept(session', viewer, control'.down)
  BY <1>1, <1>2, <1>8 DEF TerminalKept, ChannelKept, WasTold, SessionKept, TerminalTypes, Sessions
<1> QED BY <1>1, <1>3, <1>4, <1>5, <1>6, <1>7 DEF TerminalKept

LEMMA EmulatorStarts ==
  ASSUME TerminalKept, LaunchEmulator
  PROVE  TerminalKept'
<1> USE DEF Early, Starting, Accepted, Ending, Handled, Both, Files, Start, View
<1>1. UNCHANGED <<streams, control, disk, written, attended>> BY DEF LaunchEmulator
<1>2. /\ session' \in Sessions /\ session.at = "launch"
      /\ session'.reaper = session.reaper /\ session'.closed = session.closed
      /\ session'.notified = session.notified /\ session'.committed = session.committed
      /\ viewer' \in Viewers /\ window' \in {"none", "open", "gone", "reaped"}
      /\ \/ /\ session'.at = "await" /\ session'.known /\ window' = "open" /\ viewer'.at = "connect"
            /\ viewer'.closed = viewer.closed /\ viewer'.normal = viewer.normal /\ viewer'.shown = viewer.shown
            /\ viewer'.drained = viewer.drained
         \/ session'.at = "launch" /\ session'.known = session.known /\ UNCHANGED <<window, viewer>>
 <2>1. session \in Sessions /\ viewer \in Viewers /\ window \in {"none", "open", "gone", "reaped"} /\ session.at = "launch"
   BY DEF LaunchEmulator, TerminalKept, TerminalTypes
 <2>2. CASE session' = [session EXCEPT !.at = "await", !.known = TRUE] /\ window' = "open" /\ viewer' = [viewer EXCEPT !.at = "connect"]
   BY <2>1, <2>2 DEF Sessions, Viewers
 <2>3. CASE session' = [session EXCEPT !.tried = session.tried + 1] /\ UNCHANGED <<window, viewer>>
   BY <2>1, <2>3 DEF Sessions
 <2>4. \/ session' = [session EXCEPT !.at = "await", !.known = TRUE] /\ window' = "open" /\ viewer' = [viewer EXCEPT !.at = "connect"]
       \/ session' = [session EXCEPT !.tried = session.tried + 1] /\ UNCHANGED <<window, viewer>>
   BY <2>1 DEF LaunchEmulator, Sessions
 <2> QED BY <2>2, <2>3, <2>4
<1>3. TerminalTypes' BY <1>1, <1>2 DEF TerminalKept, TerminalTypes
<1>4. StreamsKept(session', streams)
  BY <1>1, <1>2 DEF TerminalKept, TerminalTypes, StreamsKept, Uncommitted, Sessions, SessionKept
<1>5. SessionKept(session', window', control, disk, written)
  BY <1>1, <1>2 DEF TerminalKept, SessionKept, Uncommitted, WasTold, TerminalTypes, Sessions
<1>6. ViewerKept(session', window', viewer', control, disk, written, attended)
  BY <1>1, <1>2 DEF TerminalKept, ViewerKept, WasTold, SessionKept, TerminalTypes, Sessions
<1>7. ChannelKept(session', viewer', control.down)
  BY <1>1, <1>2 DEF TerminalKept, ChannelKept, WasTold, SessionKept, TerminalTypes, Sessions
<1> QED BY <1>1, <1>3, <1>4, <1>5, <1>6, <1>7 DEF TerminalKept

LEMMA ViewerAccepted ==
  ASSUME TerminalKept, AcceptViewer
  PROVE  TerminalKept'
<1> USE DEF Early, Starting, Accepted, Ending, Handled, Both, Files, Start, View
<1>1. UNCHANGED <<streams, window, viewer, disk, written, attended>> BY DEF AcceptViewer
<1>2. /\ session' \in Sessions /\ session.at = "await" /\ session'.at = "acknowledge"
      /\ session'.known = session.known /\ session'.reaper = session.reaper /\ session'.closed = session.closed
      /\ session'.notified = session.notified /\ session'.committed = session.committed
      /\ control' \in Controls /\ control'.connected /\ control'.accepted /\ control'.connected = control.connected
      /\ control'.down = control.down /\ control'.viewerEnd = control.viewerEnd
  BY DEF AcceptViewer, TerminalKept, TerminalTypes, Sessions, Controls
<1>3. TerminalTypes' BY <1>1, <1>2 DEF TerminalKept, TerminalTypes
<1>4. StreamsKept(session', streams)
  BY <1>1, <1>2 DEF TerminalKept, TerminalTypes, StreamsKept, Uncommitted, Sessions, SessionKept
<1>5. SessionKept(session', window, control', disk, written)
  BY <1>1, <1>2 DEF TerminalKept, SessionKept, Uncommitted, WasTold, TerminalTypes, Sessions
<1>6. ViewerKept(session', window, viewer, control', disk, written, attended)
  BY <1>1, <1>2 DEF TerminalKept, ViewerKept, WasTold, SessionKept, TerminalTypes, Sessions
<1>7. ChannelKept(session', viewer, control'.down)
  BY <1>1, <1>2 DEF TerminalKept, ChannelKept, WasTold, SessionKept, TerminalTypes, Sessions
<1> QED BY <1>1, <1>3, <1>4, <1>5, <1>6, <1>7 DEF TerminalKept

LEMMA LooksAgain ==
  ASSUME TerminalKept, LookAgain
  PROVE  TerminalKept'
<1> USE DEF Early, Starting, Accepted, Ending, Handled, Both, Files, Start, View
<1>1. UNCHANGED <<streams, viewer, control, disk, written, attended>> BY DEF LookAgain
<1>2. /\ session' \in Sessions /\ session.at = "await"
      /\ session'.reaper = session.reaper /\ session'.closed = session.closed
      /\ session'.notified = session.notified /\ session'.committed = session.committed
      /\ \/ window = "gone" /\ window' = "reaped" /\ session'.at = "finish" /\ ~session'.known
         \/ window' = window /\ session'.at = "await" /\ session'.known = session.known
 <2>1. session \in Sessions /\ session.at = "await" BY DEF LookAgain, TerminalKept, TerminalTypes
 <2>2. CASE window = "gone" /\ window' = "reaped" /\ session' = [session EXCEPT !.known = FALSE, !.at = "finish", !.failed = TRUE]
   BY <2>1, <2>2 DEF Sessions
 <2>3. CASE window' = window /\ session' = [session EXCEPT !.looks = session.looks + 1] BY <2>1, <2>3 DEF Sessions
 <2>4. \/ window = "gone" /\ window' = "reaped" /\ session' = [session EXCEPT !.known = FALSE, !.at = "finish", !.failed = TRUE]
       \/ window' = window /\ session' = [session EXCEPT !.looks = session.looks + 1]
   BY <2>1 DEF LookAgain, Sessions
 <2> QED BY <2>2, <2>3, <2>4
<1>3. TerminalTypes' BY <1>1, <1>2 DEF TerminalKept, TerminalTypes
<1>4. StreamsKept(session', streams)
  BY <1>1, <1>2 DEF TerminalKept, TerminalTypes, StreamsKept, Uncommitted, Sessions, SessionKept
<1>5. SessionKept(session', window', control, disk, written)
  BY <1>1, <1>2 DEF TerminalKept, SessionKept, Uncommitted, WasTold, TerminalTypes, Sessions
<1>6. ViewerKept(session', window', viewer, control, disk, written, attended)
  BY <1>1, <1>2 DEF TerminalKept, ViewerKept, WasTold, SessionKept, TerminalTypes, Sessions
<1>7. ChannelKept(session', viewer, control.down)
  BY <1>1, <1>2 DEF TerminalKept, ChannelKept, WasTold, SessionKept, TerminalTypes, Sessions
<1> QED BY <1>1, <1>3, <1>4, <1>5, <1>6, <1>7 DEF TerminalKept

LEMMA AcknowledgementTaken ==
  ASSUME TerminalKept, TakeAcknowledgement
  PROVE  TerminalKept'
<1> USE DEF Early, Starting, Accepted, Ending, Handled, Both, Files, Start, View
<1>1. UNCHANGED <<streams, window, viewer, disk, written, attended>> BY DEF TakeAcknowledgement
<1>2. /\ session' \in Sessions /\ session.at = "acknowledge" /\ session'.at = "stdout"
      /\ session'.known = session.known /\ session'.reaper = session.reaper /\ session'.closed = session.closed
      /\ session'.notified = session.notified /\ session'.committed = session.committed
      /\ control' \in Controls /\ control'.connected = control.connected /\ control'.accepted = control.accepted
      /\ control'.down = control.down /\ control'.viewerEnd = control.viewerEnd
 <2>1. PICK rest : rest = Tail(control.up) OBVIOUS
 <2>2. rest \in Seq({"ready"}) BY <2>1 DEF TakeAcknowledgement, TerminalKept, TerminalTypes, Controls
 <2>3. control' = [control EXCEPT !.up = rest, !.listens = FALSE]
   BY <2>1 DEF TakeAcknowledgement, TerminalKept, TerminalTypes, Controls
 <2>4. control' \in Controls /\ control'.connected = control.connected /\ control'.accepted = control.accepted
       /\ control'.down = control.down /\ control'.viewerEnd = control.viewerEnd
   BY <2>2, <2>3 DEF TerminalKept, TerminalTypes, Controls
 <2>5. session.at = "acknowledge" /\ session' = [session EXCEPT !.at = "stdout"] BY DEF TakeAcknowledgement
 <2> QED BY <2>4, <2>5 DEF TerminalKept, TerminalTypes, Sessions
<1>3. TerminalTypes' BY <1>1, <1>2 DEF TerminalKept, TerminalTypes
<1>4. StreamsKept(session', streams)
  BY <1>1, <1>2 DEF TerminalKept, TerminalTypes, StreamsKept, Uncommitted, Sessions, SessionKept
<1>5. SessionKept(session', window, control', disk, written)
  BY <1>1, <1>2 DEF TerminalKept, SessionKept, Uncommitted, WasTold, TerminalTypes, Sessions
<1>6. ViewerKept(session', window, viewer, control', disk, written, attended)
  BY <1>1, <1>2 DEF TerminalKept, ViewerKept, WasTold, SessionKept, TerminalTypes, Sessions
<1>7. ChannelKept(session', viewer, control'.down)
  BY <1>1, <1>2 DEF TerminalKept, ChannelKept, WasTold, SessionKept, TerminalTypes, Sessions
<1> QED BY <1>1, <1>3, <1>4, <1>5, <1>6, <1>7 DEF TerminalKept

LEMMA StreamIsCaptured ==
  ASSUME TerminalKept, Capture
  PROVE  TerminalKept'
<1> USE DEF Early, Starting, Accepted, Ending, Handled, Both, Files, Start, View
<1>1. UNCHANGED <<window, viewer, control, disk, written, attended>> BY DEF Capture
<1>2. /\ session' \in Sessions
      /\ session'.known = session.known /\ session'.reaper = session.reaper /\ session'.closed = session.closed
      /\ session'.notified = session.notified /\ session'.committed = session.committed
      /\ streams' \in [Both -> {"capture", "original"}]
      /\ \/ session.at = "stdout" /\ session'.at = "stderr" /\ streams'["stdout"] = "capture"
         \/ session.at = "stderr" /\ session'.at = "tell" /\ streams'["stderr"] = "capture" /\ streams'["stdout"] = streams["stdout"]
  BY DEF Capture, TerminalKept, TerminalTypes, Sessions
<1>3. TerminalTypes' BY <1>1, <1>2 DEF TerminalKept, TerminalTypes
<1>4. StreamsKept(session', streams')
  BY <1>1, <1>2 DEF TerminalKept, TerminalTypes, StreamsKept, Uncommitted, Sessions, SessionKept
<1>5. SessionKept(session', window, control, disk, written)
  BY <1>1, <1>2 DEF TerminalKept, SessionKept, Uncommitted, WasTold, TerminalTypes, Sessions
<1>6. ViewerKept(session', window, viewer, control, disk, written, attended)
  BY <1>1, <1>2 DEF TerminalKept, ViewerKept, WasTold, SessionKept, TerminalTypes, Sessions
<1>7. ChannelKept(session', viewer, control.down)
  BY <1>1, <1>2 DEF TerminalKept, ChannelKept, WasTold, SessionKept, TerminalTypes, Sessions
<1> QED BY <1>1, <1>3, <1>4, <1>5, <1>6, <1>7 DEF TerminalKept

LEMMA StartIsTold ==
  ASSUME TerminalKept, TellStarted
  PROVE  TerminalKept'
<1> USE DEF Early, Starting, Accepted, Ending, Handled, Both, Files, Start, View
<1>1. UNCHANGED <<streams, window, viewer, disk, written, attended>> BY DEF TellStarted
<1>2. /\ session' \in Sessions /\ session.at = "tell" /\ session'.at = "register"
      /\ session'.known = session.known /\ session'.closed = session.closed
      /\ session'.notified = session.notified /\ session'.committed = session.committed
      /\ control.viewerEnd /\ control' = [control EXCEPT !.down = Append(control.down, "started")]
  BY DEF TellStarted, TerminalKept, TerminalTypes, Sessions, Controls
<1>8. control.down = <<>> /\ viewer.at = "ready" /\ control.down \in Seq({"started", "normal"})
  BY <1>2 DEF TerminalKept, ChannelKept, ViewerKept, TerminalTypes, Controls
<1>9. /\ control' \in Controls /\ control'.connected = control.connected /\ control'.accepted = control.accepted
      /\ control'.down = <<"started">> /\ control'.viewerEnd = control.viewerEnd
 <2>1. control' = [control EXCEPT !.down = <<"started">>] BY <1>2, <1>8
 <2>2. <<"started">> \in Seq({"started", "normal"}) OBVIOUS
 <2> QED BY <2>1, <2>2 DEF TerminalKept, TerminalTypes, Controls
<1>3. TerminalTypes' BY <1>1, <1>2, <1>9 DEF TerminalKept, TerminalTypes
<1>4. StreamsKept(session', streams)
  BY <1>1, <1>2 DEF TerminalKept, TerminalTypes, StreamsKept, Uncommitted, Sessions, SessionKept
<1>5. SessionKept(session', window, control', disk, written)
  BY <1>1, <1>2, <1>9 DEF TerminalKept, SessionKept, Uncommitted, WasTold, TerminalTypes, Sessions
<1>6. ViewerKept(session', window, viewer, control', disk, written, attended)
  BY <1>1, <1>2, <1>8, <1>9 DEF TerminalKept, ViewerKept, WasTold, SessionKept, TerminalTypes, Sessions
<1>7. ChannelKept(session', viewer, control'.down)
 <2>1. DOMAIN <<"started">> = {1} /\ <<"started">>[1] = "started" /\ <<"started">> # <<>> OBVIOUS
 <2> QED BY <1>1, <1>2, <1>8, <1>9, <2>1 DEF ChannelKept, WasTold
<1> QED BY <1>1, <1>3, <1>4, <1>5, <1>6, <1>7 DEF TerminalKept

LEMMA OutputIsWritten ==
  ASSUME TerminalKept, WriteOutput
  PROVE  TerminalKept'
<1> USE DEF Early, Starting, Accepted, Ending, Handled, Both, Files, Start, View
<1>1. UNCHANGED <<streams, window, viewer, control, disk, attended>> BY DEF WriteOutput
<1>2. /\ session' \in Sessions /\ session.at = "run" /\ session'.at = session.at
      /\ session'.known = session.known /\ session'.reaper = session.reaper /\ session'.closed = session.closed
      /\ session'.notified = session.notified /\ session'.committed = session.committed
      /\ written' \in Nat /\ (written' = written \/ (written' = written + 1 /\ session.committed /\ ~session.notified))
 <2>1. PICK n \in Both : written' = IF streams[n] = "capture" THEN written + 1 ELSE written BY DEF WriteOutput
 <2>2. session.committed \/ streams[n] = "original" BY DEF WriteOutput, TerminalKept, StreamsKept, Uncommitted
 <2>3. session.committed /\ session.at = "run" => ~session.notified BY DEF TerminalKept, SessionKept, Uncommitted
 <2>4. session.at = "run" /\ session' = [session EXCEPT !.writes = session.writes + 1]
   BY DEF WriteOutput, TerminalKept, TerminalTypes, Sessions
 <2> QED BY <2>1, <2>2, <2>3, <2>4 DEF TerminalKept, TerminalTypes, Sessions
<1>3. TerminalTypes' BY <1>1, <1>2 DEF TerminalKept, TerminalTypes
<1>4. StreamsKept(session', streams)
  BY <1>1, <1>2 DEF TerminalKept, TerminalTypes, StreamsKept, Uncommitted, Sessions, SessionKept
<1>5. SessionKept(session', window, control, disk, written')
  BY <1>1, <1>2 DEF TerminalKept, SessionKept, Uncommitted, WasTold, TerminalTypes, Sessions
<1>6. ViewerKept(session', window, viewer, control, disk, written', attended)
 <2>1. ViewerKept(session, window, viewer, control, disk, written, attended) /\ viewer.shown \in Nat /\ written \in Nat
   BY DEF TerminalKept, TerminalTypes, Viewers
 <2>2. CASE written' = written BY <1>2, <2>1, <2>2 DEF ViewerKept, WasTold
 <2>3. CASE written' = written + 1 /\ session.committed /\ ~session.notified BY <1>2, <2>1, <2>3 DEF ViewerKept, WasTold
 <2> QED BY <1>2, <2>2, <2>3
<1>7. ChannelKept(session', viewer, control.down)
  BY <1>1, <1>2 DEF TerminalKept, ChannelKept, WasTold, SessionKept, TerminalTypes, Sessions
<1> QED BY <1>1, <1>3, <1>4, <1>5, <1>6, <1>7 DEF TerminalKept

LEMMA WindowIsReaped ==
  ASSUME TerminalKept, ReapWindow
  PROVE  TerminalKept'
<1> USE DEF Early, Starting, Accepted, Ending, Handled, Both, Files, Start, View
<1>1. UNCHANGED <<streams, viewer, control, disk, written, attended>> BY DEF ReapWindow
<1>2. /\ session' \in Sessions /\ session'.at = session.at /\ session.reaper = "watching"
      /\ session'.known = session.known /\ session'.reaper = "returned" /\ session'.closed
      /\ session'.notified = session.notified /\ session'.committed = session.committed
      /\ window = "gone" /\ window' = "reaped"
  BY DEF ReapWindow, TerminalKept, TerminalTypes, Sessions
<1>3. TerminalTypes' BY <1>1, <1>2 DEF TerminalKept, TerminalTypes
<1>4. StreamsKept(session', streams)
  BY <1>1, <1>2 DEF TerminalKept, TerminalTypes, StreamsKept, Uncommitted, Sessions, SessionKept
<1>5. SessionKept(session', window', control, disk, written)
  BY <1>1, <1>2 DEF TerminalKept, SessionKept, Uncommitted, WasTold, TerminalTypes, Sessions
<1>6. ViewerKept(session', window', viewer, control, disk, written, attended)
  BY <1>1, <1>2 DEF TerminalKept, ViewerKept, WasTold, SessionKept, TerminalTypes, Sessions
<1>7. ChannelKept(session', viewer, control.down)
  BY <1>1, <1>2 DEF TerminalKept, ChannelKept, WasTold, SessionKept, TerminalTypes, Sessions
<1> QED BY <1>1, <1>3, <1>4, <1>5, <1>6, <1>7 DEF TerminalKept

LEMMA ProcessCrashes ==
  ASSUME TerminalKept, Crash
  PROVE  TerminalKept'
<1> USE DEF Early, Starting, Accepted, Ending, Handled, Both, Files, Start, View
<1>1. UNCHANGED <<streams, window, viewer, disk, written, attended>> BY DEF Crash
<1>2. /\ session' \in Sessions /\ session'.at = "crashed" /\ session.at # "ended"
      /\ session'.known = session.known /\ session'.reaper = "none" /\ session'.closed = session.closed
      /\ session'.notified = session.notified /\ session'.committed = session.committed
      /\ control' \in Controls /\ control'.connected = control.connected /\ control'.accepted = control.accepted
      /\ control'.down = control.down /\ control'.viewerEnd = control.viewerEnd
  BY DEF Crash, TerminalKept, TerminalTypes, Sessions, Controls
<1>3. TerminalTypes' BY <1>1, <1>2 DEF TerminalKept, TerminalTypes
<1>4. StreamsKept(session', streams)
  BY <1>1, <1>2 DEF TerminalKept, TerminalTypes, StreamsKept, Uncommitted, Sessions, SessionKept
<1>5. SessionKept(session', window, control', disk, written)
  BY <1>1, <1>2 DEF TerminalKept, SessionKept, Uncommitted, WasTold, TerminalTypes, Sessions
<1>6. ViewerKept(session', window, viewer, control', disk, written, attended)
  BY <1>1, <1>2 DEF TerminalKept, ViewerKept, WasTold, SessionKept, TerminalTypes, Sessions
<1>7. ChannelKept(session', viewer, control'.down)
  BY <1>1, <1>2 DEF TerminalKept, ChannelKept, WasTold, SessionKept, TerminalTypes, Sessions
<1> QED BY <1>1, <1>3, <1>4, <1>5, <1>6, <1>7 DEF TerminalKept

LEMMA StreamsComeBack ==
  ASSUME TerminalKept, Restore
  PROVE  TerminalKept'
<1> USE DEF Early, Starting, Accepted, Ending, Handled, Both, Files, Start, View
<1>1. UNCHANGED <<window, viewer, control, disk, written, attended>> BY DEF Restore
<1>2. /\ session' \in Sessions /\ session.at = "finish" /\ session'.at = "notify"
      /\ session'.known = session.known /\ session'.reaper = session.reaper /\ session'.closed = session.closed
      /\ session'.notified = session.notified /\ session'.committed = session.committed
      /\ streams' = [s \in Both |-> "original"]
  BY DEF Restore, TerminalKept, TerminalTypes, Sessions
<1>3. TerminalTypes' BY <1>1, <1>2 DEF TerminalKept, TerminalTypes
<1>4. StreamsKept(session', streams')
  BY <1>1, <1>2 DEF TerminalKept, TerminalTypes, StreamsKept, Uncommitted, Sessions, SessionKept
<1>5. SessionKept(session', window, control, disk, written)
  BY <1>1, <1>2 DEF TerminalKept, SessionKept, Uncommitted, WasTold, TerminalTypes, Sessions
<1>6. ViewerKept(session', window, viewer, control, disk, written, attended)
  BY <1>1, <1>2 DEF TerminalKept, ViewerKept, WasTold, SessionKept, TerminalTypes, Sessions
<1>7. ChannelKept(session', viewer, control.down)
  BY <1>1, <1>2 DEF TerminalKept, ChannelKept, WasTold, SessionKept, TerminalTypes, Sessions
<1> QED BY <1>1, <1>3, <1>4, <1>5, <1>6, <1>7 DEF TerminalKept

LEMMA NoticeIsGiven ==
  ASSUME TerminalKept, Notify
  PROVE  TerminalKept'
<1> USE DEF Early, Starting, Accepted, Ending, Handled, Both, Files, Start, View
<1>1. UNCHANGED <<streams, window, viewer, disk, written, attended>> BY DEF Notify
<1>2. PICK learnt \in BOOLEAN, ends \in BOOLEAN :
      /\ learnt <=> control.accepted /\ control.viewerEnd
      /\ session' = [session EXCEPT !.at = "stop", !.notified = learnt]
      /\ control' = [control EXCEPT !.down = IF learnt THEN Append(control.down, "normal") ELSE control.down, !.ownerEnd = ends]
  BY DEF Notify, TerminalKept, TerminalTypes, Controls
<1>8. PICK sent : sent = Append(control.down, "normal") OBVIOUS
<1>9. control.down \in Seq({"started", "normal"}) /\ sent \in Seq({"started", "normal"}) /\ sent # <<>>
      /\ \A i \in DOMAIN sent : (i \in DOMAIN control.down /\ sent[i] = control.down[i]) \/ sent[i] = "normal"
  BY <1>8 DEF TerminalKept, TerminalTypes, Controls
<1>10. control.down # <<>> => sent[1] = control.down[1] BY <1>8, <1>9
<1>11. /\ session' \in Sessions /\ session.at = "notify" /\ session'.at = "stop" /\ ~session.notified
       /\ session'.known = session.known /\ session'.reaper = session.reaper /\ session'.closed = session.closed
       /\ session'.committed = session.committed /\ (session'.notified <=> learnt)
  BY <1>2 DEF Notify, TerminalKept, TerminalTypes, SessionKept, Uncommitted, Sessions
<1>12. /\ control' \in Controls /\ control'.connected = control.connected /\ control'.accepted = control.accepted
       /\ control'.down = (IF learnt THEN sent ELSE control.down) /\ control'.viewerEnd = control.viewerEnd
 <2>1. control' = [control EXCEPT !.down = IF learnt THEN sent ELSE control.down, !.ownerEnd = ends] BY <1>2, <1>8
 <2> QED BY <1>9, <2>1 DEF TerminalKept, TerminalTypes, Controls
<1>3. TerminalTypes' BY <1>1, <1>11, <1>12 DEF TerminalKept, TerminalTypes
<1>4. StreamsKept(session', streams) BY <1>1, <1>11 DEF TerminalKept, StreamsKept, Uncommitted
<1>5. SessionKept(session', window, control', disk, written)
  BY <1>1, <1>11, <1>12 DEF TerminalKept, SessionKept, Uncommitted, WasTold
<1>6. ViewerKept(session', window, viewer, control', disk, written, attended)
  BY <1>1, <1>2, <1>11, <1>12 DEF TerminalKept, ViewerKept, SessionKept, WasTold, TerminalTypes, Viewers
<1>7. ChannelKept(session', viewer, control'.down)
  BY <1>1, <1>2, <1>9, <1>10, <1>11, <1>12 DEF TerminalKept, ChannelKept, WasTold
<1> QED BY <1>1, <1>3, <1>4, <1>5, <1>6, <1>7 DEF TerminalKept

\* A viewer that is hung up goes on to its end, or ends.
LEMMA HungUp ==
  ASSUME TerminalKept, HangUp
  PROVE  /\ attended' = FALSE
         /\ viewer' \in Viewers /\ control' \in Controls /\ control'.down = control.down
         /\ control'.connected = control.connected /\ control'.accepted = control.accepted
         /\ viewer'.normal = viewer.normal /\ viewer'.shown = viewer.shown /\ viewer'.drained = viewer.drained
         /\ viewer'.at = (IF viewer.at \in Handled THEN viewer.at ELSE "ended")
         /\ (control'.viewerEnd <=> viewer'.at \in Handled)
<1> USE DEF Early, Starting, Accepted, Ending, Handled, Both, Files, Start, View
<1>1. viewer \in Viewers /\ control \in Controls
      /\ (control.viewerEnd <=> viewer.at \in Handled \cup {"ready"})
  BY DEF TerminalKept, TerminalTypes, ViewerKept
<1>2. CASE IsHandled BY <1>1, <1>2 DEF HangUp, IsHandled, Viewers
<1>3. CASE ~IsHandled
 <2>1. /\ attended' = FALSE /\ viewer.at \notin Handled
       /\ viewer' = [viewer EXCEPT !.at = "ended"] /\ control' = [control EXCEPT !.viewerEnd = FALSE]
   BY <1>3 DEF HangUp, IsHandled, LeaveViewer
 <2>2. /\ viewer' \in Viewers /\ viewer'.at = "ended" /\ viewer'.normal = viewer.normal
       /\ viewer'.shown = viewer.shown /\ viewer'.drained = viewer.drained
   BY <1>1, <2>1 DEF Viewers
 <2>3. /\ control' \in Controls /\ control'.down = control.down /\ ~control'.viewerEnd
       /\ control'.connected = control.connected /\ control'.accepted = control.accepted
   BY <1>1, <2>1 DEF Controls
 <2> QED BY <2>1, <2>2, <2>3
<1> QED BY <1>2, <1>3

LEMMA ReaperStops ==
  ASSUME TerminalKept, StopReaper
  PROVE  TerminalKept'
<1> USE DEF Early, Starting, Accepted, Ending, Handled, Both, Files, Start, View
<1>1. UNCHANGED <<streams, disk, written>> BY DEF StopReaper
<1>2. /\ session' \in Sessions /\ session.at = "stop" /\ session'.at = "clean"
      /\ session'.known = session.known /\ session'.reaper = "none" /\ session'.closed = session.closed
      /\ session'.notified = session.notified /\ session'.committed = session.committed
  BY DEF StopReaper, TerminalKept, TerminalTypes, Sessions
<1>8. \/ UNCHANGED <<window, viewer, control, attended>> /\ (session.committed \/ ~session.known)
      \/ UNCHANGED <<viewer, control, attended>> /\ window' = "reaped" /\ ~session.committed
         /\ (window = "open" => viewer.at = "ended") /\ window # "none"
      \/ HangUp /\ window' = "reaped" /\ ~session.committed /\ window = "open"
  BY DEF StopReaper, TerminalKept, SessionKept
<1>9. CASE UNCHANGED <<window, viewer, control, attended>> /\ (session.committed \/ ~session.known)
 <2>1. TerminalTypes' /\ StreamsKept(session', streams)
   BY <1>1, <1>2, <1>9 DEF TerminalKept, TerminalTypes, StreamsKept, Uncommitted
 <2>2. SessionKept(session', window, control, disk, written)
   BY <1>2, <1>9 DEF TerminalKept, SessionKept, Uncommitted, WasTold
 <2>3. ViewerKept(session', window, viewer, control, disk, written, attended) /\ ChannelKept(session', viewer, control.down)
   BY <1>2, <1>9 DEF TerminalKept, ViewerKept, ChannelKept, WasTold
 <2> QED BY <1>1, <1>9, <2>1, <2>2, <2>3 DEF TerminalKept
<1>10. CASE UNCHANGED <<viewer, control, attended>> /\ window' = "reaped" /\ ~session.committed
            /\ (window = "open" => viewer.at = "ended") /\ window # "none"
 <2>1. TerminalTypes' /\ StreamsKept(session', streams)
   BY <1>1, <1>2, <1>10 DEF TerminalKept, TerminalTypes, StreamsKept, Uncommitted
 <2>2. SessionKept(session', window', control, disk, written)
   BY <1>2, <1>10 DEF TerminalKept, SessionKept, Uncommitted, WasTold
 <2>3. ViewerKept(session', window', viewer, control, disk, written, attended) /\ ChannelKept(session', viewer, control.down)
   BY <1>2, <1>10 DEF TerminalKept, TerminalTypes, ViewerKept, ChannelKept, WasTold
 <2> QED BY <1>1, <1>10, <2>1, <2>2, <2>3 DEF TerminalKept
<1>11. CASE HangUp /\ window' = "reaped" /\ ~session.committed /\ window = "open"
 <2>1. attended' = FALSE /\ viewer' \in Viewers /\ control' \in Controls /\ control'.down = control.down
      /\ control'.connected = control.connected /\ control'.accepted = control.accepted
      /\ viewer'.normal = viewer.normal /\ viewer'.shown = viewer.shown /\ viewer'.drained = viewer.drained
      /\ viewer'.at = (IF viewer.at \in Handled THEN viewer.at ELSE "ended")
      /\ (control'.viewerEnd <=> viewer'.at \in Handled)
   BY <1>11, HungUp
 <2>2. TerminalTypes' /\ StreamsKept(session', streams)
   BY <1>1, <1>2, <1>11, <2>1 DEF TerminalKept, TerminalTypes, StreamsKept, Uncommitted
 <2>3. SessionKept(session', window', control', disk, written)
   BY <1>2, <1>11, <2>1 DEF TerminalKept, SessionKept, Uncommitted, WasTold
 <2>4. ViewerKept(session', window', viewer', control', disk, written, attended') /\ ChannelKept(session', viewer', control'.down)
   BY <1>2, <1>11, <2>1 DEF TerminalKept, ViewerKept, ChannelKept, WasTold
 <2> QED BY <1>1, <2>2, <2>3, <2>4 DEF TerminalKept
<1> QED BY <1>8, <1>9, <1>10, <1>11

LEMMA CaptureIsCleaned ==
  ASSUME TerminalKept, CleanUp
  PROVE  TerminalKept'
<1> USE DEF Early, Starting, Accepted, Ending, Handled, Both, Files, Start, View
<1>1. UNCHANGED <<streams, window, viewer, written, attended>> BY DEF CleanUp
<1>2. /\ session' \in Sessions /\ session.at = "clean" /\ session'.at = IF session.committed THEN "ended" ELSE "run"
      /\ session'.known = session.known /\ session'.reaper = session.reaper /\ session'.closed = session.closed
      /\ session'.notified = session.notified /\ session'.committed = session.committed
      /\ \/ disk' = {} /\ (~session.notified \/ ~session.committed \/ session.closed)
         \/ disk' = disk /\ session.notified /\ session.committed /\ ~session.closed
      /\ control' \in Controls /\ control'.connected = control.connected /\ control'.accepted = control.accepted
      /\ control'.down = control.down /\ control'.viewerEnd = control.viewerEnd
 <2>1. session.at = "clean" /\ session' = [session EXCEPT !.at = IF session.committed THEN "ended" ELSE "run"]
       /\ control' = [control EXCEPT !.listens = FALSE, !.ownerEnd = FALSE]
   BY DEF CleanUp
 <2>2. \/ disk' = {} /\ (~session.notified \/ ~session.committed \/ session.closed)
       \/ disk' = disk /\ session.notified /\ session.committed /\ ~session.closed
   BY DEF CleanUp, OwnerRemoves
 <2> QED BY <2>1, <2>2 DEF TerminalKept, TerminalTypes, Sessions, Controls
<1>3. TerminalTypes' BY <1>1, <1>2 DEF TerminalKept, TerminalTypes
<1>4. StreamsKept(session', streams)
  BY <1>1, <1>2 DEF TerminalKept, TerminalTypes, StreamsKept, Uncommitted, Sessions, SessionKept
<1>5. SessionKept(session', window, control', disk', written)
  BY <1>1, <1>2 DEF TerminalKept, SessionKept, Uncommitted, WasTold, TerminalTypes, Sessions
<1>6. ViewerKept(session', window, viewer, control', disk', written, attended)
  BY <1>1, <1>2 DEF TerminalKept, ViewerKept, WasTold, SessionKept, TerminalTypes, Sessions
<1>7. ChannelKept(session', viewer, control'.down)
  BY <1>1, <1>2 DEF TerminalKept, ChannelKept, WasTold, SessionKept, TerminalTypes, Sessions
<1> QED BY <1>1, <1>3, <1>4, <1>5, <1>6, <1>7 DEF TerminalKept

LEMMA ViewerConnects ==
  ASSUME TerminalKept, ConnectViewer
  PROVE  TerminalKept'
<1> USE DEF Early, Starting, Accepted, Ending, Handled, Both, Files, Start, View
<1>1. UNCHANGED <<session, streams, window, disk, written, attended>> BY DEF ConnectViewer
<1>2. /\ viewer' \in Viewers /\ control' \in Controls /\ viewer.at = "connect" /\ control'.down = control.down
      /\ viewer'.closed = viewer.closed /\ viewer'.normal = viewer.normal
      /\ viewer'.shown = viewer.shown /\ viewer'.drained = viewer.drained
      /\ control'.accepted = control.accepted /\ ~control.connected
      /\ \/ viewer'.at = "ready" /\ control'.connected /\ control'.viewerEnd
         \/ viewer'.at = "ended" /\ ~control'.connected /\ ~control'.viewerEnd
 <2>1. viewer \in Viewers /\ control \in Controls /\ ~control.connected /\ viewer.at = "connect"
   BY DEF ConnectViewer, TerminalKept, TerminalTypes, ViewerKept
 <2>2. PICK more : more = Append(control.up, "ready") OBVIOUS
 <2>3. more \in Seq({"ready"}) BY <2>1, <2>2 DEF Controls
 <2>4. CASE control.listens
  <3>1. /\ control' = [control EXCEPT !.connected = TRUE, !.viewerEnd = TRUE, !.ownerEnd = TRUE, !.up = more]
        /\ viewer' = [viewer EXCEPT !.at = "ready"]
    BY <2>1, <2>2, <2>4 DEF ConnectViewer
  <3> QED BY <2>1, <2>3, <3>1 DEF Viewers, Controls
 <2>5. CASE ~control.listens
  <3>1. /\ control' = [control EXCEPT !.viewerEnd = FALSE]
        /\ viewer' = [viewer EXCEPT !.at = "ended"]
    BY <2>5 DEF ConnectViewer, LeaveViewer
  <3> QED BY <2>1, <3>1 DEF Viewers, Controls
 <2> QED BY <2>4, <2>5
<1>3. TerminalTypes' BY <1>1, <1>2 DEF TerminalKept, TerminalTypes
<1>4. StreamsKept(session, streams) BY <1>1 DEF TerminalKept
<1>5. SessionKept(session, window, control', disk, written) BY <1>1, <1>2 DEF TerminalKept, SessionKept, WasTold
<1>6. ViewerKept(session, window, viewer', control', disk, written, attended)
  BY <1>1, <1>2 DEF TerminalKept, ViewerKept, WasTold, SessionKept, TerminalTypes, Viewers
<1>7. ChannelKept(session, viewer', control'.down)
  BY <1>1, <1>2 DEF TerminalKept, ChannelKept, SessionKept, ViewerKept, WasTold
<1> QED BY <1>1, <1>3, <1>4, <1>5, <1>6, <1>7 DEF TerminalKept

LEMMA StartIsAwaited ==
  ASSUME TerminalKept, AwaitStart
  PROVE  TerminalKept'
<1> USE DEF Early, Starting, Accepted, Ending, Handled, Both, Files, Start, View
<1>1. UNCHANGED <<session, streams, window, disk, written, attended>> BY DEF AwaitStart
<1>8. PICK rest : rest = Tail(control.down) OBVIOUS
<1>2. /\ viewer' \in Viewers /\ control' \in Controls /\ viewer.at = "ready"
      /\ viewer'.closed = viewer.closed /\ viewer'.normal = viewer.normal
      /\ viewer'.shown = viewer.shown /\ viewer'.drained = viewer.drained
      /\ control'.accepted = control.accepted /\ control'.connected = control.connected
      /\ \/ /\ viewer'.at = "drain" /\ control'.viewerEnd
            /\ control.down # <<>> /\ control'.down = rest /\ control'.viewerEnd = control.viewerEnd
         \/ /\ viewer'.at = "ended" /\ control'.down = control.down /\ ~control'.viewerEnd
            /\ ~WasTold(session)
 <2>1. viewer \in Viewers /\ control \in Controls /\ viewer.at = "ready" /\ control.viewerEnd
   BY DEF AwaitStart, TerminalKept, TerminalTypes, ViewerKept
 <2>2. CASE control.down # <<>> /\ Head(control.down) = "started" /\ "output" \in disk
  <3>1. /\ viewer' = [viewer EXCEPT !.at = "drain"] /\ control' = [control EXCEPT !.down = rest]
    BY <1>8, <2>1, <2>2 DEF AwaitStart
  <3>2. rest \in Seq({"started", "normal"}) BY <1>8, <2>1, <2>2 DEF Controls
  <3> QED BY <2>1, <2>2, <3>1, <3>2 DEF Viewers, Controls
 <2>3. CASE ~(control.down # <<>> /\ Head(control.down) = "started" /\ "output" \in disk)
  <3>1. /\ control' = [control EXCEPT !.viewerEnd = FALSE]
        /\ viewer' = [viewer EXCEPT !.at = "ended"]
    BY <2>1, <2>3 DEF AwaitStart, LeaveViewer
  <3>2. ~WasTold(session)
   <4>1. SUFFICES ASSUME WasTold(session) PROVE FALSE OBVIOUS
   <4>2. "output" \in disk /\ control.down # <<>> /\ control.down[1] = "started"
     BY <2>1, <4>1 DEF TerminalKept, ViewerKept, ChannelKept
   <4> QED BY <2>1, <2>3, <4>2 DEF Controls
  <3> QED BY <2>1, <3>1, <3>2 DEF Viewers, Controls
 <2> QED BY <2>2, <2>3
<1>3. TerminalTypes' BY <1>1, <1>2 DEF TerminalKept, TerminalTypes
<1>4. StreamsKept(session, streams) BY <1>1 DEF TerminalKept
<1>5. SessionKept(session, window, control', disk, written) BY <1>1, <1>2 DEF TerminalKept, SessionKept, WasTold
<1>6. ViewerKept(session, window, viewer', control', disk, written, attended)
  BY <1>1, <1>2 DEF TerminalKept, ViewerKept, WasTold, SessionKept, TerminalTypes, Viewers
<1>7. ChannelKept(session, viewer', control'.down)
 <2>1. control.down \in Seq({"started", "normal"}) /\ ChannelKept(session, viewer, control.down)
   BY DEF TerminalKept, TerminalTypes, Controls
 <2>2. CASE viewer'.at = "ended" BY <1>2, <2>1, <2>2 DEF ChannelKept
 <2>3. CASE viewer'.at = "drain" /\ control'.down = rest /\ control.down # <<>>
  <3>1. \A i \in DOMAIN rest : i + 1 \in DOMAIN control.down /\ rest[i] = control.down[i + 1] /\ i \in Nat \ {0}
    BY <1>8, <2>1, <2>3
  <3>2. \A i \in DOMAIN rest : rest[i] # "started" /\ (rest[i] = "normal" => session.notified)
    BY <2>1, <3>1 DEF ChannelKept
  <3>3. session.at \notin Early BY <2>1, <2>3 DEF ChannelKept
  <3> QED BY <2>3, <3>2, <3>3 DEF ChannelKept
 <2> QED BY <1>2, <2>2, <2>3
<1> QED BY <1>1, <1>3, <1>4, <1>5, <1>6, <1>7 DEF TerminalKept

LEMMA OutputIsShown ==
  ASSUME TerminalKept, Drain
  PROVE  TerminalKept'
<1> USE DEF Early, Starting, Accepted, Ending, Handled, Both, Files, Start, View
<1>1. UNCHANGED <<session, streams, window, control, disk, written>> BY DEF Drain
<1>2. /\ viewer' \in Viewers /\ viewer.at = "drain" /\ viewer'.at = "decide" /\ attended' \in BOOLEAN
      /\ viewer'.closed = viewer.closed /\ viewer'.normal = viewer.normal
      /\ viewer'.shown <= written /\ (attended' => attended)
      /\ viewer'.drained = "empty" => viewer'.shown = written
      /\ viewer'.drained = "closed" => ~attended'
      /\ viewer.closed => ~attended'
 <2>1. /\ viewer \in Viewers /\ written \in Nat /\ viewer.shown <= written /\ attended \in BOOLEAN
       /\ viewer.closed => ~attended
   BY DEF TerminalKept, TerminalTypes, ViewerKept
 <2>2. CASE \E n \in viewer.shown .. written :
              /\ viewer' = [viewer EXCEPT !.at = "decide", !.shown = n, !.drained = IF n = written THEN "empty" ELSE "pending"]
              /\ UNCHANGED attended
  <3>1. PICK n \in viewer.shown .. written :
             /\ viewer' = [viewer EXCEPT !.at = "decide", !.shown = n, !.drained = IF n = written THEN "empty" ELSE "pending"]
             /\ UNCHANGED attended
    BY <2>2
  <3>2. n \in Nat /\ n <= written BY <2>1 DEF Viewers
  <3> QED BY <2>1, <3>1, <3>2 DEF Viewers, Drain
 <2>3. CASE viewer' = [viewer EXCEPT !.at = "decide", !.drained = "closed"] /\ attended' = FALSE
   BY <2>1, <2>3 DEF Viewers, Drain
 <2> QED BY <2>2, <2>3 DEF Drain
<1>3. TerminalTypes' BY <1>1, <1>2 DEF TerminalKept, TerminalTypes
<1>4. StreamsKept(session, streams) BY <1>1 DEF TerminalKept
<1>5. SessionKept(session, window, control, disk, written) BY <1>1, <1>2 DEF TerminalKept, SessionKept, WasTold
<1>6. ViewerKept(session, window, viewer', control, disk, written, attended')
  BY <1>1, <1>2 DEF TerminalKept, ViewerKept, WasTold, SessionKept, TerminalTypes, Viewers
<1>7. ChannelKept(session, viewer', control.down) BY <1>1, <1>2 DEF TerminalKept, ChannelKept, WasTold
<1> QED BY <1>1, <1>3, <1>4, <1>5, <1>6, <1>7 DEF TerminalKept

LEMMA ViewerDecides ==
  ASSUME TerminalKept, Decide
  PROVE  TerminalKept'
<1> USE DEF Early, Starting, Accepted, Ending, Handled, Both, Files, Start, View
<1>1. UNCHANGED <<session, streams, window, control, disk, written, attended>> BY DEF Decide
<1>2. /\ viewer' \in Viewers /\ viewer.at = "decide" /\ viewer'.at = IF Leaves THEN "remove" ELSE "poll"
      /\ viewer'.closed = viewer.closed /\ viewer'.normal = viewer.normal
      /\ viewer'.shown = viewer.shown /\ viewer'.drained = viewer.drained
  BY DEF Decide, TerminalKept, TerminalTypes, Viewers
<1>3. TerminalTypes' BY <1>1, <1>2 DEF TerminalKept, TerminalTypes
<1>4. StreamsKept(session, streams) BY <1>1 DEF TerminalKept
<1>5. SessionKept(session, window, control, disk, written) BY <1>1, <1>2 DEF TerminalKept, SessionKept, WasTold
<1>6. ViewerKept(session, window, viewer', control, disk, written, attended)
  BY <1>1, <1>2 DEF TerminalKept, ViewerKept, WasTold, Leaves
<1>7. ChannelKept(session, viewer', control.down) BY <1>1, <1>2 DEF TerminalKept, ChannelKept, WasTold
<1> QED BY <1>1, <1>3, <1>4, <1>5, <1>6, <1>7 DEF TerminalKept

LEMMA ChannelIsPolled ==
  ASSUME TerminalKept, PollChannel
  PROVE  TerminalKept'
<1> USE DEF Early, Starting, Accepted, Ending, Handled, Both, Files, Start, View
<1>1. UNCHANGED <<session, streams, window, disk, written, attended>> BY DEF PollChannel
<1>8. PICK rest : rest = Tail(control.down) OBVIOUS
<1>9. control.down \in Seq({"started", "normal"}) /\ ChannelKept(session, viewer, control.down)
  BY DEF TerminalKept, TerminalTypes, Controls
<1>10. PICK hears \in BOOLEAN, ends \in BOOLEAN :
         /\ viewer' = [viewer EXCEPT !.at = "drain", !.normal = hears, !.retained = ends]
         /\ \/ control' = control /\ (hears <=> viewer.normal)
            \/ hears /\ control.down # <<>> /\ control' = [control EXCEPT !.down = rest]
  BY <1>8 DEF PollChannel, TerminalKept, TerminalTypes, Viewers
<1>11. control.down # <<>> => /\ rest \in Seq({"started", "normal"}) /\ session.notified
                              /\ \A i \in DOMAIN rest : rest[i] # "started" /\ (rest[i] = "normal" => session.notified)
 <2>1. SUFFICES ASSUME control.down # <<>>
                PROVE  /\ rest \in Seq({"started", "normal"}) /\ session.notified
                       /\ \A i \in DOMAIN rest : rest[i] # "started" /\ (rest[i] = "normal" => session.notified)
   OBVIOUS
 <2>2. rest \in Seq({"started", "normal"}) /\ 1 \in DOMAIN control.down /\ control.down[1] \in {"started", "normal"}
   BY <1>8, <1>9, <2>1
 <2>3. \A i \in DOMAIN rest : i + 1 \in DOMAIN control.down /\ rest[i] = control.down[i + 1] BY <1>8, <1>9, <2>1
 <2>4. \A i \in DOMAIN control.down : control.down[i] # "started" /\ (control.down[i] = "normal" => session.notified)
   BY <1>9 DEF ChannelKept, PollChannel
 <2> QED BY <2>2, <2>3, <2>4
<1>2. /\ viewer' \in Viewers /\ control' \in Controls /\ viewer.at = "poll" /\ viewer'.at = "drain"
      /\ viewer'.closed = viewer.closed /\ viewer'.shown = viewer.shown /\ viewer'.drained = viewer.drained
      /\ control'.accepted = control.accepted /\ control'.connected = control.connected /\ control'.viewerEnd = control.viewerEnd
      /\ viewer'.normal => session.notified
      /\ control'.down = control.down \/ (control'.down = rest /\ control.down # <<>>)
 <2>1. viewer \in Viewers /\ control \in Controls /\ viewer.at = "poll" /\ (viewer.normal => session.notified)
   BY DEF PollChannel, TerminalKept, TerminalTypes, ViewerKept
 <2>2. /\ viewer' \in Viewers /\ viewer'.at = "drain" /\ viewer'.closed = viewer.closed
       /\ viewer'.shown = viewer.shown /\ viewer'.drained = viewer.drained
       /\ viewer'.normal <=> hears
   BY <1>10, <2>1 DEF Viewers
 <2>3. CASE control' = control /\ (hears <=> viewer.normal) BY <2>1, <2>2, <2>3
 <2>4. CASE hears /\ control.down # <<>> /\ control' = [control EXCEPT !.down = rest]
   BY <1>11, <2>1, <2>2, <2>4 DEF Controls
 <2> QED BY <1>10, <2>3, <2>4
<1>3. TerminalTypes' BY <1>1, <1>2 DEF TerminalKept, TerminalTypes
<1>4. StreamsKept(session, streams) BY <1>1 DEF TerminalKept
<1>5. SessionKept(session, window, control', disk, written) BY <1>1, <1>2 DEF TerminalKept, SessionKept, WasTold
<1>6. ViewerKept(session, window, viewer', control', disk, written, attended)
  BY <1>1, <1>2 DEF TerminalKept, ViewerKept, WasTold, SessionKept, TerminalTypes, Viewers
<1>7. ChannelKept(session, viewer', control'.down)
 <2>1. session.at \notin Early BY <1>2, <1>9 DEF ChannelKept
 <2>2. CASE control'.down = control.down BY <1>2, <1>9, <2>1, <2>2 DEF ChannelKept
 <2>3. CASE control'.down = rest /\ control.down # <<>> BY <1>2, <1>11, <2>1, <2>3 DEF ChannelKept
 <2> QED BY <1>2, <2>2, <2>3
<1> QED BY <1>1, <1>3, <1>4, <1>5, <1>6, <1>7 DEF TerminalKept

LEMMA LoopIsClosed ==
  ASSUME TerminalKept, CloseLoop
  PROVE  TerminalKept'
<1> USE DEF Early, Starting, Accepted, Ending, Handled, Both, Files, Start, View
<1>1. UNCHANGED <<session, streams, window, control, disk, written, attended>> BY DEF CloseLoop
<1>2. /\ viewer' \in Viewers /\ viewer.at = "drain" /\ viewer.closed /\ viewer'.at = "remove"
      /\ viewer'.closed = viewer.closed /\ viewer'.normal = viewer.normal
      /\ viewer'.shown = viewer.shown /\ viewer'.drained = viewer.drained
  BY DEF CloseLoop, TerminalKept, TerminalTypes, Viewers
<1>3. TerminalTypes' BY <1>1, <1>2 DEF TerminalKept, TerminalTypes
<1>4. StreamsKept(session, streams) BY <1>1 DEF TerminalKept
<1>5. SessionKept(session, window, control, disk, written) BY <1>1, <1>2 DEF TerminalKept, SessionKept, WasTold
<1>6. ViewerKept(session, window, viewer', control, disk, written, attended)
  BY <1>1, <1>2 DEF TerminalKept, ViewerKept, WasTold, SessionKept, TerminalTypes, Viewers
<1>7. ChannelKept(session, viewer', control.down) BY <1>1, <1>2 DEF TerminalKept, ChannelKept, WasTold
<1> QED BY <1>1, <1>3, <1>4, <1>5, <1>6, <1>7 DEF TerminalKept

LEMMA CaptureIsRemoved ==
  ASSUME TerminalKept, RemoveCapture
  PROVE  TerminalKept'
<1> USE DEF Early, Starting, Accepted, Ending, Handled, Both, Files, Start, View
<1>1. UNCHANGED <<session, streams, window, written, attended>> BY DEF RemoveCapture
<1>2. /\ viewer' \in Viewers /\ viewer.at = "remove" /\ viewer'.at = "ended"
      /\ viewer'.closed = viewer.closed /\ viewer'.normal = viewer.normal
      /\ viewer'.shown = viewer.shown /\ viewer'.drained = viewer.drained
      /\ control' \in Controls /\ ~control'.viewerEnd /\ control'.down = control.down
      /\ control'.accepted = control.accepted /\ control'.connected = control.connected
      /\ disk' \in {disk, {}} /\ (viewer.normal => disk' = {})
  BY DEF RemoveCapture, LeaveViewer, TerminalKept, TerminalTypes, Viewers, Controls
<1>3. TerminalTypes' BY <1>1, <1>2 DEF TerminalKept, TerminalTypes
<1>4. StreamsKept(session, streams) BY <1>1 DEF TerminalKept
<1>5. SessionKept(session, window, control', disk', written)
  BY <1>1, <1>2 DEF TerminalKept, SessionKept, WasTold, Uncommitted
<1>6. ViewerKept(session, window, viewer', control', disk', written, attended)
  BY <1>1, <1>2 DEF TerminalKept, ViewerKept, WasTold, SessionKept, TerminalTypes, Viewers
<1>7. ChannelKept(session, viewer', control'.down) BY <1>1, <1>2 DEF TerminalKept, ChannelKept, WasTold
<1> QED BY <1>1, <1>3, <1>4, <1>5, <1>6, <1>7 DEF TerminalKept

LEMMA WindowCloses ==
  ASSUME TerminalKept, CloseWindow
  PROVE  TerminalKept'
<1> USE DEF Early, Starting, Accepted, Ending, Handled, Both, Files, Start, View
<1>1. UNCHANGED <<session, streams, disk, written>> /\ window = "open" /\ window' = "gone" /\ viewer.at # "ended"
  BY DEF CloseWindow
<1>2. attended' = FALSE /\ viewer' \in Viewers /\ control' \in Controls /\ control'.down = control.down
      /\ control'.connected = control.connected /\ control'.accepted = control.accepted
      /\ viewer'.normal = viewer.normal /\ viewer'.shown = viewer.shown /\ viewer'.drained = viewer.drained
      /\ viewer'.at = (IF viewer.at \in Handled THEN viewer.at ELSE "ended")
      /\ (control'.viewerEnd <=> viewer'.at \in Handled)
  BY HungUp DEF CloseWindow
<1>3. TerminalTypes' BY <1>1, <1>2 DEF TerminalKept, TerminalTypes
<1>4. StreamsKept(session, streams) BY DEF TerminalKept
<1>5. SessionKept(session, window', control', disk, written)
  BY <1>1, <1>2 DEF TerminalKept, SessionKept, WasTold, Uncommitted
<1>6. ViewerKept(session, window', viewer', control', disk, written, attended')
  BY <1>1, <1>2 DEF TerminalKept, ViewerKept, WasTold
<1>7. ChannelKept(session, viewer', control'.down) BY <1>1, <1>2 DEF TerminalKept, ChannelKept, WasTold
<1> QED BY <1>1, <1>3, <1>4, <1>5, <1>6, <1>7 DEF TerminalKept

LEMMA EmulatorEnds ==
  ASSUME TerminalKept, EndWindow
  PROVE  TerminalKept'
<1> USE DEF Early, Starting, Accepted, Ending, Handled, Both, Files, Start, View
<1>1. UNCHANGED <<session, streams, viewer, control, disk, written, attended>> BY DEF EndWindow
<1>2. window = "open" /\ viewer.at = "ended" /\ window' = "gone" BY DEF EndWindow
<1>3. TerminalTypes' BY <1>1, <1>2 DEF TerminalKept, TerminalTypes
<1>4. StreamsKept(session, streams) BY DEF TerminalKept
<1>5. SessionKept(session, window', control, disk, written)
  BY <1>1, <1>2 DEF TerminalKept, SessionKept, WasTold, Uncommitted
<1>6. ViewerKept(session, window', viewer, control, disk, written, attended)
  BY <1>1, <1>2 DEF TerminalKept, ViewerKept, WasTold, SessionKept, TerminalTypes, Sessions
<1>7. ChannelKept(session, viewer, control.down) BY <1>1, <1>2 DEF TerminalKept
<1> QED BY <1>1, <1>3, <1>4, <1>5, <1>6, <1>7 DEF TerminalKept

LEMMA TerminalStepKeeps ==
  ASSUME TerminalKept, TerminalNext
  PROVE  TerminalKept'
<1>1. CASE SaveStreams \/ RegisterExit \/ StartFailure \/ Exit
 <2>1. Exit => UNCHANGED window BY DEF Exit
 <2> QED BY <1>1, <2>1, SessionGoesOn
<1>2. CASE CreateFile \/ LaunchEmulator \/ AcceptViewer \/ LookAgain \/ TakeAcknowledgement \/ Capture \/ TellStarted
  BY <1>2, FileIsMade, EmulatorStarts, ViewerAccepted, LooksAgain, AcknowledgementTaken, StreamIsCaptured, StartIsTold
<1>3. CASE WriteOutput \/ ReapWindow \/ Crash \/ Restore \/ Notify \/ StopReaper \/ CleanUp
  BY <1>3, OutputIsWritten, WindowIsReaped, ProcessCrashes, StreamsComeBack, NoticeIsGiven, ReaperStops,
    CaptureIsCleaned
<1>4. CASE ConnectViewer \/ AwaitStart \/ Drain \/ Decide \/ PollChannel \/ CloseLoop \/ RemoveCapture
  BY <1>4, ViewerConnects, StartIsAwaited, OutputIsShown, ViewerDecides, ChannelIsPolled, LoopIsClosed, CaptureIsRemoved
<1>5. CASE CloseWindow \/ EndWindow BY <1>5, WindowCloses, EmulatorEnds
<1> QED BY <1>1, <1>2, <1>3, <1>4, <1>5 DEF TerminalNext

LEMMA TerminalStays == TerminalKept /\ UNCHANGED terminalVars => TerminalKept'
  BY DEF TerminalKept, TerminalTypes, terminalVars

LEMMA TerminalIsClean == TerminalKept => TerminalEndsClean
<1> USE DEF Early, Starting, Accepted, Ending, Handled, Both
<1>1. SUFFICES ASSUME TerminalKept PROVE TerminalEndsClean OBVIOUS
<1>2. /\ TerminalTypes /\ StreamsKept(session, streams)
      /\ SessionKept(session, window, control, disk, written)
      /\ ViewerKept(session, window, viewer, control, disk, written, attended)
  BY <1>1 DEF TerminalKept
<1>3. RunsWhole
 <2>1. session.at = "run" => \E to \in {"capture", "original"} : \A s \in Both : streams[s] = to
   BY <1>2 DEF StreamsKept, Uncommitted
 <2> QED BY <1>2, <2>1 DEF RunsWhole, StreamsKept, SessionKept, Uncommitted
<1>4. ShownBeforeRemoved BY <1>2 DEF ShownBeforeRemoved, SessionKept, ViewerKept, WasTold
<1>5. NothingStays BY <1>2 DEF NothingStays, SessionKept, ViewerKept, WasTold
<1> QED BY <1>3, <1>4, <1>5 DEF TerminalEndsClean
====================
