---- MODULE FrameHandoff ----
\* GameRuntime::run_concurrent: a simulation thread that updates the game
\* and publishes frames, a platform thread that polls input, renders and
\* recycles, and what they hand each other under the scheduler's mutex:
\* three frame slots, the polling backlog with its window, and the flags
\* of start-up and tear-down.
\*
\* An action is one critical section of the scheduler's mutex or the code
\* between two.  notify_all after an unlock is a step of its own (Wake).
\* stop, and posts to the platform dispatcher, become visible before their
\* wake callbacks take the mutex, so they too are a change and a Wake.
EXTENDS Integers, Sequences, FiniteSets

CONSTANTS
    NumSlots,   \* three in the code
    Capacity,   \* completed polls the backlog holds (1 is lockstep)
    MaxUpdates, MaxPolls, MaxResizes, MaxAsks   \* bounds of the exploration

Slots == 1..NumSlots

ASSUME HandoffAssumption ==
  /\ NumSlots \in Nat /\ NumSlots >= 3 /\ Capacity \in Nat \ {0}
  /\ {MaxUpdates, MaxPolls, MaxResizes, MaxAsks} \subseteq Nat

VARIABLES
    slot,       \* Slot::state
    frame,      \* the update whose view the slot's frame holds; 0: recycled
    ready,      \* Handoff::ready; 0: none
    backlog,    \* Handoff::backlog, polls by the window they were taken under
    window,     \* Handoff::window
    simulationReady, startReleased, workerDone, workerFailure, \* Handoff's flags
    stop,       \* stop_source_
    simPc, resume, simStarted, writable, updates,   \* the simulation thread
    input,      \* what the current update was given: window and newest poll
    platPc, selected, polled, scan, taken, current, rendered, \* the platform thread
    failure,    \* run_concurrent's failure: "none", "platform" or "worker"
    due, spaced,            \* pacing.due(now); the polling delay has elapsed
    passedOver, \* history: this cycle left a ready frame, which was not due
    renderTimed, pollTimed, \* which deadlines the platform's wait has
    asleep, notifying,      \* threads blocked; threads about to notify_all
    request,    \* the platform request a simulation callback waits for
    resized, polls, asks    \* the real window; counters for the bounds

slotVars == <<slot, frame, ready>>
inputVars == <<backlog, window>>
flagVars == <<simulationReady, startReleased, workerDone, workerFailure>>
simVars == <<simPc, resume, simStarted, writable, updates, input>>
platVars == <<platPc, selected, polled, scan, taken, current, rendered, failure>>
clockVars == <<due, spaced, passedOver>>
timerVars == <<renderTimed, pollTimed>>
waitVars == <<asleep, notifying>>
outerVars == <<request, resized, polls, asks>>
vars == <<slotVars, inputVars, flagVars, stop, simVars, platVars, clockVars, timerVars,
          waitVars, outerVars>>

NoPoll == -1

Init ==
  /\ slot = [i \in Slots |-> "Free"] /\ frame = [i \in Slots |-> 0] /\ ready = 0
  /\ backlog = <<>> /\ window = 0
  /\ simulationReady = FALSE /\ startReleased = FALSE
  /\ workerDone = FALSE /\ workerFailure = FALSE
  /\ stop = FALSE
  /\ simPc = "unborn" /\ resume = "none" /\ simStarted = FALSE
  /\ writable = 0 /\ updates = 0 /\ input = [window |-> 0, poll |-> 0]
  /\ platPc = "begin" /\ selected = 0 /\ polled = NoPoll /\ scan = 1
  /\ taken = 0 /\ current = 0 /\ rendered = 0 /\ failure = "none"
  /\ due = TRUE /\ spaced = TRUE /\ passedOver = FALSE
  /\ renderTimed = FALSE /\ pollTimed = FALSE
  /\ asleep = {} /\ notifying = {}
  /\ request = "none" /\ resized = 0 /\ polls = 0 /\ asks = 0

--------------------
\* The simulation thread.

CanPoll == Len(backlog) < Capacity
SimAwake == "sim" \notin asleep \cup notifying

\* A callback of the game that posts to the platform dispatcher and waits
\* for the answer; init, update and deinit may do so.
SimAsks ==
  /\ simPc \in {"init", "update", "deinit"} /\ SimAwake
  /\ asks < MaxAsks
  /\ asks' = asks + 1
  /\ request' = "posted"
  /\ notifying' = notifying \cup {"sim"}
  /\ resume' = simPc
  /\ simPc' = "asking"
  /\ UNCHANGED <<slotVars, inputVars, flagVars, stop, simStarted, writable, updates, input,
                 platVars, clockVars, timerVars, asleep, resized, polls>>

SimAnswered ==
  /\ simPc = "asking"
  /\ request = "served"
  /\ request' = "none"
  /\ simPc' = resume
  /\ UNCHANGED <<slotVars, inputVars, flagVars, stop, resume, simStarted, writable, updates,
                 input, platVars, clockVars, timerVars, waitVars, resized, polls, asks>>

\* A stop request skips the game's init_simulation, and deinit with it.
SimBinds ==
  /\ simPc = "bind"
  /\ simStarted' = ~stop
  /\ simPc' = IF stop THEN "announce" ELSE "init"
  /\ UNCHANGED <<slotVars, inputVars, flagVars, stop, resume, writable, updates, input,
                 platVars, clockVars, timerVars, waitVars, outerVars>>

SimInitializes ==
  /\ simPc = "init" /\ SimAwake
  /\ simPc' = "announce"
  /\ UNCHANGED <<slotVars, inputVars, flagVars, stop, resume, simStarted, writable, updates,
                 input, platVars, clockVars, timerVars, waitVars, outerVars>>

StartPredicate == startReleased \/ stop

SimAnnounces ==
  /\ simPc = "announce"
  /\ simulationReady' = simStarted
  /\ asleep' = IF StartPredicate THEN {} ELSE {"sim"}
  /\ simPc' = IF StartPredicate THEN "loop" ELSE "awaitStart"
  /\ UNCHANGED <<slotVars, inputVars, startReleased, workerDone, workerFailure, stop, resume,
                 simStarted, writable, updates, input, platVars, clockVars, timerVars,
                 notifying, outerVars>>

SimAwaitsStart ==
  /\ simPc = "awaitStart" /\ SimAwake
  /\ IF StartPredicate
     THEN simPc' = "loop" /\ UNCHANGED asleep
     ELSE asleep' = asleep \cup {"sim"} /\ UNCHANGED simPc
  /\ UNCHANGED <<slotVars, inputVars, flagVars, stop, resume, simStarted, writable, updates,
                 input, platVars, clockVars, timerVars, notifying, outerVars>>

\* Wherever the thread looks at the stop token it leaves the loop.
SimStops ==
  /\ simPc \in {"loop", "step", "update", "updated", "pick"} /\ SimAwake
  /\ stop
  /\ simPc' = "closing"
  /\ UNCHANGED <<slotVars, inputVars, flagVars, stop, resume, simStarted, writable, updates,
                 input, platVars, clockVars, timerVars, waitVars, outerVars>>

\* The wait for the next update ends by the clock; a batch has steps.
SimAdvances ==
  /\ simPc = "loop" /\ SimAwake
  /\ ~stop
  /\ updates < MaxUpdates
  /\ simPc' = "step"
  /\ UNCHANGED <<slotVars, inputVars, flagVars, stop, resume, simStarted, writable, updates,
                 input, platVars, clockVars, timerVars, waitVars, outerVars>>

\* Mutant: the consumption does not notify.
ConsumeQuietly == backlog' = <<>> /\ UNCHANGED notifying

Consume == backlog' = <<>> /\ notifying' = notifying \cup {"sim"}

SimConsumes ==
  /\ simPc = "step" /\ SimAwake
  /\ ~stop
  /\ Consume
  /\ input' = [window |-> window, poll |-> IF backlog = <<>> THEN 0 ELSE backlog[Len(backlog)]]
  /\ simPc' = "update"
  /\ UNCHANGED <<slotVars, window, flagVars, stop, resume, simStarted, writable, updates,
                 platVars, clockVars, timerVars, asleep, outerVars>>

SimUpdates ==
  /\ simPc = "update" /\ SimAwake
  /\ ~stop
  /\ updates' = updates + 1
  /\ simPc' = "updated"
  /\ UNCHANGED <<slotVars, inputVars, flagVars, stop, resume, simStarted, writable, input,
                 platVars, clockVars, timerVars, waitVars, outerVars>>

\* The next step of the batch, or its publication.
SimContinues ==
  /\ simPc = "updated"
  /\ ~stop
  /\ simPc' \in {"pick"} \cup (IF updates < MaxUpdates THEN {"step"} ELSE {})
  /\ UNCHANGED <<slotVars, inputVars, flagVars, stop, resume, simStarted, writable, updates,
                 input, platVars, clockVars, timerVars, waitVars, outerVars>>

\* Mutant: a frame that nobody has taken yet is written again in place.
WritableOrReady == {i \in Slots : slot[i] \in {"Free", "Ready"}}

Writable == {i \in Slots : slot[i] = "Free"}

SimPicks ==
  /\ simPc = "pick" /\ SimAwake
  /\ \E i \in Writable :
        /\ \A j \in Writable : i <= j
        /\ slot' = [slot EXCEPT ![i] = "Writing"]
        /\ writable' = i
  /\ simPc' = "write"
  /\ UNCHANGED <<frame, ready, inputVars, flagVars, stop, resume, simStarted, updates,
                 input, platVars, clockVars, timerVars, waitVars, outerVars>>

\* No slot is free: the publication is skipped, the simulation goes on.
SimSkips ==
  /\ simPc = "pick" /\ SimAwake
  /\ Writable = {}
  /\ simPc' = "loop"
  /\ UNCHANGED <<slotVars, inputVars, flagVars, stop, resume, simStarted, writable, updates,
                 input, platVars, clockVars, timerVars, waitVars, outerVars>>

SimWrites ==
  /\ simPc = "write"
  /\ frame' = [frame EXCEPT ![writable] = updates]
  /\ simPc' = "publish"
  /\ UNCHANGED <<slot, ready, inputVars, flagVars, stop, resume, simStarted, writable, updates,
                 input, platVars, clockVars, timerVars, waitVars, outerVars>>

ReplacesReady ==
  slot' = [i \in Slots |-> IF i = writable THEN "Ready"
                           ELSE IF i = ready THEN "Retired" ELSE slot[i]]

SimPublishes ==
  /\ simPc = "publish"
  /\ ReplacesReady
  /\ ready' = writable
  /\ writable' = 0
  /\ notifying' = notifying \cup {"sim"}
  /\ simPc' = "loop"
  /\ UNCHANGED <<frame, inputVars, flagVars, stop, resume, simStarted, updates, input,
                 platVars, clockVars, timerVars, asleep, outerVars>>

\* Binding, init, update or prepare_render_frame throws: the failure is
\* recorded, then the shutdown is forced.
SimThrows ==
  /\ simPc \in {"bind", "init", "update", "write"} /\ SimAwake
  /\ workerFailure' = TRUE
  /\ simPc' = "forcing"
  /\ UNCHANGED <<slotVars, inputVars, simulationReady, startReleased, workerDone, stop, resume,
                 simStarted, writable, updates, input, platVars, clockVars, timerVars, waitVars,
                 outerVars>>

SimForces ==
  /\ simPc = "forcing"
  /\ stop' = TRUE
  /\ notifying' = notifying \cup {"sim"}
  /\ simPc' = "closing"
  /\ UNCHANGED <<slotVars, inputVars, flagVars, resume, simStarted, writable, updates, input,
                 platVars, clockVars, timerVars, asleep, outerVars>>

SimCloses ==
  /\ simPc = "closing" /\ SimAwake
  /\ simPc' = IF simStarted THEN "deinit" ELSE "finish"
  /\ UNCHANGED <<slotVars, inputVars, flagVars, stop, resume, simStarted, writable, updates,
                 input, platVars, clockVars, timerVars, waitVars, outerVars>>

SimDeinitializes ==
  /\ simPc = "deinit" /\ SimAwake
  /\ workerFailure' \in {workerFailure, TRUE}
  /\ simPc' = "finish"
  /\ UNCHANGED <<slotVars, inputVars, simulationReady, startReleased, workerDone, stop, resume,
                 simStarted, writable, updates, input, platVars, clockVars, timerVars,
                 waitVars, outerVars>>

SimFinishes ==
  /\ simPc = "finish" /\ SimAwake
  /\ workerDone' = TRUE
  /\ notifying' = notifying \cup {"sim"}
  /\ simPc' = "exited"
  /\ UNCHANGED <<slotVars, inputVars, simulationReady, startReleased, workerFailure, stop, resume,
                 simStarted, writable, updates, input, platVars, clockVars, timerVars,
                 asleep, outerVars>>

--------------------
\* The platform thread: start-up.

PlatAwake == "plat" \notin asleep \cup notifying

\* engine_.platform_dispatcher().drain serves what has been posted.
Serve == request' = IF request = "posted" THEN "served" ELSE request

\* A stop before the session has begun leaves nothing to tear down here;
\* one that comes later is seen by the threads.
PlatBegins ==
  /\ platPc = "begin"
  /\ platPc' = IF stop THEN "finished" ELSE "start"
  /\ UNCHANGED <<slotVars, inputVars, flagVars, stop, simVars, selected, polled, scan, taken,
                 current, rendered, failure, clockVars, timerVars, waitVars, outerVars>>

PlatStartsThread ==
  /\ platPc = "start"
  /\ simPc' = "bind"
  /\ platPc' = "boot"
  /\ UNCHANGED <<slotVars, inputVars, flagVars, stop, resume, simStarted, writable, updates, input,
                 selected, polled, scan, taken, current, rendered, failure, clockVars, timerVars,
                 waitVars, outerVars>>

BootSettled == simulationReady \/ workerDone \/ stop

\* A failure of pump_shutdown_requests stops the session before it starts.
PlatFailsBoot ==
  /\ platPc = "boot" /\ PlatAwake
  /\ ~BootSettled
  /\ Serve
  /\ failure' = "platform"
  /\ stop' = TRUE
  /\ notifying' = notifying \cup {"plat"}
  /\ platPc' = "release"
  /\ UNCHANGED <<slotVars, inputVars, flagVars, simVars, selected, polled, scan, taken, current,
                 rendered, clockVars, timerVars, asleep, resized, polls, asks>>

\* Pump once and wait, at most a millisecond, until the worker is ready.
PlatBoots ==
  /\ platPc = "boot" /\ PlatAwake
  /\ IF BootSettled
     THEN platPc' = "release" /\ UNCHANGED request
     ELSE platPc' = "bootWait" /\ Serve
  /\ UNCHANGED <<slotVars, inputVars, flagVars, stop, simVars, selected, polled, scan, taken,
                 current, rendered, failure, clockVars, timerVars, waitVars, resized, polls, asks>>

PlatBootWaits ==
  /\ platPc = "bootWait" /\ PlatAwake
  /\ IF BootSettled \/ request = "posted"
     THEN platPc' = "boot" /\ UNCHANGED asleep
     ELSE asleep' = asleep \cup {"plat"} /\ UNCHANGED platPc
  /\ UNCHANGED <<slotVars, inputVars, flagVars, stop, simVars, selected, polled, scan, taken,
                 current, rendered, failure, clockVars, timerVars, notifying, outerVars>>

ReleaseStart == startReleased' = TRUE /\ notifying' = notifying \cup {"plat"}

PlatReleases ==
  /\ platPc = "release" /\ PlatAwake
  /\ ReleaseStart
  /\ platPc' = "loop"
  /\ UNCHANGED <<slotVars, inputVars, simulationReady, workerDone, workerFailure, stop, simVars,
                 selected, polled, scan, taken, current, rendered, failure, clockVars, timerVars,
                 asleep, outerVars>>

--------------------
\* The platform thread: one cycle.

PlatLoops ==
  /\ platPc = "loop" /\ PlatAwake
  /\ IF stop
     THEN platPc' = "teardown" /\ UNCHANGED request
     ELSE platPc' = "check" /\ Serve
  /\ UNCHANGED <<slotVars, inputVars, flagVars, stop, simVars, selected, polled, scan, taken,
                 current, rendered, failure, clockVars, timerVars, waitVars, resized, polls, asks>>

\* After process_shutdown: leave, or see whether a poll is due.
PlatChecks ==
  /\ platPc = "check"
  /\ platPc' = IF stop \/ workerDone THEN "teardown"
               ELSE IF CanPoll /\ spaced /\ polls < MaxPolls THEN "poll" ELSE "select"
  /\ UNCHANGED <<slotVars, inputVars, flagVars, stop, simVars, selected, polled, scan, taken,
                 current, rendered, failure, clockVars, timerVars, waitVars, outerVars>>

PlatPolls ==
  /\ platPc = "poll"
  /\ polls' = polls + 1
  /\ IF stop
     THEN platPc' = "teardown" /\ UNCHANGED polled
     ELSE platPc' = "select" /\ polled' = resized
  /\ UNCHANGED <<slotVars, inputVars, flagVars, stop, simVars, selected, scan, taken, current,
                 rendered, failure, clockVars, timerVars, waitVars, request, resized, asks>>

PlatSelects ==
  /\ platPc = "select"
  /\ selected' = resized
  /\ platPc' = "transfer"
  /\ UNCHANGED <<slotVars, inputVars, flagVars, stop, simVars, polled, scan, taken, current,
                 rendered, failure, clockVars, timerVars, waitVars, outerVars>>

\* Mutant: the poll goes ahead, the window follows with the next one.
HandOverPollOnly ==
  /\ window' = IF polled = NoPoll THEN selected ELSE window
  /\ backlog' = IF polled = NoPoll THEN backlog ELSE Append(backlog, polled)

HandOver ==
  /\ window' = selected
  /\ backlog' = IF polled = NoPoll THEN backlog ELSE Append(backlog, polled)

\* A completed poll and the window selected after it go over together.
PlatTransfers ==
  /\ platPc = "transfer"
  /\ HandOver
  /\ IF polled = NoPoll THEN UNCHANGED spaced ELSE spaced' \in BOOLEAN
  /\ polled' = NoPoll
  /\ scan' = 1
  /\ platPc' = "recycle"
  /\ UNCHANGED <<slotVars, flagVars, stop, simVars, selected, taken, current, rendered, failure,
                 due, passedOver, timerVars, waitVars, outerVars>>

\* One slot of the recycling scan: Retired, Recycling and Free are two
\* critical sections around the frame's own recycle.
PlatScans ==
  /\ platPc = "recycle"
  /\ IF scan > NumSlots
     THEN platPc' = "take" /\ UNCHANGED <<slot, scan>>
     ELSE IF slot[scan] = "Retired"
          THEN platPc' = "recycling" /\ slot' = [slot EXCEPT ![scan] = "Recycling"] /\ UNCHANGED scan
          ELSE scan' = scan + 1 /\ UNCHANGED <<slot, platPc>>
  /\ UNCHANGED <<frame, ready, inputVars, flagVars, stop, simVars, selected, polled, taken,
                 current, rendered, failure, clockVars, timerVars, waitVars, outerVars>>

PlatRecycles ==
  /\ platPc = "recycling"
  /\ frame' = [frame EXCEPT ![scan] = 0]
  /\ slot' = [slot EXCEPT ![scan] = "Free"]
  /\ scan' = scan + 1
  /\ platPc' = "recycle"
  /\ UNCHANGED <<ready, inputVars, flagVars, stop, simVars, selected, polled, taken, current,
                 rendered, failure, clockVars, timerVars, waitVars, outerVars>>

PlatTakes ==
  /\ platPc = "take"
  /\ IF due /\ ready # 0
     THEN /\ taken' = ready /\ ready' = 0
          /\ slot' = [slot EXCEPT ![ready] = "Rendering"]
          /\ platPc' = "swap"
     ELSE platPc' = "render" /\ UNCHANGED <<taken, ready, slot>>
  /\ passedOver' = (ready # 0 /\ ~due)
  /\ UNCHANGED <<frame, inputVars, flagVars, stop, simVars, selected, polled, scan, current,
                 rendered, failure, due, spaced, timerVars, waitVars, outerVars>>

\* Mutant: the frame it replaces is not given back.
KeepCurrent == UNCHANGED <<slot, frame>>

GiveBackCurrent ==
  IF current = 0 THEN UNCHANGED <<slot, frame>>
  ELSE /\ frame' = [frame EXCEPT ![current] = 0]
       /\ slot' = [slot EXCEPT ![current] = "Free"]

PlatSwaps ==
  /\ platPc = "swap"
  /\ GiveBackCurrent
  /\ current' = taken /\ taken' = 0
  /\ platPc' = "render"
  /\ UNCHANGED <<ready, inputVars, flagVars, stop, simVars, selected, polled, scan, rendered,
                 failure, clockVars, timerVars, waitVars, outerVars>>

RenderStarts == current # 0 /\ due /\ selected = resized

\* The frame is shown when pacing permits and the window is still the one
\* selected; an uncapped pacer is always due.
PlatRenders ==
  /\ platPc = "render"
  /\ passedOver' = FALSE
  /\ IF RenderStarts
     THEN rendered' = frame[current] /\ due' \in BOOLEAN
     ELSE UNCHANGED <<rendered, due>>
  /\ platPc' = "wait"
  /\ UNCHANGED <<slotVars, inputVars, flagVars, stop, simVars, selected, polled, scan, taken,
                 current, failure, spaced, timerVars, waitVars, outerVars>>

WorkWaiting ==
  \/ stop \/ workerDone
  \/ ready # 0 /\ due
  \/ request = "posted"
  \/ \E i \in Slots : slot[i] = "Retired"

\* Mutant: a render deadline for a frame that is there already only.
RenderTimerForReady == ready # 0 /\ ~due

RenderTimer == (current # 0 \/ ready # 0) /\ ~due

\* The wait takes its deadlines from the state it finds, then blocks.
PlatWaits ==
  /\ platPc = "wait"
  /\ IF WorkWaiting
     THEN platPc' = "loop" /\ UNCHANGED <<timerVars, asleep>>
     ELSE /\ platPc' = "sleep" /\ asleep' = asleep \cup {"plat"}
          /\ renderTimed' = RenderTimer /\ pollTimed' = CanPoll
  /\ UNCHANGED <<slotVars, inputVars, flagVars, stop, simVars, selected, polled, scan, taken,
                 current, rendered, failure, clockVars, notifying, outerVars>>

ForgetTimers == renderTimed' = FALSE /\ pollTimed' = FALSE

\* Woken, it looks again; reopened capacity has changed the poll deadline.
PlatWoken ==
  /\ platPc = "sleep" /\ PlatAwake
  /\ IF WorkWaiting \/ CanPoll # pollTimed
     THEN platPc' = "loop" /\ ForgetTimers /\ UNCHANGED asleep
     ELSE asleep' = asleep \cup {"plat"} /\ UNCHANGED <<timerVars, platPc>>
  /\ UNCHANGED <<slotVars, inputVars, flagVars, stop, simVars, selected, polled, scan, taken,
                 current, rendered, failure, clockVars, notifying, outerVars>>

\* A wait with a deadline ends: the platform's by its timers or the
\* maintenance interval, those of start-up and tear-down in a millisecond.
TimerExpired == (renderTimed /\ due) \/ (pollTimed /\ spaced)

PlatTimesOut ==
  /\ "plat" \in asleep
  /\ asleep' = asleep \ {"plat"}
  /\ platPc' = CASE platPc = "sleep" -> "loop"
                 [] platPc = "bootWait" -> "boot"
                 [] platPc = "settling" -> "settle"
  /\ ForgetTimers
  /\ UNCHANGED <<slotVars, inputVars, flagVars, stop, simVars, selected, polled, scan, taken,
                 current, rendered, failure, clockVars, notifying, outerVars>>

\* Anything the platform thread calls may throw.
PlatThrows ==
  /\ platPc \in {"start", "check", "poll", "select", "recycling", "swap", "render"} /\ PlatAwake
  /\ failure' = "platform"
  /\ platPc' = "teardown"
  /\ UNCHANGED <<slotVars, inputVars, flagVars, stop, simVars, selected, polled, scan, taken,
                 current, rendered, clockVars, timerVars, waitVars, outerVars>>

--------------------
\* The platform thread: tear-down.

\* Mutant: the first reading of the worker's failure is the last.
PreserveNothing == UNCHANGED failure

PreserveWorkerFailure == failure' = IF failure = "none" /\ workerFailure THEN "worker" ELSE failure

PlatTearsDown ==
  /\ platPc = "teardown"
  /\ failure' = IF failure = "none" /\ workerFailure THEN "worker" ELSE failure
  /\ stop' = TRUE
  /\ notifying' = notifying \cup {"plat"}
  /\ platPc' = IF simPc = "unborn" THEN "finished" ELSE "settle"
  /\ UNCHANGED <<slotVars, inputVars, flagVars, simVars, selected, polled, scan, taken, current,
                 rendered, clockVars, timerVars, asleep, outerVars>>

\* Mutant: nothing is served while the worker finishes.
PumpNothing == UNCHANGED request

PumpShutdown == Serve

\* Pump until the worker is done, which may depend on it.  A pump that
\* fails has answered the requests too: it closes the dispatcher.
PlatSettles ==
  /\ platPc = "settle" /\ PlatAwake
  /\ IF workerDone
     THEN platPc' = "join" /\ UNCHANGED <<request, failure>>
     ELSE /\ platPc' = "settling" /\ PumpShutdown
          /\ failure' \in {failure, IF failure = "none" THEN "platform" ELSE failure}
  /\ UNCHANGED <<slotVars, inputVars, flagVars, stop, simVars, selected, polled, scan, taken,
                 current, rendered, clockVars, timerVars, waitVars, resized, polls, asks>>

PlatSettleWaits ==
  /\ platPc = "settling" /\ PlatAwake
  /\ IF workerDone \/ request = "posted"
     THEN platPc' = "settle" /\ UNCHANGED asleep
     ELSE asleep' = asleep \cup {"plat"} /\ UNCHANGED platPc
  /\ UNCHANGED <<slotVars, inputVars, flagVars, stop, simVars, selected, polled, scan, taken,
                 current, rendered, failure, clockVars, timerVars, notifying, outerVars>>

PlatJoins ==
  /\ platPc = "join"
  /\ simPc = "exited" /\ "sim" \notin notifying
  /\ PreserveWorkerFailure
  /\ platPc' = "finished"
  /\ UNCHANGED <<slotVars, inputVars, flagVars, stop, simVars, selected, polled, scan, taken,
                 current, rendered, clockVars, timerVars, waitVars, outerVars>>

--------------------
\* The surroundings.

Wake(t) ==
  /\ t \in notifying
  /\ notifying' = notifying \ {t}
  /\ asleep' = {}
  /\ UNCHANGED <<slotVars, inputVars, flagVars, stop, simVars, platVars, clockVars, timerVars,
                 outerVars>>

\* stop() from any thread, or the platform's own process_shutdown.
RequestStop ==
  /\ ~stop
  /\ stop' = TRUE
  /\ notifying' = notifying \cup {"stopper"}
  /\ UNCHANGED <<slotVars, inputVars, flagVars, simVars, platVars, clockVars, timerVars,
                 asleep, outerVars>>

Resize ==
  /\ resized < MaxResizes
  /\ resized' = resized + 1
  /\ UNCHANGED <<slotVars, inputVars, flagVars, stop, simVars, platVars, clockVars, timerVars,
                 waitVars, request, polls, asks>>

TimePasses ==
  /\ \/ ~due /\ due' = TRUE /\ UNCHANGED spaced
     \/ ~spaced /\ spaced' = TRUE /\ UNCHANGED due
  /\ UNCHANGED <<slotVars, inputVars, flagVars, stop, simVars, platVars, passedOver, timerVars,
                 waitVars, outerVars>>

SimStep ==
  \/ SimAnswered \/ SimBinds \/ SimInitializes \/ SimAnnounces \/ SimAwaitsStart \/ SimStops
  \/ SimAdvances \/ SimConsumes \/ SimUpdates \/ SimContinues \/ SimPicks \/ SimSkips
  \/ SimWrites \/ SimPublishes \/ SimForces \/ SimCloses \/ SimDeinitializes \/ SimFinishes

PlatStep ==
  \/ PlatBegins \/ PlatBoots \/ PlatBootWaits \/ PlatReleases \/ PlatLoops \/ PlatChecks \/ PlatPolls
  \/ PlatSelects \/ PlatTransfers \/ PlatScans \/ PlatRecycles \/ PlatTakes \/ PlatSwaps
  \/ PlatRenders \/ PlatWaits \/ PlatWoken \/ PlatTearsDown \/ PlatSettles
  \/ PlatSettleWaits \/ PlatJoins

Next ==
  \/ SimStep \/ SimAsks \/ SimThrows
  \/ PlatStep \/ PlatStartsThread \/ PlatFailsBoot \/ PlatTimesOut \/ PlatThrows
  \/ \E t \in {"sim", "plat", "stopper"} : Wake(t)
  \/ RequestStop \/ Resize \/ TimePasses

\* The threads run, the game's callbacks end, time passes and the timers a
\* wait has set fire.  The maintenance interval is not relied upon.
Fairness ==
  /\ WF_vars(SimStep) /\ WF_vars(PlatStep \/ PlatStartsThread \/ PlatThrows)
  /\ \A t \in {"sim", "plat", "stopper"} : WF_vars(Wake(t))
  /\ WF_vars(TimePasses)
  /\ WF_vars(TimerExpired /\ PlatTimesOut)

Spec == Init /\ [][Next]_vars
FairSpec == Spec /\ Fairness
--------------------
\* What is required of FrameHandoff.

SimStates == {"unborn", "bind", "init", "asking", "announce", "awaitStart", "loop", "step",
              "update", "updated", "pick", "write", "publish", "forcing", "closing", "deinit",
              "finish", "exited"}
PlatStates == {"begin", "start", "boot", "bootWait", "release", "loop", "check", "poll", "select",
               "transfer", "recycle", "recycling", "take", "swap", "render", "wait", "sleep",
               "teardown", "settle", "settling", "join", "finished"}

\* Every variable stays in its range.
TypeOK ==
  /\ slot \in [Slots -> {"Free", "Writing", "Ready", "Rendering", "Retired", "Recycling"}]
  /\ frame \in [Slots -> 0..MaxUpdates] /\ ready \in {0} \cup Slots
  /\ backlog \in Seq(0..MaxResizes) /\ window \in 0..MaxResizes
  /\ simulationReady \in BOOLEAN /\ startReleased \in BOOLEAN /\ workerDone \in BOOLEAN
  /\ workerFailure \in BOOLEAN /\ stop \in BOOLEAN /\ simStarted \in BOOLEAN
  /\ due \in BOOLEAN /\ spaced \in BOOLEAN /\ passedOver \in BOOLEAN
  /\ renderTimed \in BOOLEAN /\ pollTimed \in BOOLEAN
  /\ simPc \in SimStates /\ resume \in {"none", "init", "update", "deinit"}
  /\ writable \in {0} \cup Slots /\ updates \in 0..MaxUpdates
  /\ input \in [window : 0..MaxResizes, poll : 0..MaxResizes]
  /\ platPc \in PlatStates /\ selected \in 0..MaxResizes /\ polled \in {NoPoll} \cup 0..MaxResizes
  /\ scan \in 1..(NumSlots + 1) /\ taken \in {0} \cup Slots /\ current \in {0} \cup Slots
  /\ rendered \in 0..MaxUpdates /\ failure \in {"none", "platform", "worker"}
  /\ asleep \subseteq {"sim", "plat"} /\ notifying \subseteq {"sim", "plat", "stopper"}
  /\ request \in {"none", "posted", "served"}
  /\ resized \in 0..MaxResizes /\ polls \in 0..MaxPolls /\ asks \in 0..MaxAsks

\* Where a recycling that failed leaves the platform thread.
RecyclingOrLater == {"recycling", "teardown", "settle", "settling", "join", "finished"}

\* The state of a slot and the places that hold its index agree, though
\* each thread changes them in several critical sections: a slot is being
\* written, offered, rendered or recycled by exactly the one that says so.
SlotsHaveOneOwner ==
  \A i \in Slots :
      /\ slot[i] = "Ready" <=> i = ready
      /\ slot[i] = "Rendering" <=> i \in {current, taken}
      /\ slot[i] = "Writing" <=> i = writable
      /\ slot[i] = "Recycling" => i = scan /\ platPc \in RecyclingOrLater

\* The frame the platform thread holds, taken or shown.
Held == IF taken # 0 THEN taken ELSE current
FrameIn(i) == IF i = 0 THEN 0 ELSE frame[i]

\* The register this handoff is.
Register == INSTANCE LatestFrame WITH
    offered <- FrameIn(ready), held <- FrameIn(Held), shown <- rendered

\* Three slots, their states and two threads implement a register of one
\* frame: the newest publication replaces the last, what is rendered never
\* goes back, and a frame does not change while the renderer holds it.
IsLatestFrame == Register!Spec

\* A simulation that finds no free slot is ahead of a platform thread that
\* is rendering or has slots to recycle: three slots never run out for
\* good, so a skipped publication is followed by one that is not.
SkipIsTransient ==
  (\A i \in Slots : slot[i] \notin {"Free", "Writing"}) =>
      \/ \E i \in Slots : slot[i] \in {"Retired", "Recycling"}
      \/ current # 0 /\ taken # 0

\* Whoever sleeps on the scheduler's condition variable while there is
\* something for it has a notification on its way or a timer that is due:
\* a stop or a post to the dispatcher is published before its wake callback
\* takes the mutex, a consumption or publication notifies after it leaves.
NoLostWakeup ==
  /\ "sim" \in asleep /\ StartPredicate => notifying # {}
  /\ "plat" \in asleep =>
        /\ platPc = "bootWait" /\ (BootSettled \/ request = "posted") => notifying # {}
        /\ platPc = "settling" /\ (workerDone \/ request = "posted") => notifying # {}
        /\ platPc = "sleep" /\ (stop \/ workerDone \/ request = "posted" \/ CanPoll # pollTimed
                                \/ \E i \in Slots : slot[i] = "Retired") => notifying # {}
        /\ platPc = "sleep" /\ ready # 0 => renderTimed \/ notifying # {}

\* An update never sees input of a window it was not given: the window and
\* the polls taken under it travel together.  And a poll begun when the
\* backlog had room finds it in the later critical section that completes
\* it, or complete() would throw and end the session.
CoherentInput ==
  /\ input.poll <= input.window
  /\ platPc = "transfer" /\ polled # NoPoll => Len(backlog) < Capacity

\* A failure of the simulation thread is never dropped, whichever of the
\* two looks a tear-down takes at it comes first: init, update or frame
\* preparation may fail before it begins, deinit only after.
FailureReported == platPc = "finished" /\ workerFailure => failure # "none"

\* Whatever the two threads do between two sections of the mutex, what they
\* share is accounted for: every slot has its one owner and none is lost,
\* polls go to the updates of the window they were taken under, neither
\* sleeps through what it waits for, and a failure reaches the caller.
SharedStateIsSound ==
  /\ TypeOK /\ SlotsHaveOneOwner /\ SkipIsTransient /\ CoherentInput
  /\ NoLostWakeup /\ FailureReported

\* A stop request ends the session, also when start-up waits for the worker
\* or a callback of the simulation for the platform thread at that moment.
StopEndsRun == stop ~> platPc = "finished"

\* The deadline falls between the cycle's two looks at the pacer: the frame
\* shown before is rendered again and a ready one left for the next cycle.
RendersOldAgain == platPc = "render" /\ RenderStarts /\ passedOver

\* A published frame, or a newer one, reaches the renderer, although the
\* platform thread sleeps between frames and the batch may be full; unless
\* the session ends first, or the old frame is rendered in its place.
NewestFrameIsTaken ==
  \A n \in 1..MaxUpdates :
      (ready # 0 /\ FrameIn(ready) = n) ~> (FrameIn(Held) >= n \/ stop \/ RendersOldAgain)

\* The two threads never leave each other waiting: no notification is lost,
\* a stop ends the run, a new frame is taken, and a failure that ends the
\* simulation's side comes out of the platform's.
LoopsGoOn == [](NoLostWakeup /\ FailureReported) /\ StopEndsRun /\ NewestFrameIsTaken
====================
