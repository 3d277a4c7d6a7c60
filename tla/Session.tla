---- MODULE Session ----
\* One session of GameRuntime in one Context, from run() to the end of the
\* context: the start-up of the adapters, the game's hooks, the milestones
\* of the lifecycle and the ordered tear-down.  Any step may fail, and a
\* stop may come from any thread at any moment.  Jobs of the context's
\* worker groups and, in concurrent mode, the simulation's callbacks wait
\* for platform requests which the owner has to serve while it tears down.
\*
\* The frames and steps in between are FrameHandoff's; the negotiation of
\* a request is Shutdown's.  Here both are what they change of a session.
EXTENDS Naturals, Sequences, FiniteSets

CONSTANTS Jobs,     \* what applications may give to the context's groups
          Modes,    \* RunMode, a subset of {"sequential", "concurrent"}
          MaxFailures,  \* bound: operations that throw in one session
          MaxRequests   \* bound: shutdown requests admitted in one session

ASSUME ModesAssumption == Modes \subseteq {"sequential", "concurrent"}

VARIABLES
    mode,       \* GameRuntime::mode_
    todo,       \* the operations the platform owner has yet to come to
    begun,      \* renderer_started, input_started, game_started, simulation_started
    initialized,    \* initialized_: the capabilities that were established
    undone,     \* the cleanups so far, in order
    bound,      \* maintenance_binding_ is attached
    mail,       \* state of the platform's and of the simulation's dispatcher
    stop, cause,    \* stop_source_, ShutdownState::cause
    stopper,    \* another thread in stop()
    failure,    \* where the first exception came from
    life,       \* RuntimeLifecycleSnapshot
    notified,       \* history: the snapshots notified
    simPc, asked,   \* the simulation thread and its request to the platform
    simFailure, seenFailure,   \* handoff.worker_failure and early_worker_failure
    jobs,        \* by job: where it is
    closedToWork,   \* Context::worker_submissions_closed_
    thrown, requests    \* history: operations that threw, requests admitted

ownerVars == <<todo, begun, undone, bound, mail>>
stopVars == <<stop, cause, stopper>>
failVars == <<failure, thrown>>
lifeVars == <<life, notified, requests>>
simVars == <<simPc, asked, simFailure, seenFailure>>
workVars == <<jobs, closedToWork>>
sessionVars == <<mode, ownerVars, initialized, stopVars, failVars, lifeVars, simVars, workVars>>

StartUp == <<"renderer", "mailboxes", "input", "platform", "dispatch", "window",
             "simulation", "announce", "ready", "play">>
EarlyTearDown == <<"starting", "closeWork", "closeSimulation", "quiescing",
                   "closePlatform", "finishWork", "collection", "finish">>
\* Mutant: the platform closes before the workers have finished.
LateTearDownEager == <<"quiesce", "quiescing", "native", "closePlatform", "pump", "finishWork",
                       "frames", "undoPlatform", "collection", "maintain", "undoInput", "unbind",
                       "undoRenderer", "finish">>

LateTearDown == <<"quiesce", "quiescing", "pump", "finishWork", "native", "closePlatform",
                  "frames", "undoPlatform", "collection", "maintain", "undoInput", "unbind",
                  "undoRenderer", "finish">>
TearDown == <<"starting", "closeWork">>
    \o (IF mode = "sequential" THEN <<"closeSimulation", "undoSimulation">>
                               ELSE <<"settle", "closeSimulation">>) \o LateTearDown

NoLife == [stage |-> "Unstarted", sequence |-> 0, reachedReady |-> FALSE, stopRequested |-> FALSE,
           initialized |-> {}, pending |-> FALSE, verdict |-> "none", cause |-> "None",
           outcome |-> "Pending", primary |-> "none", secondary |-> 0, closed |-> FALSE]

SessionInit ==
  /\ mode \in Modes /\ todo = <<"run">>
  /\ begun = {} /\ initialized = {} /\ undone = <<>> /\ bound = FALSE
  /\ mail = [d \in {"platform", "simulation"} |-> "new"]
  /\ stop = FALSE /\ cause = "None" /\ stopper = "idle"
  /\ failure = "none" /\ thrown = 0 /\ requests = 0
  /\ life = NoLife /\ notified = <<>>
  /\ simPc = "absent" /\ asked = "no" /\ simFailure = "none" /\ seenFailure = "none"
  /\ jobs = [j \in Jobs |-> "new"] /\ closedToWork = FALSE

At(step) == todo # <<>> /\ Head(todo) = step
Done == todo' = Tail(todo)

--------------------
\* RuntimeLifecycle: each milestone is one section of its mutex.  It gives
\* the snapshot to notify, or none.
Advanced(l, stage) == [l EXCEPT !.stage = stage, !.sequence = @ + 1]
Notify(ls) ==
  /\ life' = IF ls = <<>> THEN life ELSE ls[1]
  /\ notified' = notified \o ls

\* Mutant: only the caller's look at the stop source counts.
ReadyLate(l, stopped) ==
  IF stopped THEN <<>>
  ELSE <<Advanced([l EXCEPT !.reachedReady = TRUE, !.initialized = initialized], "Ready")>>

Ready(l, stopped) ==
  IF l.stage # "Initializing" \/ l.stopRequested \/ stopped THEN <<>>
  ELSE <<Advanced([l EXCEPT !.reachedReady = TRUE, !.initialized = initialized], "Ready")>>

Starting(l, c) ==
  IF l.stage \notin {"Initializing", "Ready"} THEN <<>>
  ELSE <<Advanced([l EXCEPT !.cause = c, !.pending = FALSE, !.stopRequested = TRUE,
                      !.initialized = initialized,
                      !.verdict = IF ~l.pending THEN "none"
                                  ELSE IF c = "AcceptedRequest" THEN "committed" ELSE "superseded"],
                  "Stopping")>>

Quiescing(l) == IF l.stage = "Stopping" THEN <<Advanced(l, "Quiescing")>> ELSE <<>>

Stopped(l) ==
  <<Advanced([l EXCEPT !.outcome = IF failure = "none" THEN "Completed" ELSE "Failed",
                       !.stopRequested = TRUE, !.primary = failure, !.closed = TRUE], "Stopped")>>

Pending(l, request) == [l EXCEPT !.pending = request, !.sequence = @ + 1, !.initialized = initialized]

Secondary(l, count) == [l EXCEPT !.secondary = @ + count]

--------------------
Throws == thrown < MaxFailures /\ thrown' = thrown + 1

\* Mutant: what tear-down throws replaces what ended the session.
PreserveLast(place) == failure' = place /\ UNCHANGED life

\* preserve_failure: the first exception keeps its phase, later ones are
\* counted by the lifecycle.
Preserve(place) ==
  /\ failure' = IF failure = "none" THEN place ELSE failure
  /\ life' = IF failure = "none" THEN life ELSE Secondary(life, 1)

MayThrow(place) ==
  \/ UNCHANGED <<failVars, life>>
  \/ Throws /\ Preserve(place)

\* ShutdownController::force as a session sees it: the first cause stays.
ForceStop(c) == stop' = TRUE /\ cause' = IF cause = "None" THEN c ELSE cause

\* The body has ended, by itself or by an exception: its own or the
\* simulation's, if that has failed already.
EnterTearDown(place) ==
  LET own == IF place = "none" THEN failure ELSE place IN
  /\ todo' = TearDown
  /\ seenFailure' = simFailure
  /\ failure' = IF own = "none" THEN simFailure ELSE own
  /\ life' = Secondary(life, IF own # "none" /\ simFailure # "none" THEN 1 ELSE 0)

--------------------
\* run(): a context admits one session; when it does not, there is nothing
\* to tear down.
Run ==
  /\ At("run")
  /\ life' = [life EXCEPT !.stage = "Initializing"]
  /\ todo' = IF stop THEN EarlyTearDown ELSE StartUp
  /\ UNCHANGED <<mode, begun, undone, bound, mail, initialized, stopVars, failVars, notified,
                 requests, simVars, workVars>>

RunRefused ==
  /\ At("run") /\ Throws
  /\ todo' = <<"destroy">> /\ ForceStop("StopRequested")
  /\ life' = [life EXCEPT !.closed = TRUE, !.stopRequested = TRUE]
  /\ UNCHANGED <<mode, begun, undone, bound, mail, initialized, stopper, failure, notified,
                 requests, simVars, workVars>>

\* An adapter counts as begun before its initialize() is called: it cleans
\* up what a failed initialize() left.
Begins(c) == begun' = begun \cup {c}

Adapter == [renderer |-> "renderer", input |-> "input"]
Initialize ==
  \E step \in DOMAIN Adapter :
      /\ At(step) /\ Done /\ Begins(Adapter[step])
      /\ initialized' = initialized \cup {Adapter[step]}
      /\ bound' = (bound \/ step = "renderer")
      /\ UNCHANGED <<mode, undone, mail, stopVars, failVars, lifeVars, simVars, workVars>>

\* It throws, or what follows it: the binding to maintenance.
InitializeFails ==
  \E step \in DOMAIN Adapter :
      /\ At(step) /\ Throws /\ Begins(Adapter[step])
      /\ initialized' \in {initialized, initialized \cup {Adapter[step]}}
      /\ EnterTearDown(step)
      /\ UNCHANGED <<mode, undone, bound, mail, stopVars, notified, requests, simPc, asked,
                     simFailure, workVars>>

OpenMailboxes ==
  /\ At("mailboxes") /\ Done
  /\ mail' = [d \in DOMAIN mail |-> "open"]
  /\ initialized' = initialized \cup (IF mode = "sequential" THEN {"simulationOwner"} ELSE {})
  /\ UNCHANGED <<mode, begun, undone, bound, stopVars, failVars, lifeVars, simVars, workVars>>

InitPlatform ==
  /\ At("platform") /\ Begins("platform")
  /\ \/ Done /\ UNCHANGED <<failVars, life, seenFailure>>
     \/ Throws /\ EnterTearDown("platform")
  /\ UNCHANGED <<mode, undone, bound, mail, initialized, stopVars, notified, requests, simPc, asked,
                 simFailure, workVars>>

\* A drain serves every request in the queue.
Served(request) == IF request = "waiting" THEN "answered" ELSE request
Drain ==
  /\ jobs' = [j \in Jobs |-> Served(jobs[j])]
  /\ asked' = Served(asked)
  /\ UNCHANGED <<simPc, simFailure, closedToWork>>

Dispatch ==
  /\ At("dispatch") /\ Done
  /\ IF stop THEN UNCHANGED <<jobs, closedToWork, simPc, asked, simFailure>> ELSE Drain
  /\ UNCHANGED <<mode, begun, undone, bound, mail, initialized, stopVars, failVars, lifeVars, seenFailure>>

\* The first selection of the window and, on one thread, of the view.
SelectWindow ==
  /\ At("window")
  /\ \/ Done /\ UNCHANGED <<failVars, life, seenFailure>>
     \/ Throws /\ EnterTearDown("window")
  /\ UNCHANGED <<mode, begun, undone, bound, mail, initialized, stopVars, notified, requests,
                 simPc, asked, simFailure, workVars>>

\* init_simulation() on this thread, or a thread that calls it.
InitSimulation ==
  /\ At("simulation") /\ mode = "sequential"
  /\ IF stop THEN Done /\ UNCHANGED <<begun, initialized, failVars, life, seenFailure>>
     ELSE /\ Begins("simulation")
          /\ \/ Done /\ initialized' = initialized \cup {"game"} /\ UNCHANGED <<failVars, life, seenFailure>>
             \/ Throws /\ EnterTearDown("simulation") /\ UNCHANGED initialized
  /\ UNCHANGED <<mode, undone, bound, mail, stopVars, notified, requests, simPc, asked, simFailure, workVars>>

StartThread ==
  /\ At("simulation") /\ mode = "concurrent"
  /\ \/ /\ simPc' = "binds" /\ todo' = <<"boot">> \o Tail(todo)
        /\ UNCHANGED <<failVars, life, seenFailure>>
     \/ Throws /\ EnterTearDown("simulation") /\ UNCHANGED simPc
  /\ UNCHANGED <<mode, begun, undone, bound, mail, initialized, stopVars, notified, requests,
                 asked, simFailure, workVars>>

--------------------
\* pump_shutdown_requests serves the platform's queue and the resources.
Pump ==
  /\ \E request \in {asked} \cup {jobs[j] : j \in Jobs} : request = "waiting"
  /\ Drain /\ UNCHANGED <<todo, failVars, life, initialized, stop, cause>>

\* What the simulation thread has established when the owner looks.
SimBound == simPc \notin {"absent", "binds"} /\ simFailure # "simulation_bind"
SimReady == "simulation" \in begun /\ simPc # "inits" /\ simFailure # "game_simulation_init"
SimSettled == SimReady \/ simPc = "done" \/ stop
Established ==
  initialized' = initialized \cup (IF SimBound THEN {"simulationOwner"} ELSE {})
                             \cup (IF SimReady THEN {"game"} ELSE {})

\* The owner serves the bootstrap until it has ended; a failure to do so is
\* a stop.
Boot ==
  /\ At("boot")
  /\ \/ ~SimSettled /\ Pump
     \/ /\ SimSettled /\ Done /\ Established
        /\ UNCHANGED <<failVars, life, stop, cause, simPc, asked, simFailure, workVars>>
     \/ /\ ~SimSettled /\ Throws /\ Done /\ Established /\ ForceStop("StopRequested")
        /\ failure' = "maintenance"
        /\ life' = [life EXCEPT !.stopRequested = TRUE]
        /\ UNCHANGED <<simPc, asked, simFailure, workVars>>
  /\ UNCHANGED <<mode, begun, undone, bound, mail, stopper, notified, requests, seenFailure>>

\* publish_ready: process_shutdown, then a look at the stop source, and the
\* milestone in a section of its own.
Announce ==
  /\ At("announce")
  /\ \/ /\ todo' = IF stop \/ (mode = "concurrent" /\ "game" \notin initialized)
                   THEN Tail(Tail(todo)) ELSE Tail(todo)
        /\ UNCHANGED <<failVars, life, seenFailure>>
     \/ ~stop /\ Throws /\ EnterTearDown("announce")
  /\ UNCHANGED <<mode, begun, undone, bound, mail, initialized, stopVars, notified, requests,
                 simPc, asked, simFailure, workVars>>

PublishReady ==
  /\ At("ready") /\ Done
  /\ Notify(Ready(life, FALSE))
  /\ UNCHANGED <<mode, begun, undone, bound, mail, initialized, stopVars, failVars, requests,
                 simVars, workVars>>

\* The loop: a cycle drains, updates and renders, and may throw anywhere.
Play ==
  /\ At("play")
  /\ IF stop \/ simPc = "done" THEN EnterTearDown("none") /\ UNCHANGED <<thrown>>
     ELSE todo' = <<"cycle">> \o todo /\ UNCHANGED <<failVars, life, seenFailure>>
  /\ UNCHANGED <<mode, begun, undone, bound, mail, initialized, stopVars, notified, requests,
                 simPc, asked, simFailure, workVars>>

Cycle ==
  /\ At("cycle")
  /\ \/ Done /\ Drain /\ UNCHANGED <<failVars, life, seenFailure>>
     \/ /\ Throws /\ EnterTearDown("cycle")
        /\ UNCHANGED <<jobs, closedToWork, simPc, asked, simFailure>>
  /\ UNCHANGED <<mode, begun, undone, bound, mail, initialized, stopVars, notified, requests>>

\* What process_shutdown may find: a request to admit, a decision on the one
\* that was admitted, a native close that is not negotiated.
ProcessShutdown ==
  /\ (At("announce") \/ At("cycle")) /\ ~stop
  /\ \/ /\ ~life.pending /\ requests < MaxRequests /\ requests' = requests + 1
        /\ life' = Pending(life, TRUE) /\ UNCHANGED <<stop, cause>>
     \/ /\ life.pending
        /\ life' = Pending(life, FALSE) /\ UNCHANGED <<stop, cause, requests>>
     \/ life.pending /\ ForceStop("AcceptedRequest") /\ UNCHANGED <<life, requests>>
     \/ ForceStop("WindowClose") /\ UNCHANGED <<life, requests>>
  /\ UNCHANGED <<mode, ownerVars, initialized, stopper, failVars, notified, simVars, workVars>>

--------------------
\* The tear-down.
PublishStarting ==
  /\ At("starting") /\ Done
  /\ ForceStop(IF failure # "none" THEN "Failure" ELSE IF stop THEN "StopRequested" ELSE "WindowClose")
  /\ Notify(Starting([life EXCEPT !.stopRequested = TRUE], cause'))
  /\ UNCHANGED <<mode, begun, undone, bound, mail, initialized, stopper, failVars, requests,
                 simVars, workVars>>

CloseWork ==
  /\ At("closeWork") /\ Done /\ closedToWork' = TRUE
  /\ UNCHANGED <<mode, begun, undone, bound, mail, initialized, stopVars, failVars, lifeVars, simVars, jobs>>

\* The join: the simulation may still wait for the platform.
Settle ==
  /\ At("settle")
  /\ \/ simPc \notin {"absent", "done"} /\ Pump
     \/ /\ simPc \notin {"absent", "done"} /\ Throws /\ Preserve("maintenance")
        /\ UNCHANGED <<todo, initialized, simPc, asked, simFailure, workVars>>
     \/ /\ simPc \in {"absent", "done"} /\ Done /\ Established
        /\ IF simFailure # seenFailure THEN Preserve(simFailure) ELSE UNCHANGED <<failure, life>>
        /\ UNCHANGED <<thrown, simPc, asked, simFailure, workVars>>
  /\ UNCHANGED <<mode, begun, undone, bound, mail, stopVars, notified, requests, seenFailure>>

Target == [closeSimulation |-> "simulation", closePlatform |-> "platform"]

\* A mailbox that closes cancels what it still holds; one that was never
\* opened stays as it is.
CloseMailbox ==
  \E step \in DOMAIN Target :
      /\ At(step) /\ Done
      /\ mail' = [mail EXCEPT ![Target[step]] = IF @ = "open" THEN "closed" ELSE @]
      /\ IF step = "closePlatform" /\ mail["platform"] = "open"
         THEN jobs' = [j \in Jobs |-> IF jobs[j] = "waiting" THEN "cancelled" ELSE jobs[j]]
         ELSE UNCHANGED jobs
      /\ UNCHANGED <<mode, begun, undone, bound, initialized, stopVars, failVars, lifeVars,
                     simVars, closedToWork>>

PublishQuiescing ==
  /\ At("quiescing") /\ Done
  /\ Notify(Quiescing(life))
  /\ UNCHANGED <<mode, begun, undone, bound, mail, initialized, stopVars, failVars, requests, simVars, workVars>>

WorkIdle == \A j \in Jobs : jobs[j] \in {"new", "done"}

\* Mutant: idle as soon as the platform has nothing in its queue.
PumpWorkUntilQuiet ==
  /\ At("pump") /\ Done
  /\ \A j \in Jobs : jobs[j] # "waiting"
  /\ UNCHANGED <<mode, begun, undone, bound, mail, initialized, stopVars, failVars, lifeVars, simVars, workVars>>

\* finish_worker_shutdown serves the platform until the groups are idle.
PumpWork ==
  /\ At("pump")
  /\ \/ ~WorkIdle /\ Pump
     \/ /\ ~WorkIdle /\ Throws /\ Preserve("maintenance")
        /\ UNCHANGED <<todo, initialized, simPc, asked, simFailure, workVars>>
     \/ WorkIdle /\ Done /\ UNCHANGED <<failVars, life, initialized, simPc, asked, simFailure, workVars>>
  /\ UNCHANGED <<mode, begun, undone, bound, mail, stopVars, notified, requests, seenFailure>>

\* finish_workers drains each group and ends the owned pool.
FinishWork ==
  /\ At("finishWork") /\ WorkIdle /\ Done
  /\ UNCHANGED <<mode, begun, undone, bound, mail, initialized, stopVars, failVars, lifeVars, simVars, workVars>>

Cleanup == [undoSimulation |-> "simulation", undoPlatform |-> "platform",
            undoInput |-> "input", undoRenderer |-> "renderer"]

\* Mutant: an adapter is cleaned up only if its initialize() came through.
UndoInitialized ==
  \E step \in DOMAIN Cleanup :
      /\ At(step) /\ Done
      /\ IF Cleanup[step] \in begun \ ({"renderer", "input"} \ initialized)
         THEN undone' = Append(undone, Cleanup[step]) /\ MayThrow(step)
         ELSE UNCHANGED <<undone, failVars, life>>
      /\ UNCHANGED <<mode, begun, bound, mail, initialized, stopVars, notified, requests, simVars, workVars>>

\* Each cleanup that applies is made once; if it throws the next one follows.
Undo ==
  \E step \in DOMAIN Cleanup :
      /\ At(step) /\ Done
      /\ IF Cleanup[step] \in begun
         THEN undone' = Append(undone, Cleanup[step]) /\ MayThrow(step)
         ELSE UNCHANGED <<undone, failVars, life>>
      /\ UNCHANGED <<mode, begun, bound, mail, initialized, stopVars, notified, requests, simVars, workVars>>

Needs == [quiesce |-> "platform" \in begun, native |-> TRUE, frames |-> TRUE, collection |-> TRUE,
          maintain |-> "renderer" \in initialized]

\* The steps in between: a hook, a check or a pass of maintenance.
Visit ==
  \E step \in DOMAIN Needs :
      /\ At(step) /\ Done
      /\ IF Needs[step] THEN MayThrow(step) ELSE UNCHANGED <<failVars, life>>
      /\ UNCHANGED <<mode, begun, undone, bound, mail, initialized, stopVars, notified, requests, simVars, workVars>>

Unbind ==
  /\ At("unbind") /\ Done /\ bound' = FALSE
  /\ UNCHANGED <<mode, begun, undone, mail, initialized, stopVars, failVars, lifeVars, simVars, workVars>>

\* The end of run(): the services and views close, Stopped is told.
FinishRun ==
  /\ At("finish") /\ todo' = <<"destroy">>
  /\ ForceStop("StopRequested")
  /\ Notify(Stopped(life))
  /\ UNCHANGED <<mode, begun, undone, bound, mail, initialized, stopper, failVars, requests, simVars, workVars>>

\* ~GameRuntime and ~Context: no work outlives the adapters.
Destroy ==
  /\ At("destroy") /\ stopper = "idle"
  /\ closedToWork' = TRUE
  /\ IF WorkIdle THEN Done /\ life' = [life EXCEPT !.closed = TRUE] ELSE UNCHANGED <<todo, life>>
  /\ UNCHANGED <<mode, begun, undone, bound, mail, initialized, stopVars, failVars, notified,
                 requests, simVars, jobs>>

--------------------
\* The simulation thread.  A callback may post to the platform and wait.
SimMoves(to) == simPc' = to /\ asked' = "no"

SimBinds ==
  /\ simPc = "binds"
  /\ IF stop THEN SimMoves("awaits") /\ UNCHANGED begun ELSE SimMoves("inits") /\ Begins("simulation")
  /\ UNCHANGED <<mode, todo, undone, bound, mail, initialized, stopVars, failVars, lifeVars,
                 simFailure, seenFailure, workVars>>

InCallback == simPc \in {"inits", "updates", "deinits"} /\ asked # "waiting"

SimAsks ==
  /\ InCallback /\ asked = "no" /\ mail["platform"] = "open"
  /\ asked' = "waiting"
  /\ UNCHANGED <<mode, ownerVars, initialized, stopVars, failVars, lifeVars, simPc, simFailure, seenFailure, workVars>>

SimReturns ==
  /\ InCallback /\ simPc # "deinits"
  /\ SimMoves(IF simPc = "inits" THEN "awaits" ELSE "between")
  /\ UNCHANGED <<mode, ownerVars, initialized, stopVars, failVars, lifeVars, simFailure, seenFailure, workVars>>

\* start_released comes with the loop; a stop releases it too.
SimProceeds ==
  /\ \/ simPc = "awaits" /\ (At("play") \/ At("cycle") \/ stop)
     \/ simPc = "between"
  /\ SimMoves(IF stop THEN "closes" ELSE "updates")
  /\ UNCHANGED <<mode, ownerVars, initialized, stopVars, failVars, lifeVars, simFailure, seenFailure, workVars>>

SimThrows ==
  /\ simPc = "binds" \/ (InCallback /\ simPc # "deinits")
  /\ Throws
  /\ simFailure' = IF simPc = "binds" THEN "simulation_bind"
                   ELSE IF simPc = "inits" THEN "game_simulation_init" ELSE "game_update"
  /\ SimMoves("closes") /\ ForceStop("Failure")
  /\ UNCHANGED <<mode, ownerVars, initialized, stopper, failure, lifeVars, seenFailure, workVars>>

SimCloses ==
  /\ simPc = "closes"
  /\ mail' = [mail EXCEPT !["simulation"] = "closed"]
  /\ SimMoves(IF "simulation" \in begun THEN "deinits" ELSE "done")
  /\ UNCHANGED <<mode, todo, begun, undone, bound, initialized, stopVars, failVars, lifeVars,
                 simFailure, seenFailure, workVars>>

SimEnds ==
  /\ simPc = "deinits" /\ InCallback /\ SimMoves("done")
  /\ undone' = Append(undone, "simulation")
  /\ \/ UNCHANGED <<simFailure, life, thrown>>
     \/ /\ Throws
        /\ IF simFailure = "none" THEN simFailure' = "undoSimulation" /\ UNCHANGED life
           ELSE life' = Secondary(life, 1) /\ UNCHANGED simFailure
  /\ UNCHANGED <<mode, todo, begun, bound, mail, initialized, stopVars, failure, notified, requests, seenFailure, workVars>>

--------------------
\* A stop from any thread: the force, then the observation by the lifecycle.
StopElsewhere ==
  \/ /\ stopper = "idle" /\ ~stop /\ todo # <<>>
     /\ ForceStop("StopRequested") /\ stopper' = "stops"
     /\ UNCHANGED <<mode, ownerVars, initialized, failVars, lifeVars, simVars, workVars>>
  \/ /\ stopper = "stops" /\ stopper' = "idle"
     /\ life' = [life EXCEPT !.stopRequested = TRUE]
     /\ UNCHANGED <<mode, ownerVars, initialized, stop, cause, failVars, notified, requests, simVars, workVars>>

\* Work in the groups of the context.
Submit(j) ==
  /\ jobs[j] = "new" /\ ~closedToWork /\ jobs' = [jobs EXCEPT ![j] = "runs"]
  /\ UNCHANGED <<mode, ownerVars, initialized, stopVars, failVars, lifeVars, simVars, closedToWork>>

JobAsks(j) ==
  /\ jobs[j] = "runs" /\ mail["platform"] = "open" /\ jobs' = [jobs EXCEPT ![j] = "waiting"]
  /\ UNCHANGED <<mode, ownerVars, initialized, stopVars, failVars, lifeVars, simVars, closedToWork>>

JobEnds(j) ==
  /\ jobs[j] \in {"runs", "answered", "cancelled"} /\ jobs' = [jobs EXCEPT ![j] = "done"]
  /\ UNCHANGED <<mode, ownerVars, initialized, stopVars, failVars, lifeVars, simVars, closedToWork>>

--------------------
OwnerStep ==
  \/ Run \/ RunRefused \/ Initialize \/ InitializeFails \/ OpenMailboxes \/ InitPlatform
  \/ Dispatch \/ SelectWindow \/ InitSimulation \/ StartThread \/ Boot \/ Announce
  \/ PublishReady \/ Play \/ Cycle \/ PublishStarting \/ CloseWork \/ Settle \/ CloseMailbox
  \/ PublishQuiescing \/ PumpWork \/ FinishWork \/ Undo \/ Visit \/ Unbind \/ FinishRun \/ Destroy

Simulation == SimBinds \/ SimReturns \/ SimProceeds \/ SimThrows \/ SimCloses \/ SimEnds

SessionNext ==
  \/ OwnerStep \/ ProcessShutdown \/ Simulation \/ SimAsks \/ StopElsewhere
  \/ \E j \in Jobs : Submit(j) \/ JobAsks(j) \/ JobEnds(j)

\* The threads run and callbacks return; nobody must stop, ask or submit.
SessionFairness ==
  /\ WF_sessionVars(OwnerStep) /\ WF_sessionVars(Simulation)
  /\ WF_sessionVars(StopElsewhere /\ stopper = "stops")
  /\ \A j \in Jobs : WF_sessionVars(JobEnds(j))

SessionSpec == SessionInit /\ [][SessionNext]_sessionVars /\ SessionFairness
--------------------
\* What a session owes to its game, to its observers and to the work it
\* accepted.

Ends == todo \in {<<"destroy">>, <<>>}
Components == {"renderer", "input", "platform", "simulation"}

\* What has begun is what the run ends by cleaning up, each once and in the
\* reverse order of its start, however far the start-up came and whatever
\* failed in between (run_sequential, run_concurrent).
Given(c, parts) == IF c \in parts THEN <<c>> ELSE <<>>
Reversed(parts) == Given("simulation", parts) \o Given("platform", parts)
                     \o Given("input", parts) \o Given("renderer", parts)

CleanedUp ==
  /\ undone = SubSeq(Reversed(begun), 1, Len(undone))
  /\ Ends => undone = Reversed(begun) /\ ~bound

\* Accepted work is finished, with its platform requests served and not
\* cancelled, before the platform's mailbox closes and before the game, the
\* adapters or the context go away (finish_worker_shutdown, ~Context).
WorkSettlesFirst ==
  /\ \A j \in Jobs : jobs[j] # "cancelled"
  /\ (mail["platform"] = "closed" \/ (\E i \in DOMAIN undone : undone[i] # "simulation") \/ todo = <<>>) => WorkIdle

\* Whatever fails, the session is taken down in its order: what works for
\* it before what it works with, each part once.
TornDownInOrder == CleanedUp /\ WorkSettlesFirst

StageOrder == <<"Ready", "Stopping", "Quiescing", "Stopped">>

\* The snapshots told are milestones in their order with rising sequence;
\* Ready is told only of a session that has all its parts and that nobody
\* was seen to stop, and no later one forgets it; a request that was pending
\* at the stop is committed or superseded, as its cause says.
MilestonesTold ==
  /\ \A i, k \in DOMAIN notified : i < k =>
      /\ notified[i].sequence < notified[k].sequence
      /\ \E a, b \in 1..4 : a < b /\ notified[i].stage = StageOrder[a] /\ notified[k].stage = StageOrder[b]
      /\ notified[i].reachedReady = notified[k].reachedReady
  /\ \A i \in DOMAIN notified :
      /\ notified[i].stage = "Ready" =>
          ~notified[i].stopRequested /\ notified[i].initialized = {"renderer", "input", "game", "simulationOwner"}
      /\ notified[i].verdict = "committed" => notified[i].cause = "AcceptedRequest"
      /\ notified[i].stage # "Ready" => ~notified[i].pending
  /\ Ends /\ notified # <<>> => notified[Len(notified)].stage = "Stopped"

\* Everything that threw is accounted for in the terminal snapshot: the
\* first as its primary failure, the others as secondary ones, on whichever
\* thread (preserve_failure, finish_simulation).
FailuresAccounted ==
  Ends /\ life.stage = "Stopped" =>
      /\ thrown = life.secondary + (IF life.outcome = "Failed" THEN 1 ELSE 0)
      /\ life.outcome = "Failed" => life.primary = failure /\ failure # "none"

\* What observers are told of the session is what happened in it.
LifecycleIsTrue == MilestonesTold /\ FailuresAccounted

\* A session that is stopped ends, and so does its context, although the
\* simulation and the workers may wait for the platform meanwhile.
SessionEnds == stop ~> (todo = <<>>)
====================
