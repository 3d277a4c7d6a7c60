# Cheryl engine: specifications, model checking and proofs

TLA+ specifications of the Cheryl engine (`src/projects/engine` and the modules
beside it), the TLC configurations that check them on small instances and the
TLAPS proofs of what holds for every instance.

- [What the engine is made of](#what-the-engine-is-made-of)
- [The modules and the code](#the-modules-and-the-code)
- [The runs](#the-runs)
- [Fairness](#fairness)
- [Proofs](#proofs)
- [What is model-checked only, and what is not modelled](#what-is-model-checked-only-and-what-is-not-modelled)
- [Plan](#plan)
- [Running the tools](#running-the-tools)

## What the engine is made of

A session of `GameRuntime` has a **platform owner** (the thread that called
`run`), which polls input, renders and owns every native resource, and, in
concurrent mode, a **simulation owner**, which updates the game and prepares
frames. Worker pools are created by the application and are only borrowed by the
runtime. Everything else that is thread-safe is so because it hands work to one
of these owners. The components, their state and what can go wrong in them:

| Component | State | Operations | What is hard |
| --- | --- | --- | --- |
| Worker pool (`worker-pool.cpp`) | groups with queue, counters and credit; workers; one mutex and one condition variable | submit, close, drain, make_group, shutdown, the worker's loop | one condition variable for all reasons to wait, notification after unlock, exit of workers, capped groups, starvation, thread start that fails half-way, a native mask that changes |
| Worker placement, settings, topology (`worker-placement.cpp`, `worker-topology.cpp`, `runtime/workers`) | load per CPU and core, last CPU of each group; inventories, policies | reserve, release; discover, resolve, bind | each reservation released exactly once; what a machine, an application and a document claim against what the system grants |
| Platform and simulation dispatchers | queue, accepting, draining, counters, wake callback | open, bind, submit, drain, close | close in two sections, posts from callbacks and destructors, wake after unlock |
| Concurrent loop (`run_concurrent`) | three frame slots, polling backlog, window, start-up and tear-down flags, one mutex and condition variable | update, publish, poll, transfer, recycle, take, render, stop, join | two threads and their rendezvous, slots as a bounded resource, failures on either side, join while the simulation waits for the platform |
| Session (`game-runtime.cpp`, `runtime-lifecycle.cpp`, `engine-context.cpp`) | phase, parts set up, worker groups, failures, lifecycle snapshot | start, loop, stop, every teardown step | any step fails; order of teardown; accepted work that still needs the platform; what observers are told meanwhile |
| Shutdown negotiation (`shutdown.cpp`) | the one request slot, the one policy, status, cause, ticket futures | request, admit, decide, detach, force, window close, quiesce, close | a decision that outlives its request, a policy that leaves, a stop from any thread, delivery that is lost |
| Event bus (`event-bus.cpp`) | channels, gate and running count of each listener, delivery tickets | register, disconnect, dispatch, notify, wait, close | snapshots against removal, reentrancy, exactly one outcome of each ticket, locks held while foreign code runs |
| Worker delivery stream (`event-delivery.cpp`) | queue, scheduled, pump phase | post, drain, abandon | hand-over between a pump that ends and a post, a pump destroyed before or after it is marked accepted |
| Required bindings and view sources (`required-bindings.h`, `view-state.cpp`) | list of watches, entered / active / armed per watch, revision | watch, select, reset, close | delivery at most once by two paths, resets from callbacks and threads, old payloads |
| Simulation scheduler (`simulation-scheduler.cpp`) | observed time, accumulated time | advance, next_update_at | no time lost, phase, bounded bursts, ranges of 64-bit durations |
| Frame pacer, polling backlog | deadlines, completed polls | due, complete, consume | a deadline that falls between two looks |
| Pressure diagnostics (`runtime-pressure-internal.cpp`) | conditions, staged and committed, watches | stage, commit, report, watch | transitions told twice or not at all |
| Asset management (`src/core/resources/asset-management`) | directory, prepared batch, caches, attempts, catalogue and its watches | prepare, upload, evict, clear, publish, watch | files that change under a preparation, partial uploads, listeners that reenter, bounded publication |
| Asset types (tiles, parameters, drawing) | sheets, selections, pipelines, frames, GL state | parse, select, advance, draw | limits of sizes and times, layers of parameters, state that leaks into the next draw |
| Text and fonts (`src/text`, `fonts-list.cpp`) | revision and pending request of an updater, catalogue of fonts, layout | request, finish, layout, pack, configure, find | results out of order, retries, breaks at the edge of a width |
| Audio (`miniaudio` module) | voices, sequence, outbox | play, stop, pump, restart | a bounded outbox, native ends, reentrancy |
| Controls (`src/core/controls`, native input, gamepads) | edges, contexts, focus, sources | poll, tick, attach, reset, focus | edges between two polls, contexts that leave, listeners that close the source |
| Logging | categories, backends, queue, process lifetime | open, log, close, flush, end | references that outlive a close, one worker for every backend |
| Blocks, objects, shared values (`mem-mgr`, `object-pool`, `templates`) | sections of owners, slots, reservations; singleton, observed and versioned values | checkout, return, cull; create, roll back, claim; get, set, wait | constructors that throw, handles released on any thread, waits for a version |
| OpenGL resources (`opengl` module) | names, retired handles, shutdown, domain listeners | adopt, retire, collect, shutdown | a name deleted twice, or after the context is gone |
| Platform modules (`native-glfw`, `debug-terminal-linux`) | window mode and sizes, library's error hook; captured streams, viewer, reaper | resize, listen, create, destroy; capture, follow, finish | callbacks from within calls, who tidies up when either side dies |
| UI modules (`rmlui`, `tgui`) | sessions with focus, input batches and capture; scenes, recordings, atlas, clocks | poll, route, update, render, load, release | two toolkits that pass the focus in the middle of a batch, uploads that fail half-way |
| Startup module, mathematics, applications | fixed order, values, examples | | not modelled |

`PROJECT.json` lists every component with its sources and status, and under
`hazards` the places in the code that a test would hardly reach, each with the
properties that would catch it going wrong.

How they meet: both loops look at the scheduler's condition variable, which the
dispatchers, the shutdown controller and the handoff wake after releasing their
own mutexes. The event bus delivers on the publisher's thread or to a delivery
target, which is a dispatcher or a worker stream. Required bindings, catalogues
and pressure watches publish over the bus and keep their own list of watches
beside it. Everything native is touched by the platform owner only and is handed
to it by queues: retired handles, audio outcomes, prepared batches and texts.

## The modules and the code

An action is, as a rule, one critical section of a mutex together with the
thread-local code around it; where the code notifies after it has unlocked, the
notification is a step of its own. `PROJECT.json` maps each definition to the lines
it models. Operators introduced by a comment *Mutant* are plausible mistakes in the
definition they precede; they are used by no specification and exist so that each
property can be shown to notice one.

The properties of a component stand at the end of its module. `MCWorkerPool` gives
the pool's functions their values; `MCSequencing`, `MCAssets`, `MCPresentation` and
`MCServices` put components that share no state side by side: a variable `part`,
chosen initially, says whose behaviour it is. Properties are then about one
component at a time; some are the conjunction of those of two related ones.

**`WorkerPool`** (with `GroupSelection` and `WorkerPlacement`). `pc` follows a
worker through `run_worker`: the wait with its predicate, the selection
(`WorkerSelects`, one section: credits, reservation, dequeue, counters), the
affinity step with every outcome of the native call, the section after it that
gives up a reservation that did not come true, the callback, the release of its
captures and the completion. Clients make groups, submit, close, drain and shut
down; callbacks and destructors on a worker may do the same except blocking. The
constructor may fail to start a thread at any point. `OsRestricts` changes the
native mask of a thread behind the pool's back. `believed` is the cached mask,
`native` the real one. `GroupSelection` and `WorkerPlacement` hold the two pure
algorithms; `FairSelection` runs the first against an arbitrary environment.
`JobService` is the abstract promise: an accepted job belongs to one group until it
is settled once, nothing enters a closed group, and a drain returns when
everything its group accepted is settled.

**`WorkerSetup`** computes what the pool is given: the inventory of hwloc or of an
application, its restriction, the settings document with every kind of mistake,
and the policy of each group; the system restricts the machine in between.

**`Dispatcher`** is both `PlatformDispatcher` and `SimulationDispatcher`; `kind`
says which, as they differ in when the owner is bound and whether the owner's wait
is interrupted by posts. `Close` is two sections, as in the code (`CloseCall`,
`Invalidate`), destruction of cancelled requests runs outside the mutex and may
post. The owner's wait holds the mutex from its predicate until it blocks.
`Mailbox` is the abstraction: a line of requests served in order while open.

**`FrameHandoff`** is `run_concurrent` on both threads, from the start of the
simulation thread to the join. `simPc` and `platPc` are the places between two
critical sections. Game callbacks, polling and rendering are single steps that may
throw; a simulation callback may post a request to the platform and wait for it.
The frame pacer and the spacing of polls are the booleans `due` and `spaced`,
which time turns true and the loops reset; `renderTimed` and `pollTimed` say which
deadlines the platform's wait was given. The loop asks the pacer twice in a cycle
(`game-runtime.cpp:1047` and `:1060`), so the model does as well. `LatestFrame` is
the abstraction: a register of one frame.

**`Session`** is the rest of `GameRuntime`, in either mode: `todo` is the list of
steps the owner still has before it, from `StartUp` to the last of `LateTearDown`
(or of `EarlyTearDown`, of a session that never started); `begun` is what a cleanup
is due for, `initialized` what observers are told was established, `undone` what was
cleaned up. Any callback, adapter or step may throw, which gives up the rest of a
plan for the teardown's, or is counted there. `simPc` is the simulation's thread as
far as the teardown depends on it. `jobs` are the works of the context's groups,
some of which need the platform's mailbox to finish. `life` is the snapshot of
`RuntimeLifecycle` and `notified` what observers were given.

**`Shutdown`** is `ShutdownState` and `ShutdownController`: `ownerPc` follows
`process()`, `forcePc` a forced stop on the owner or any other thread, `holderPc`
the reset of a policy, and each request carries the state of its delivery, which
is immediate or queued and, when queued, may be dropped or discarded. The bus is
reduced to what it does for one listener (`EventBus` models it in full).

**`EventBus`** gives each thread a stack of frames (deliver, offer, post,
release, call, work, sink, wait), so that publications nested in callbacks and
error sinks, waits from within callbacks and unwinding are all there. Tickets are
shared by the poster and the work that the target holds; the last to let go
settles them.

**`WorkerStream`** is `worker_stream_delivery`: each post is a call that is
refused, joins a scheduled stream or brings a pump while it holds the mutex; the
pool may enter, refuse or destroy the pump's job at any moment, and the phase
exchange decides who cleans up. `SerialStream` is the abstraction.

**`RequiredBindings`** is a view source and the machinery it shares with the
service phases: `Select` arms every listed watch and publishes over the bus, whose
snapshot may be complete or, when it fails, empty; the walk over the list enters
whoever was not reached. `Resend` sends copies of old payloads. Watches, resets
and nested publications happen in callbacks, on the owner and on another thread.

**`SimulationScheduler`** is `advance()` and `next_update_at()` inside the loop
that plays a batch, with time points and durations as integers of one width.
**`Pressure`** stages what the loops observe and commits it on the platform
thread, where reports and watches follow.

**`Preparation`**, **`AssetLoading`**, **`Tiles`**. A batch is prepared from a
directory that is edited meanwhile: its files are found once, then the indexes, the
documents they select, the sources of shaders and the images are read, each at a
moment of its own, and grids are checked against the pixels that will be uploaded.
With no index named the whole directory is prepared, and with it every image.
`AssetLoading` has the caches and their providers, the Loader's attempt with its
outcomes when building fails or a listener reenters, and the catalogue with its
outbox and watches. `Tiles` derives sheets, clips, and tile sets from manifests
around every limit, and plays them. **`Drawing`** takes a draw from its parameters
and layers through the packet to the state the driver is left with.

**`Input`**, **`Gamepad`**, **`Audio`**, **`TextLayout`**, **`Fonts`**,
**`Toolkits`** are what a player does, hears and sees: chords and their edges
through polls and ticks while contexts come and go; the gamepad slot and its
listeners; voices and their outbox; layout, packing and the updater of texts; the
faces of a selection and the atlas; the sessions of both toolkits with their input
batches, focus, scenes, recordings, fonts' names, clocks and sizes. A request for
focus is two steps, `TakeEpoch` and `StoreFocus`, as any thread may make one: the
one stored last has the focus, whatever its epoch. Discovery of fonts is best
effort: a file whose first face does not open is passed over whole, and a face that
`face_info` refuses leaves the effects it had before. A toolkit session's focus is
its lease; which widget the toolkit itself focuses, on a click say, is left out. A
record may be handled, be skipped (an unknown key, a clipboard shortcut) or throw,
which breaks off the batch.

**`Logging`**, **`Blocks`**, **`Objects`**, **`NativeResources`**,
**`PlatformModules`** are the services below: categories, backends and the end of
the process; sections of memory under two threads; slots, batches, reservations
and values that threads share; OpenGL names from adoption to deletion; native
windows, and the terminal that shows a debug build's output.

## The runs

Every property of a run has a mutant: a mistake in one definition under which TLC
finds the property violated.

| Run | Instance | Question |
| --- | --- | --- |
| `worker_pool` | 2 workers, 1 client, 2 jobs, 2 groups (one capped at 1 and Required on one CPU, one Preferred and spread over both CPUs) | `Conservation`, `ResourcesHeld`, `NoWorkAbandoned`: do counters, limits, loads and masks stay true through all interleavings with submissions from callbacks, closes, drains, restrictions and a constructor that fails, and is no job left behind by the last worker? `ImplementsService`: is it the abstract job service? |
| `worker_pool_live` | 2 workers, 2 clients, 2 jobs, 1 serial group, no affinity capability | `NobodyWaitsForEver`: is each accepted job settled and does each drain, shutdown and failed constructor return, without spurious wakeups? |
| `dispatcher` | owner, 2 producers, 4 requests, both kinds | `Accounting`, `IsMailbox`, `EveryRequestSettles` |
| `frame_handoff` | 3 slots, 4 updates, 1 poll of capacity, a resize | `SharedStateIsSound` (owners of slots, windows of input, no wait that nobody ends, failures reported), `IsLatestFrame` |
| `frame_handoff_live` | 3 slots, 2 updates, a platform request from a callback | `LoopsGoOn`: wakeups, stops and frames arrive |
| `shutdown_negotiation` | 2 requests, 2 policies, both deliveries, forced native close | `PolicyHasItsSay`, `OneOutcome` |
| `shutdown_live` | 1 request, 1 policy, both deliveries | `TicketsSettle` |
| `event_bus` | an immediate and a queued listener, 2 threads, 3 publications, nesting 2 | `BooksAgree`, `NoCallAfterWait`, `NoSelfDeadlock` |
| `sequencing` | a session in either mode with a job, 2 failures and a request; a stream of 4 works, each of which may bring a pump | `TornDownInOrder`, `LifecycleIsTrue`, `TurnsEnd` (both end); `OneOwner`, `IsSerialStream` |
| `assets` | a directory of 7 files edited twice; 2 providers, 3 batches; a catalogue of 2 keys, 2 producers and a watch; sheets around each limit; frames of 2 draws | `LoadedAsPrepared`, `WatchFollowsCatalogue`, `TilesAreSound`, `DrawnAsAsked` |
| `presentation` | a context over 2 polls, 2 requests for focus that may race and 2 events, at most 3 of these in all; 2 voices, the first to play being the first, which alone may loop, and an outbox of one; texts of up to 5 scalars; 3 texts asked for; 2 UI sessions, 2 records; disks with faces around each choice, some of which do not open or have no glyphs | `InputIsComplete`, `PlaybackIsReported`, `TextIsShown`, `NewestWins`, `ToolkitsStayApart` |
| `services` | a gamepad, 2 logs, 2 owners of memory, 2 handles over 3 names, a clock of 22 instants with every timing mode, 2 views and 2 threads, 3 unequal groups, 5 machines, 2 pressure watches, 3 slots, 3 sharers, 2 terminals, windows of 2 sizes | `NoneLeftBehind`, `RevisionsInOrder` (bindings); `OutputEndsClean` (logs, terminal); `MemoryIsSafe` (blocks, objects); `NativeIsAccountedFor`; `GroupsGetTheirShare` (selection, placement); `TimeIsKept`, `OnTime` (scheduler); `WatchesFollow` (gamepad, pressure, shared values, windows) |

Why these bounds. Two workers and two jobs are what any race in the pool needs:
one thread in the window between its predicate and its sleep, one that changes
the state; a second group makes the first one's limit matter. The stalls, losses
and overtakings of the dispatchers take one request in the queue, one in the batch
and one posted from a callback. A slot being written, one ready, one rendered and
one retired at a time take four updates and the code's own three slots. A stale
decision takes a second request, a stale policy a second policy. Two publications
in progress and one nested in each other's callbacks take three. A second failure
in a session shows what happens to one that is not the first. A clock of 22
instants lets a stall reach several times the budget of a batch, with the largest
duration inside it, so that every range check is decided both ways. Where a
component is a function of its input (tiles, layout, faces, placement), the inputs
are enumerated around each limit the code compares with; the header of each `.cfg`
names them.

Deadlock checking is off where a system may rightly stop: sessions end, jobs,
requests and inputs run out. What must not stop is stated as a liveness property
instead.

`LoopsGoOn` states an exception for frames: if the pacer's deadline falls between
the two looks of a cycle, the cycle renders the previous frame again
(`RendersOldAgain`) and the new one waits for the next deadline. This repeats only
while the deadline keeps falling there; the code makes no promise against it.

## Fairness

Fairness is assumed of what the code's threads and the system do without being
asked, never of what a user may do.

- A runnable thread runs and callbacks end (`WF` of each thread's steps): the
  blocking operations are predicate waits, and every notifier leaves its critical
  section and notifies.
- `notify_all` wakes; wakeups nobody caused, deadlines of the dispatcher's wait
  and the maintenance interval are *not* relied upon, so a lost notification shows
  as a liveness failure. `FrameHandoff` relies on the timers that a wait has set
  itself and on time passing.
- `SF` of `Process` in `Shutdown`: the owner makes a pass in every cycle of its
  loop although other steps of its cycle come between, until the session ends.
- `Session`: the owner and the simulation take their steps, a job that can end
  does, and a stop once decided on another thread is carried out.
- Nobody is obliged to submit, close, drain, decide, stop or shut down.

## Proofs

TLAPS checks these for every value of the constants that satisfies the named
assumptions of the module. In the last column *P* marks properties of a run.

| Module | Theorem | Shows |
| --- | --- | --- |
| `WorkerPoolProofs` | `TypeCorrect`, `LimitsHold`, `LoadsAreExact` | any number of workers, clients, jobs, groups, CPUs |
| | `CountersAreExact`, `ResourcesAreHeld`, `NothingLeftBehind` | *P* `Conservation`, `ResourcesHeld`, `NoWorkAbandoned` |
| | `PoolIsAJobService` | *P* `ImplementsService`: refinement of `JobService` |
| `DispatcherProofs` | `TypeCorrect`, `NoWakeupIsLost` | any number of requests and producers, both kinds |
| | `CountersAddUp`, `ServesInOrder` | *P* `Accounting`; `IsMailbox`: refinement of `Mailbox` |
| | `PlaybackIsToldOf` | *P* `PlaybackIsReported`: any voices, capacity of the outbox and bounds |
| | `NewestTextWins` | *P* `NewestWins`: any texts, results, catalogues and fallbacks |
| `HandoffProofs` | `TypeCorrect` | of the two loops: three slots or more, any capacity, any bounds |
| | `SharedStateKept`, `LatestFrameWins` | *P* `SharedStateIsSound`; `IsLatestFrame`: refinement of `LatestFrame` |
| | `CatalogueFollowed` | *P* `WatchFollowsCatalogue`: any keys, producers, watches and outbox |
| `ShutdownProofs` | `TypeCorrect` | any number of requests and policies |
| | `OutcomeIsFinal`, `PolicyDecides` | *P* `OneOutcome`, `PolicyHasItsSay` |
| `EventBusProofs` | `TypeCorrect` | any listeners, threads, publications and nesting |
| | `BooksAlwaysAgree`, `WaitIsFinal`, `NeverInItsOwnWay` | *P* `BooksAgree`, `NoCallAfterWait`, `NoSelfDeadlock` |
| `SequencingProofs` | `StreamTypeCorrect`, `NoWorkStranded`, `FailureWithdrawsOwn` | any set of works and pumps |
| | `StreamHasOneOwner`, `RefinesSerialStream` | *P* `OneOwner`; `IsSerialStream`: refinement of `SerialStream` |
| | `TypeCorrect` | of `Session`: either mode, any jobs, failures and requests |
| | `TornDown`, `LifecycleTold` | *P* `TornDownInOrder`, `LifecycleIsTrue` |
| `ServiceProofs` | `TypeCorrect`, `NoTimeLost`, `StepsKeepPhase`, `NoOverflow`, `ClockNeverRefused` | any width of the clock, any timing options |
| | `TimeKept`, `LoopIsOnTime` | *P* `TimeIsKept`, `OnTime` |
| | `NobodyIsLeftBehind`, `WatchesSeeInOrder` | *P* `NoneLeftBehind`, `RevisionsInOrder`: any views, watches, threads and nesting |
| | `NativeAccounted` | *P* `NativeIsAccountedFor`: any handles and names |
| `ProcessProofs` | `MemoryIsKept` | *P* `MemoryIsSafe`: any owners that do not overlap, requests, callers, slots and builders |
| | `WatchesAreTold` | *P* `WatchesFollow`: any watches, callers and sizes; lemmas in `ServiceProofs` |
| | `OutputIsClean` | *P* `OutputEndsClean`: any logs, callers, records and lines; the terminal's lemmas in `ServiceProofs` |

*Worker pool.* `Conservation` is not inductive alone: that `running[g]` is the
number of workers holding a job of `g` needs to know which workers those are.
`Locals` ties `group` and `target` to the places in the loop where they are set,
and the invariant is `TypeOK`, `Locals`, `Conservation`, `LoadIsHeld` and
`CapRespected`. Counting is by the lemmas `CountAdd` and `CountRemove` on finite
sets; a reservation and its release are two lemmas (`ReserveKeepsLoad`,
`ReleaseKeepsLoad`) used by the three steps that move one. `SInv` adds what
refinement needs: each accepted job is in one queue or one hand (`OnePlace`), a
hand belongs to a worker in the middle of a job (`Carried`), a drain counts what is
left (`Drains`), and a job runs under the reservation of its group (`Reserved`). The
abstract `home` of a job is `HomeOf`, the group whose queue or worker has it.
Assumed: finitely many threads, disjoint names, and candidates that are CPUs;
nothing of limits or shares beyond their types.

*Dispatcher.* While callbacks run, `running` counts the whole detached batch
(`BatchCounted`). `NoWakeupIsLost` holds since the owner has the mutex from its
predicate until it blocks (`WaitHoldsLock`), so that a wake callback either comes
before the predicate, which then sees the post, or finds the owner asleep. For the
refinement, `Positions` says that what was served, the rest of the batch and the
queue are consecutive pieces of the line of accepted requests, and `Settlement`
which requests each piece may still hold after a close.

*Concurrent loop.* `SlotsOwned` gives each slot state its owner by the places of
the two threads; that a free or recyclable slot always exists is a counting of
three roles against at least three slots. `FramesOrdered` orders the frames of
those roles, `InputKept` ties polls to the window they were made for. No lost
wakeup needs `TimerSet` and `SleepsInWait`: whoever waits without a timer has seen
the predicate false under the mutex, and whoever changed it since has a `Wake` to
come. `FailureKept` carries a failure of the simulation to the platform's rethrow.

*Shutdown.* `Hands` says who holds the one request (the controller, the owner's
pass, a forced stop), `RequestBooks` what its delivery may be, `OwnerBooks` what the
owner's local copies are worth at each place of `process()`. `GateCounts` and
`GateOpenToHolder` count calls into a policy, which is what makes a returned reset
final (`CallbacksAcknowledged`).

*Event bus.* The stacks make it long: `Nested` says which frame may lie on which,
`CallBooks` that a listener's count is the number of its calls on all stacks, by
lemmas about pushing, replacing and popping a frame; `Lines` and `TicketBooks` say
which hand each delivery ticket is in. `NoCallAfterWait` follows from `Waits` (a
wait has seen the count at zero after the gate closed) and `AllQuiet`.

*Worker stream.* `CallShape` says where the pump of a call in progress can be: a
call that has yet to mark its pump finds it alive and unmarked or cancelled and
gone, and a pump destroyed later was marked. `Places` says that each posted work
is in the queue once or in one hand. Refinement then maps each step to one of
`SerialStream`, or to a stutter.

*Session.* `Shape` says that `todo` is a rest of one of the plans; a place is then a
plan and a length (`Phase`, `Left`), and every clause of the invariant is an
implication from a range of places: `SimPlaces` for the other thread,
`CleanedSoFar` for the cleanups done and due, `Unbound`, and `WorkKept` for jobs that
may still need the mailboxes. `LifeInv` does the same for what is told:
`FailureBooks` counts failures, `StagePlaces` and `PartPlaces` say what the
snapshot holds at each place, `Told` that all earlier snapshots precede it. One
lemma (`QuietKeeps`) serves the steps that move the place only.

*Scheduler.* Each selection `Accounts` for its time (one lemma per policy), and
the loop adds that it selects only after a batch was played (`Played`).
`RemainderUnique` carries the phase over drops of whole steps. `NoOverflow` shows
that the range checks of `advance` are sufficient for every subtraction and sum.
`LoopIsOnTime` is an action property of the same invariant.

*Required bindings.* A call into a watch is a frame on its thread's stack, and the
owner's frames lie in one another. `Stacks` says which frame may lie on which and
that an inner publication is newer than the one it lies in; `Running` that a watch
is entered exactly while a frame on the owner's stack has it; `Waits` that a reset
which still waits is of a watch that is off the list, so that no new call begins
under it. `Reached` is the heart: in the topmost publication of a view each listed
watch has the current revision already, is armed and still ahead of the walk, or is
being called. `Seeds` covers the watch that is being attached.

*OpenGL resources.* Names are the system's, 0 is none of them (assumed, as OpenGL
does). `SlotsOwnNames` says that a tracked slot has a name of its own,
`HandlesOwnSlots` that live handles lie on different tracked slots, `ListsHoldSlots`
that each slot that is neither is on exactly one of the two lists of indices, once;
`StatsCount` ties the counters to the cardinalities of these sets. `Told` orders
what listeners heard by the phase of the domain.

*Catalogue.* `Reaches` says of each revision since a watch was seeded where it is: it
was seen, is in the outbox or in the hand of a drain that still comes to the watch,
or was silent or counted as lost. `Overtakes` says that when a drain comes with a
change not seen, all before it are seen, silent or in the count that the drain
brings. So a watch that knows of no loss sees revisions without a gap, and `Shows`
(its view is the catalogue of the revision it has seen) is kept by one change. That
one drain is on its way at a time, with something older than all that waits
(`OneDrain`, `OutboxRises`), makes changes arrive in order. Assumed is only that the
outbox has room for a record (`AssetCatalogue::capacity` is 64).

*Memory.* `Tiled` says that the sections of an owner that is split cover it, lie in
it and share nothing; a leaf is a section, or an owner that is not split. `FreeWell`
makes every block of the pool a leaf without a free neighbour, `LentIs` says that an
address is lent exactly if an owner has it and no free block has. A checkout splits
one leaf (`Taken`), a return makes one of up to three (`Restored`), and both replace
pieces of a tiling by pieces that cover the same (`Retiled`, `Untiled`). `Users` gives
the addresses of live, dying and yet unbuilt objects to one holder each. An owner
that waits for release is found whole and free (`OwnersReleased`), so the check when
it is released passes over nothing that is used. Assumed is that an allocation has a
length and that two of them do not overlap, which is the system allocator's promise.
In `Objects`, `Tracker`, `Batch` and `Ranged` say for the three kinds of storage which
builder may be at which slot in which phase, `Ordered` that what a reservation has
left is a rising list of ranges.

*Watches.* The gamepad's slot and what was published of it are at most one change
apart (`PadBehind`), and what was told is a chain of changes that ends there
(`PadsTold`). `WatchesKept` says of each watch of the pressure that what it heard is
such a chain and that the current state is its last link or among those still to be
told, and `DiagnosisKept` and `StrainKept` what a staged condition was found from.
`SingletonKept` leaves one caller in a construction and gives each answer a value
that exists; `VariableKept` makes a waiter have slept since the current version, or
be about to wake. For windows, `SizesKnown` says that the last callback still to
come brings the sizes of the native window, and `ChannelsTold` and `FailuresWait`
what the calls on the stack still owe the two channels and the caller. Assumed are a
revision of at least one, finitely many pressure watches, thresholds and intervals
that are naturals, and that the engine is not among the hosts of the library.

*Logs.* `FilesKept` says that a generation which anybody holds is the last one of a
log that is open or closing, and that such a log's last generation is held;
`HoldersKept` who may hold it: the published slot while the log is open, the registry
until the caller that closes it has dropped it, a caller during its call. A release
ends what nobody holds any more (`Settles`), which is used by each of the steps that
let go. `ProcessKept` has one caller end the process after all others are at rest, so
nothing reopens. Assumed is that callers have names of their own.

*Terminal.* `StreamsKept` ties the two descriptors to the place of the session,
`SessionKept` and `ViewerKept` say what each process has done and what of the other's
end it may have seen, `ChannelKept` what is still under way between them. That
nothing is removed unseen needs both ends: the viewer leaves after a drain that
found nothing, which followed a notice that followed the last line.

*Folds.* What a fold over a sequence yields needs induction over its steps. The
fold of the library chooses a function that satisfies its recursive equation;
`FoldExists` shows that there is one, since the least length without one would
have one for the length before it, and `StepsOfFold` reads it as a first value and
a step for each element. A lemma for each walk in the models then carries an
invariant from one step to the next (`WalkKeeps`, `KeptOnceKeeps`). This is not the
library's induction, which takes a predicate as its parameter: a new kind of fold
is a new case of `StepBy`.

*Playback.* `maintain`, `close` and the snapshots walk over the voices, and each voice
passed may end and be staged while an older record is lost. `SystemOk` is kept by
every single ending: `EndsAre` says that a generation has an end exactly if it is
past or its voice no longer lives, `Counted` that numbers are left for all that
live, `OutboxOk` that the outbox holds the last numbers in order, and `LossOk` that
what has left it was heard or is in the loss still to be told, which is as long as
the gap since the last record told. Assumed is a capacity of at least one, which
`system.cpp:116` requires.

*Texts and fonts.* `UpdaterOk` says that a preparation or an upload under way is of
the newest request if it has its revision (`Follows`), and that with nothing pending
the last failure or the shown text is that of the newest request (`SettlesOn`).
`FontsOk` says that each font of the catalogue is found under its own reference and
ends with the builtin family; that fallbacks and members are kept once each, in
order, is the induction above. Assumed is that fallbacks are a list of references.

## What is model-checked only, and what is not modelled

Liveness (`NobodyWaitsForEver`, `EveryRequestSettles`, `LoopsGoOn`,
`TicketsSettle`, `TurnsEnd`) depends on fairness and `ENABLED` and stays with TLC, as
does `GroupsGetTheirShare`, whose bound is a sum over a fold of the data.

Of the safety properties, these are checked but not proved. `LoadedAsPrepared`,
`TilesAreSound`, `DrawnAsAsked`, `InputIsComplete`, `TextIsShown` and
`ToolkitsStayApart` say what several folds, searches and selections over sequences
of data yield together. Each of them would need its walks stated as steps and an
invariant between two steps, as was done for playback and fonts.

Left out of the modelled components: log lines and diagnostics that decide nothing
(peaks, queue times, callback failures), failures to allocate, payload contents,
the exhaustion of 64-bit revision counters where no run reaches a bound, calls that
the code rejects with an exception before they change anything, and the conversion
of a duration to seconds. The event bus of one channel stands for all channels.
Two owners whose callbacks reset or wait for each other's listeners can wait on
each other: the code leaves that to its callers and so does the model, which has
one owner (`RequiredBindings`) or states what one thread can know
(`NoSelfDeadlock`).

In particular not modelled are:

- of logging: an allocation that fails after registration, levels and patterns;
- of text: the overload of `configure` that takes an ordered `FontSelection`; an
  updater's `failure()` that is kept after a success; glyph rasters and UTF-8;
- of the UI toolkits: TGUI's font cache and its aliases, widgets and their focus,
  style;
- of controls: an epoch that wraps; a gamepad replaced by another while available;
- of the frame loop: a release of the frame that throws, which `Session` models,
  whereas in `Session` the drain of its dispatcher does not fail;
- of the settings of workers: the `$schema` member of a document;
- of the windows: ownership of contexts, titles, the tables of monitors;
- of the atlas: an allocation that fails while it grows;
- of the debug terminal: children that the program forks;
- of memory: the plain object allocator, the allocators' traits, and the legacy
  entry points of `block.h` that record parts of a transaction;
- `StateMachine`, `StateTracker` and `Delta`, which are single-threaded values;
- of OpenGL: programs, vertex arrays, built-in materials, and two renderers that
  share a context for debug output;
- anchors and other mathematics, the startup module, the demo applications.

Three remarks from reading. `worker-topology.h:25` says that preparation
"sorts/deduplicates" the lists of CPUs, whereas the code rejects duplicates; the
model follows the code. `discover_families` makes or empties the entry of a name
(`font-collection.cpp:142`, `146`) before `face_info` may refuse the face for it
(`148`, in a loop that is meant to be best effort, `127`): a better face is lost, an
empty entry of the application's hides an installed family (`239`), and for an
automatic family `front()` of an empty vector is called (`270`), which the model
calls `"undefined"`; `CollectionIsBest` states what holds of all other names. And `main-wrap.cpp` can leave its capture directory behind
when the viewer's window is closed between the reaper's last look at it and the
viewer's hearing of a normal exit; `TerminalEndsClean` states what holds
otherwise.

Components without a module, and why, are listed in `PROJECT.json`.

## Plan

Done, in this order: worker pool, dispatchers, concurrent loop, shutdown, worker
delivery, event bus, scheduler, required bindings, the session as a whole; then
assets, input, audio, text, drawing, UI sessions, logging, memory, native
resources and platform modules; then the proofs above. Next:

1. the walks of tiles, drawing and input as steps, to prove what they yield;
2. a module for OpenGL programs, built-in materials, bindings and uniforms, with
   the debug output that two renderers of one context share;
3. the rest of `block.h` and the plain object allocator.

New runs take the place of others where they ask a broader question; the tables
above stay short enough to be read.

## Running the tools

    tlc -workers 2 -config WorkerPool.cfg MCWorkerPool
    tlapm WorkerPoolProofs.tla

`Dispatcher.cfg`, `FrameHandoff.cfg`, `FrameHandoffLive.cfg`, the two of
`Shutdown` and `EventBus.cfg` instantiate the component's own module; the others
the `MC` module named after them. Each run ends within about two minutes on two
cores. The longest proofs, `ProcessProofs`, `EventBusProofs`, `ServiceProofs` and
`SequencingProofs`, take some minutes each.
