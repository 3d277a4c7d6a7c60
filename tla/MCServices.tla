---- MODULE MCServices ----
\* The services a session runs on: gamepads, logs, blocks of
\* memory, the renderer's native objects, the scheduler of simulation
\* steps, view sources with their required bindings, the placement of a
\* pool's groups and the selections among them, the diagnosis of a
\* runtime's pressure, lifetimes of objects, shared values, the terminal
\* that shows a program's output, and native windows.  They share no state
\* here; a behaviour is one of theirs, the one of its part.
EXTENDS Gamepad, Logging, Blocks, NativeResources,
        SimulationScheduler, RequiredBindings, FairSelection,
        WorkerSetup, Pressure, Objects, PlatformModules

VARIABLE part

Parts == {"gamepad", "logging", "blocks", "native", "scheduler", "bindings", "selection",
          "setup", "pressure", "objects", "shared", "terminal", "window"}

--------------------
MCBase == <<8, 12>>     \* two owners that lie next to each other
MCShare == <<1, 2, 3>>

--------------------
\* Scheduler: a clock of 22 instants, and options of every mode.
MCStarts == {-MaxTime - 1, -3, 0, 4}

Variables ==
  [mode : {Variable}, recovery : {DropExcessLag}, variable_interval : {0, 3},
   fixed_step : {1}, max_fixed_updates : {1},
   fixed_updates_before_recovery : {0}, recovery_cap : {0}]

Dropping ==
  [mode : {Fixed}, recovery : {DropExcessLag}, variable_interval : {0},
   fixed_step : {0, 2, 3}, max_fixed_updates : {1, 2},
   fixed_updates_before_recovery : {0}, recovery_cap : {0}]

CatchingUp ==
  [mode : {Fixed}, recovery : {VariableCatchUp}, variable_interval : {0},
   fixed_step : {2, 3}, max_fixed_updates : {1, 2},
   fixed_updates_before_recovery : {0, 2}, recovery_cap : {0, 4}]

MCOptions == Variables \cup Dropping \cup CatchingUp

--------------------
\* Machines of three CPUs that bind, only report, or cannot tell the mask;
\* and what an application may report of four, well or badly.
Core(id, cpus) == [id |-> id, cpus |-> cpus]
CacheAt(id, level, cpus) == [id |-> id, level |-> level, cpus |-> cpus]
Box(binds, queries, cores, caches) ==
  [cpus |-> 0..2, loads |-> TRUE, binds |-> binds, queries |-> queries, native |-> TRUE,
   cores |-> cores, caches |-> caches]
Pairs == {Core(4, {0, 1}), Core(7, {2})}
Levels == {CacheAt(0, 1, {0, 1}), CacheAt(1, 2, {0, 1, 2}), CacheAt(2, 1, {2})}
MCMachines ==
  {Box(TRUE, TRUE, Pairs, Levels), Box(FALSE, TRUE, Pairs, Levels), Box(TRUE, FALSE, Pairs, {}),
   [Box(TRUE, TRUE, {}, {}) EXCEPT !.loads = FALSE, !.native = FALSE], Box(TRUE, TRUE, {Core(4, {0, 1})}, {})}

Reported(cores, caches) ==
  [duplicate |-> FALSE, eligible |-> 0..3, affinity |-> TRUE, cores |-> cores, caches |-> caches]
MCSnapshots ==
  {[Reported({}, {}) EXCEPT !.duplicate = TRUE],
   Reported({Core(1, {0}), Core(2, {1, 2, 3})}, {CacheAt(5, 3, {1, 2})}),
   Reported({Core(1, {0, 1}), Core(2, {1, 2})}, {}), Reported({Core(1, {0}), Core(1, {1, 2})}, {}),
   Reported({}, {CacheAt(5, 0, {1})})}

\* Documents: wishes that some machine grants and no machine does, of either
\* strength, and each kind of malformed one.
Text(v) == [is |-> "text", text |-> v]
Number(v) == [is |-> "number", v |-> v]
Listed(v) == [is |-> "list", list |-> v]
Document(workers, wishes) ==
  [duplicate |-> FALSE, root |-> [version |-> Text("1.0"), workers |-> workers, groups |-> wishes]]
OnCpus(cpus, strength) == [g |-> [cpu |-> [cpus |-> Listed(cpus), strength |-> Text(strength)]]]
OnCache(cpus, id, strength) ==
  [g |-> [cpu |-> [cpus |-> Listed(cpus), cache_domain |-> Number(id), strength |-> Text(strength)]]]
Apart(strength) ==
  [g |-> [locality |-> Text("spread"), concurrency |-> Number(2), cpu |-> [strength |-> Text(strength)]]]
Strengths == {"preferred", "required"}
Malformed ==
  {[weight |-> Number(5)], [cpu |-> [cpus |-> Listed(<<1, 1>>)]], [speed |-> Number(1)], [priority |-> Text("high")]}
MCDocuments ==
  {Document(Text("auto"), OnCpus(cpus, s)) : cpus \in {<<1>>, <<2, 0>>, <<9>>, <<1, 9>>}, s \in Strengths}
  \cup {Document(Number(3), OnCache(cpus, id, s)) : cpus \in {<<>>, <<2>>}, id \in {0, 5}, s \in Strengths}
  \cup {Document(Number(1), Apart(s)) : s \in Strengths}
  \cup {Document(Number(1), [g |-> wishes]) : wishes \in Malformed}
  \cup {Document(Text("all"), <<>>), Document(Number(0), <<>>), Document(Number(1), [G |-> <<>>]),
        [Document(Number(1), <<>>) EXCEPT !.duplicate = TRUE],
        [duplicate |-> FALSE, root |-> [version |-> Text("1.0"), groups |-> [g |-> <<>>]]]}
AnyMachine == Box(TRUE, TRUE, Pairs, Levels)

--------------------
Init ==
  /\ part \in Parts
  /\ GamepadInit /\ LogInit /\ BlocksInit /\ NativeInit
  /\ SchedulerInit /\ BindingsInit /\ SelectionInit /\ SetupInit /\ PressureInit
  /\ ObjectsInit /\ SharedInit /\ TerminalInit /\ WindowInit
  /\ part # "window" => library.host = CHOOSE h \in Hosts : TRUE
  /\ part # "objects" => use = "tracked"
  /\ part # "shared" => template = "singleton" /\ versioned.value = CHOOSE v \in Values : TRUE
  /\ part # "blocks" => void
  /\ part # "setup" => machine = AnyMachine
  /\ part # "scheduler" => start = 0 /\ options = CHOOSE o \in MCOptions : IsValid(o)

GamepadStep == part = "gamepad" /\ GamepadNext
    /\ UNCHANGED <<part, logVars, blockVars, nativeVars, schedulerVars, bindingsVars, selectionVars, setupVars, pressureVars, objectVars, sharedVars, terminalVars, windowVars>>
LoggingStep == part = "logging" /\ LogNext
    /\ UNCHANGED <<part, gamepadVars, blockVars, nativeVars, schedulerVars, bindingsVars, selectionVars, setupVars, pressureVars, objectVars, sharedVars, terminalVars, windowVars>>
BlocksStep == part = "blocks" /\ BlocksNext
    /\ UNCHANGED <<part, gamepadVars, logVars, nativeVars, schedulerVars, bindingsVars, selectionVars, setupVars, pressureVars, objectVars, sharedVars, terminalVars, windowVars>>
NativeStep == part = "native" /\ NativeNext
    /\ UNCHANGED <<part, gamepadVars, logVars, blockVars, schedulerVars, bindingsVars, selectionVars, setupVars, pressureVars, objectVars, sharedVars, terminalVars, windowVars>>
SchedulerStep == part = "scheduler" /\ SchedulerNext
    /\ UNCHANGED <<part, gamepadVars, logVars, blockVars, nativeVars, bindingsVars, selectionVars, setupVars, pressureVars, objectVars, sharedVars, terminalVars, windowVars>>
BindingsStep == part = "bindings" /\ BindingsNext
    /\ UNCHANGED <<part, gamepadVars, logVars, blockVars, nativeVars, schedulerVars, selectionVars, setupVars, pressureVars, objectVars, sharedVars, terminalVars, windowVars>>
SelectionStep == part = "selection" /\ SelectionNext
    /\ UNCHANGED <<part, gamepadVars, logVars, blockVars, nativeVars, schedulerVars, bindingsVars, setupVars, pressureVars, objectVars, sharedVars, terminalVars, windowVars>>
SetupStep == part = "setup" /\ SetupNext
    /\ UNCHANGED <<part, gamepadVars, logVars, blockVars, nativeVars, schedulerVars, bindingsVars, selectionVars, pressureVars, objectVars, sharedVars, terminalVars, windowVars>>
PressureStep == part = "pressure" /\ PressureNext
    /\ UNCHANGED <<part, gamepadVars, logVars, blockVars, nativeVars, schedulerVars, bindingsVars, selectionVars, setupVars, objectVars, sharedVars, terminalVars, windowVars>>
ObjectsStep == part = "objects" /\ ObjectsNext
    /\ UNCHANGED <<part, gamepadVars, logVars, blockVars, nativeVars, schedulerVars, bindingsVars, selectionVars, setupVars, pressureVars, sharedVars, terminalVars, windowVars>>
SharedStep == part = "shared" /\ SharedNext
    /\ UNCHANGED <<part, gamepadVars, logVars, blockVars, nativeVars, schedulerVars, bindingsVars, selectionVars, setupVars, pressureVars, objectVars, terminalVars, windowVars>>
TerminalStep == part = "terminal" /\ TerminalNext
    /\ UNCHANGED <<part, gamepadVars, logVars, blockVars, nativeVars, schedulerVars, bindingsVars, selectionVars, setupVars, pressureVars, objectVars, sharedVars, windowVars>>
WindowStep == part = "window" /\ WindowNext
    /\ UNCHANGED <<part, gamepadVars, logVars, blockVars, nativeVars, schedulerVars, bindingsVars, selectionVars, setupVars, pressureVars, objectVars, sharedVars, terminalVars>>

Next ==
  \/ GamepadStep \/ LoggingStep \/ BlocksStep
  \/ NativeStep \/ SchedulerStep \/ BindingsStep \/ SelectionStep
  \/ SetupStep \/ PressureStep \/ ObjectsStep \/ SharedStep
  \/ TerminalStep \/ WindowStep

allVars ==
  <<part, gamepadVars, logVars, blockVars, nativeVars,
    schedulerVars, bindingsVars, selectionVars, setupVars, pressureVars, objectVars, sharedVars,
    terminalVars, windowVars>>

Spec == Init /\ [][Next]_allVars
--------------------
\* What watches are told of a gamepad, of a runtime's pressure and of a
\* window's sizes, and what waiters are of the values that threads share.
WatchesFollow == ListenersFollow /\ PressureIsTold /\ SharedAsOne /\ WindowIsTrue

\* What a process logs and writes is kept, shown and closed in its order.
OutputEndsClean == LoggingEndsClean /\ TerminalEndsClean

\* Memory is lent once and an object lives in it once, until both end.
MemoryIsSafe == BlocksAreSafe /\ ObjectsLiveOnce

\* Groups take turns by their shares, on the CPUs that each was promised.
GroupsGetTheirShare == BoundedOvertaking /\ PlacementIsHonest
====================
