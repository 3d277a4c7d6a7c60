---- MODULE WorkerPool ----
\* CE::Workers::Pool and Group (worker-pool.cpp): logical groups of jobs
\* that share the physical threads of one pool.  Every thread waits on the
\* pool's one condition variable and every state change below is one
\* critical section of the pool's mutex, or thread-local work between two.
\*
\* notify_all runs after the mutex is released, so it is a step of its
\* own: a thread in `notifying' has left its critical section and not yet
\* woken the sleepers.  A sleeper wakes only when notified; a spurious
\* wakeup would only make it evaluate its predicate again.
EXTENDS Integers, Sequences, FiniteSets

CONSTANTS
    Workers,        \* the physical threads of the pool
    Clients,        \* threads that are not workers of this pool
    Jobs,           \* the jobs that may ever be submitted
    NumGroups,      \* how many groups make_group may publish
    MaxConcurrency, \* max_concurrency of each group; 0 is the pool's capacity
    Share,          \* weight * (priority + 1) of each group
    PrefersWorker,  \* the groups with prefer_same_worker
    Required,       \* the groups whose CPU policy is Required, not Preferred
    Provider,       \* a topology provider is configured: no mask is known at start
    Affinity,       \* the CPU-affinity capability of the pool
    Candidates,     \* the eligible CPUs of each group, as a sequence
    Placed,         \* the groups with an effective locality
    Reuses,         \* those of them whose locality is reuse, not spread
    CoreOf,         \* the physical core of each CPU
    NoJob, NoWorker, NoCpu

Groups == 1..NumGroups
Cpus == DOMAIN CoreOf
Cores == {CoreOf[c] : c \in Cpus}
Threads == Workers \cup Clients

ASSUME ThreadsAssumption ==
  /\ IsFiniteSet(Workers)
  /\ Workers \cap Clients = {}
  /\ NoWorker \notin Workers
ASSUME JobsAssumption == NoJob \notin Jobs
ASSUME GroupsAssumption ==
  /\ NumGroups \in Nat
  /\ MaxConcurrency \in [Groups -> Nat]
  /\ Share \in [Groups -> Nat \ {0}]
  /\ Required \subseteq Groups
  /\ Affinity \in BOOLEAN
ASSUME PlacementAssumption ==
  /\ Candidates \in [Groups -> Seq(Cpus)]
  /\ IsFiniteSet(Cpus) /\ NoCpu \notin Cpus
  /\ Placed # {} => Affinity /\ Provider
  /\ \A g \in Placed : Candidates[g] # <<>>

VARIABLES
    phase,      \* the constructor: "starting", "usable", or its failure path
    accepting,  \* PoolState::accepting
    made,       \* how many groups are published
    open,       \* GroupStatus::accepting
    pending,    \* GroupState::pending, the queue of each group
    running, accepted, completed, policyFailures,   \* GroupStatus counters
    credit, lastWorker,                             \* GroupState scheduling data
    pc, job, group,     \* where each worker is, the job it holds, of which group
    policyError,        \* run_worker's policy_error
    believed, native,   \* current_mask ({} when not mask_known); the real mask
    target,             \* the CPU a worker has reserved
    cpuLoad, coreLoad,  \* WorkerPlacement running counts
    lastTarget, nextCandidate,  \* WorkerGroupPlacement
    asleep, notifying,  \* threads blocked on `wake'; threads about to notify_all
    call, drainee,      \* a client's blocking call and the group it drains
    drained,            \* groups some drain call has returned for
    result              \* the future of each job

poolVars == <<phase, accepting, made, open>>
queueVars == <<pending, running, accepted, completed, policyFailures, credit, lastWorker>>
workerVars == <<pc, job, group, policyError, believed, native, target>>
placementVars == <<cpuLoad, coreLoad, lastTarget, nextCandidate>>
waitVars == <<asleep, notifying>>
clientVars == <<call, drainee, drained>>
vars == <<poolVars, queueVars, workerVars, placementVars, waitVars, clientVars, result>>

Selection == INSTANCE GroupSelection
Placement == INSTANCE WorkerPlacement

--------------------
AvailableCpus == Cpus
Mask(g) == {Candidates[g][i] : i \in DOMAIN Candidates[g]}

Init ==
  /\ phase = "starting"
  /\ accepting = TRUE
  /\ made = 0
  /\ open = [g \in Groups |-> FALSE]
  /\ pending = [g \in Groups |-> <<>>]
  /\ running = [g \in Groups |-> 0]
  /\ accepted = [g \in Groups |-> 0]
  /\ completed = [g \in Groups |-> 0]
  /\ policyFailures = [g \in Groups |-> 0]
  /\ credit = [g \in Groups |-> 0]
  /\ lastWorker = [g \in Groups |-> NoWorker]
  /\ pc = [w \in Workers |-> "unborn"]
  /\ job = [w \in Workers |-> NoJob]
  /\ group = [w \in Workers |-> 0]
  /\ policyError = [w \in Workers |-> FALSE]
  /\ believed = [w \in Workers |-> IF Provider THEN {} ELSE AvailableCpus]
  /\ native = [w \in Workers |-> AvailableCpus]
  /\ target = [w \in Workers |-> NoCpu]
  /\ cpuLoad = [c \in Cpus |-> 0]
  /\ coreLoad = [k \in Cores |-> 0]
  /\ lastTarget = [g \in Groups |-> NoCpu]
  /\ nextCandidate = [g \in Groups |-> 1]
  /\ asleep = {}
  /\ notifying = {}
  /\ call = [c \in Clients |-> "none"]
  /\ drainee = [c \in Clients |-> 0]
  /\ drained = {}
  /\ result = [j \in Jobs |-> "none"]

--------------------
\* Predicates the critical sections evaluate.

Cap(g) == IF MaxConcurrency[g] = 0 THEN Cardinality(Workers) ELSE MaxConcurrency[g]

\* Mutants: no limit; a limit off by one.
EligibleUncapped == {g \in Groups : pending[g] # <<>>}
EligibleBelowCap == {g \in Groups : pending[g] # <<>> /\ running[g] + 1 < Cap(g)}

Eligible == {g \in Groups : pending[g] # <<>> /\ running[g] < Cap(g)}
HasPending == \E g \in Groups : pending[g] # <<>>

\* The predicate of the workers' wait.
WorkerMayProceed == Eligible # {} \/ (~accepting /\ ~HasPending)

\* Mutant: a thread leaves as soon as the pool is closed.
MayExitOnceClosed == ~accepting

MayExit == ~HasPending /\ ~accepting

\* Mutant: a drain that does not wait for the jobs being run.
QuietQueue(g) == pending[g] = <<>>

\* The predicate of Group::drain's wait.
Quiet(g) == pending[g] = <<>> /\ running[g] = 0

\* A thread that can call the pool's interface: an idle client, or a worker
\* inside a callback or inside the destructors of the job's captures.
InCallback(w) == (pc[w] = "run" /\ ~policyError[w]) \/ pc[w] = "captures"
MayCall(t) ==
  /\ phase = "usable"
  /\ t \notin notifying
  /\ IF t \in Clients THEN call[t] = "none" ELSE InCallback(t)

--------------------
\* The constructor: threads start one by one; when one cannot start, those
\* already running are closed out and joined before the exception leaves.

StartWorker(w) ==
  /\ phase = "starting"
  /\ pc[w] = "unborn"
  /\ pc' = [pc EXCEPT ![w] = "wait"]
  /\ phase' = IF \A v \in Workers \ {w} : pc[v] # "unborn" THEN "usable" ELSE phase
  /\ UNCHANGED <<accepting, made, open, queueVars, job, group, policyError, believed,
                 native, target, placementVars, waitVars, clientVars, result>>

StartFails ==
  /\ phase = "starting"
  /\ phase' = "closing"
  /\ accepting' = FALSE
  /\ UNCHANGED <<made, open, queueVars, workerVars, placementVars, waitVars, clientVars, result>>

StartFailureNotifies ==
  /\ phase = "closing"
  /\ phase' = "joining"
  /\ asleep' = {}
  /\ UNCHANGED <<accepting, made, open, queueVars, workerVars, placementVars,
                 notifying, clientVars, result>>

StartFailureJoins ==
  /\ phase = "joining"
  /\ \A w \in Workers : pc[w] \in {"unborn", "exited"}
  /\ phase' = "failed"
  /\ UNCHANGED <<accepting, made, open, queueVars, workerVars, placementVars,
                 waitVars, clientVars, result>>

--------------------
\* The interface.  A call the code rejects by an exception changes nothing.

MakeGroup(t) ==
  /\ MayCall(t)
  /\ accepting
  /\ made < NumGroups
  /\ made' = made + 1
  /\ open' = [open EXCEPT ![made + 1] = TRUE]
  /\ UNCHANGED <<phase, accepting, queueVars, workerVars, placementVars,
                 waitVars, clientVars, result>>

Enqueue(t, g, j) ==
  /\ MayCall(t)
  /\ accepting /\ open[g]
  /\ pending' = [pending EXCEPT ![g] = Append(@, j)]
  /\ accepted' = [accepted EXCEPT ![g] = @ + 1]
  /\ notifying' = notifying \cup {t}
  /\ UNCHANGED <<poolVars, running, completed, policyFailures, credit, lastWorker,
                 workerVars, placementVars, asleep, clientVars, result>>

\* Each job is handed in at most once: a job is one call of submit.
Unsubmitted(j) ==
  /\ result[j] = "none"
  /\ \A w \in Workers : job[w] # j
  /\ \A g \in Groups : \A i \in DOMAIN pending[g] : pending[g][i] # j

Submit(t, g, j) == Unsubmitted(j) /\ Enqueue(t, g, j)

\* Closing again what is closed changes nothing but for a notify_all, which
\* the sleepers take for a spurious wakeup; it is left out, so that the
\* calls of one callback are finite in number.
CloseGroup(t, g) ==
  /\ MayCall(t)
  /\ open[g]
  /\ open' = [open EXCEPT ![g] = FALSE]
  /\ notifying' = notifying \cup {t}
  /\ UNCHANGED <<phase, accepting, made, queueVars, workerVars, placementVars,
                 asleep, clientVars, result>>

\* Pool::close, by itself or within shutdown.
Close(t) ==
  /\ accepting' = FALSE
  /\ open' = [g \in Groups |-> FALSE]
  /\ notifying' = notifying \cup {t}

ClosePool(t) ==
  /\ MayCall(t)
  /\ accepting
  /\ Close(t)
  /\ UNCHANGED <<phase, made, queueVars, workerVars, placementVars, asleep,
                 clientVars, result>>

NotifyAll(t) ==
  /\ t \in notifying
  /\ notifying' = notifying \ {t}
  /\ asleep' = {}
  /\ UNCHANGED <<poolVars, queueVars, workerVars, placementVars, clientVars, result>>

\* Group::drain rejects a worker of the pool and a group that still accepts.
DrainCall(c, g) ==
  /\ c \in Clients /\ MayCall(c)
  /\ g <= made
  /\ ~open[g]
  /\ call' = [call EXCEPT ![c] = "drain"]
  /\ drainee' = [drainee EXCEPT ![c] = g]
  /\ UNCHANGED <<poolVars, queueVars, workerVars, placementVars, waitVars, drained, result>>

DrainSleeps(c) ==
  /\ call[c] = "drain"
  /\ c \notin asleep
  /\ ~Quiet(drainee[c])
  /\ asleep' = asleep \cup {c}
  /\ UNCHANGED <<poolVars, queueVars, workerVars, placementVars, notifying, clientVars, result>>

DrainReturns(c) ==
  /\ call[c] = "drain"
  /\ c \notin asleep
  /\ Quiet(drainee[c])
  /\ call' = [call EXCEPT ![c] = "none"]
  /\ drainee' = [drainee EXCEPT ![c] = 0]
  /\ drained' = drained \cup {drainee[c]}
  /\ UNCHANGED <<poolVars, queueVars, workerVars, placementVars, waitVars, result>>

\* Pool::shutdown closes the pool and joins its threads, one caller at a
\* time (shutdown_mutex_).
ShutdownCall(c) ==
  /\ c \in Clients /\ MayCall(c)
  /\ \A d \in Clients : call[d] # "join"
  /\ Close(c)
  /\ call' = [call EXCEPT ![c] = "join"]
  /\ UNCHANGED <<phase, made, queueVars, workerVars, placementVars, asleep,
                 drainee, drained, result>>

ShutdownReturns(c) ==
  /\ call[c] = "join"
  /\ c \notin notifying
  /\ \A w \in Workers : pc[w] = "exited"
  /\ call' = [call EXCEPT ![c] = "none"]
  /\ UNCHANGED <<poolVars, queueVars, workerVars, placementVars, waitVars,
                 drainee, drained, result>>

--------------------
\* run_worker.

WorkerSleeps(w) ==
  /\ pc[w] = "wait"
  /\ w \notin asleep \cup notifying
  /\ ~WorkerMayProceed
  /\ asleep' = asleep \cup {w}
  /\ UNCHANGED <<poolVars, queueVars, workerVars, placementVars, notifying, clientVars, result>>

WorkerExits(w) ==
  /\ pc[w] = "wait"
  /\ w \notin asleep \cup notifying
  /\ MayExit
  /\ pc' = [pc EXCEPT ![w] = "exited"]
  /\ UNCHANGED <<poolVars, queueVars, job, group, policyError, believed, native,
                 target, placementVars, waitVars, clientVars, result>>

\* The CPU set the worker has to run under: its reserved CPU, or the whole
\* eligible set of the group.
Desired(w) == IF target[w] # NoCpu THEN {target[w]} ELSE Mask(group[w])

\* The one CPU the worker believes it is bound to, if there is one.
SoleCpu(mask) == IF Cardinality(mask) = 1 THEN CHOOSE c \in mask : TRUE ELSE NoCpu

Reserve(w, g) ==
  IF g \notin Placed
  THEN UNCHANGED <<target, cpuLoad, coreLoad, nextCandidate>>
  ELSE \E i \in DOMAIN Candidates[g] :
         /\ Placement!IsReserved(i, Candidates[g], cpuLoad, coreLoad, g \in Reuses,
                                 lastTarget[g], SoleCpu(believed[w]), nextCandidate[g])
         /\ LET c == Candidates[g][i]
            IN  /\ target' = [target EXCEPT ![w] = c]
                /\ cpuLoad' = [cpuLoad EXCEPT ![c] = @ + 1]
                /\ coreLoad' = [coreLoad EXCEPT ![CoreOf[c]] = @ + 1]
         /\ nextCandidate' = [nextCandidate EXCEPT ![g] = Placement!NextCandidate(i, Candidates[g])]

\* Mutant: the worker forgets to drop its optional target.
ReleaseAndKeep(w) ==
  /\ cpuLoad' = [cpuLoad EXCEPT ![target[w]] = @ - 1]
  /\ coreLoad' = [coreLoad EXCEPT ![CoreOf[target[w]]] = @ - 1]
  /\ UNCHANGED target

Release(w) ==
  /\ target' = [target EXCEPT ![w] = NoCpu]
  /\ cpuLoad' = [cpuLoad EXCEPT ![target[w]] = @ - 1]
  /\ coreLoad' = [coreLoad EXCEPT ![CoreOf[target[w]]] = @ - 1]

\* The worker takes the first job of the group it has selected.
Take(w, g) ==
  /\ job' = [job EXCEPT ![w] = Head(pending[g])]
  /\ group' = [group EXCEPT ![w] = g]
  /\ pending' = [pending EXCEPT ![g] = Tail(@)]
  /\ running' = [running EXCEPT ![g] = @ + 1]

\* Without the affinity capability nothing happens between the selection
\* and the callback, so the worker goes straight to it.
WorkerSelects(w) ==
  /\ pc[w] = "wait"
  /\ w \notin asleep \cup notifying
  /\ \E g \in Eligible :
       LET earned == Selection!Accrued(credit, Eligible)
       IN  /\ Selection!IsChosen(g, earned, Eligible,
                  {h \in PrefersWorker : lastWorker[h] = w})
           /\ credit' = Selection!Charged(earned, Eligible, g)
           /\ lastWorker' = [lastWorker EXCEPT ![g] = w]
           /\ Reserve(w, g)
           /\ Take(w, g)
  /\ pc' = [pc EXCEPT ![w] = IF Affinity THEN "affinity" ELSE "run"]
  /\ UNCHANGED <<poolVars, accepted, completed, policyFailures, policyError, believed,
                 native, lastTarget, waitVars, clientVars, result>>

\* The native mask is not touched when the cached one already fits, except
\* that a Required group queries it again: "Restrictions may change while
\* the pool is alive".
\* Mutant: the cached mask is trusted whatever the policy.
CacheStands(w) == believed[w] = Desired(w)

MaskStands(w) ==
  /\ believed[w] = Desired(w)
  /\ group[w] \in Required => native[w] = Desired(w)

\* believed and native after apply_affinity has set and verified a mask.
Bound(w, mask) ==
  /\ native' = [native EXCEPT ![w] = mask]
  /\ believed' = [believed EXCEPT ![w] = mask]

AffinityHolds(w) ==
  /\ pc[w] = "affinity"
  /\ pc' = [pc EXCEPT ![w] = "settle"]
  /\ policyError' = [policyError EXCEPT ![w] = FALSE]
  /\ IF MaskStands(w) THEN UNCHANGED <<believed, native>> ELSE Bound(w, Desired(w))
  /\ UNCHANGED <<poolVars, queueVars, job, group, target, placementVars, waitVars,
                 clientVars, result>>

\* Setting, querying or verifying the mask fails and leaves the thread with
\* any mask.  A Preferred group then falls back to every available CPU,
\* which may fail too.  The failure count is a critical section; nothing
\* shared is touched between it and the native calls.
AffinityFails(w) ==
  /\ pc[w] = "affinity"
  /\ ~(group[w] \notin Required /\ believed[w] = Desired(w))
  /\ pc' = [pc EXCEPT ![w] = "settle"]
  /\ policyFailures' = [policyFailures EXCEPT ![group[w]] = @ + 1]
  /\ \/ /\ group[w] \notin Required
        /\ Bound(w, AvailableCpus)
        /\ policyError' = [policyError EXCEPT ![w] = FALSE]
     \/ /\ believed' = [believed EXCEPT ![w] = {}]
        /\ \E mask \in SUBSET Cpus \ {{}} : native' = [native EXCEPT ![w] = mask]
        /\ policyError' = [policyError EXCEPT ![w] = TRUE]
  /\ UNCHANGED <<poolVars, pending, running, accepted, completed, credit, lastWorker,
                 job, group, target, placementVars, waitVars, clientVars, result>>

\* The job will not run on the CPU reserved for it.
Forfeits(w, bound) == target[w] # NoCpu /\ (policyError[w] \/ bound # target[w])

\* The second critical section: publish where the group ran, and give a
\* reservation back when the job will not run on the reserved CPU.
SettlePlacement(w) ==
  LET bound == IF policyError[w] THEN NoCpu ELSE SoleCpu(believed[w])
  IN  /\ pc[w] = "settle"
      /\ pc' = [pc EXCEPT ![w] = "run"]
      /\ lastTarget' = [lastTarget EXCEPT ![group[w]] = bound]
      /\ IF Forfeits(w, bound)
         THEN Release(w)
         ELSE UNCHANGED <<target, cpuLoad, coreLoad>>
      /\ UNCHANGED <<poolVars, queueVars, job, group, policyError, believed, native,
                     nextCandidate, waitVars, clientVars, result>>

\* "Never run a job under an unverified mask": job.fail settles the future
\* of a job whose policy failed; job.run settles it with the callback's
\* value or exception.
JobSettles(w) ==
  /\ pc[w] = "run"
  /\ w \notin notifying
  /\ pc' = [pc EXCEPT ![w] = "captures"]
  /\ IF policyError[w]
     THEN result' = [result EXCEPT ![job[w]] = "policy"]
     ELSE \E r \in {"value", "exception"} : result' = [result EXCEPT ![job[w]] = r]
  /\ UNCHANGED <<poolVars, queueVars, job, group, policyError, believed, native,
                 target, placementVars, waitVars, clientVars>>

\* Mutants: completion is not counted; the sleepers are not told.
DeclareUncounted(w) ==
  /\ running' = [running EXCEPT ![group[w]] = @ - 1]
  /\ notifying' = notifying \cup {w}
  /\ UNCHANGED completed
DeclareSilently(w) ==
  /\ running' = [running EXCEPT ![group[w]] = @ - 1]
  /\ completed' = [completed EXCEPT ![group[w]] = @ + 1]
  /\ UNCHANGED notifying

Declare(w) ==
  /\ running' = [running EXCEPT ![group[w]] = @ - 1]
  /\ completed' = [completed EXCEPT ![group[w]] = @ + 1]
  /\ notifying' = notifying \cup {w}

\* job = {} has released the captures outside the lock; the third critical
\* section declares completion, and notify_all follows.
JobCompletes(w) ==
  /\ pc[w] = "captures"
  /\ w \notin notifying
  /\ pc' = [pc EXCEPT ![w] = "wait"]
  /\ Declare(w)
  /\ IF target[w] # NoCpu THEN Release(w) ELSE UNCHANGED <<target, cpuLoad, coreLoad>>
  /\ job' = [job EXCEPT ![w] = NoJob]
  /\ group' = [group EXCEPT ![w] = 0]
  /\ policyError' = [policyError EXCEPT ![w] = FALSE]
  /\ UNCHANGED <<poolVars, pending, accepted, policyFailures, credit, lastWorker, believed,
                 native, lastTarget, nextCandidate, asleep, clientVars, result>>

\* The operating system may restrict or move a thread at any time; it is
\* shown to do so just before the mask is looked at, which is all that
\* run_worker can notice.
OsRestricts(w) ==
  /\ pc[w] = "affinity"
  /\ \E mask \in SUBSET Cpus \ {{}} : native' = [native EXCEPT ![w] = mask]
  /\ UNCHANGED <<poolVars, queueVars, pc, job, group, policyError, believed, target,
                 placementVars, waitVars, clientVars, result>>

--------------------
WorkerStep(w) ==
  \/ WorkerSleeps(w) \/ WorkerExits(w) \/ WorkerSelects(w)
  \/ AffinityHolds(w) \/ AffinityFails(w) \/ SettlePlacement(w)
  \/ JobSettles(w) \/ JobCompletes(w)

BlockedCall(c) == DrainSleeps(c) \/ DrainReturns(c) \/ ShutdownReturns(c)

Call(t) ==
  \/ MakeGroup(t) \/ ClosePool(t)
  \/ \E g \in Groups : CloseGroup(t, g) \/ \E j \in Jobs : Submit(t, g, j)

ConstructorStep ==
  \/ \E w \in Workers : StartWorker(w)
  \/ StartFails \/ StartFailureNotifies \/ StartFailureJoins

Next ==
  \/ ConstructorStep
  \/ \E w \in Workers : WorkerStep(w) \/ OsRestricts(w)
  \/ \E t \in Threads : Call(t) \/ NotifyAll(t)
  \/ \E c \in Clients : BlockedCall(c) \/ ShutdownCall(c) \/ \E g \in Groups : DrainCall(c, g)

\* Threads are scheduled, callbacks and destructors end, the constructor
\* finishes.  Nobody is obliged to submit, close, drain or shut down.
Fairness ==
  /\ WF_vars(ConstructorStep)
  /\ \A w \in Workers : WF_vars(WorkerStep(w))
  /\ \A t \in Threads : WF_vars(NotifyAll(t))
  /\ \A c \in Clients : WF_vars(BlockedCall(c))

Spec == Init /\ [][Next]_vars
FairSpec == Spec /\ Fairness
--------------------
\* Every variable stays in its range.
TypeOK ==
  /\ phase \in {"starting", "usable", "closing", "joining", "failed"}
  /\ accepting \in BOOLEAN
  /\ made \in 0..NumGroups
  /\ open \in [Groups -> BOOLEAN]
  /\ pending \in [Groups -> Seq(Jobs)]
  /\ running \in [Groups -> Nat]
  /\ accepted \in [Groups -> Nat]
  /\ completed \in [Groups -> Nat]
  /\ policyFailures \in [Groups -> Nat]
  /\ pc \in [Workers -> {"unborn", "wait", "affinity", "settle", "run", "captures", "exited"}]
  /\ job \in [Workers -> Jobs \cup {NoJob}]
  /\ group \in [Workers -> Groups \cup {0}]
  /\ policyError \in [Workers -> BOOLEAN]
  /\ believed \in [Workers -> SUBSET Cpus]
  /\ native \in [Workers -> SUBSET Cpus]
  /\ target \in [Workers -> Cpus \cup {NoCpu}]
  /\ cpuLoad \in [Cpus -> Nat]
  /\ coreLoad \in [Cores -> Nat]
  /\ asleep \subseteq Threads
  /\ notifying \subseteq Threads
  /\ call \in [Clients -> {"none", "drain", "join"}]
  /\ drainee \in [Clients -> Groups \cup {0}]
  /\ \A c \in Clients : call[c] = "drain" => drainee[c] # 0
  /\ drained \subseteq Groups
  /\ result \in [Jobs -> {"none", "value", "exception", "policy"}]

--------------------
Servers(g) == {w \in Workers : group[w] = g}
Holders(c) == {w \in Workers : target[w] = c}
CoreHolders(k) == {w \in Workers : target[w] # NoCpu /\ CoreOf[target[w]] = k}
Queued(j, g) == \E i \in DOMAIN pending[g] : pending[g][i] = j

\* The counters of GroupStatus tell the truth about the queue and the
\* threads: what was accepted is queued, running or completed, and running
\* is the number of workers that hold a job of the group (run_worker,
\* Group::enqueue).
Conservation ==
  \A g \in Groups :
      /\ accepted[g] = Len(pending[g]) + running[g] + completed[g]
      /\ running[g] = Cardinality(Servers(g))

\* No interleaving of selections and completions lets a group run more jobs
\* at once than its concurrency limit (eligible, run_worker).
CapRespected == \A g \in Groups : Cardinality(Servers(g)) <= Cap(g)

\* A job is in at most one place: once in one queue, or held by one worker,
\* or settled.  None is run twice or lost between the queue and the worker.
OnePlace ==
  \A j \in Jobs :
      /\ \A v, w \in Workers : job[v] = j /\ job[w] = j => v = w
      /\ \A w \in Workers : job[w] = j => \A g \in Groups : ~Queued(j, g)
      /\ \A g, h \in Groups : \A i \in DOMAIN pending[g], k \in DOMAIN pending[h] :
            pending[g][i] = j /\ pending[h][k] = j => g = h /\ i = k
      /\ result[j] # "none" =>
            /\ \A g \in Groups : ~Queued(j, g)
            /\ \A w \in Workers : job[w] = j => pc[w] = "captures"

\* A thread leaves the pool only when it is closed and no queue holds work,
\* and none comes back: jobs posted by callbacks or by capture destructors
\* during the shutdown are run by a thread that is still there or rejected.
NoWorkAbandoned ==
  (\E w \in Workers : pc[w] = "exited") => ~accepting /\ ~HasPending

\* The load the placement policy sees is the number of reservations that
\* are held, per CPU and per core: each reservation is given back exactly
\* once on every path (reserve_cpu, release_cpu).
LoadIsHeld ==
  /\ \A c \in Cpus : cpuLoad[c] = Cardinality(Holders(c))
  /\ \A k \in Cores : coreLoad[k] = Cardinality(CoreHolders(k))

\* What a running job takes is taken once and given back once, on every
\* path through the sections that select, place and complete it: the place
\* in its group's limit and the CPU reserved for it.
ResourcesHeld == CapRespected /\ LoadIsHeld

\* A reservation kept while a callback runs is the CPU the worker believes
\* it is bound to; a job that fell back to another mask holds none.
ReservationIsBinding ==
  \A w \in Workers : pc[w] \in {"run", "captures"} /\ target[w] # NoCpu
      => ~policyError[w] /\ believed[w] = {target[w]} /\ group[w] \in Placed

\* Whatever the operating system did to the thread before, the job of a
\* Required group is let through to its callback only under exactly the
\* mask it asked for, and a kept reservation is where its job runs (the
\* affinity step of run_worker and the mismatch test after it).
RunsWhereBound ==
  /\ [][\A w \in Workers :
          pc[w] = "affinity" /\ pc'[w] = "settle" /\ ~policyError'[w] /\ group[w] \in Required
             => native'[w] = Desired(w)]_vars
  /\ []ReservationIsBinding

--------------------
\* The pool as a job service.
HomeOf(j) ==
  LET heldFor == {group[w] : w \in {v \in Workers : job[v] = j}}
      queuedIn == {g \in Groups : Queued(j, g)}
  IN  IF heldFor \cup queuedIn = {} THEN 0 ELSE CHOOSE g \in heldFor \cup queuedIn : TRUE

Service == INSTANCE JobService WITH
    home <- [j \in Jobs |-> HomeOf(j)],
    settled <- {j \in Jobs : result[j] # "none" /\ HomeOf(j) = 0},
    open <- {g \in Groups : open[g]},
    fresh <- {g \in Groups : g > made}

\* The pool implements the job service: each job is accepted by an open
\* group only, is in one place at a time and settled once, after its
\* captures are released, and a drain returns only with every job of its
\* group settled; and each job runs where its group's policy binds it.
ImplementsService == Service!Spec /\ []OnePlace /\ RunsWhereBound

\* Every accepted job is eventually settled, under any load of the other
\* groups, a closed pool and a failing native policy.
ServiceIsLive == Service!Fairness

\* Every call that blocks returns: a drain that was admitted; a shutdown,
\* whatever was queued, running or asleep when it was called; and a
\* constructor that could not start every thread and joins those it did.
CallsReturn ==
  /\ \A c \in Clients : (call[c] # "none") ~> (call[c] = "none")
  /\ <>(phase \in {"usable", "failed"})

\* Nobody who gave the pool a job or calls it waits for ever.
NobodyWaitsForEver == ServiceIsLive /\ CallsReturn
====================
