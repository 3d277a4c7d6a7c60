---- MODULE Logging ----
\* Categories, their backends and the process lifetime.  Each generation
\* of a backend owns one file; the file is deleted by whoever drops the
\* last reference to it, and that, not the call of close(), is what takes
\* Closing to Closed.  One worker drains the shared queue.  Levels,
\* patterns and the console (a second destination like the file) are left
\* out; nothing fails once a logger is registered.
EXTENDS Naturals, FiniteSets, SequencesExt

CONSTANTS Logs, Callers,
          QueueCapacity,             \* of the queue
          BlocksWhenFull,               \* overflow policy Block, or DiscardNew
          MaxGeneration, MaxRecords     \* bounds, over all logs
ASSUME CallerAssumption == Callers \cap {"published", "registry", "host"} = {}

VARIABLES
    life,       \* LifecycleState, and "absent" / "creating" of a category without backend
    gen,        \* the last generation a backend built
    holds,      \* by holder the generations it has references to
    queue, worker,              \* references queued, and the one being written
    call,       \* what a caller is at
    default,    \* spdlog's default logger: "host", "none" or a log's own or closed one
    restore,    \* reopen_state, as far as the default logger goes
    degraded,   \* generations whose destination failed
    tally,      \* records accepted, written, suppressed, failed, discarded
    process     \* "running", "stopping" or "stopped", and the logs shut down

logVars == <<life, gen, holds, queue, worker, call, default, restore, degraded, tally, process>>

Holders == Callers \cup {"published", "registry", "host"}
AtRest == [at |-> "idle"]

LogInit ==
  /\ life = [l \in Logs |-> "absent"] /\ gen = [l \in Logs |-> 0]
  /\ holds = [h \in Holders |-> {}] /\ queue = <<>> /\ worker = <<>>
  /\ call = [c \in Callers |-> AtRest]
  /\ default = [kind |-> "host"] /\ restore = [l \in Logs |-> FALSE] /\ degraded = {}
  /\ tally = [accepted |-> 0, written |-> 0, suppressed |-> 0, failed |-> 0, discarded |-> 0]
  /\ process = [at |-> "running", ended |-> {}]
--------------------
Current(l) == <<l, gen[l]>>
Held(references, queued, writing) == (UNION {references[h] : h \in Holders}) \cup ToSet(queued) \cup ToSet(writing)
Live == Held(holds, queue, worker)

\* complete_close(): a deleter signals, whichever generation it is of; only
\* Closing listens.
Settle(next) ==
  LET deleted == {g[1] : g \in Live \ Held(holds', queue', worker')} IN
  life' = [l \in Logs |-> IF next[l] = "Closing" /\ l \in deleted THEN "Closed" ELSE next[l]]
Become(l, state) == [life EXCEPT ![l] = state]

Free(c) == call[c] = AtRest /\ process.at = "running"
Done(c) == call' = [call EXCEPT ![c] = AtRest]

\* submit() and flush(): the published logger is retained; a closed log's
\* fallback admits nothing, nor does a destination that failed.
Submit(c, l) ==
  /\ Free(c) /\ life[l] = "Open" /\ Current(l) \in holds["published"] \ degraded
  /\ tally.accepted + tally.discarded < MaxRecords
  /\ holds' = [holds EXCEPT ![c] = {Current(l)}]
  /\ call' = [call EXCEPT ![c] = [at |-> "submitting"]]
  /\ UNCHANGED <<life, gen, queue, worker, default, restore, degraded, tally, process>>
Enqueue(c) ==
  /\ call[c].at = "submitting"
  /\ BlocksWhenFull => Len(queue) < QueueCapacity
  /\ IF Len(queue) < QueueCapacity
     THEN queue' = queue \o SetToSeq(holds[c]) /\ tally' = [tally EXCEPT !.accepted = @ + 1]
     ELSE queue' = queue /\ tally' = [tally EXCEPT !.discarded = @ + 1]
  /\ holds' = [holds EXCEPT ![c] = {}] /\ Done(c)
  /\ UNCHANGED <<gen, worker, default, restore, degraded, process>> /\ Settle(life)

\* The pool's worker and GuardedSink::log().
Take ==
  /\ worker = <<>> /\ queue # <<>>
  /\ worker' = <<Head(queue)>> /\ queue' = Tail(queue)
  /\ UNCHANGED <<life, gen, holds, call, default, restore, degraded, tally, process>>
Write(outcome) ==
  /\ worker # <<>> /\ (outcome = "suppressed") = (worker[1] \in degraded)
  /\ tally' = [tally EXCEPT ![outcome] = @ + 1]
  /\ degraded' = IF outcome = "failed" THEN degraded \cup {worker[1]} ELSE degraded
  /\ worker' = <<>>
  /\ UNCHANGED <<gen, holds, queue, call, default, restore, process>> /\ Settle(life)

\* The host asks the native registry for a logger and keeps it for a while.
HostGet(l) ==
  /\ holds["host"] = {} /\ Current(l) \in holds["registry"]
  /\ holds' = [holds EXCEPT !["host"] = {Current(l)}]
  /\ UNCHANGED <<life, gen, queue, worker, call, default, restore, degraded, tally, process>>
HostDrops ==
  /\ holds["host"] # {} /\ holds' = [holds EXCEPT !["host"] = {}]
  /\ UNCHANGED <<gen, queue, worker, call, default, restore, degraded, tally, process>> /\ Settle(life)
MakeDefault(c, l) ==
  /\ Free(c) /\ life[l] = "Open"
  /\ default' = [kind |-> "own", log |-> l]
  /\ UNCHANGED <<life, gen, holds, queue, worker, call, restore, degraded, tally, process>>

\* acquire_category(): the first to come constructs, others wait for it.
Acquire(c, l) ==
  /\ Free(c) /\ life[l] = "absent"
  /\ life' = Become(l, "creating")
  /\ call' = [call EXCEPT ![c] = [at |-> "building", log |-> l]]
  /\ UNCHANGED <<gen, holds, queue, worker, default, restore, degraded, tally, process>>

\* reopen() looks, unlocks and constructs; construct_log() looks again.
Reopen(c, l) ==
  /\ Free(c) /\ life[l] = "Closed"
  /\ call' = [call EXCEPT ![c] = [at |-> "reopening", log |-> l]]
  /\ UNCHANGED <<life, gen, holds, queue, worker, default, restore, degraded, tally, process>>
Construct(c) ==
  /\ call[c].at = "reopening"
  /\ LET l == call[c].log IN
     IF life[l] = "Closed" THEN life' = Become(l, "Opening") /\ call' = [call EXCEPT ![c].at = "building"]
     ELSE UNCHANGED life /\ Done(c)
  /\ UNCHANGED <<gen, holds, queue, worker, default, restore, degraded, tally, process>>

\* Mutant: what is to be restored is forgotten by an opening that fails.
BuildFailsForgetful(c) ==
  /\ call[c].at = "building" /\ Done(c)
  /\ LET l == call[c].log IN
     life' = Become(l, IF life[l] = "creating" THEN "absent" ELSE "Closed") /\ restore' = [restore EXCEPT ![l] = FALSE]
  /\ UNCHANGED <<gen, holds, queue, worker, default, degraded, tally, process>>

\* The file of a failed opening goes while the state is Opening still.
BuildFails(c) ==
  /\ call[c].at = "building" /\ Done(c)
  /\ LET l == call[c].log IN life' = Become(l, IF life[l] = "creating" THEN "absent" ELSE "Closed")
  /\ UNCHANGED <<gen, holds, queue, worker, default, restore, degraded, tally, process>>
BuildSucceeds(c) ==
  /\ call[c].at = "building" /\ SumFunction(gen) < MaxGeneration /\ Done(c)
  /\ LET l == call[c].log IN
     /\ gen' = [gen EXCEPT ![l] = @ + 1]
     /\ holds' = [holds EXCEPT !["published"] = @ \cup {<<l, gen[l] + 1>>}, !["registry"] = @ \cup {<<l, gen[l] + 1>>}]
     /\ default' = IF restore[l] /\ default = [kind |-> "closed", log |-> l] THEN [kind |-> "own", log |-> l] ELSE default
     /\ restore' = [restore EXCEPT ![l] = FALSE]
     /\ life' = Become(l, "Open")
  /\ UNCHANGED <<queue, worker, degraded, tally, process>>

\* close(): the locked part unpublishes, the unlocked one drops registration
\* and references, then it waits for the file or for so long.
Unpublish(c, l) ==
  /\ restore' = [restore EXCEPT ![l] = default = [kind |-> "own", log |-> l]]
  /\ default' = IF restore'[l] THEN [kind |-> "closed", log |-> l] ELSE default
  /\ holds' = [holds EXCEPT !["published"] = @ \ {Current(l)}, ![c] = {Current(l)}]
CloseBegins(c, l) ==
  /\ Free(c) /\ life[l] = "Open"
  /\ Unpublish(c, l) /\ life' = Become(l, "Closing")
  /\ call' = [call EXCEPT ![c] = [at |-> "dropping", log |-> l]]
  /\ UNCHANGED <<gen, queue, worker, degraded, tally, process>>
CloseJoins(c, l) ==
  /\ Free(c) /\ life[l] = "Closing"
  /\ call' = [call EXCEPT ![c] = [at |-> "waiting", log |-> l]]
  /\ UNCHANGED <<life, gen, holds, queue, worker, default, restore, degraded, tally, process>>

\* Mutant: only Closing is waited for, the registration stays.
CloseDropsOwnOnly(c) ==
  /\ call[c].at = "dropping"
  /\ holds' = [holds EXCEPT ![c] = {}]
  /\ call' = [call EXCEPT ![c].at = "waiting"]
  /\ UNCHANGED <<gen, queue, worker, default, restore, degraded, tally, process>> /\ Settle(life)

CloseDrops(c) ==
  /\ call[c].at = "dropping"
  /\ holds' = [holds EXCEPT !["registry"] = {g \in @ : g[1] # call[c].log}, ![c] = {}]
  /\ call' = [call EXCEPT ![c].at = "waiting"]
  /\ UNCHANGED <<gen, queue, worker, default, restore, degraded, tally, process>> /\ Settle(life)
CloseReturns(c) ==
  /\ call[c].at = "waiting" /\ Done(c)        \* Closed is told; or the time was up
  /\ UNCHANGED <<life, gen, holds, queue, worker, default, restore, degraded, tally, process>>

\* release_process_scope(), once producers have stopped: every backend is
\* closed within a minute or left Closing, and its registrations go.
StopBegins(c) ==
  /\ process.at = "running" /\ \A d \in Callers : call[d] = AtRest
  /\ process' = [process EXCEPT !.at = "stopping"]
  /\ call' = [call EXCEPT ![c] = [at |-> "stopping"]]
  /\ UNCHANGED <<life, gen, holds, queue, worker, default, restore, degraded, tally>>
ShutDown(c, l) ==
  /\ call[c].at = "stopping" /\ l \notin process.ended /\ life[l] # "absent"
  /\ IF life[l] = "Open" THEN Unpublish(c, l) /\ life' = Become(l, "Closing") ELSE UNCHANGED <<life, holds, default, restore>>
  /\ call' = [call EXCEPT ![c] = [at |-> "ending", log |-> l]]
  /\ UNCHANGED <<gen, queue, worker, degraded, tally, process>>
ShutDownDrops(c) ==
  /\ call[c].at = "ending" /\ (holds[c] # {} \/ Current(call[c].log) \in holds["registry"])
  /\ holds' = [holds EXCEPT !["registry"] = {g \in @ : g[1] # call[c].log}, ![c] = {}]
  /\ UNCHANGED <<gen, queue, worker, call, default, restore, degraded, tally, process>> /\ Settle(life)
ReleaseRegistry(c) ==
  /\ call[c].at = "ending" /\ holds[c] = {}
  /\ default' = IF default = [kind |-> "closed", log |-> call[c].log] THEN [kind |-> "none"] ELSE default
  /\ process' = [process EXCEPT !.ended = @ \cup {call[c].log}]
  /\ call' = [call EXCEPT ![c] = [at |-> "stopping"]]
  /\ UNCHANGED <<life, gen, holds, queue, worker, restore, degraded, tally>>
Stopped(c) ==
  /\ call[c].at = "stopping" /\ \A l \in Logs : life[l] = "absent" \/ l \in process.ended
  /\ process' = [process EXCEPT !.at = "stopped"] /\ Done(c)
  /\ UNCHANGED <<life, gen, holds, queue, worker, default, restore, degraded, tally>>

LogNext ==
  \/ Take \/ HostDrops \/ \E outcome \in {"written", "suppressed", "failed"} : Write(outcome)
  \/ \E l \in Logs : HostGet(l)
  \/ \E c \in Callers :
       \/ Enqueue(c) \/ Construct(c) \/ BuildFails(c) \/ BuildSucceeds(c) \/ CloseDrops(c) \/ CloseReturns(c)
       \/ StopBegins(c) \/ ShutDownDrops(c) \/ ReleaseRegistry(c) \/ Stopped(c)
       \/ \E l \in Logs :
            \/ Submit(c, l) \/ MakeDefault(c, l) \/ Acquire(c, l) \/ Reopen(c, l)
            \/ CloseBegins(c, l) \/ CloseJoins(c, l) \/ ShutDown(c, l)

LogSpec == LogInit /\ [][LogNext]_logVars
--------------------
\* Closed is a boundary: nothing has the file of a closed log, so that a new
\* generation never shares it with the old; a log that is closing has a file
\* someone still holds, so that somebody's release ends the wait; after the
\* drop only work under way or the host can be that somebody.  Records
\* accepted are all accounted for, whatever generation they were written to.
ClosedIsABoundary ==
  /\ \A l \in Logs :
       /\ Cardinality({g \in Live : g[1] = l}) = IF life[l] \in {"Open", "Closing"} THEN 1 ELSE 0
       /\ life[l] = "Open" => Current(l) \in holds["published"] \cap holds["registry"]
       /\ life[l] = "Closing" /\ (\A c \in Callers : call[c].at \notin {"dropping", "ending"}) =>
            \E h \in Holders \ {"published", "registry"} : Current(l) \in holds[h] \cup ToSet(queue) \cup ToSet(worker)
  /\ tally.accepted = tally.written + tally.suppressed + tally.failed + Len(queue) + Len(worker)

\* The default logger of the process is never a log that is closed, and a
\* log that is open again is the default again if it was when it closed and
\* nobody took over: its records do not stay with the silent stand-in.
DefaultComesBack ==
  /\ default.kind = "own" => life[default.log] = "Open"
  /\ default.kind = "closed" => life[default.log] # "Open" /\ restore[default.log]
  /\ process.at = "stopped" => default.kind \in {"host", "none"}

\* A log ends when the last reference does and takes nothing along: neither
\* a record, nor the file of the next, nor the default logger.
LoggingEndsClean == ClosedIsABoundary /\ DefaultComesBack
====================
