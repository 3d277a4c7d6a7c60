---- MODULE WorkerStream ----
\* worker_stream_delivery: many threads post works to one serial stream on
\* a worker group.  The first work of a quiet stream brings a pump, a job
\* submitted to the group while the stream's mutex is held; the works that
\* follow join the queue the pump drains.  The pool may refuse the pump,
\* enter it at once on another thread, or destroy it unentered before or
\* after the submitting thread has marked it accepted.
\*
\* Each work is posted by one call, and a pump is named after the work
\* that brought it.  Sections of the mutex are one action each, except
\* that of the submitting call, during which the pool is at work.
EXTENDS Naturals, Sequences

CONSTANTS Works, Nobody

ASSUME NobodyAssumption == Nobody \notin Works

VARIABLES
    pending,    \* WorkerStream::pending
    scheduled,  \* WorkerStream::scheduled
    holder,     \* the call that keeps the stream's mutex across a submission
    accepting,  \* the group's status
    phase,      \* WorkerPump::phase of each pump
    job,        \* where the pump's job is: with the pool, on a worker, gone
    inHand,     \* the work the pump has taken
    fate        \* what became of each work

queueVars == <<pending, scheduled, holder>>
streamVars == <<queueVars, accepting, phase, job, inHand, fate>>

StreamInit ==
  /\ pending = <<>> /\ scheduled = FALSE /\ holder = Nobody
  /\ accepting = TRUE
  /\ phase = [p \in Works |-> "Preparing"]
  /\ job = [p \in Works |-> "none"]
  /\ inHand = [p \in Works |-> Nobody]
  /\ fate = [w \in Works |-> "new"]

Unlocked == holder = Nobody
Waiting == {pending[i] : i \in DOMAIN pending}

--------------------
\* The posting call.

\* A closed group takes nothing; the call returns false.
Refuse(w) ==
  /\ Unlocked /\ fate[w] = "new"
  /\ ~accepting
  /\ fate' = [fate EXCEPT ![w] = "refused"]
  /\ UNCHANGED <<queueVars, accepting, phase, job, inHand>>

\* The stream has a pump already, which has been accepted.
Join(w) ==
  /\ Unlocked /\ fate[w] = "new"
  /\ accepting /\ scheduled
  /\ pending' = Append(pending, w)
  /\ fate' = [fate EXCEPT ![w] = "waiting"]
  /\ UNCHANGED <<scheduled, holder, accepting, phase, job, inHand>>

\* The stream is quiet: publish the work and submit a pump for it, with the
\* mutex held.
Bring(w) ==
  /\ Unlocked /\ fate[w] = "new"
  /\ accepting /\ ~scheduled
  /\ pending' = Append(pending, w)
  /\ scheduled' = TRUE
  /\ holder' = w
  /\ fate' = [fate EXCEPT ![w] = "submitting"]
  /\ UNCHANGED <<accepting, phase, job, inHand>>

\* The group's submit: it takes the job, or throws and destroys it, and the
\* destructor of the unentered job notes the loss in the pump's phase.
PoolAccepts(w) ==
  /\ fate[w] = "submitting"
  /\ accepting
  /\ job' = [job EXCEPT ![w] = "queued"]
  /\ fate' = [fate EXCEPT ![w] = "committing"]
  /\ UNCHANGED <<queueVars, accepting, phase, inHand>>

PoolThrows(w) ==
  /\ fate[w] = "submitting"
  /\ phase' = [phase EXCEPT ![w] = "Cancelled"]
  /\ fate' = [fate EXCEPT ![w] = "withdrawing"]
  /\ UNCHANGED <<queueVars, accepting, job, inHand>>

\* Submitted and still there: others may join from here on.
Commit(w) ==
  /\ fate[w] = "committing"
  /\ phase[w] = "Preparing"
  /\ phase' = [phase EXCEPT ![w] = "Accepted"]
  /\ fate' = [fate EXCEPT ![w] = "waiting"]
  /\ holder' = Nobody
  /\ UNCHANGED <<pending, scheduled, accepting, job, inHand>>

\* Mutant: the stream stays scheduled for a pump that is gone.
WithdrawScheduled(w) ==
  /\ \/ fate[w] = "withdrawing"
     \/ fate[w] = "committing" /\ phase[w] = "Cancelled"
  /\ fate' = [fate EXCEPT ![Head(pending)] = "refused"]
  /\ pending' = Tail(pending)
  /\ holder' = Nobody
  /\ UNCHANGED <<scheduled, accepting, phase, job, inHand>>

\* The pump was refused, or destroyed before it could be marked: take the
\* front of the queue back and let the next post bring a new pump.
Withdraw(w) ==
  /\ \/ fate[w] = "withdrawing"
     \/ fate[w] = "committing" /\ phase[w] = "Cancelled"
  /\ fate' = [fate EXCEPT ![Head(pending)] = "refused"]
  /\ pending' = Tail(pending)
  /\ scheduled' = FALSE
  /\ holder' = Nobody
  /\ UNCHANGED <<accepting, phase, job, inHand>>

--------------------
\* The pump's job on the pool's threads.

JobEnters(p) ==
  /\ job[p] = "queued"
  /\ job' = [job EXCEPT ![p] = "drain"]
  /\ UNCHANGED <<queueVars, accepting, phase, inHand, fate>>

\* The job is destroyed unentered: only once accepted does it owe the works
\* that have joined their cancellation.
JobDropped(p) ==
  /\ job[p] = "queued"
  /\ phase' = [phase EXCEPT ![p] = "Cancelled"]
  /\ job' = [job EXCEPT ![p] = IF phase[p] = "Accepted" THEN "abandoning" ELSE "ended"]
  /\ UNCHANGED <<queueVars, accepting, inHand, fate>>

\* Mutant: the newest work first.
DrainTakesLast(p) ==
  LET w == pending[Len(pending)]
  IN  /\ job[p] = "drain" /\ Unlocked
      /\ pending # <<>>
      /\ pending' = SubSeq(pending, 1, Len(pending) - 1)
      /\ inHand' = [inHand EXCEPT ![p] = w]
      /\ fate' = [fate EXCEPT ![w] = "running"]
      /\ job' = [job EXCEPT ![p] = "working"]
      /\ UNCHANGED <<scheduled, holder, accepting, phase>>

DrainTakes(p) ==
  LET w == Head(pending)
  IN  /\ job[p] = "drain" /\ Unlocked
      /\ pending # <<>>
      /\ pending' = Tail(pending)
      /\ inHand' = [inHand EXCEPT ![p] = w]
      /\ fate' = [fate EXCEPT ![w] = "running"]
      /\ job' = [job EXCEPT ![p] = "working"]
      /\ UNCHANGED <<scheduled, holder, accepting, phase>>

DrainEnds(p) ==
  /\ job[p] = "drain" /\ Unlocked
  /\ pending = <<>>
  /\ scheduled' = FALSE
  /\ job' = [job EXCEPT ![p] = "ended"]
  /\ UNCHANGED <<pending, holder, accepting, phase, inHand, fate>>

\* The work returns, or throws and ends the pump; its captures are released
\* before the mutex is taken again.
WorkEnds(p, next) ==
  /\ job[p] = "working"
  /\ fate' = [fate EXCEPT ![inHand[p]] = "done"]
  /\ inHand' = [inHand EXCEPT ![p] = Nobody]
  /\ job' = [job EXCEPT ![p] = next]
  /\ UNCHANGED <<queueVars, accepting, phase>>

WorkReturns(p) == WorkEnds(p, "drain")
WorkThrows(p) == WorkEnds(p, "abandoning")

\* Mutant: what waits is left for the next pump.
AbandonNothing(p) ==
  /\ job[p] = "abandoning" /\ Unlocked
  /\ scheduled' = FALSE
  /\ job' = [job EXCEPT ![p] = "ended"]
  /\ UNCHANGED <<pending, holder, accepting, phase, inHand, fate>>

\* abandon_stream: everything that waits is cancelled, outside the mutex.
Abandon(p) ==
  /\ job[p] = "abandoning" /\ Unlocked
  /\ scheduled' = FALSE
  /\ pending' = <<>>
  /\ fate' = [w \in Works |-> IF w \in Waiting THEN "cancelled" ELSE fate[w]]
  /\ job' = [job EXCEPT ![p] = "ended"]
  /\ UNCHANGED <<holder, accepting, phase, inHand>>

--------------------

\* Any thread closes the group; what it accepted stays.
CloseGroup ==
  /\ accepting
  /\ accepting' = FALSE
  /\ UNCHANGED <<queueVars, phase, job, inHand, fate>>

FinishPost(w) == PoolAccepts(w) \/ PoolThrows(w) \/ Commit(w) \/ Withdraw(w)

PumpStep(p) ==
  \/ JobEnters(p) \/ JobDropped(p)
  \/ DrainTakes(p) \/ DrainEnds(p) \/ WorkReturns(p) \/ WorkThrows(p) \/ Abandon(p)

StreamNext ==
  \/ \E w \in Works : Refuse(w) \/ Join(w) \/ Bring(w) \/ FinishPost(w) \/ PumpStep(w)
  \/ CloseGroup

StreamSpec == StreamInit /\ [][StreamNext]_streamVars

\* A thread in the call goes on, and the pool settles every job it accepts.
StreamFairness == \A w \in Works : WF_streamVars(FinishPost(w)) /\ WF_streamVars(PumpStep(w))

FairStreamSpec == StreamSpec /\ StreamFairness
--------------------
\* What is required of WorkerStream.

\* Every variable stays in its range, and a pump keeps a work's captures
\* while it runs only.
StreamTypeOK ==
  /\ pending \in Seq(Works)
  /\ scheduled \in BOOLEAN /\ accepting \in BOOLEAN
  /\ holder \in Works \cup {Nobody}
  /\ phase \in [Works -> {"Preparing", "Accepted", "Cancelled"}]
  /\ job \in [Works -> {"none", "queued", "drain", "working", "abandoning", "ended"}]
  /\ inHand \in [Works -> Works \cup {Nobody}]
  /\ \A p \in Works : inHand[p] # Nobody <=> job[p] = "working"
  /\ fate \in [Works -> {"new", "submitting", "committing", "withdrawing", "refused",
                         "waiting", "running", "done", "cancelled"}]

InCall(w) == fate[w] \in {"submitting", "committing", "withdrawing"}
Live(p) == job[p] \in {"queued", "drain", "working", "abandoning"}

\* Those that answer for the stream: the call that submits a pump, and the
\* pump's job from then on until it has drained or abandoned the stream.
Owners == {p \in Works : InCall(p) \/ Live(p)}

\* scheduled says exactly whether somebody answers for the stream, and it
\* is never two: no race of a submission, an early entry, a late refusal
\* and a destroyed job leaves two pumps, or a stream nobody drains.
OneOwner ==
  /\ scheduled <=> Owners # {}
  /\ \A p, q \in Owners : p = q

\* A work that waits has somebody to run or cancel it, whatever became of
\* the pump that was there when it was posted.
NoneStranded == pending # <<>> => Owners # {}

\* What a failed submission takes from the front of the queue is the work of
\* its own call, never that of a listener which joined meanwhile.
WithdrawsOwn == \A w \in Works : InCall(w) => pending = <<w>>

Running == {w \in Works : fate[w] = "running"}
Settled == {w \in Works : fate[w] \in {"refused", "done", "cancelled"}}

\* The serial stream this transport is.
Stream == INSTANCE SerialStream WITH queue <- pending, active <- Running, settled <- Settled

\* Works run one at a time in the order posted, though the pool runs jobs in
\* parallel and each quiet period of the stream ends with a new pump.
IsSerialStream == Stream!Spec

\* A posted work always comes to an end, without the help of later posts.
EveryWorkSettles ==
  \A w \in Works : (fate[w] # "new") ~> (fate[w] \in {"refused", "done", "cancelled"})
====================
