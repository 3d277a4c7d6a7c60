---- MODULE Dispatcher ----
\* PlatformDispatcher and SimulationDispatcher: a mailbox of requests that
\* any thread may post and one owner thread runs in batches, and the
\* scheduler's condition variable on which the owner waits between two
\* drains.  The two classes differ in who binds the owner (open, or a
\* later bind_owner) and in what the owner's wait looks at.
\*
\* Each action is one critical section of the dispatcher's mutex, or what
\* the owner does between two.  The wake callback takes the scheduler's
\* mutex after the dispatcher's has been released.
EXTENDS Integers, Sequences

CONSTANTS
    Requests,       \* calls of submit; each is made at most once
    Producers,      \* the threads other than the owner
    Owner           \* the thread that drains

Threads == Producers \cup {Owner}

ASSUME DispatcherAssumption == Owner \notin Producers

VARIABLES
    kind,       \* which of the two classes this is
    opened, accepting, bound, draining,     \* State's flags; bound: owner is set
    pending,                                \* State::pending
    accepted, completed, cancelled, running, \* State::diagnostics
    pc,         \* where the owner is
    batch,      \* drain's batch, or the requests invalidate took
    next,       \* the request of the batch the owner is at
    waking,     \* threads that hold a copy of the wake callback to call
    locked,     \* the owner holds the scheduler's mutex
    future,     \* the future of each request
    line        \* history: the accepted requests in order

flagVars == <<kind, opened, accepting, bound>>
countVars == <<accepted, completed, cancelled>>
waitVars == <<waking, locked>>
vars == <<flagVars, draining, pending, countVars, running, pc, batch, next,
          waitVars, future, line>>

\* PlatformDispatcher::open binds the owner itself, and the owner's wait
\* looks at has_pending; a simulation's next drain comes with the clock.
BindsOnOpen == kind = "platform"
AwaitsPosts == kind = "platform"

Init ==
  /\ kind \in {"platform", "simulation"}
  /\ opened = FALSE /\ accepting = FALSE /\ bound = FALSE
  /\ draining = FALSE
  /\ pending = <<>>
  /\ accepted = 0 /\ completed = 0 /\ cancelled = 0 /\ running = 0
  /\ pc = "unopened"
  /\ batch = <<>>
  /\ next = 1
  /\ waking = {}
  /\ locked = FALSE
  /\ future = [r \in Requests |-> "none"]
  /\ line = <<>>

--------------------
\* Any thread: submit.  The owner posts from within a callback, or from the
\* destructor of a request's captures; it then calls the wake callback
\* itself before it goes on.  A post while not accepting throws.

InUserCode ==
  \/ pc = "callbacks" /\ next <= Len(batch)
  \/ pc = "release"
  \/ pc = "idle"

Unposted(r) == \A i \in DOMAIN line : line[i] # r

\* Mutant: the newest request goes first.
EnqueueFront(r) ==
  /\ pending' = <<r>> \o pending
  /\ line' = Append(line, r)
  /\ accepted' = accepted + 1

Enqueue(r) ==
  /\ pending' = Append(pending, r)
  /\ line' = Append(line, r)
  /\ accepted' = accepted + 1

\* Mutant: a post does not look at accepting.
PostUnchecked(t, r) ==
  /\ t \notin waking
  /\ t = Owner => InUserCode
  /\ Unposted(r)
  /\ Enqueue(r)
  /\ waking' = waking \cup {t}
  /\ UNCHANGED <<flagVars, draining, completed, cancelled, running, pc, batch, next,
                 locked, future>>

Post(t, r) ==
  /\ t \notin waking
  /\ t = Owner => InUserCode
  /\ accepting
  /\ Unposted(r)
  /\ Enqueue(r)
  /\ waking' = waking \cup {t}
  /\ UNCHANGED <<flagVars, draining, completed, cancelled, running, pc, batch, next,
                 locked, future>>

\* Mutant: the wake callback notifies without the scheduler's mutex.
WakeUnlocked(t) ==
  /\ t \in waking
  /\ waking' = waking \ {t}
  /\ pc' = IF pc = "blocked" THEN "check" ELSE pc
  /\ UNCHANGED <<flagVars, draining, pending, countVars, running, batch, next,
                 locked, future, line>>

\* The copied wake callback: the scheduler's lock, then notify_all.  It may
\* run after the dispatcher has been closed.
Wake(t) ==
  /\ t \in waking
  /\ ~locked
  /\ waking' = waking \ {t}
  /\ pc' = IF pc = "blocked" THEN "check" ELSE pc
  /\ UNCHANGED <<flagVars, draining, pending, countVars, running, batch, next,
                 locked, future, line>>

--------------------
\* The session: open, and for the simulation bind_owner by its thread.

Open ==
  /\ pc = "unopened"
  /\ opened' = TRUE /\ accepting' = TRUE
  /\ bound' = BindsOnOpen
  /\ pc' = IF BindsOnOpen THEN "idle" ELSE "unbound"
  /\ UNCHANGED <<kind, draining, pending, countVars, running, batch, next, waitVars,
                 future, line>>

BindOwner ==
  /\ pc = "unbound"
  /\ accepting /\ ~bound
  /\ bound' = TRUE
  /\ pc' = "idle"
  /\ UNCHANGED <<kind, opened, accepting, draining, pending, countVars, running, batch, next,
                 waitVars, future, line>>

--------------------
\* The owner: drain.

Drain ==
  /\ pc = "idle"
  /\ Owner \notin waking
  /\ accepting /\ bound /\ ~draining
  /\ batch' = pending
  /\ pending' = <<>>
  /\ draining' = TRUE
  /\ running' = Len(pending)
  /\ next' = 1
  /\ pc' = "callbacks"
  /\ UNCHANGED <<flagVars, countVars, waitVars, future, line>>

\* A callback returns or throws: either way its future is settled and the
\* batch goes on.
RunRequest ==
  /\ pc = "callbacks"
  /\ Owner \notin waking
  /\ next <= Len(batch)
  /\ \E outcome \in {"value", "exception"} :
        future' = [future EXCEPT ![batch[next]] = outcome]
  /\ next' = next + 1
  /\ UNCHANGED <<flagVars, draining, pending, countVars, running, pc, batch,
                 waitVars, line>>

\* Mutant: running is left as it was.
CountBatchOnly ==
  /\ completed' = completed + (next - 1)
  /\ UNCHANGED running

CountBatch ==
  /\ completed' = completed + (next - 1)
  /\ running' = 0

\* ~DrainGuard.
FinishDrain ==
  /\ pc = "callbacks"
  /\ next > Len(batch)
  /\ CountBatch
  /\ draining' = FALSE
  /\ pc' = "release"
  /\ UNCHANGED <<flagVars, pending, accepted, cancelled, batch, next, waitVars,
                 future, line>>

\* The batch goes out of scope after its guard, and the captures with it.
ReleaseBatch ==
  /\ pc = "release"
  /\ Owner \notin waking
  /\ batch' = <<>>
  /\ next' = 1
  /\ pc' = IF AwaitsPosts THEN "check" ELSE "idle"
  /\ UNCHANGED <<flagVars, draining, pending, countVars, running, waitVars, future, line>>

--------------------
\* The owner: the wait at the end of a platform cycle.  The predicate is
\* evaluated under the scheduler's mutex, which the wait then gives up as
\* it blocks.  Each cycle's wait also ends by a deadline, or for reasons
\* other than this mailbox.

WaitEnds ==
  /\ pc = "check"
  /\ pending # <<>>
  /\ pc' = "idle"
  /\ UNCHANGED <<flagVars, draining, pending, countVars, running, batch, next,
                 waitVars, future, line>>

FindsNothing ==
  /\ pc = "check"
  /\ pending = <<>>
  /\ pc' = "blocking"
  /\ locked' = TRUE
  /\ UNCHANGED <<flagVars, draining, pending, countVars, running, batch, next,
                 waking, future, line>>

Blocks ==
  /\ pc = "blocking"
  /\ pc' = "blocked"
  /\ locked' = FALSE
  /\ UNCHANGED <<flagVars, draining, pending, countVars, running, batch, next,
                 waking, future, line>>

WaitInterrupted ==
  /\ pc \in {"check", "blocked"}
  /\ pc' = "idle"
  /\ UNCHANGED <<flagVars, draining, pending, countVars, running, batch, next,
                 waitVars, future, line>>

--------------------
\* The owner: close.  It looks at the flags in one critical section and
\* invalidates in another; a request posted in between is cancelled too.
\* Before an owner is bound any thread of the runtime may close.

CloseCall ==
  /\ pc \in {"idle", "unbound"}
  /\ Owner \notin waking
  /\ accepting
  /\ pc' = "closing"
  /\ UNCHANGED <<flagVars, draining, pending, countVars, running, batch, next,
                 waitVars, future, line>>

CancelAll ==
  /\ batch' = pending
  /\ pending' = <<>>
  /\ cancelled' = cancelled + Len(pending)

Invalidate ==
  /\ pc = "closing"
  /\ accepting' = FALSE
  /\ CancelAll
  /\ next' = 1
  /\ pc' = "cancelling"
  /\ UNCHANGED <<kind, opened, bound, draining, accepted, completed, running,
                 waitVars, future, line>>

\* Destroying a request breaks its promise; a post by the destructor of its
\* captures is rejected.
CancelRequest ==
  /\ pc = "cancelling"
  /\ next <= Len(batch)
  /\ future' = [future EXCEPT ![batch[next]] = "broken"]
  /\ next' = next + 1
  /\ UNCHANGED <<flagVars, draining, pending, countVars, running, pc, batch,
                 waitVars, line>>

Closed ==
  /\ pc = "cancelling"
  /\ next > Len(batch)
  /\ batch' = <<>>
  /\ next' = 1
  /\ pc' = "closed"
  /\ UNCHANGED <<flagVars, draining, pending, countVars, running, waitVars, future, line>>

--------------------
DrainStep == Drain \/ RunRequest \/ FinishDrain \/ ReleaseBatch
WaitStep == WaitEnds \/ FindsNothing \/ Blocks
CloseStep == CloseCall \/ Invalidate \/ CancelRequest \/ Closed
OwnerStep == BindOwner \/ DrainStep \/ WaitStep \/ CloseStep

Next ==
  \/ Open \/ OwnerStep \/ WaitInterrupted
  \/ \E t \in Threads : Wake(t) \/ \E r \in Requests : Post(t, r)

\* The owner's thread runs and its callbacks end; whoever posted calls the
\* wake callback.  No deadline is relied upon: WaitInterrupted is not fair.
Fairness ==
  /\ WF_vars(OwnerStep)
  /\ \A t \in Threads : WF_vars(Wake(t))

Spec == Init /\ [][Next]_vars
FairSpec == Spec /\ Fairness
--------------------
\* What is required of Dispatcher.

\* Every variable stays in its range.
TypeOK ==
  /\ kind \in {"platform", "simulation"}
  /\ opened \in BOOLEAN /\ accepting \in BOOLEAN /\ bound \in BOOLEAN
  /\ draining \in BOOLEAN /\ locked \in BOOLEAN
  /\ pending \in Seq(Requests) /\ batch \in Seq(Requests) /\ line \in Seq(Requests)
  /\ accepted \in Nat /\ completed \in Nat /\ cancelled \in Nat /\ running \in Nat
  /\ next \in Nat \ {0}
  /\ pc \in {"unopened", "unbound", "idle", "callbacks", "release", "check",
             "blocking", "blocked", "closing", "cancelling", "closed"}
  /\ waking \subseteq Threads
  /\ future \in [Requests -> {"none", "value", "exception", "broken"}]

\* The counters of DispatchStats add up in every critical section a reader
\* of diagnostics() could use: nothing accepted is missing from them while
\* a batch runs, and nothing is counted twice when it ends.
Accounting ==
  /\ accepted = Len(pending) + running + completed + cancelled
  /\ accepted = Len(line)

\* The queue, the rest of the batch and what has run form the line of
\* accepted requests, in order: none is lost, repeated or overtaken, also
\* when callbacks and destructors post while a batch runs.  Once close has
\* returned all of it has settled and none can follow, though close looks
\* at the flags and takes the queue in two critical sections and producers
\* post in between.
InLine ==
  LET served == Len(line) - Len(pending) - (IF pc = "release" THEN 0 ELSE Len(batch) - (next - 1))
      rest == IF pc = "release" THEN <<>> ELSE SubSeq(batch, next, Len(batch))
  IN  /\ line = SubSeq(line, 1, served) \o rest \o pending
      /\ \A i \in 1..served : future[line[i]] # "none"
      /\ \A i \in (served + 1)..Len(line) : future[line[i]] = "none"
      /\ pc = "closed" => ~accepting /\ served = Len(line)

\* An owner that sleeps on the scheduler's condition variable while a
\* request waits is about to be notified: the wake callback takes the
\* scheduler's mutex, so it cannot fall between the predicate and the wait.
NoLostWakeup == pc \in {"blocking", "blocked"} /\ pending # <<>> => waking # {}

\* The mailbox this dispatcher is.
Box == INSTANCE Mailbox WITH
    served <- completed + (IF pc = "callbacks" THEN next - 1 ELSE 0),
    open <- accepting

\* Every accepted request is run or cancelled, without the help of any
\* deadline, as long as the owner's thread runs: no post falls between the
\* owner's predicate and its sleep.
EveryRequestSettles ==
  \A r \in Requests : (~Unposted(r)) ~> (future[r] # "none")

\* The dispatcher serves its requests first come, first served, while open
\* only, and never takes a served or cancelled request back.
IsMailbox == Box!Spec /\ []InLine
====================
