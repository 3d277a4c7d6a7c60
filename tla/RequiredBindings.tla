---- MODULE RequiredBindings ----
\* The required watches of a view source (view-state.cpp) on the machinery
\* they share with the service phases (required-bindings.h).  The owner
\* selects a revision and must bring every attached watch to it, whatever
\* the event bus does with the notification: it announces the change on
\* the bus, then enters each watch the bus did not reach.  A watch is
\* entered by its owner only, once per change and only with the change in
\* progress; any thread may send copies of old payloads over the same
\* channel and may reset an attachment.
\*
\* A payload is a revision and whether it is the seed of a new watch.  An
\* action is one section of a binding's mutex, or the step to or from a
\* callback.  The bus's snapshot, its order and its gate are those of
\* EventBus.tla; a bus that fails to notify has an empty snapshot.
EXTENDS Naturals, Sequences, SequencesExt

CONSTANTS
    Watches,        \* each is attached at most once
    Threads,
    Owner,          \* the thread that owns the source
    MaxRevision,    \* bound on the selections
    MaxDepth        \* bound on the frames user code calls from

ASSUME BindingsAssumption ==
  /\ Owner \in Threads
  /\ MaxRevision \in Nat /\ MaxDepth \in Nat

VARIABLES
    revision,       \* current.revision, 0 before the first selection
    closed,         \* current.closed
    publishing,     \* ViewSourceState::publishing and RequiredBindings::publishing
    bindings,       \* the list from head to tail
    channel,        \* the listeners registered on the bus, in order
    fresh,          \* the watches yet to be attached
    held,           \* the watches whose attachment the user still has
    active,         \* ViewBinding::active
    entered,        \* ViewBinding::entered
    running,        \* ViewBinding::running
    operation,      \* ViewBinding::operation: the payload a watch may enter with
    failures,        \* the watches with a ViewBinding::failure
    stack,          \* what each thread is inside, innermost first
    seen,           \* history: the revision a watch was last called with
    threw,          \* history: the watches that threw at this change
    released        \* history: the watches whose reset has returned

sourceVars == <<revision, closed, publishing>>
listVars == <<bindings, channel, fresh, held>>
gateVars == <<active, entered, running, operation, failures>>
historyVars == <<seen, threw, released>>
bindingsVars == <<sourceVars, listVars, gateVars, stack, historyVars>>

None == [revision |-> 0, seed |-> FALSE]
Change(r) == [revision |-> r, seed |-> FALSE]
Seed(r) == [revision |-> r, seed |-> TRUE]
Payloads == {Change(r) : r \in 1 .. revision} \cup {Seed(r) : r \in 1 .. revision}

BindingsInit ==
  /\ revision = 0 /\ closed = FALSE /\ publishing = FALSE
  /\ bindings = <<>> /\ channel = <<>>
  /\ fresh = Watches /\ held = {}
  /\ active = {} /\ entered = {} /\ failures = {}
  /\ running = [w \in Watches |-> 0]
  /\ operation = [w \in Watches |-> None]
  /\ stack = [t \in Threads |-> <<>>]
  /\ seen = [w \in Watches |-> 0]
  /\ threw = {} /\ released = {}

--------------------
\* Frames.

Publishing(p, todo, failed) == [at |-> "publish", payload |-> p, todo |-> todo, failed |-> failed]
Notifying(p, todo) == [at |-> "notify", payload |-> p, todo |-> todo]
Attaching(w) == [at |-> "attach", watch |-> w]
Callback(w) == [at |-> "call", watch |-> w]
WaitingFor(w) == [at |-> "wait", watch |-> w]

Idle(t) == stack[t] = <<>>
Within(t, at) == ~Idle(t) /\ Head(stack[t]).at = at
Enter(t, f) == [stack EXCEPT ![t] = <<f>> \o @]
ReplaceTop(t, f) == [stack EXCEPT ![t] = <<f>> \o Tail(@)]
Leave(t) == [stack EXCEPT ![t] = Tail(@)]

\* ViewBinding::invocation: the watches whose callbacks t is inside.
Invoked(t) == {f.watch : f \in {g \in ToSet(stack[t]) : g.at = "call"}}

\* Code of the users: the thread itself or a callback.
InUserCode(t) ==
  /\ Idle(t) \/ Within(t, "call")
  /\ Len(stack[t]) <= MaxDepth

--------------------
\* Entering a watch.

\* Mutant: the payload is not compared with the change in progress.
MayEnterWithAny(t, w, p) == t = Owner /\ w \in active \ entered /\ operation[w] # None

MayEnter(t, w, p) == t = Owner /\ w \in active \ entered /\ operation[w] = p

Entered(w, p) ==
  /\ entered' = entered \cup {w}
  /\ running' = [running EXCEPT ![w] = @ + 1]
  /\ seen' = [seen EXCEPT ![w] = p.revision]

\* The callback returns or throws; either way the failure is recorded.
CallbackReturns(t, throws) ==
  /\ Within(t, "call")
  /\ LET w == Head(stack[t]).watch
     IN  /\ failures' = IF throws THEN failures \cup {w} ELSE failures \ {w}
         /\ running' = [running EXCEPT ![w] = @ - 1]
         /\ threw' = IF throws /\ operation[w] = Change(revision) THEN threw \cup {w} ELSE threw
  /\ stack' = Leave(t)
  /\ UNCHANGED <<sourceVars, listVars, active, entered, operation, seen, released>>

--------------------
\* Attachment: watch() on the owner enters the seed before it returns.

\* The watches of a list that are in S, in the order of the list.
Kept(list, S) ==
  {k \in UNION {[1 .. n -> ToSet(list) \cap S] : n \in 0 .. Len(list)} :
      /\ ToSet(k) = ToSet(list) \cap S
      /\ \A i, j \in DOMAIN k : i < j =>
            \E x, y \in DOMAIN list : x < y /\ list[x] = k[i] /\ list[y] = k[j]}

Pruned == IF publishing THEN {bindings} ELSE Kept(bindings, active)

Watch(w) ==
  /\ InUserCode(Owner)
  /\ revision > 0 /\ ~closed
  /\ w \in fresh
  /\ fresh' = fresh \ {w}
  /\ bindings' \in Pruned
  /\ channel' = Append(channel, w)
  /\ active' = active \cup {w}
  /\ operation' = [operation EXCEPT ![w] = Seed(revision)]
  /\ Entered(w, Seed(revision))
  /\ stack' = [stack EXCEPT ![Owner] = <<Callback(w), Attaching(w)>> \o @]
  /\ UNCHANGED <<sourceVars, held, failures, threw, released>>

\* A failed seed detaches the watch and throws, else the watch is listed.
WatchEnds ==
  /\ Within(Owner, "attach")
  /\ LET w == Head(stack[Owner]).watch
     IN  /\ operation' = [operation EXCEPT ![w] = None]
         /\ IF w \in failures
            THEN /\ active' = active \ {w}
                 /\ channel' \in Kept(channel, Watches \ {w})
                 /\ UNCHANGED <<bindings, held>>
            ELSE /\ bindings' = Append(bindings, w)
                 /\ held' = held \cup {w}
                 /\ UNCHANGED <<active, channel>>
  /\ stack' = Leave(Owner)
  /\ UNCHANGED <<sourceVars, fresh, entered, running, failures, historyVars>>

--------------------
\* Publication.

\* What the bus will deliver to: all that are registered now, or nobody
\* when it fails.
Snapshot == {channel, <<>>}

\* select() of a new revision: every listed watch is armed with the change.
Select ==
  /\ Idle(Owner)
  /\ ~closed /\ ~publishing
  /\ revision < MaxRevision
  /\ revision' = revision + 1
  /\ publishing' = TRUE
  /\ LET listed == ToSet(bindings)
     IN  /\ operation' = [w \in Watches |-> IF w \in listed THEN Change(revision + 1) ELSE operation[w]]
         /\ entered' = entered \ listed
         /\ failures' = failures \ listed
  /\ threw' = {}
  /\ \E todo \in Snapshot :
        stack' = [stack EXCEPT ![Owner] =
            <<Notifying(Change(revision + 1), todo), Publishing(Change(revision + 1), bindings, FALSE)>>]
  /\ UNCHANGED <<closed, listVars, active, running, seen, released>>

\* Anyone may send a payload it was given over the public channel.
Resend(t, p) ==
  /\ InUserCode(t)
  /\ p \in Payloads
  /\ channel # <<>>
  /\ stack' = Enter(t, Notifying(p, channel))
  /\ UNCHANGED <<sourceVars, listVars, gateVars, historyVars>>

\* The bus reaches the next listener of its snapshot.
Deliver(t) ==
  /\ Within(t, "notify")
  /\ LET f == Head(stack[t])
         next == Notifying(f.payload, Tail(f.todo))
         w == Head(f.todo)
     IN  /\ f.todo # <<>>
         /\ IF w \in ToSet(channel) /\ MayEnter(t, w, f.payload)
            THEN /\ Entered(w, f.payload)
                 /\ stack' = [stack EXCEPT ![t] = <<Callback(w), next>> \o Tail(@)]
            ELSE /\ stack' = ReplaceTop(t, next)
                 /\ UNCHANGED <<entered, running, seen>>
  /\ UNCHANGED <<sourceVars, listVars, active, operation, failures, threw, released>>

Notified(t) ==
  /\ Within(t, "notify")
  /\ Head(stack[t]).todo = <<>>
  /\ stack' = Leave(t)
  /\ UNCHANGED <<sourceVars, listVars, gateVars, historyVars>>

\* The walk over the list enters whoever the bus did not reach.
FallBack ==
  /\ Within(Owner, "publish")
  /\ LET f == Head(stack[Owner])
         w == Head(f.todo)
     IN  /\ f.todo # <<>>
         /\ MayEnter(Owner, w, f.payload)
         /\ Entered(w, f.payload)
         /\ stack' = Enter(Owner, Callback(w))
  /\ UNCHANGED <<sourceVars, listVars, active, operation, failures, threw, released>>

\* Mutants: the last watch's failure counts; the walk trusts the bus to have
\* entered everyone.
CollectLast ==
  /\ Within(Owner, "publish")
  /\ LET f == Head(stack[Owner])
         w == Head(f.todo)
     IN  /\ f.todo # <<>>
         /\ ~MayEnter(Owner, w, f.payload)
         /\ operation' = [operation EXCEPT ![w] = None]
         /\ stack' = ReplaceTop(Owner, Publishing(f.payload, Tail(f.todo), w \in failures))
  /\ UNCHANGED <<sourceVars, listVars, active, entered, running, failures, historyVars>>

CollectUnentered ==
  /\ Within(Owner, "publish")
  /\ LET f == Head(stack[Owner])
         w == Head(f.todo)
     IN  /\ f.todo # <<>>
         /\ operation' = [operation EXCEPT ![w] = None]
         /\ stack' = ReplaceTop(Owner, Publishing(f.payload, Tail(f.todo), f.failed \/ w \in failures))
  /\ UNCHANGED <<sourceVars, listVars, active, entered, running, failures, historyVars>>

\* It then takes the watch's failure and disarms it.
Collect ==
  /\ Within(Owner, "publish")
  /\ LET f == Head(stack[Owner])
         w == Head(f.todo)
     IN  /\ f.todo # <<>>
         /\ ~MayEnter(Owner, w, f.payload)
         /\ operation' = [operation EXCEPT ![w] = None]
         /\ stack' = ReplaceTop(Owner, Publishing(f.payload, Tail(f.todo), f.failed \/ w \in failures))
  /\ UNCHANGED <<sourceVars, listVars, active, entered, running, failures, historyVars>>

\* The first failure, if any, is thrown to the runtime.
PublishEnds ==
  /\ Within(Owner, "publish")
  /\ Head(stack[Owner]).todo = <<>>
  /\ publishing' = FALSE
  /\ bindings' \in Kept(bindings, active)
  /\ stack' = Leave(Owner)
  /\ UNCHANGED <<revision, closed, channel, fresh, held, gateVars, historyVars>>

--------------------
\* Invalidation.

WaitsFor(t, w) == w \notin Invoked(t)

\* ViewAttachment::reset closes the gate and waits for a callback that has
\* entered, unless it is called by that callback.
Reset(t, w) ==
  /\ InUserCode(t)
  /\ w \in held
  /\ held' = held \ {w}
  /\ active' = active \ {w}
  /\ channel' \in Kept(channel, Watches \ {w})
  /\ stack' = IF WaitsFor(t, w) THEN Enter(t, WaitingFor(w)) ELSE stack
  /\ UNCHANGED <<sourceVars, bindings, fresh, entered, running, operation, failures, historyVars>>

\* Mutant: a reset does not wait.
ResetReturnsAtOnce(t) ==
  /\ Within(t, "wait")
  /\ released' = released \cup {Head(stack[t]).watch}
  /\ stack' = Leave(t)
  /\ UNCHANGED <<sourceVars, listVars, gateVars, seen, threw>>

ResetReturns(t) ==
  /\ Within(t, "wait")
  /\ running[Head(stack[t]).watch] = 0
  /\ released' = released \cup {Head(stack[t]).watch}
  /\ stack' = Leave(t)
  /\ UNCHANGED <<sourceVars, listVars, gateVars, seen, threw>>

\* The runtime closes the source from outside every callback.
Close ==
  /\ Idle(Owner)
  /\ ~closed
  /\ closed' = TRUE
  /\ active' = active \ ToSet(bindings)
  /\ channel' \in Kept(channel, Watches \ ToSet(bindings))
  /\ bindings' = <<>>
  /\ UNCHANGED <<revision, publishing, fresh, held, entered, running, operation, failures, stack, historyVars>>

--------------------

\* What a thread does once it is inside a call.
Proceed(t) ==
  \/ CallbackReturns(t, FALSE) \/ CallbackReturns(t, TRUE)
  \/ Deliver(t) \/ Notified(t) \/ ResetReturns(t)
  \/ t = Owner /\ (WatchEnds \/ FallBack \/ Collect \/ PublishEnds)

BindingsNext ==
  \/ Select \/ Close
  \/ \E w \in Watches : Watch(w)
  \/ \E t \in Threads :
        \/ Proceed(t)
        \/ \E w \in Watches : Reset(t, w)
        \/ \E p \in Payloads : Resend(t, p)

BindingsSpec == BindingsInit /\ [][BindingsNext]_bindingsVars
--------------------
\* What the owner of a view source and its watches rely on.

Frames(t, at) == {f \in ToSet(stack[t]) : f.at = at}

\* Type invariant: the list and the channel hold watches once each, and a
\* listed watch has been attached.
BindingsTypeOK ==
  /\ revision \in 0 .. MaxRevision
  /\ closed \in BOOLEAN /\ publishing \in BOOLEAN
  /\ IsInjective(bindings) /\ ToSet(bindings) \subseteq Watches \ fresh
  /\ IsInjective(channel) /\ ToSet(channel) \subseteq Watches \ fresh
  /\ held \subseteq Watches \ fresh
  /\ active \subseteq Watches \ fresh
  /\ entered \subseteq Watches \ fresh /\ failures \subseteq Watches \ fresh
  /\ running \in [Watches -> {0, 1}]
  /\ operation \in [Watches -> {None} \cup Payloads]
  /\ \A t \in Threads : \A f \in ToSet(stack[t]) :
        f.at \in {"publish", "notify", "attach", "call", "wait"}

\* Once a reset by code outside the watch's callback has returned, the callback
\* does not run and is never called again; and a reset never waits for a
\* callback its own thread is inside, however deep.
QuietAfterReset ==
  /\ \A w \in released : \A t \in Threads : w \notin Invoked(t)
  /\ \A t \in Threads : Within(t, "wait") => Head(stack[t]).watch \notin Invoked(t)

\* The runtime is told of a failure exactly when a required callback failed at
\* this change, whichever of the bus and the walk called it.
FailuresSurface ==
  \A f \in Frames(Owner, "publish") : f.todo = <<>> => (f.failed <=> threw # {})

\* A publication has ended for every watch that is still attached: it was
\* called with the revision that is current, so that no failure of the bus, no
\* other listener, no late attachment and no detached neighbour made it miss a
\* change.  While the owner is outside every call, each active watch is in the
\* list the next publication walks, and none is armed: no payload in flight
\* opens a gate later.  Neither a callback that fails nor one that resets its
\* watch is an exception: the first is reported, the second waited for.
NoneLeftBehind ==
  /\ ~publishing => \A w \in active \cap ToSet(bindings) : seen[w] = revision
  /\ Idle(Owner) => /\ active \subseteq ToSet(bindings)
                    /\ \A w \in Watches : operation[w] = None
  /\ QuietAfterReset
  /\ FailuresSurface

\* A watch is called by the owner's thread alone.
OwnersThreadOnly ==
  \A t \in Threads : Frames(t, "call") # {} => t = Owner

\* A watch sees the revisions in order, on the owner's thread and never within
\* a call of its own: once with each change, its first call being the seed.  A
\* copy of a payload sent over the public channel never calls it again.
RevisionsInOrder ==
  /\ [](BindingsTypeOK /\ OwnersThreadOnly)
  /\ [][\A w \in Watches :
          /\ seen'[w] >= seen[w]
          /\ running'[w] > running[w] => seen'[w] = revision' /\ seen'[w] > seen[w]]_bindingsVars
====================
