---- MODULE EventBus ----
\* One channel of an event bus: threads register and unregister listeners,
\* publish, wait for a listener to be idle and close the bus, from the top
\* of their stack or from within callbacks and error sinks.  A listener is
\* called on the publisher's thread, or has a delivery target to which a
\* ticket is posted; a target runs its works in order or destroys them.
\*
\* An action is one section of the registry's or of a listener's mutex, or
\* the step to or from code the bus does not own.  What a thread is inside
\* is its stack of frames.  A second channel would differ in nothing but
\* its list of listeners and is left out, as are payloads and a failure to
\* allocate a ticket.
EXTENDS Naturals, Sequences, FiniteSets, TLC

CONSTANTS
    Listeners,          \* each is registered at most once
    Queued,             \* those with a delivery target
    Threads,
    Nobody,
    MaxPublications,    \* bound on the calls of dispatch and notify
    MaxDepth            \* bound on the frames a publication starts from

ASSUME EventBusAssumption ==
  /\ Queued \subseteq Listeners
  /\ Nobody \notin Threads
  /\ MaxPublications \in Nat /\ MaxDepth \in Nat

VARIABLES
    fresh,      \* the listeners that are yet to be registered
    channel,    \* the registered listeners in order
    closed,     \* State::closed
    count,      \* State::active
    active,     \* the listeners whose gate is open
    running,    \* Listener::running
    posting,    \* who holds Listener::posting
    line,       \* what the listener's target has accepted, in order
    ticket,     \* the delivery tickets made so far
    stack,      \* what each thread is inside, innermost first
    publications,   \* the publications made
    released    \* history: the listeners a wait has returned for

busVars == <<fresh, channel, closed, count>>
gateVars == <<active, running>>
targetVars == <<posting, line, ticket>>
vars == <<busVars, gateVars, targetVars, stack, publications, released>>

Init ==
  /\ fresh = Listeners
  /\ channel = <<>> /\ closed = FALSE /\ count = 0
  /\ active = {}
  /\ running = [l \in Listeners |-> 0]
  /\ posting = [l \in Listeners |-> Nobody]
  /\ line = [l \in Listeners |-> <<>>]
  /\ ticket = <<>>
  /\ stack = [t \in Threads |-> <<>>]
  /\ publications = 0
  /\ released = {}

--------------------
\* Frames.

Delivering(todo, notify) == [at |-> "deliver", todo |-> todo, notify |-> notify]
Offering(at, k) == [at |-> at, ticket |-> k]
Callback(l, k) == [at |-> "call", listener |-> l, ticket |-> k]   \* 0: immediate
Work(k) == [at |-> "work", ticket |-> k]
Sink(l) == [at |-> "sink", listener |-> l]
Waiting(l) == [at |-> "wait", listener |-> l]

Idle(t) == stack[t] = <<>>
Top(t) == Head(stack[t])
Within(t, at) == ~Idle(t) /\ Top(t).at = at

Enter(t, f) == stack' = [stack EXCEPT ![t] = <<f>> \o @]
Become(t, f) == stack' = [stack EXCEPT ![t] = <<f>> \o Tail(@)]
Leave(t) == stack' = [stack EXCEPT ![t] = Tail(@)]

\* Code of the bus's users: the thread itself, a callback or an error sink.
InUserCode(t) == Idle(t) \/ Within(t, "call") \/ Within(t, "sink")

\* current_invocation: the listeners whose callbacks t is inside.
Invoked(t) == {stack[t][i].listener : i \in {j \in DOMAIN stack[t] : stack[t][j].at = "call"}}

Registered == {channel[i] : i \in DOMAIN channel}

\* The channel once l has left it: std::erase, of a listener that is there once.
Without(l) ==
  LET i == CHOOSE i \in DOMAIN channel : channel[i] = l
  IN  [j \in 1..(Len(channel) - 1) |-> channel[IF j < i THEN j ELSE j + 1]]

--------------------
\* The registry.

Register(t, l) ==
  /\ InUserCode(t)
  /\ ~closed
  /\ l \in fresh
  /\ fresh' = fresh \ {l}
  /\ channel' = Append(channel, l)
  /\ count' = count + 1
  /\ active' = active \cup {l}
  /\ UNCHANGED <<closed, running, targetVars, stack, publications, released>>

\* disconnect: the gate closes in the same section as the listener leaves.
Unregister(t, l) ==
  /\ InUserCode(t)
  /\ l \in active \cup Registered
  /\ active' = active \ {l}
  /\ IF l \in Registered
        THEN channel' = Without(l) /\ count' = count - 1
        ELSE UNCHANGED <<channel, count>>
  /\ UNCHANGED <<fresh, closed, running, targetVars, stack, publications, released>>

\* Mutant: the listeners are detached, their gates left to whoever comes.
CloseDetaches(t) ==
  /\ InUserCode(t)
  /\ closed' = TRUE
  /\ count' = 0
  /\ channel' = <<>>
  /\ UNCHANGED <<fresh, gateVars, targetVars, stack, publications, released>>

Close(t) ==
  /\ InUserCode(t)
  /\ closed' = TRUE
  /\ count' = 0
  /\ active' = active \ Registered
  /\ channel' = <<>>
  /\ UNCHANGED <<fresh, running, targetVars, stack, publications, released>>

\* wait_for_listener throws at once for an active listener and for one whose
\* callback the thread is inside, however deep; a further wait for one that
\* a wait has returned for finds it idle and is left out.
MayWait(t, l) == l \notin Invoked(t) /\ l \notin active

WaitCall(t, l) ==
  /\ InUserCode(t)
  /\ l \notin fresh \cup released
  /\ MayWait(t, l)
  /\ Enter(t, Waiting(l))
  /\ UNCHANGED <<busVars, gateVars, targetVars, publications, released>>

WaitReturns(t) ==
  /\ Within(t, "wait")
  /\ running[Top(t).listener] = 0
  /\ released' = released \cup {Top(t).listener}
  /\ Leave(t)
  /\ UNCHANGED <<busVars, gateVars, targetVars, publications>>

--------------------
\* A publication: the snapshot, then one listener after another.

Publish(t, notify) ==
  /\ InUserCode(t) /\ Len(stack[t]) <= MaxDepth
  /\ publications < MaxPublications
  /\ ~closed
  /\ channel # <<>>
  /\ publications' = publications + 1
  /\ Enter(t, Delivering(channel, notify))
  /\ UNCHANGED <<busVars, gateVars, targetVars, released>>

\* The listener the publication is at; the frame goes past it.
At(t) == Head(Top(t).todo)
HasNext(t) == Within(t, "deliver") /\ Top(t).todo # <<>>
Past(t) == Delivering(Tail(Top(t).todo), Top(t).notify)

Published(t) ==
  /\ Within(t, "deliver") /\ Top(t).todo = <<>>
  /\ Leave(t)
  /\ UNCHANGED <<busVars, gateVars, targetVars, publications, released>>

\* Mutant: the snapshot authorizes the callback.
GateOpenBySnapshot(l) == TRUE

\* The gate, in the section that also counts the invocation.
GateOpen(l) == l \in active

\* Either kind of listener is passed over once its gate has closed.
Skip(t) ==
  /\ HasNext(t)
  /\ ~GateOpen(At(t))
  /\ Become(t, Past(t))
  /\ UNCHANGED <<busVars, gateVars, targetVars, publications, released>>

CallNow(t) ==
  /\ HasNext(t)
  /\ At(t) \notin Queued
  /\ GateOpen(At(t))
  /\ running' = [running EXCEPT ![At(t)] = @ + 1]
  /\ stack' = [stack EXCEPT ![t] = <<Callback(At(t), 0), Past(t)>> \o Tail(@)]
  /\ UNCHANGED <<busVars, active, targetVars, publications, released>>

\* A ticket is made; the copy of its payload may fail, and nothing is posted
\* then.
Prepare(t, at) ==
  /\ HasNext(t)
  /\ At(t) \in Queued
  /\ GateOpen(At(t))
  /\ ticket' = Append(ticket, [listener |-> At(t), local |-> TRUE, settled |-> 0,
                               work |-> IF at = "offer" THEN "unposted" ELSE "gone"])
  /\ stack' = [stack EXCEPT ![t] = <<Offering(at, Len(ticket) + 1), Past(t)>> \o Tail(@)]
  /\ UNCHANGED <<busVars, gateVars, posting, line, publications, released>>

Prepared(t) == Prepare(t, "offer")
PreparationFails(t) == Prepare(t, "release")

\* posting is held while the target takes the work or turns it away.
LockPosting(t) ==
  LET l == ticket[Top(t).ticket].listener
  IN  /\ Within(t, "offer")
      /\ posting[l] = Nobody
      /\ posting' = [posting EXCEPT ![l] = t]
      /\ Become(t, Offering("post", Top(t).ticket))
      /\ UNCHANGED <<busVars, gateVars, line, ticket, publications, released>>

TargetAccepts(t) ==
  LET k == Top(t).ticket
      l == ticket[k].listener
  IN  /\ Within(t, "post")
      /\ line' = [line EXCEPT ![l] = Append(@, k)]
      /\ ticket' = [ticket EXCEPT ![k].work = "queued"]
      /\ posting' = [posting EXCEPT ![l] = Nobody]
      /\ Become(t, Offering("release", k))
      /\ UNCHANGED <<busVars, gateVars, publications, released>>

\* Mutant: the work is the only owner, and reports where it is destroyed.
TargetDestroysLast(t) ==
  LET k == Top(t).ticket
      l == ticket[k].listener
  IN  /\ Within(t, "post")
      /\ l \in active
      /\ ticket' = [ticket EXCEPT ![k].work = "gone", ![k].local = FALSE, ![k].settled = @ + 1]
      /\ Enter(t, Sink(l))
      /\ UNCHANGED <<busVars, gateVars, posting, line, publications, released>>

\* The target returns false or throws, and the work is destroyed.
TargetRejects(t) ==
  LET k == Top(t).ticket
      l == ticket[k].listener
  IN  /\ Within(t, "post")
      /\ ticket' = [ticket EXCEPT ![k].work = "gone"]
      /\ posting' = [posting EXCEPT ![l] = Nobody]
      /\ Become(t, Offering("release", k))
      /\ UNCHANGED <<busVars, gateVars, line, publications, released>>

\* Mutant: whoever lets go of an unrun ticket reports it.
LastOwnerAny(k) == ticket[k].work \in {"queued", "gone"}

\* Whether the publisher's owner is the last one of a ticket that never ran.
LastOwner(k) == ticket[k].work = "gone"

\* The publisher's owner of the ticket goes, outside posting: a ticket that
\* nobody else owns and that has not run is reported or discarded here.
ReleaseTicket(t) ==
  LET k == Top(t).ticket
      l == ticket[k].listener
  IN  /\ Within(t, "release")
      /\ ticket' = [ticket EXCEPT ![k].local = FALSE, ![k].settled = IF LastOwner(k) THEN @ + 1 ELSE @]
      /\ IF LastOwner(k) /\ l \in active THEN Become(t, Sink(l)) ELSE Leave(t)
      /\ UNCHANGED <<busVars, gateVars, posting, line, publications, released>>

--------------------
\* Delivery targets, on any thread that is at the top of its stack.

TargetRunning(l) ==
  \E t \in Threads : \E i \in DOMAIN stack[t] :
      stack[t][i].at \in {"work", "call"} /\ stack[t][i].ticket # 0
          /\ ticket[stack[t][i].ticket].listener = l

\* A target runs the works of a listener one after another, in order.
RunWork(t, l) ==
  LET k == Head(line[l])
  IN  /\ Idle(t)
      /\ line[l] # <<>>
      /\ ~TargetRunning(l)
      /\ line' = [line EXCEPT ![l] = Tail(@)]
      /\ ticket' = [ticket EXCEPT ![k].work = "entered"]
      /\ Enter(t, Work(k))
      /\ UNCHANGED <<busVars, gateVars, posting, publications, released>>

WorkCalls(t) ==
  LET k == Top(t).ticket
      l == ticket[k].listener
  IN  /\ Within(t, "work")
      /\ GateOpen(l)
      /\ running' = [running EXCEPT ![l] = @ + 1]
      /\ ticket' = [ticket EXCEPT ![k].settled = @ + 1]
      /\ Become(t, Callback(l, k))
      /\ UNCHANGED <<busVars, active, posting, line, publications, released>>

WorkDiscards(t) ==
  LET k == Top(t).ticket
  IN  /\ Within(t, "work")
      /\ ~GateOpen(ticket[k].listener)
      /\ ticket' = [ticket EXCEPT ![k].settled = @ + 1]
      /\ Leave(t)
      /\ UNCHANGED <<busVars, gateVars, posting, line, publications, released>>

\* The target destroys a work it accepted; if the publisher has let go of
\* the ticket already, it is reported or discarded here.
DropWork(t, l) ==
  LET k == Head(line[l])
      last == ~ticket[k].local
  IN  /\ Idle(t)
      /\ line[l] # <<>>
      /\ line' = [line EXCEPT ![l] = Tail(@)]
      /\ ticket' = [ticket EXCEPT ![k].work = "gone", ![k].settled = IF last THEN @ + 1 ELSE @]
      /\ IF last /\ l \in active THEN Enter(t, Sink(l)) ELSE UNCHANGED stack
      /\ UNCHANGED <<busVars, gateVars, posting, publications, released>>

--------------------
\* Callbacks and sinks end.

CallReturns(t) ==
  LET l == Top(t).listener
  IN  /\ Within(t, "call")
      /\ running' = [running EXCEPT ![l] = @ - 1]
      /\ Leave(t)
      /\ UNCHANGED <<busVars, active, targetVars, publications, released>>

\* A queued callback's exception goes to its sink.  An immediate one ends a
\* dispatch, whose caller may let it through in turn; notify goes on.
Unwind(t) ==
  IF Top(t).ticket # 0 THEN Become(t, Sink(Top(t).listener))
  ELSE IF Head(Tail(stack[t])).notify THEN Leave(t)
  ELSE stack' = [stack EXCEPT ![t] = Tail(Tail(@))]

CallThrows(t) ==
  LET l == Top(t).listener
  IN  /\ Within(t, "call")
      /\ running' = [running EXCEPT ![l] = @ - 1]
      /\ Unwind(t)
      /\ UNCHANGED <<busVars, active, targetVars, publications, released>>

SinkReturns(t) ==
  /\ Within(t, "sink")
  /\ Leave(t)
  /\ UNCHANGED <<busVars, gateVars, targetVars, publications, released>>

--------------------

\* What a thread does of its own accord once it is inside.
GoOn(t) ==
  \/ Published(t) \/ Skip(t) \/ CallNow(t) \/ Prepared(t) \/ PreparationFails(t)
  \/ LockPosting(t) \/ TargetAccepts(t) \/ TargetRejects(t) \/ ReleaseTicket(t)
  \/ WorkCalls(t) \/ WorkDiscards(t)
  \/ CallReturns(t) \/ CallThrows(t) \/ SinkReturns(t) \/ WaitReturns(t)

Serve(l) == \E t \in Threads : RunWork(t, l) \/ DropWork(t, l)

Use(t) ==
  \/ Close(t)
  \/ \E notify \in BOOLEAN : Publish(t, notify)
  \/ \E l \in Listeners : Register(t, l) \/ Unregister(t, l) \/ WaitCall(t, l)

Next ==
  \/ \E t \in Threads : Use(t) \/ GoOn(t)
  \/ \E l \in Queued : Serve(l)

Spec == Init /\ [][Next]_vars
--------------------
\* What is required of EventBus.

\* What a thread may be inside of.
Frames ==
  [at : {"deliver"}, todo : Seq(Listeners), notify : BOOLEAN]
  \cup [at : {"offer", "post", "release", "work"}, ticket : DOMAIN ticket]
  \cup [at : {"call"}, listener : Listeners, ticket : DOMAIN ticket \cup {0}]
  \cup [at : {"sink", "wait"}, listener : Listeners]

Tickets == [listener : Queued, local : BOOLEAN, settled : Nat,
            work : {"unposted", "queued", "entered", "gone"}]

\* Every variable stays in its range.
TypeOK ==
  /\ fresh \subseteq Listeners /\ active \subseteq Listeners \ fresh
  /\ channel \in Seq(Listeners \ fresh)
  /\ closed \in BOOLEAN /\ count \in Nat
  /\ running \in [Listeners -> Nat]
  /\ posting \in [Listeners -> Threads \cup {Nobody}]
  /\ ticket \in Seq(Tickets)
  /\ line \in [Listeners -> Seq(DOMAIN ticket)]
  /\ stack \in [Threads -> Seq(Frames)]
  /\ publications \in Nat /\ released \subseteq Listeners

\* The h-th frame of t, counted from the outermost.
Frame(t, h) == stack[t][Len(stack[t]) + 1 - h]

\* The invocations of l that are under way, in all the threads.
Invocations(l) ==
  UNION {{<<t, h>> : h \in {i \in DOMAIN stack[t] :
                                Frame(t, i).at = "call" /\ Frame(t, i).listener = l}} : t \in Threads}

\* Once a wait has returned after the listener's removal, its callback is
\* not running on any thread and will not run again: snapshots taken before,
\* works accepted before and invocations nested in others notwithstanding.
NoCallAfterWait == \A l \in released : Invocations(l) = {} /\ l \notin active

\* A listener's count is that of its invocations, whichever way they end.
RunningExact == \A l \in Listeners : running[l] = Cardinality(Invocations(l))

\* A ticket ends in exactly one way, a call, a report or a discard, and none
\* is lost when both of its owners have let go.
TicketSettledOnce ==
  \A k \in DOMAIN ticket :
      /\ ticket[k].settled <= 1
      /\ ticket[k].work = "gone" /\ ~ticket[k].local => ticket[k].settled = 1

\* The bus's books agree however removals, closers and unwinding calls meet:
\* every returning closer has closed every gate, also those of listeners
\* that other threads are just removing; the registry's count of active
\* listeners is the length of the channel, after repeated removals too; a
\* listener's count of invocations is true; and every ticket is settled once.
BooksAgree ==
  /\ TypeOK
  /\ closed => active = {}
  /\ count = Len(channel)
  /\ active = Registered
  /\ RunningExact
  /\ TicketSettledOnce

\* No thread stands in its own way: none waits for a callback it is itself
\* inside, and no callback and no error sink runs on a thread that holds a
\* listener's posting lock, for a sink may publish to the same listener.
NoSelfDeadlock ==
  \A t \in Threads :
      /\ Within(t, "wait") => Top(t).listener \notin Invoked(t)
      /\ InUserCode(t) => \A l \in Listeners : posting[l] # t

\* For the checker: threads are alike.
ThreadSymmetry == Permutations(Threads)
====================
