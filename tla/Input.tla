---- MODULE Input ----
\* Semantic input: physical controls, chords bound to actions in the
\* direct namespace and in the namespaces of contexts, keyboard focus, the
\* polls that publish every edge, and the ticks that sum whole polls up.
\* The owner of the window polls; any thread requests focus, attaches and
\* resets contexts.  Native callbacks run inside of the pump only.  Clocks
\* and the durations of holds are left out.
EXTENDS Naturals, FiniteSets, SequencesExt

CONSTANTS Contexts,
          Direct,       \* by action the chords it may be bound to directly
          Local,        \* by action the chords of every context's definition
          Policies,     \* the KeyboardPolicy of each request for focus, by its epoch
          MaxPolls, MaxEvents,    \* bounds: polls and native events,
          MaxAll        \* and events and requests for focus together

Controls == {"key", "button", "wheel", "pad"}
Device == [c \in Controls |-> CASE c = "key" -> "keyboard" [] c = "pad" -> "gamepad" [] OTHER -> "mouse"]
Actions == DOMAIN Direct    \* all but "zoom" are buttons, "zoom" is the relative axis of the wheel

VARIABLES
    root,       \* the direct Bindings
    space,      \* by context its token, its entry and its Bindings
    poll,       \* where the owner is
    focus,      \* Routing::Detail::State: the current request, the next epoch; requests not
                \* stored yet; history: leases still held, the epoch that was stored last
    failure,    \* callback_failure_
    polls,      \* published polls not consumed yet
    tick,       \* the last Tick, by namespace and action
    counted        \* history: polls begun, events delivered

inputVars == <<root, space, poll, focus, failure, polls, tick, counted>>

Namespaces == {"direct"} \cup Contexts
Calm == [active |-> FALSE, known |-> FALSE, transitions |-> <<>>]
\* A mapper.  "rose" is history: the times a chord came about since the last
\* publication, exact unless its bindings were changed.
Mapper(bindings) ==
  [bindings |-> bindings, held |-> {}, disabled |-> {}, pending |-> [a \in Actions |-> Calm],
   current |-> [a \in Actions |-> FALSE], moved |-> 0, rose |-> [a \in Actions |-> 0], exact |-> TRUE]
NoContext == [status |-> "none", requested |-> FALSE, map |-> Mapper(Local)]
NoFocus == [epoch |-> 0, policy |-> "none"]

Untouched == [previous |-> FALSE, current |-> FALSE, presses |-> 0, releases |-> 0]

InputInit ==
  /\ root = Mapper([a \in Actions |-> {}])
  /\ space = [c \in Contexts |-> NoContext]
  /\ poll = [at |-> "idle", started |-> FALSE]
  /\ focus = [current |-> NoFocus, next |-> 1, asked |-> {}, held |-> {}, last |-> 0]
  /\ failure = FALSE /\ polls = <<>>
  /\ tick = [n \in Namespaces |-> [a \in Actions |-> Untouched]]
  /\ counted = [polls |-> 0, events |-> 0]
--------------------
ChordActive(m, chord) == \A c \in chord : c \in m.held /\ Device[c] \notin m.disabled
Active(m, a) == a # "zoom" /\ \E chord \in m.bindings[a] : ChordActive(m, chord)

\* Mutant: an edge is noted against the publication and not the last edge.
RefreshedToPublished(m, a) ==
  LET p == m.pending[a] IN
  IF Active(m, a) = m.current[a] THEN [p EXCEPT !.known = TRUE]
  ELSE [active |-> Active(m, a), known |-> TRUE, transitions |-> <<Active(m, a)>>]

\* refresh_button().
Refreshed(m, a) ==
  LET p == m.pending[a]
      was == IF p.known THEN p.active ELSE m.current[a]
      now == Active(m, a)
  IN [active |-> now, known |-> TRUE, transitions |-> IF now = was THEN p.transitions ELSE Append(p.transitions, now)]

\* A mapper after its controls or devices went from m to n.
Reevaluated(m, n, touched) ==
  LET concerned == {a \in Actions \ {"zoom"} : \E chord \in n.bindings[a] : chord \cap touched # {}} IN
  [n EXCEPT !.pending = [a \in Actions |-> IF a \in concerned THEN Refreshed(n, a) ELSE m.pending[a]],
            !.rose = [a \in Actions |-> IF Active(n, a) /\ ~Active(m, a) THEN @[a] + 1 ELSE @[a]]]

OnButton(m, control, held) ==
  IF (control \in m.held) = held THEN m
  ELSE Reevaluated(m, [m EXCEPT !.held = IF held THEN @ \cup {control} ELSE @ \ {control}],
                   {control})
SetEnabled(m, device, enabled) ==
  IF (device \notin m.disabled) = enabled THEN m
  ELSE Reevaluated(m, [m EXCEPT !.disabled = IF enabled THEN @ \ {device} ELSE @ \cup {device}],
                   {c \in Controls : Device[c] = device})

\* on_delta(): modifiers count when the motion is observed.
OnDelta(m) ==
  [m EXCEPT !.moved = @ + IF "mouse" \in m.disabled THEN 0
                          ELSE Cardinality({chord \in m.bindings["zoom"] : ChordActive(m, chord)})]

\* make_snapshot(): pending transitions, and what rebinding changed.
Sample(m) ==
  LET walk(s, held) ==
          IF held = s.current THEN s
          ELSE [s EXCEPT !.current = held, !.presses = @ + (IF held THEN 1 ELSE 0),
                         !.releases = @ + (IF held THEN 0 ELSE 1)]
      start(a) == [previous |-> m.current[a], current |-> m.current[a], presses |-> 0, releases |-> 0]
  IN [buttons |-> [a \in Actions |-> FoldLeft(walk, start(a), Append(m.pending[a].transitions, Active(m, a)))],
      moved |-> m.moved, rose |-> m.rose, exact |-> m.exact]
Committed(m) ==
  [m EXCEPT !.current = [a \in Actions |-> Active(m, a)], !.pending = [a \in Actions |-> Calm],
            !.moved = 0, !.rose = [a \in Actions |-> 0], !.exact = TRUE]
--------------------
Installed(c) == space[c].status = "active"
\* The root and the contexts that are installed receive an observation; a
\* wheel moves and presses for the rest of its poll.
Received(m, control, held) ==
  IF control = "wheel" THEN OnButton(OnDelta(m), control, held) ELSE OnButton(m, control, held)
Forward(control, held) ==
  /\ root' = Received(root, control, held)
  /\ space' = [c \in Contexts |-> IF Installed(c) THEN [space[c] EXCEPT !.map = Received(@, control, held)] ELSE space[c]]

\* Any thread: ContextSubmission::attach, Context::reset, Manager::focus and
\* Lease::reset; a stale lease does not release the next owner's focus.
Attach(c) ==
  /\ space[c].status = "none"
  /\ space' = [space EXCEPT ![c] = [NoContext EXCEPT !.status = "pending", !.requested = TRUE]]
  /\ UNCHANGED <<root, poll, focus, failure, polls, tick, counted>>
ResetContext(c) ==
  /\ space[c].requested /\ space' = [space EXCEPT ![c].requested = FALSE]
  /\ UNCHANGED <<root, poll, focus, failure, polls, tick, counted>>
\* focus() takes an epoch first and stores its request later: of two threads
\* the older request may be stored last.
TakeEpoch ==
  /\ focus.next \in DOMAIN Policies /\ focus.next + counted.events <= MaxAll
  /\ focus' = [focus EXCEPT !.next = @ + 1, !.asked = @ \cup {[epoch |-> focus.next, policy |-> Policies[focus.next]]}]
  /\ UNCHANGED <<root, space, poll, failure, polls, tick, counted>>
StoreFocus(request) ==
  /\ focus' = [focus EXCEPT !.current = request, !.last = request.epoch,
                            !.asked = @ \ {request}, !.held = @ \cup {request.epoch}]
  /\ UNCHANGED <<root, space, poll, failure, polls, tick, counted>>

\* Mutant: a lease releases the older requests as well.
RelinquishedOlder(e) == IF focus.current.epoch <= e THEN NoFocus ELSE focus.current

Relinquished(e) == IF focus.current.epoch = e THEN NoFocus ELSE focus.current
ResetLease(e) ==
  /\ e \in focus.held
  /\ focus' = [focus EXCEPT !.held = @ \ {e}, !.current = Relinquished(e)]
  /\ UNCHANGED <<root, space, poll, failure, polls, tick, counted>>

\* The owner, between polls.
Rebind(a, chords) ==
  /\ poll.at = "idle" /\ chords \subseteq Direct[a] /\ chords # root.bindings[a]
  /\ root' = [root EXCEPT !.bindings[a] = chords, !.exact = FALSE]
  /\ UNCHANGED <<space, poll, focus, failure, polls, tick, counted>>

\* deinitialize(): callbacks, focus and records go first, then clear()
\* publishes the release of all that was held; contexts are reset.  The
\* ticks of the session have ended, those of the next one start from there.
Detach ==
  /\ poll.at = "idle"
  /\ root' = [Mapper([a \in Actions |-> {}]) EXCEPT !.exact = FALSE]
  /\ space' = [c \in Contexts |-> NoContext]
  /\ poll' = [at |-> "detached", started |-> FALSE]
  /\ focus' = [focus EXCEPT !.current = NoFocus, !.last = 0]
  /\ failure' = FALSE /\ polls' = <<>>
  /\ tick' = [n \in Namespaces |-> [a \in Actions |-> Untouched]]
  /\ UNCHANGED counted
Initialize ==
  /\ poll.at = "detached" /\ poll' = [poll EXCEPT !.at = "idle"]
  /\ UNCHANGED <<root, space, focus, failure, polls, tick, counted>>

\* begin_input_poll(): one look at the focus gates the keyboard of all
\* namespaces; contexts that were reset before are passed over...
BeginPoll ==
  /\ poll.at = "idle" /\ counted.polls < MaxPolls
  /\ LET open == focus.current.policy \in {"none", "pass"} IN
     /\ root' = SetEnabled(root, "keyboard", open)
     /\ space' = [c \in Contexts |->
                    IF Installed(c) /\ (poll.started \/ space[c].requested)
                    THEN [space[c] EXCEPT !.map = SetEnabled(@, "keyboard", open)] ELSE space[c]]
  /\ poll' = [poll EXCEPT !.at = "latch"]
  /\ counted' = [counted EXCEPT !.polls = @ + 1]
  /\ UNCHANGED <<focus, failure, polls, tick>>

Install(map) ==
  LET m == [map EXCEPT !.held = root.held, !.disabled = root.disabled] IN
  Reevaluated(map, m, Controls)
Departing(map) ==
  [map EXCEPT !.bindings = [a \in Actions |-> {}], !.pending = [a \in Actions |-> Calm], !.moved = 0,
              !.rose = [a \in Actions |-> 0]]
\* Mutant: a departing namespace goes without its last publication.
LatchedAtOnce(c) ==
  CASE ~space[c].requested -> NoContext
    [] space[c].status = "pending" /\ space[c].requested -> [space[c] EXCEPT !.status = "active", !.map = Install(@)]
    [] OTHER -> space[c]

Latched(c) ==
  CASE space[c].status = "active" /\ ~space[c].requested ->
           [space[c] EXCEPT !.status = "removing", !.map = Departing(@)]
    [] space[c].status = "pending" /\ ~space[c].requested -> NoContext
    [] space[c].status = "pending" /\ space[c].requested -> [space[c] EXCEPT !.status = "active", !.map = Install(@)]
    [] OTHER -> space[c]

\* ... begin_poll() latches which leave and installs which came; then the
\* wheel of the last poll is released.
Latch ==
  /\ poll.at = "latch"
  /\ LET now == [c \in Contexts |-> IF poll.started THEN space[c] ELSE Latched(c)] IN
     space' = [c \in Contexts |-> IF now[c].status = "active"
                                  THEN [now[c] EXCEPT !.map = OnButton(@, "wheel", FALSE)] ELSE now[c]]
  /\ root' = OnButton(root, "wheel", FALSE)
  /\ poll' = [poll EXCEPT !.at = "pump", !.started = TRUE]
  /\ UNCHANGED <<focus, failure, polls, tick, counted>>

MoreEvents == counted.events < MaxEvents /\ focus.next + counted.events <= MaxAll
Pumping == poll.at = "pump" /\ MoreEvents
\* Callbacks; after a failure nothing more is received.
Seen == [counted EXCEPT !.events = @ + 1]
Button(control, held) ==
  /\ Pumping /\ ~failure /\ control \in {"key", "button"}
  /\ Forward(control, held)
  /\ counted' = Seen
  /\ UNCHANGED <<poll, focus, failure, polls, tick>>
Scroll ==
  /\ Pumping /\ ~failure
  /\ Forward("wheel", TRUE)
  /\ counted' = Seen
  /\ UNCHANGED <<poll, focus, failure, polls, tick>>
CallbackFails ==
  /\ Pumping /\ ~failure /\ failure' = TRUE
  /\ counted' = Seen
  /\ UNCHANGED <<root, space, poll, focus, polls, tick>>

\* update(): reports a failure of the window, which leaves a callback's for
\* the next time, or of a callback; or samples the pad and publishes all
\* namespaces at once.
UpdateFails(native) ==
  /\ poll.at = "pump" /\ (native \/ failure) /\ failure' = (native /\ failure)
  /\ IF native THEN MoreEvents /\ counted' = Seen ELSE counted' = counted
  /\ poll' = [poll EXCEPT !.at = "idle"]
  /\ UNCHANGED <<root, space, focus, polls, tick>>
Publication(direct, spaces) ==
  Append(polls, [namespaces |-> [n \in {"direct"} \cup {c \in Contexts : spaces[c].status \in {"active", "removing"}} |->
                                   Sample(IF n = "direct" THEN direct ELSE spaces[n].map)],
                 keyboard |-> "keyboard" \notin direct.disabled])
AfterPublication(s) ==
  IF s.status = "removing" THEN NoContext
  ELSE IF s.status = "active" THEN [s EXCEPT !.map = Committed(@)] ELSE s
Update(pad) ==
  /\ poll.at = "pump" /\ ~failure
  /\ IF pad = ("pad" \in root.held) THEN counted' = counted ELSE MoreEvents /\ counted' = Seen
  /\ LET direct == OnButton(root, "pad", pad)
         spaces == [c \in Contexts |-> IF Installed(c) THEN [space[c] EXCEPT !.map = OnButton(@, "pad", pad)] ELSE space[c]] IN
     /\ polls' = Publication(direct, spaces)
     /\ root' = Committed(direct)
     /\ space' = [c \in Contexts |-> AfterPublication(spaces[c])]
  /\ poll' = [poll EXCEPT !.at = "idle", !.started = FALSE]
  /\ UNCHANGED <<focus, failure, tick>>

\* Accumulator::consume_polls and Tick::button, over a batch of whole polls.
ConsumePolls ==
  /\ LET of(p, n, a) == IF n \in DOMAIN p.namespaces THEN p.namespaces[n].buttons[a]
                        ELSE Untouched
         sum(n, a) == FoldLeft(LAMBDA s, p : [s EXCEPT !.current = of(p, n, a).current,
                                                 !.presses = @ + of(p, n, a).presses, !.releases = @ + of(p, n, a).releases],
                               [previous |-> tick[n][a].current, current |-> tick[n][a].current, presses |-> 0, releases |-> 0], polls)
     IN tick' = [n \in Namespaces |-> [a \in Actions |-> sum(n, a)]]
  /\ polls # <<>> /\ polls' = <<>>
  /\ UNCHANGED <<root, space, poll, focus, failure, counted>>

InputNext ==
  \/ \E c \in Contexts : Attach(c) \/ ResetContext(c)
  \/ \E request \in focus.asked : StoreFocus(request)
  \/ \E e \in DOMAIN Policies : ResetLease(e)
  \/ \E a \in Actions : \E chords \in SUBSET Direct[a] : Rebind(a, chords)
  \/ TakeEpoch \/ Detach \/ Initialize \/ BeginPoll \/ Latch \/ Scroll \/ CallbackFails \/ ConsumePolls
  \/ \E native \in BOOLEAN : UpdateFails(native)
  \/ \E control \in Controls, held \in BOOLEAN : Button(control, held)
  \/ \E pad \in BOOLEAN : Update(pad)

InputSpec == InputInit /\ [][InputNext]_inputVars
--------------------
\* Every time a chord comes about in what a namespace was given is told as
\* one press, also when it is released within the same poll, in a namespace that was just installed,
\* or after a poll that failed; the direct and the local namespaces agree on
\* what is held and enabled; and while the keyboard is away none of its
\* chords is told as held.
EdgesTold ==
  /\ \A i \in DOMAIN polls : \A n \in DOMAIN polls[i].namespaces :
       LET s == polls[i].namespaces[n] IN
       \A a \in Actions :
          /\ s.exact => s.buttons[a].presses = s.rose[a]
          /\ ~polls[i].keyboard /\ (\A chord \in IF n = "direct" THEN Direct[a] ELSE Local[a] : "key" \in chord) => ~s.buttons[a].current
  /\ \A c \in Contexts : Installed(c) /\ poll.at # "latch" /\ (poll.at = "idle" => ~poll.started) =>
       space[c].map.held = root.held /\ space[c].map.disabled = root.disabled

\* Ticks join up: the edges of a tick lead from the state in which the one
\* before it ended to its own, whatever polls it sums up and whatever
\* contexts came and went; and nothing of a context that is gone stays held.
TicksJoinUp ==
  /\ \A n \in Namespaces, a \in Actions : LET t == tick[n][a] IN
       t.presses - t.releases = (IF t.current THEN 1 ELSE 0) - (IF t.previous THEN 1 ELSE 0)
  /\ \A n \in Contexts, a \in Actions :
       polls = <<>> /\ ~Installed(n) /\ space[n].status # "removing" => ~tick[n][a].current

\* The keyboard is of the request that was stored last for as long as its
\* lease is held, and of nobody after: a lease that was replaced neither
\* takes it away nor has it back, also when two threads stored their
\* requests against the order of the epochs they had taken.
LastStoredHasFocus ==
  focus.current.epoch = IF focus.last \in focus.held THEN focus.last ELSE 0

\* From the callback to the tick no press or release is lost, invented or
\* told to somebody who is gone, and no focus; what a failing callback
\* brings, and what comes until update() has reported it, is no part of it.
InputIsComplete == EdgesTold /\ TicksJoinUp /\ LastStoredHasFocus
====================
