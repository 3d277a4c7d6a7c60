---- MODULE Gamepad ----
\* Observation of the gamepad slot: what each poll finds is staged and
\* committed under a lock as a revision, and listeners are told on the
\* thread that polls.  A listener may itself poll, close the input or try
\* to open it again; nothing is told from within a listener's call.
EXTENDS Naturals, Sequences

CONSTANT MaxGamepadRevision        \* the last revision a source can count to
ASSUME GamepadAssumption == MaxGamepadRevision \in Nat \ {0}

VARIABLES
    gamepad, gamepadPublished,     \* gamepad_, published_gamepad_
    fanout,                 \* publishing_gamepad_: "none", or which of its two calls is out
    gamepadTold                    \* history: changes listeners were told of, sources that closed untold

gamepadVars == <<gamepad, gamepadPublished, fanout, gamepadTold>>

Unopened == [source |-> 0, revision |-> 0, epoch |-> 0, known |-> FALSE, available |-> FALSE, closed |-> TRUE]
GamepadInit == gamepad = Unopened /\ gamepadPublished = Unopened /\ fanout = "none" /\ gamepadTold = [changes |-> <<>>, quiet |-> {}]

Sources == 1..2     \* bound: how often input is opened

OpenAvailability ==
  /\ fanout = "none" /\ gamepad.closed /\ gamepad.source + 1 \in Sources
  /\ gamepad' = [Unopened EXCEPT !.source = gamepad.source + 1, !.epoch = gamepad.epoch, !.closed = FALSE]
  /\ gamepadPublished' = gamepad'
  /\ UNCHANGED <<fanout, gamepadTold>>

\* take() and notify(): the change goes out unless a call is out already.
PublishChange(now, stage) ==
  IF now.source = gamepadPublished.source /\ now.revision = gamepadPublished.revision
  THEN fanout' = "none" /\ UNCHANGED <<gamepadPublished, gamepadTold>>
  ELSE /\ gamepadPublished' = now /\ fanout' = stage
       /\ gamepadTold' = [gamepadTold EXCEPT !.changes = Append(@, [current |-> now, previous |-> gamepadPublished])]
PublishUnlessOut(now) ==
  IF fanout = "none" THEN PublishChange(now, "first") ELSE UNCHANGED <<gamepadPublished, fanout, gamepadTold>>

CommittedPad(available) ==
  IF gamepad.closed \/ (gamepad.known /\ gamepad.available = available) THEN gamepad
  ELSE IF gamepad.revision >= MaxGamepadRevision - 1
  THEN [gamepad EXCEPT !.closed = TRUE, !.revision = IF @ = MaxGamepadRevision THEN @ ELSE @ + 1]
  ELSE [gamepad EXCEPT !.revision = @ + 1, !.epoch = IF available THEN @ + 1 ELSE @, !.known = TRUE, !.available = available]

PollPad(available) ==
  /\ gamepad' = CommittedPad(available)
  /\ PublishUnlessOut(gamepad')

CloseAvailability(notify) ==
  /\ ~gamepad.closed
  /\ gamepad' = [gamepad EXCEPT !.closed = TRUE, !.revision = IF @ = MaxGamepadRevision THEN @ ELSE @ + 1]
  /\ IF notify THEN PublishUnlessOut(gamepad')
     ELSE gamepadPublished' = gamepad' /\ gamepadTold' = [gamepadTold EXCEPT !.quiet = @ \cup {gamepad.source}] /\ UNCHANGED fanout

\* Mutant: the terminal flush is left to a poll that never comes.
FanoutReturnsOnly == fanout # "none" /\ fanout' = "none" /\ UNCHANGED <<gamepad, gamepadPublished, gamepadTold>>

\* A call returned: a closure of meanwhile is told at once, once; any other
\* change waits for the next poll.
FanoutReturns ==
  /\ fanout # "none"
  /\ IF fanout = "first" /\ gamepad.closed THEN PublishChange(gamepad, "terminal")
     ELSE fanout' = "none" /\ UNCHANGED <<gamepadPublished, gamepadTold>>
  /\ UNCHANGED gamepad

GamepadNext ==
  \/ OpenAvailability \/ FanoutReturns
  \/ \E available \in BOOLEAN : PollPad(available)
  \/ \E notify \in BOOLEAN : CloseAvailability(notify)

GamepadSpec == GamepadInit /\ [][GamepadNext]_gamepadVars
--------------------
\* Listeners can follow the slot: within a source each change starts at the
\* one told before and moves forward, nothing follows a closure, a pad told
\* to be there has an epoch none of the earlier changes had, also if it was
\* away between two calls only; and once no call is out, a closed source was
\* told to be closed, unless it was closed on purpose untold.
ListenersFollow ==
  LET c == gamepadTold.changes IN
  /\ \A i \in DOMAIN c :
       /\ c[i].current.source = c[i].previous.source /\ ~c[i].previous.closed
       /\ c[i].current.revision > c[i].previous.revision
       /\ c[i].current.available /\ ~c[i].current.closed => c[i].current.epoch > c[i].previous.epoch
       /\ \A j \in 1..i - 1 : c[j].current.source = c[i].current.source => c[i].previous = c[i - 1].current
  /\ fanout = "none" /\ gamepad.closed /\ gamepad.source > 0 /\ gamepad.source \notin gamepadTold.quiet =>
       \E i \in DOMAIN c : c[i].current = gamepad
====================
