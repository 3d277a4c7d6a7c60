---- MODULE SerialStream ----
\* What a serial delivery stream promises: the works posted to it run one
\* at a time and in the order posted; a work that does not run is settled
\* all the same, and a loss takes everything that waits at that moment.
EXTENDS Sequences

CONSTANT Works

VARIABLES
    queue,      \* the works that wait, in the order posted
    active,     \* the work that runs, as a set
    settled     \* the works that have run, were lost or were turned away

vars == <<queue, active, settled>>

Init == queue = <<>> /\ active = {} /\ settled = {}

Unposted(w) == w \notin settled \cup active /\ \A i \in DOMAIN queue : queue[i] # w

Post(w) ==
  /\ Unposted(w)
  /\ queue' = Append(queue, w)
  /\ UNCHANGED <<active, settled>>

TurnAway(w) ==
  /\ Unposted(w)
  /\ settled' = settled \cup {w}
  /\ UNCHANGED <<queue, active>>

Begin ==
  /\ active = {} /\ queue # <<>>
  /\ active' = {Head(queue)}
  /\ queue' = Tail(queue)
  /\ UNCHANGED settled

End ==
  /\ active # {}
  /\ settled' = settled \cup active
  /\ active' = {}
  /\ UNCHANGED queue

Lose ==
  /\ settled' = settled \cup {queue[i] : i \in DOMAIN queue}
  /\ queue' = <<>>
  /\ UNCHANGED active

Next == (\E w \in Works : Post(w) \/ TurnAway(w)) \/ Begin \/ End \/ Lose

Spec == Init /\ [][Next]_vars
====================
