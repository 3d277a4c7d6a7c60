---- MODULE JobService ----
\* What a worker pool promises its callers, without threads, locks,
\* scheduling or CPUs: an accepted job belongs to one group until it is
\* settled exactly once, nothing is accepted by a closed group, and a
\* drain returns only when every job its group accepted is settled.
EXTENDS Naturals

CONSTANTS Jobs, Groups

VARIABLES
    home,       \* the group an accepted job is in, 0 before and after
    settled,    \* the jobs that are done, their captures released
    open,       \* the groups that accept jobs
    fresh,      \* the groups that are yet to be created
    drained     \* the groups for which a drain has returned

vars == <<home, settled, open, fresh, drained>>

Init ==
  /\ home = [j \in Jobs |-> 0]
  /\ settled = {}
  /\ open = {}
  /\ fresh = Groups
  /\ drained = {}

Create(g) ==
  /\ g \in fresh
  /\ fresh' = fresh \ {g}
  /\ open' = open \cup {g}
  /\ UNCHANGED <<home, settled, drained>>

Accept(j, g) ==
  /\ g \in open
  /\ home[j] = 0 /\ j \notin settled
  /\ home' = [home EXCEPT ![j] = g]
  /\ UNCHANGED <<settled, open, fresh, drained>>

Settle(j) ==
  /\ home[j] # 0
  /\ home' = [home EXCEPT ![j] = 0]
  /\ settled' = settled \cup {j}
  /\ UNCHANGED <<open, fresh, drained>>

Close(G) ==
  /\ open' = open \ G
  /\ UNCHANGED <<home, settled, fresh, drained>>

DrainReturns(g) ==
  /\ g \notin open \cup fresh
  /\ \A j \in Jobs : home[j] # g
  /\ drained' = drained \cup {g}
  /\ UNCHANGED <<home, settled, open, fresh>>

Next ==
  \/ \E g \in Groups : Create(g) \/ DrainReturns(g) \/ \E j \in Jobs : Accept(j, g)
  \/ \E j \in Jobs : Settle(j)
  \/ \E G \in SUBSET Groups : Close(G)

\* Every accepted job is eventually settled, whatever the others do.
Fairness == \A j \in Jobs : WF_vars(Settle(j))

Spec == Init /\ [][Next]_vars
FairSpec == Spec /\ Fairness
====================
