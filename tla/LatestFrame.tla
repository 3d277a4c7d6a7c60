---- MODULE LatestFrame ----
\* What the frame handoff promises: a register that holds at most one
\* frame.  The writer overwrites it, the reader takes what it holds, and
\* what the reader holds stays as it was taken until the next is taken.
\* Zero stands for no frame; frames are numbered in the order written.
EXTENDS Naturals

VARIABLES offered, held, shown

vars == <<offered, held, shown>>

Init == offered = 0 /\ held = 0 /\ shown = 0

Offer ==
  /\ offered' \in Nat /\ offered' > offered /\ offered' > held
  /\ UNCHANGED <<held, shown>>

Take ==
  /\ offered # 0
  /\ held' = offered /\ offered' = 0
  /\ UNCHANGED shown

Show ==
  /\ held # 0
  /\ shown' = held
  /\ UNCHANGED <<offered, held>>

Next == Offer \/ Take \/ Show

Spec == Init /\ [][Next]_vars
====================
