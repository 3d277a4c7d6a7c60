---- MODULE FairSelection ----
\* The selections of one pool as an endless sequence.  Queues fill, empty
\* and reach their limits between two selections in every possible way, so
\* each selection sees an arbitrary set of eligible groups, and is made by
\* a worker that any of the groups may prefer.
EXTENDS GroupSelection

CONSTANT NumGroups

Groups == 1..NumGroups

ASSUME SharesArePositive == NumGroups \in Nat \ {0} /\ Share \in [Groups -> Nat \ {0}]

VARIABLES
    credit,     \* GroupState::credit
    waited      \* selections in a row that passed over the group while eligible

selectionVars == <<credit, waited>>

SelectionInit ==
  /\ credit = [g \in Groups |-> 0]
  /\ waited = [g \in Groups |-> 0]

SelectGroup(eligible, local) ==
  LET earned == Accrued(credit, eligible)
  IN  \E g \in eligible :
        /\ IsChosen(g, earned, eligible, local)
        /\ credit' = Charged(earned, eligible, g)
        /\ waited' = [h \in Groups |-> IF h \in eligible \ {g} THEN waited[h] + 1 ELSE 0]

SelectionNext == \E eligible \in SUBSET Groups \ {{}}, local \in SUBSET Groups : SelectGroup(eligible, local)

SelectionSpec == SelectionInit /\ [][SelectionNext]_selectionVars

--------------------
Bound == NumGroups * TotalShare(Groups)

\* However the other groups come and go, an eligible group is passed over a
\* bounded number of times: no priority, weight or worker preference
\* starves it ("Idle/capped groups do not accumulate a future burst").
BoundedOvertaking == \A g \in Groups : waited[g] * Share[g] <= Bound
====================
