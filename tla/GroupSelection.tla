---- MODULE GroupSelection ----
\* The smooth weighted selection of worker-pool.cpp as operators: from the
\* credits of the groups and the set of groups that may run a job now,
\* which group a worker takes a job from and what the credits become.
\* A group is its index in PoolState::groups, that is, in publication
\* order.
EXTENDS Integers, FiniteSetsExt

CONSTANT Share  \* the share of each group: weight * (priority + 1)

\* What all the eligible groups earn together in one selection.
TotalShare(eligible) == MapThenSumSet(LAMBDA g : Share[g], eligible)

\* An eligible group earns its share; an idle or capped one forfeits what it
\* had saved, so that it cannot return with a burst.
Accrued(credit, eligible) ==
  [g \in DOMAIN credit |-> IF g \in eligible THEN credit[g] + Share[g] ELSE 0]

\* Mutant: the worker's own groups come first, whatever their credit.
BestLocal(credit, eligible, local) ==
  IF eligible \cap local # {} THEN eligible \cap local
  ELSE {g \in eligible : \A h \in eligible : credit[h] <= credit[g]}

\* The groups of greatest credit, narrowed to those that prefer this worker
\* when there are any.
Best(credit, eligible, local) ==
  LET richest == {g \in eligible : \A h \in eligible : credit[h] <= credit[g]}
  IN  IF richest \cap local = {} THEN richest ELSE richest \cap local

\* The scan keeps the first of the best: it replaces its choice for strictly
\* more credit only, or at equal credit by a local group over another.
IsChosen(g, credit, eligible, local) ==
  LET best == Best(credit, eligible, local)
  IN  g \in best /\ \A h \in best : g <= h

\* The chosen group pays for the whole round.
Charged(credit, eligible, g) == [credit EXCEPT ![g] = @ - TotalShare(eligible)]
====================
