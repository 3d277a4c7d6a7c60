---- MODULE WorkerPlacement ----
\* The CPU reservation policy of worker-placement.cpp.  A group's candidate
\* CPUs are scored lexicographically and the first of the lowest score is
\* reserved: busy cores and busy CPUs always lose, then a soft preference
\* for the CPU (or the core) the group ran on last, then rotation.
\* CPUs are numbered by their index in WorkerPlacement::cpus.
EXTENDS Integers, Sequences, FiniteSetsExt

CONSTANTS CoreOf,   \* CoreOf[c]: the physical core (or private slot) of CPU c
          NoCpu     \* "no CPU": an empty std::optional

\* 0 for the CPU the group ran on last, 1 for its core, 2 otherwise.
Locality(c, reuse, last) ==
  IF ~reuse \/ last = NoCpu THEN 2
  ELSE IF c = last THEN 0
  ELSE IF CoreOf[c] = CoreOf[last] THEN 1 ELSE 2

\* How far a candidate lies behind the group's rotation cursor.
Rotation(i, next, n) == (i - next) % n

\* The tuple reserve_cpu compares; the last two places hold the rotation,
\* before or after the worker's own CPU according to the policy.
Score(i, candidates, load, coreLoad, reuse, last, current, next) ==
  LET c == candidates[i]
      r == Rotation(i, next, Len(candidates))
  IN  << coreLoad[CoreOf[c]], load[c], Locality(c, reuse, last),
         IF reuse /\ current # c THEN 1 ELSE 0,
         IF reuse THEN 0 ELSE r,
         IF reuse THEN r ELSE 0 >>

\* Lexicographic order on scores.
Precedes(s, t) ==
  \E k \in DOMAIN s : s[k] < t[k] /\ \A j \in 1..(k - 1) : s[j] = t[j]

\* Candidate i is what the scan of reserve_cpu ends on.
IsReserved(i, candidates, load, coreLoad, reuse, last, current, next) ==
  LET score(j) == Score(j, candidates, load, coreLoad, reuse, last, current, next)
  IN  /\ i \in DOMAIN candidates
      /\ \A j \in DOMAIN candidates :
            Precedes(score(i), score(j)) \/ (score(i) = score(j) /\ i <= j)

\* The cursor moves past the reserved candidate.
NextCandidate(i, candidates) == IF i = Len(candidates) THEN 1 ELSE i + 1
====================
