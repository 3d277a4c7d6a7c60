---- MODULE MCWorkerPool ----
\* Instances of WorkerPool small enough for TLC.
EXTENDS WorkerPool, TLC

\* Threads and jobs of the pool differ by name only.
Interchangeable == Permutations(Workers) \cup Permutations(Jobs)

\* Two groups: one capped at a single job, one with the pool's capacity.
MCMaxConcurrency == <<1, 0>>
MCSerial == <<1>>
MCShare == [g \in Groups |-> IF g = 1 THEN 2 ELSE 1]
MCPrefers == {2}
MCNoCandidates == [g \in Groups |-> <<>>]
MCNoCores == <<>>

\* Two CPUs of one core.  The first group must run on the first CPU; the
\* second prefers both, spread over them.
MCCoreOf == <<1, 1>>
MCCandidates == <<<<1>>, <<1, 2>>>>
====================
