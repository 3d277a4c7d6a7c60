---- MODULE MCSequencing ----
\* Two parts of the engine that take turns with a thread: one session in
\* either mode, and one worker stream.  They share no state here; a
\* behaviour is one of theirs, the one of its part.
EXTENDS Session, WorkerStream

VARIABLE part

Parts == {"session", "stream"}

Init ==
  /\ part \in Parts
  /\ SessionInit /\ StreamInit
  /\ part # "session" => mode = "sequential"

SessionStep == part = "session" /\ SessionNext
    /\ UNCHANGED <<part, streamVars>>
StreamStep == part = "stream" /\ StreamNext
    /\ UNCHANGED <<part, sessionVars>>

Next == SessionStep \/ StreamStep

allVars == <<part, sessionVars, streamVars>>

\* SessionFairness and StreamFairness, each of the part it is about.
Fairness ==
  /\ WF_sessionVars(part = "session" /\ OwnerStep)
  /\ WF_sessionVars(part = "session" /\ Simulation)
  /\ WF_sessionVars(part = "session" /\ StopElsewhere /\ stopper = "stops")
  /\ \A j \in Jobs : WF_sessionVars(part = "session" /\ JobEnds(j))
  /\ StreamFairness

Spec == Init /\ [][Next]_allVars /\ Fairness

\* Neither waits for ever for the thread it shares: a session that is
\* stopped ends with its context, although the simulation and the workers
\* may wait for the platform meanwhile, and every posted work settles
\* without the help of later posts.
TurnsEnd == SessionEnds /\ EveryWorkSettles
====================
