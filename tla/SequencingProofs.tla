---- MODULE SequencingProofs ----
\* Proofs about Session, for any jobs, failures and requests, and about
\* WorkerStream, for any set of works and so of posting threads and pumps.
\*
\* What the owner has yet to do is always a rest of one of its plans.  The
\* inductive invariant therefore speaks of places in a plan: what has been
\* started, cleaned up, closed or told is what the place says, and what a
\* concurrent simulation has done on its own is what its own place says.
EXTENDS Session, WorkerStream, SequenceTheorems, TLAPS

Steps == {"boot", "cycle", "renderer", "mailboxes", "input", "platform", "dispatch", "window", "simulation",
          "announce", "ready", "play", "starting", "closeWork", "closeSimulation", "quiescing",
          "closePlatform", "finishWork", "collection", "finish", "quiesce", "pump", "native",
          "frames", "undoPlatform", "maintain", "undoInput", "unbind", "undoRenderer",
          "undoSimulation", "settle"}

Booting == <<"boot", "announce", "ready", "play">>
Cycling == <<"cycle", "play">>

TearDownIn(m) == <<"starting", "closeWork">>
    \o (IF m = "sequential" THEN <<"closeSimulation", "undoSimulation">>
                            ELSE <<"settle", "closeSimulation">>) \o LateTearDown

\* t is a rest of a plan, and not all of it is done
RestOf(plan, t) == \E k \in 1..Len(plan) : t = SubSeq(plan, k, Len(plan))

PhaseOf(t, m) ==
  IF t = <<"run">> THEN "fresh" ELSE IF t = Booting THEN "boots" ELSE IF t = Cycling THEN "cycles"
  ELSE IF RestOf(StartUp, t) THEN "starts"
  ELSE IF RestOf(EarlyTearDown, t) /\ Len(t) # 1 THEN "leaves"
  ELSE IF RestOf(TearDownIn(m), t) THEN "ends"
  ELSE IF t = <<"destroy">> THEN "ended" ELSE IF t = <<>> THEN "gone" ELSE "lost"

\* where the owner is: the plan it follows and how many steps of it are left
Phase == PhaseOf(todo, mode)
Left == Len(todo)

Shape == Phase # "lost"
Before == Phase \in {"starts", "boots", "cycles"}
Over == Phase \in {"ended", "gone"}

\* the tear-down has fewer than n steps left, or is over
Past(n) == (Phase = "ends" /\ Left < n) \/ Over

Types ==
  /\ mode \in {"sequential", "concurrent"}
  /\ begun \subseteq Components
  /\ undone \in Seq(Components)
  /\ bound \in BOOLEAN /\ stop \in BOOLEAN /\ closedToWork \in BOOLEAN
  /\ mail \in [{"platform", "simulation"} -> {"new", "open", "closed"}]
  /\ simPc \in {"absent", "binds", "inits", "awaits", "between", "updates", "closes", "deinits", "done"}
  /\ asked \in {"no", "waiting", "answered"}
  /\ jobs \in [Jobs -> {"new", "runs", "waiting", "answered", "cancelled", "done"}]

\* nothing has been started, opened or cleaned up
Untouched == begun = {} /\ simPc = "absent" /\ mail["platform"] = "new" /\ ~bound /\ undone = <<>>

\* where the simulation has got to, and what it has started by then
SimPlaces ==
  /\ simPc # "absent" => mode = "concurrent"
  /\ mode = "concurrent" /\ simPc \in {"absent", "binds"} => "simulation" \notin begun
  /\ simPc \in {"inits", "updates", "between", "deinits"} => "simulation" \in begun
  /\ simPc = "awaits" => "simulation" \in begun \/ stop
  /\ Phase = "starts" /\ Left > 3 => simPc = "absent" /\ "simulation" \notin begun
  /\ Past(16) => simPc \in {"absent", "done"}
  /\ Phase = "fresh" \/ Phase = "leaves" => Untouched

\* the parts whose cleanup has been made by now
UndoneBy(c) ==
  IF c = "simulation" THEN IF mode = "concurrent" THEN simPc = "done" ELSE Past(15)
  ELSE Past(IF c = "platform" THEN 7 ELSE IF c = "input" THEN 4 ELSE 2)
Cleaned == {c \in begun : UndoneBy(c)}

CleanedSoFar == undone = Reversed(Cleaned)

Unbound == Past(3) => ~bound

\* no place after the workers' end has work, and nothing can be added to it
WorkOver ==
  \/ mail["platform"] = "closed" \/ \E i \in DOMAIN undone : undone[i] # "simulation"
  \/ Phase = "gone" \/ (Phase = "ends" /\ Left < 12) \/ (Phase = "leaves" /\ Left < 3)
WorkKept ==
  /\ \A j \in Jobs : jobs[j] = "waiting" => mail["platform"] = "open"
  /\ \A j \in Jobs : jobs[j] # "cancelled"
  /\ (Phase = "ends" /\ Left < 17) \/ (Phase = "leaves" /\ Left < 7) \/ WorkOver => closedToWork
  /\ WorkOver => WorkIdle

Capabilities == {"renderer", "input", "game", "simulationOwner"}
Stages == {"Unstarted", "Initializing", "Ready", "Stopping", "Quiescing", "Stopped"}
Rank == [Unstarted |-> 0, Initializing |-> 0, Ready |-> 1, Stopping |-> 2, Quiescing |-> 3, Stopped |-> 4]
Causes == {"None", "AcceptedRequest", "StopRequested", "Failure", "WindowClose"}

Places == Steps \cup {"none", "maintenance", "cycle", "simulation_bind", "game_simulation_init", "game_update"}

Snapshots == [stage : Stages, sequence : Nat, reachedReady : BOOLEAN, stopRequested : BOOLEAN,
              initialized : SUBSET Capabilities, pending : BOOLEAN,
              verdict : {"none", "committed", "superseded"}, cause : Causes,
              outcome : {"Pending", "Completed", "Failed"}, primary : Places, secondary : Nat,
              closed : BOOLEAN]

LifeTypes ==
  /\ life \in Snapshots /\ notified \in Seq(Snapshots)
  /\ initialized \in SUBSET Capabilities /\ cause \in Causes
  /\ thrown \in Nat
  /\ failure \in Places /\ simFailure \in Places /\ seenFailure \in Places

\* the simulation's failure is not yet the session's, nor among its secondary ones
Unseen == simFailure # seenFailure /\ ~Past(16)
One(b) == IF b THEN 1 ELSE 0

FailureBooks ==
  /\ life.stage # "Unstarted" => thrown = life.secondary + One(failure # "none") + One(Unseen)
  /\ Phase = "fresh" => thrown = 0 /\ life.secondary = 0 /\ failure = "none"
  /\ Phase = "fresh" \/ Before => seenFailure = "none"
  /\ seenFailure \in {"none", simFailure}
  /\ simFailure # "none" => simPc \in {"closes", "deinits", "done"}
  /\ simFailure = "simulation_bind" => "simulation" \notin begun
  /\ Before /\ failure # "none" => stop /\ Phase = "starts" /\ Left < 4
  /\ life.stage = "Stopped" => Over /\ life.primary = failure /\ (life.outcome = "Failed" <=> failure # "none")

\* the milestone a place has come to, and what has been established by then
StagePlaces ==
  /\ Phase = "fresh" => life.stage = "Unstarted"
  /\ Before \/ (Phase = "ends" /\ Left = 18) \/ (Phase = "leaves" /\ Left = 8) =>
        life.stage \in {"Initializing", "Ready"}
  /\ (Phase = "ends" /\ Left < 18) \/ (Phase = "leaves" /\ Left < 8) =>
        life.stage \in {"Stopping", "Quiescing"} /\ ~life.pending
  /\ Over => life.stage \in {"Unstarted", "Stopped"}

PartPlaces ==
  /\ Phase = "starts" /\ Left < 10 => "renderer" \in initialized
  /\ (Phase = "starts" /\ Left < 8) \/ Phase \in {"boots", "cycles"} => {"renderer", "input"} \subseteq initialized
  /\ (Phase = "starts" /\ Left < 9) \/ Phase = "cycles" =>
        mode = "concurrent" \/ "simulationOwner" \in initialized
  /\ "game" \in initialized => "simulationOwner" \in initialized
  /\ Phase = "boots" => mode = "concurrent"
  /\ Phase = "starts" /\ Left = 3 => mode = "concurrent" \/ "game" \in initialized \/ stop
  /\ Phase = "starts" /\ Left = 2 => "game" \in initialized

ToldOf(n, l) ==
  /\ n.sequence <= l.sequence /\ n.reachedReady = l.reachedReady
  /\ Rank[n.stage] > 0 /\ Rank[n.stage] <= Rank[l.stage]
  /\ n.stage = "Ready" => ~n.stopRequested /\ n.initialized = Capabilities
  /\ n.verdict = "committed" => n.cause = "AcceptedRequest"
  /\ n.stage # "Ready" => ~n.pending

\* ns were told of a session that is now at l
ToldIn(ns, l) ==
  /\ \A i \in DOMAIN ns : ToldOf(ns[i], l)
  /\ \A i, k \in DOMAIN ns : i < k =>
        ns[i].sequence < ns[k].sequence /\ Rank[ns[i].stage] < Rank[ns[k].stage]
  /\ ns # <<>> => ns[Len(ns)].stage = l.stage
  /\ l.verdict = "committed" => l.cause = "AcceptedRequest"
  /\ Rank[l.stage] > 1 => ~l.pending

Told == ToldIn(notified, life)

LifeInv == LifeTypes /\ FailureBooks /\ StagePlaces /\ PartPlaces /\ Told

DownInv == Types /\ Shape /\ SimPlaces /\ CleanedSoFar /\ Unbound /\ WorkKept
--------------------
\* Places in a plan.

UpHeads(t) ==
  \/ Len(t) = 10 /\ Head(t) = "renderer"
  \/ Len(t) = 9 /\ Head(t) = "mailboxes"
  \/ Len(t) = 8 /\ Head(t) = "input"
  \/ Len(t) = 7 /\ Head(t) = "platform"
  \/ Len(t) = 6 /\ Head(t) = "dispatch"
  \/ Len(t) = 5 /\ Head(t) = "window"
  \/ Len(t) = 4 /\ Head(t) = "simulation"
  \/ Len(t) = 3 /\ Head(t) = "announce"
  \/ Len(t) = 2 /\ Head(t) = "ready"
  \/ Len(t) = 1 /\ Head(t) = "play"
EarlyHeads(t) ==
  \/ Len(t) = 8 /\ Head(t) = "starting"
  \/ Len(t) = 7 /\ Head(t) = "closeWork"
  \/ Len(t) = 6 /\ Head(t) = "closeSimulation"
  \/ Len(t) = 5 /\ Head(t) = "quiescing"
  \/ Len(t) = 4 /\ Head(t) = "closePlatform"
  \/ Len(t) = 3 /\ Head(t) = "finishWork"
  \/ Len(t) = 2 /\ Head(t) = "collection"
  \/ Len(t) = 1 /\ Head(t) = "finish"
DownHeads(t, m) ==
  \/ Len(t) = 18 /\ Head(t) = "starting"
  \/ Len(t) = 17 /\ Head(t) = "closeWork"
  \/ Len(t) = 16 /\ Head(t) = (IF m = "sequential" THEN "closeSimulation" ELSE "settle")
  \/ Len(t) = 15 /\ Head(t) = (IF m = "sequential" THEN "undoSimulation" ELSE "closeSimulation")
  \/ Len(t) = 14 /\ Head(t) = "quiesce"
  \/ Len(t) = 13 /\ Head(t) = "quiescing"
  \/ Len(t) = 12 /\ Head(t) = "pump"
  \/ Len(t) = 11 /\ Head(t) = "finishWork"
  \/ Len(t) = 10 /\ Head(t) = "native"
  \/ Len(t) = 9 /\ Head(t) = "closePlatform"
  \/ Len(t) = 8 /\ Head(t) = "frames"
  \/ Len(t) = 7 /\ Head(t) = "undoPlatform"
  \/ Len(t) = 6 /\ Head(t) = "collection"
  \/ Len(t) = 5 /\ Head(t) = "maintain"
  \/ Len(t) = 4 /\ Head(t) = "undoInput"
  \/ Len(t) = 3 /\ Head(t) = "unbind"
  \/ Len(t) = 2 /\ Head(t) = "undoRenderer"
  \/ Len(t) = 1 /\ Head(t) = "finish"

Joins(u, s, t, n, k) ==
  /\ u \in Seq(Steps) /\ Len(u) = n + k
  /\ \A i \in 1..n : u[i] = s[i]
  /\ \A i \in 1..k : u[n + i] = t[i]

LEMMA Joined ==
  ASSUME NEW s \in Seq(Steps), NEW t \in Seq(Steps), NEW n \in Nat, NEW k \in Nat, Len(s) = n, Len(t) = k
  PROVE  Joins(s \o t, s, t, n, k)
<1>1. \A i \in 1..(n + k) : (s \o t)[i] = IF i <= n THEN s[i] ELSE t[i - n] BY ConcatProperties
<1>2. ASSUME NEW i \in 1..k PROVE (s \o t)[n + i] = t[i]
 <2>1. n + i \in 1..(n + k) /\ ~(n + i <= n) /\ (n + i) - n = i OBVIOUS
 <2> QED BY <2>1, <1>1
<1>3. ASSUME NEW i \in 1..n PROVE (s \o t)[i] = s[i]
 <2>1. i \in 1..(n + k) /\ i <= n OBVIOUS
 <2> QED BY <2>1, <1>1
<1>4. s \o t \in Seq(Steps) /\ Len(s \o t) = n + k BY ConcatProperties
<1> QED BY <1>2, <1>3, <1>4 DEF Joins

\* l steps of a plan of n are left
Stands(plan, n, t, l) ==
  /\ Len(t) = l /\ t = SubSeq(plan, n + 1 - l, n) /\ t # <<>>
  /\ Head(t) = plan[n + 1 - l] /\ Len(Tail(t)) = l - 1
  /\ l > 1 => RestOf(plan, Tail(t))

LEMMA RestFacts ==
  ASSUME NEW plan \in Seq(Steps), NEW n \in Nat, Len(plan) = n, NEW t, RestOf(plan, t)
  PROVE  t \in Seq(Steps) /\ Tail(t) \in Seq(Steps) /\ \E l \in 1..n : Stands(plan, n, t, l)
<1>1. PICK k \in 1..n : t = SubSeq(plan, k, n) BY DEF RestOf
<1>2. k \in Nat /\ k >= 1 /\ k <= n OBVIOUS
<1>3. /\ t \in Seq(Steps) /\ Len(t) = n - k + 1
      /\ \A i \in 1..(n - k + 1) : t[i] = plan[k + i - 1]
  BY <1>1, <1>2, SubSeqProperties
<1>4. PICK l \in 1..n : l = n - k + 1 /\ k = n + 1 - l BY <1>2
<1>5. Len(t) = l /\ t # <<>> BY <1>3, <1>4
<1>6. Head(t) = t[1] /\ t[1] = plan[k] BY <1>2, <1>3, <1>4, <1>5
<1>7. Tail(t) \in Seq(Steps) /\ Len(Tail(t)) = l - 1 /\ \A i \in 1..(l - 1) : Tail(t)[i] = t[i + 1]
  BY <1>3, <1>5, HeadTailProperties
<1>8. ASSUME l > 1 PROVE RestOf(plan, Tail(t))
 <2>1. k + 1 \in 1..n /\ n - (k + 1) + 1 = l - 1 BY <1>2, <1>4, <1>8
 <2> DEFINE u == SubSeq(plan, k + 1, n)
 <2>2. u \in Seq(Steps) /\ Len(u) = n - (k + 1) + 1
       /\ \A i \in 1..(n - (k + 1) + 1) : u[i] = plan[(k + 1) + i - 1]
   BY <2>1, SubSeqProperties
 <2> HIDE DEF u
 <2>3. Len(u) = l - 1 /\ \A i \in 1..(l - 1) : u[i] = plan[k + i] BY <2>1, <2>2
 <2>4. \A i \in 1..(l - 1) : t[i + 1] = plan[k + i] BY <1>2, <1>3, <1>4
 <2>5. \A i \in 1..Len(u) : u[i] = Tail(t)[i] BY <2>3, <2>4, <1>7
 <2>6. u = Tail(t) BY <2>2, <2>3, <2>5, <1>7, SeqEqual
 <2> QED BY <2>1, <2>6 DEF RestOf, u
<1>9. t = SubSeq(plan, n + 1 - l, n) /\ Head(t) = plan[n + 1 - l] BY <1>1, <1>4, <1>6
<1>10. Stands(plan, n, t, l) BY <1>5, <1>7, <1>8, <1>9 DEF Stands
<1> QED BY <1>3, <1>7, <1>10

LEMMA UpPlan == StartUp \in Seq(Steps) /\ Len(StartUp) = 10
  BY DEF StartUp, Steps

LEMMA EarlyPlan == EarlyTearDown \in Seq(Steps) /\ Len(EarlyTearDown) = 8
  BY DEF EarlyTearDown, Steps

LEMMA LatePlan == LateTearDown \in Seq(Steps) /\ Len(LateTearDown) = 14
  BY DEF LateTearDown, Steps

LEMMA DownPlan ==
  ASSUME NEW m
  PROVE  /\ TearDownIn(m) \in Seq(Steps) /\ Len(TearDownIn(m)) = 18
         /\ TearDownIn(m)[1] = "starting" /\ TearDownIn(m)[2] = "closeWork"
         /\ TearDownIn(m)[3] = IF m = "sequential" THEN "closeSimulation" ELSE "settle"
         /\ TearDownIn(m)[4] = IF m = "sequential" THEN "undoSimulation" ELSE "closeSimulation"
         /\ \A i \in 1..14 : TearDownIn(m)[4 + i] = LateTearDown[i]
<1>1. PICK a : a = <<"starting", "closeWork">> OBVIOUS
<1>2. a \in Seq(Steps) /\ Len(a) = 2 /\ a[1] = "starting" /\ a[2] = "closeWork" BY <1>1 DEF Steps
<1>3. PICK b : b = IF m = "sequential" THEN <<"closeSimulation", "undoSimulation">>
                                       ELSE <<"settle", "closeSimulation">>
  OBVIOUS
<1>4. b \in Seq(Steps) /\ Len(b) = 2
      /\ b[1] = (IF m = "sequential" THEN "closeSimulation" ELSE "settle")
      /\ b[2] = (IF m = "sequential" THEN "undoSimulation" ELSE "closeSimulation")
 <2>1. CASE m = "sequential" BY <2>1, <1>3 DEF Steps
 <2>2. CASE m # "sequential" BY <2>2, <1>3 DEF Steps
 <2> QED BY <2>1, <2>2
<1>5. PICK c : c = a \o b OBVIOUS
<1>6. /\ c \in Seq(Steps) /\ Len(c) = 4
      /\ c[1] = a[1] /\ c[2] = a[2] /\ c[3] = b[1] /\ c[4] = b[2]
 <2>1. Joins(c, a, b, 2, 2) BY <1>2, <1>4, <1>5, Joined
 <2> QED BY <2>1 DEF Joins
<1>7. PICK d : d = LateTearDown OBVIOUS
<1>8. PICK e : e = c \o d OBVIOUS
<1>9. TearDownIn(m) = e BY <1>1, <1>3, <1>5, <1>7, <1>8 DEF TearDownIn
<1>10. Joins(e, c, d, 4, 14) BY <1>6, <1>7, <1>8, LatePlan, Joined
<1>11. /\ e \in Seq(Steps) /\ Len(e) = 18
       /\ e[1] = c[1] /\ e[2] = c[2] /\ e[3] = c[3] /\ e[4] = c[4]
       /\ \A i \in 1..14 : e[4 + i] = d[i]
  BY <1>10 DEF Joins
<1> QED BY <1>2, <1>4, <1>6, <1>7, <1>9, <1>11

LEMMA UpFacts ==
  ASSUME NEW t, RestOf(StartUp, t)
  PROVE  UpHeads(t)
<1>1. PICK l \in 1..10 : Stands(StartUp, 10, t, l) BY UpPlan, RestFacts
<1>2. Len(t) = l /\ Head(t) = StartUp[10 + 1 - l] BY <1>1 DEF Stands
<1> QED BY <1>2 DEF UpHeads, StartUp

LEMMA EarlyFacts ==
  ASSUME NEW t, RestOf(EarlyTearDown, t)
  PROVE  EarlyHeads(t)
<1>1. PICK l \in 1..8 : Stands(EarlyTearDown, 8, t, l) BY EarlyPlan, RestFacts
<1>2. Len(t) = l /\ Head(t) = EarlyTearDown[8 + 1 - l] BY <1>1 DEF Stands
<1> QED BY <1>2 DEF EarlyHeads, EarlyTearDown

LEMMA DownFacts ==
  ASSUME NEW t, NEW m, RestOf(TearDownIn(m), t)
  PROVE  DownHeads(t, m)
<1>1. PICK l \in 1..18 : Stands(TearDownIn(m), 18, t, l) BY DownPlan, RestFacts
<1>2. Len(t) = l /\ Head(t) = TearDownIn(m)[18 + 1 - l] BY <1>1 DEF Stands
<1>3. CASE l > 14
 <2>1. l = 15 \/ l = 16 \/ l = 17 \/ l = 18 BY <1>3
 <2>2. CASE l = 15
  <3>1. Head(t) = TearDownIn(m)[4] /\ Len(t) = 15 BY <2>2, <1>2
  <3> QED BY <3>1, DownPlan DEF DownHeads
 <2>3. CASE l = 16
  <3>1. Head(t) = TearDownIn(m)[3] /\ Len(t) = 16 BY <2>3, <1>2
  <3> QED BY <3>1, DownPlan DEF DownHeads
 <2>4. CASE l = 17
  <3>1. Head(t) = TearDownIn(m)[2] /\ Len(t) = 17 BY <2>4, <1>2
  <3> QED BY <3>1, DownPlan DEF DownHeads
 <2>5. CASE l = 18
  <3>1. Head(t) = TearDownIn(m)[1] /\ Len(t) = 18 BY <2>5, <1>2
  <3> QED BY <3>1, DownPlan DEF DownHeads
 <2> QED BY <2>1, <2>2, <2>3, <2>4, <2>5
<1>4. CASE l <= 14
 <2>1. PICK i \in 1..14 : i = 15 - l /\ 4 + i = 18 + 1 - l BY <1>4
 <2>2. TearDownIn(m)[4 + i] = LateTearDown[i] BY DownPlan
 <2>3. Head(t) = LateTearDown[i] BY <2>1, <2>2, <1>2
 <2> QED BY <2>1, <2>3, <1>2, <1>4, SMTT(40) DEF DownHeads, LateTearDown
<1> QED BY <1>3, <1>4
--------------------
\* Phases.

LEMMA Heads ==
  ASSUME NEW t, NEW m
  PROVE  /\ PhaseOf(t, m) = "fresh" => t = <<"run">>
         /\ PhaseOf(t, m) = "boots" => t = Booting
         /\ PhaseOf(t, m) = "cycles" => t = Cycling
         /\ PhaseOf(t, m) = "starts" => RestOf(StartUp, t) /\ UpHeads(t)
         /\ PhaseOf(t, m) = "leaves" => RestOf(EarlyTearDown, t) /\ EarlyHeads(t) /\ Len(t) # 1
         /\ PhaseOf(t, m) = "ends" => RestOf(TearDownIn(m), t) /\ DownHeads(t, m)
         /\ PhaseOf(t, m) = "ended" => t = <<"destroy">>
         /\ PhaseOf(t, m) = "gone" => t = <<>>
         /\ PhaseOf(t, m) \in {"fresh", "boots", "cycles", "starts", "leaves", "ends", "ended", "gone", "lost"}
  BY UpFacts, EarlyFacts, DownFacts DEF PhaseOf

LEMMA UpIs ==
  ASSUME NEW t, NEW m, RestOf(StartUp, t)
  PROVE  PhaseOf(t, m) = "starts"
<1>1. UpHeads(t) BY UpFacts
<1>2. t # <<"run">> /\ t # Booting /\ t # Cycling BY <1>1 DEF UpHeads, Booting, Cycling
<1> QED BY <1>2 DEF PhaseOf

LEMMA EarlyIs ==
  ASSUME NEW t, NEW m, RestOf(EarlyTearDown, t), Len(t) # 1
  PROVE  PhaseOf(t, m) = "leaves"
<1>1. EarlyHeads(t) BY EarlyFacts
<1>2. t # <<"run">> /\ t # Booting /\ t # Cycling BY <1>1 DEF EarlyHeads, Booting, Cycling
<1>3. ~RestOf(StartUp, t)
 <2>1. ~UpHeads(t) BY <1>1 DEF UpHeads, EarlyHeads
 <2> QED BY <2>1, UpFacts
<1> QED BY <1>2, <1>3 DEF PhaseOf

LEMMA DownIs ==
  ASSUME NEW t, NEW m, RestOf(TearDownIn(m), t)
  PROVE  PhaseOf(t, m) = "ends"
<1>1. DownHeads(t, m) BY DownFacts
<1>2. t # <<"run">> /\ t # Booting /\ t # Cycling BY <1>1 DEF DownHeads, Booting, Cycling
<1>3. ~RestOf(StartUp, t)
 <2>1. ~UpHeads(t) BY <1>1 DEF UpHeads, DownHeads
 <2> QED BY <2>1, UpFacts
<1>4. ~(RestOf(EarlyTearDown, t) /\ Len(t) # 1)
 <2>1. Len(t) # 1 => ~EarlyHeads(t) BY <1>1 DEF EarlyHeads, DownHeads
 <2> QED BY <2>1, EarlyFacts
<1> QED BY <1>2, <1>3, <1>4 DEF PhaseOf

LEMMA GoneIs ==
  ASSUME NEW m
  PROVE  PhaseOf(<<>>, m) = "gone" /\ PhaseOf(<<"destroy">>, m) = "ended" /\ PhaseOf(<<"run">>, m) = "fresh"
<1>1. ASSUME NEW t, t = <<>> \/ t = <<"destroy">>
      PROVE  ~RestOf(StartUp, t) /\ ~RestOf(EarlyTearDown, t) /\ ~RestOf(TearDownIn(m), t)
 <2>1. ~UpHeads(t) /\ ~EarlyHeads(t) /\ ~DownHeads(t, m) BY <1>1 DEF UpHeads, EarlyHeads, DownHeads
 <2> QED BY <2>1, UpFacts, EarlyFacts, DownFacts
<1>2. PhaseOf(<<>>, m) = "gone" BY <1>1, SMTT(40) DEF PhaseOf, Booting, Cycling
<1>3. PhaseOf(<<"destroy">>, m) = "ended" BY <1>1, SMTT(40) DEF PhaseOf, Booting, Cycling
<1> QED BY <1>2, <1>3 DEF PhaseOf

\* Where the owner is when it comes to a step.
LEMMA Located ==
  ASSUME mode \in {"sequential", "concurrent"}, Shape
  PROVE
    /\ At("run") => Phase = "fresh" /\ Left = 1
    /\ At("boot") => Phase = "boots" /\ Left = 4
    /\ At("cycle") => Phase = "cycles" /\ Left = 2
    /\ At("renderer") => Phase = "starts" /\ Left = 10
    /\ At("mailboxes") => Phase = "starts" /\ Left = 9
    /\ At("input") => Phase = "starts" /\ Left = 8
    /\ At("platform") => Phase = "starts" /\ Left = 7
    /\ At("dispatch") => Phase = "starts" /\ Left = 6
    /\ At("window") => Phase = "starts" /\ Left = 5
    /\ At("simulation") => Phase = "starts" /\ Left = 4
    /\ At("announce") => Phase = "starts" /\ Left = 3
    /\ At("ready") => Phase = "starts" /\ Left = 2
    /\ At("play") => Phase = "starts" /\ Left = 1
    /\ At("starting") => \/ Phase = "leaves" /\ Left = 8
                         \/ Phase = "ends" /\ Left = 18
    /\ At("closeWork") => \/ Phase = "leaves" /\ Left = 7
                          \/ Phase = "ends" /\ Left = 17
    /\ At("closeSimulation") => \/ Phase = "leaves" /\ Left = 6
                                \/ Phase = "ends" /\ Left = 16 /\ mode = "sequential"
                                \/ Phase = "ends" /\ Left = 15 /\ mode = "concurrent"
    /\ At("quiescing") => \/ Phase = "leaves" /\ Left = 5
                          \/ Phase = "ends" /\ Left = 13
    /\ At("closePlatform") => \/ Phase = "leaves" /\ Left = 4
                              \/ Phase = "ends" /\ Left = 9
    /\ At("finishWork") => \/ Phase = "leaves" /\ Left = 3
                           \/ Phase = "ends" /\ Left = 11
    /\ At("collection") => \/ Phase = "leaves" /\ Left = 2
                           \/ Phase = "ends" /\ Left = 6
    /\ At("undoSimulation") => Phase = "ends" /\ Left = 15 /\ mode = "sequential"
    /\ At("settle") => Phase = "ends" /\ Left = 16 /\ mode = "concurrent"
    /\ At("quiesce") => Phase = "ends" /\ Left = 14
    /\ At("pump") => Phase = "ends" /\ Left = 12
    /\ At("native") => Phase = "ends" /\ Left = 10
    /\ At("frames") => Phase = "ends" /\ Left = 8
    /\ At("undoPlatform") => Phase = "ends" /\ Left = 7
    /\ At("maintain") => Phase = "ends" /\ Left = 5
    /\ At("undoInput") => Phase = "ends" /\ Left = 4
    /\ At("unbind") => Phase = "ends" /\ Left = 3
    /\ At("undoRenderer") => Phase = "ends" /\ Left = 2
    /\ At("finish") => Phase = "ends" /\ Left = 1
    /\ At("destroy") => Phase = "ended" /\ Left = 1
<1> USE DEF At, Left, Phase
<1>1. CASE Phase = "fresh" BY <1>1, Heads
<1>2. CASE Phase = "boots" BY <1>2, Heads DEF Booting
<1>3. CASE Phase = "cycles" BY <1>3, Heads DEF Cycling
<1>4. CASE Phase = "starts" BY <1>4, Heads DEF UpHeads
<1>5. CASE Phase = "leaves" BY <1>5, Heads DEF EarlyHeads
<1>6. CASE Phase = "ends" BY <1>6, Heads DEF DownHeads
<1>7. CASE Phase = "ended" BY <1>7, Heads
<1>8. CASE Phase = "gone" BY <1>8, Heads
<1> QED BY <1>1, <1>2, <1>3, <1>4, <1>5, <1>6, <1>7, <1>8, Heads DEF Shape

\* Where a move takes the owner.
Stays(t, m, place, left) == PhaseOf(t, m) = place /\ Len(t) = left

LEMMA StepOn ==
  ASSUME NEW t, NEW m, NEW l \in Nat, Len(t) = l
  PROVE  /\ PhaseOf(t, m) = "starts" /\ l > 1 => Stays(Tail(t), m, "starts", l - 1)
         /\ PhaseOf(t, m) = "boots" => Stays(Tail(t), m, "starts", 3)
         /\ PhaseOf(t, m) = "cycles" => Stays(Tail(t), m, "starts", 1)
         /\ PhaseOf(t, m) = "leaves" /\ l > 2 => Stays(Tail(t), m, "leaves", l - 1)
         /\ PhaseOf(t, m) = "leaves" /\ l = 2 => Stays(Tail(t), m, "ends", 1)
         /\ PhaseOf(t, m) = "ends" /\ l > 1 => Stays(Tail(t), m, "ends", l - 1)
         /\ PhaseOf(t, m) = "ended" => Stays(Tail(t), m, "gone", 0)
<1> USE DEF Stays
<1>1. ASSUME PhaseOf(t, m) = "starts", l > 1 PROVE Stays(Tail(t), m, "starts", l - 1)
 <2>1. PICK k \in 1..10 : Stands(StartUp, 10, t, k) BY <1>1, Heads, UpPlan, RestFacts
 <2>2. RestOf(StartUp, Tail(t)) /\ Len(Tail(t)) = l - 1 BY <2>1, <1>1 DEF Stands
 <2> QED BY <2>2, UpIs
<1>2. ASSUME PhaseOf(t, m) = "boots" PROVE Stays(Tail(t), m, "starts", 3)
 <2>1. PICK u : u = Tail(t) OBVIOUS
 <2>8. t = Booting BY <1>2, Heads
 <2>2. t \in Seq(Steps) /\ Len(t) = 4 /\ t # <<>> /\ t[2] = "announce" /\ t[3] = "ready" /\ t[4] = "play"
   BY <2>8 DEF Booting, Steps
 <2>9. u \in Seq(Steps) /\ Len(u) = 4 - 1 /\ \A i \in 1..Len(u) : u[i] = t[i + 1] BY <2>1, <2>2, HeadTailProperties
 <2>7. u \in Seq(Steps) /\ Len(u) = 3 /\ u[1] = "announce" /\ u[2] = "ready" /\ u[3] = "play" BY <2>2, <2>9
 <2>3. PICK v : v = SubSeq(StartUp, 8, 10) OBVIOUS
 <2>4. v \in Seq(Steps) /\ Len(v) = 3 /\ v[1] = "announce" /\ v[2] = "ready" /\ v[3] = "play" BY <2>3 DEF StartUp, Steps
 <2>5. u = v BY <2>4, <2>7, SeqEqual
 <2>6. RestOf(StartUp, u) BY <2>3, <2>5, UpPlan DEF RestOf
 <2> QED BY <2>1, <2>6, <2>7, UpIs
<1>3. ASSUME PhaseOf(t, m) = "cycles" PROVE Stays(Tail(t), m, "starts", 1)
 <2>1. PICK u : u = Tail(t) OBVIOUS
 <2>8. t = Cycling BY <1>3, Heads
 <2>2. t \in Seq(Steps) /\ Len(t) = 2 /\ t # <<>> /\ t[2] = "play" BY <2>8 DEF Cycling, Steps
 <2>9. u \in Seq(Steps) /\ Len(u) = Len(t) - 1 /\ \A i \in 1..Len(u) : u[i] = t[i + 1] BY <2>1, <2>2, HeadTailProperties
 <2>7. u \in Seq(Steps) /\ Len(u) = 1 /\ u[1] = "play"
  <3>1. Len(u) = 1 /\ u[1] = t[1 + 1] BY <2>2, <2>9
  <3> QED BY <2>2, <2>9, <3>1
 <2>3. PICK v : v = SubSeq(StartUp, 10, 10) OBVIOUS
 <2>4. v \in Seq(Steps) /\ Len(v) = 1 /\ v[1] = "play" BY <2>3 DEF StartUp, Steps
 <2>5. u = v BY <2>4, <2>7, SeqEqual
 <2>6. RestOf(StartUp, u) BY <2>3, <2>5, UpPlan DEF RestOf
 <2> QED BY <2>1, <2>6, <2>7, UpIs
<1>4. ASSUME PhaseOf(t, m) = "leaves"
      PROVE  /\ l > 2 => Stays(Tail(t), m, "leaves", l - 1)
             /\ l = 2 => Stays(Tail(t), m, "ends", 1)
 <2>1. PICK k \in 1..8 : Stands(EarlyTearDown, 8, t, k) BY <1>4, Heads, EarlyPlan, RestFacts
 <2>2. l > 1 => RestOf(EarlyTearDown, Tail(t)) /\ Len(Tail(t)) = l - 1 BY <2>1 DEF Stands
 <2>3. ASSUME l > 2 PROVE Stays(Tail(t), m, "leaves", l - 1)
  <3>1. RestOf(EarlyTearDown, Tail(t)) /\ Len(Tail(t)) = l - 1 /\ Len(Tail(t)) # 1 BY <2>2, <2>3
  <3> QED BY <3>1, EarlyIs
 <2>4. ASSUME l = 2 PROVE Stays(Tail(t), m, "ends", 1)
  <3>1. PICK u : u = Tail(t) OBVIOUS
  <3>2. RestOf(EarlyTearDown, u) /\ Len(u) = 1 BY <3>1, <2>2, <2>4
  <3>3. PICK j \in 1..8 : Stands(EarlyTearDown, 8, u, j) BY <3>2, EarlyPlan, RestFacts
  <3>4. u = SubSeq(EarlyTearDown, 8, 8) BY <3>2, <3>3 DEF Stands
  <3>5. u \in Seq(Steps) /\ Len(u) = 1 /\ u[1] = "finish" BY <3>4 DEF EarlyTearDown, Steps
  <3>6. PICK v : v = SubSeq(TearDownIn(m), 18, 18) OBVIOUS
  <3>7. TearDownIn(m)[18] = "finish" BY DownPlan DEF LateTearDown
  <3>8. v \in Seq(Steps) /\ Len(v) = 1 /\ v[1] = "finish" BY <3>6, <3>7, DownPlan DEF Steps
  <3>9. u = v BY <3>5, <3>8, SeqEqual
  <3>10. RestOf(TearDownIn(m), u)
   <4>1. Len(TearDownIn(m)) = 18 BY DownPlan
   <4>2. u = SubSeq(TearDownIn(m), 18, 18) /\ 18 \in 1..18 BY <3>6, <3>9
   <4> QED BY <4>1, <4>2 DEF RestOf
  <3> QED BY <3>1, <3>2, <3>10, DownIs
 <2> QED BY <2>3, <2>4
<1>5. ASSUME PhaseOf(t, m) = "ends", l > 1 PROVE Stays(Tail(t), m, "ends", l - 1)
 <2>1. PICK k \in 1..18 : Stands(TearDownIn(m), 18, t, k) BY <1>5, Heads, DownPlan, RestFacts
 <2>2. RestOf(TearDownIn(m), Tail(t)) /\ Len(Tail(t)) = l - 1 BY <2>1, <1>5 DEF Stands
 <2> QED BY <2>2, DownIs
<1>6. ASSUME PhaseOf(t, m) = "ended" PROVE Stays(Tail(t), m, "gone", 0)
 <2>1. PICK u : u = Tail(t) OBVIOUS
 <2>5. t = <<"destroy">> BY <1>6, Heads
 <2>2. t \in Seq({"destroy"}) /\ Len(t) = 1 /\ t # <<>> BY <2>5
 <2>3. u \in Seq({"destroy"}) /\ Len(u) = 0 BY <2>1, <2>2, HeadTailProperties
 <2>4. u = <<>> /\ Len(<<>>) = 0 BY <2>3, EmptySeq
 <2> QED BY <2>1, <2>4, GoneIs
<1> QED BY <1>1, <1>2, <1>3, <1>4, <1>5, <1>6

LEMMA LeftNat ==
  ASSUME NEW t, NEW m, PhaseOf(t, m) # "lost"
  PROVE  Len(t) \in Nat
<1>1. PhaseOf(t, m) \in {"fresh", "boots", "cycles", "starts", "leaves", "ends", "ended", "gone"} BY Heads
<1>2. CASE PhaseOf(t, m) = "starts" BY <1>2, Heads DEF UpHeads
<1>3. CASE PhaseOf(t, m) = "leaves" BY <1>3, Heads DEF EarlyHeads
<1>4. CASE PhaseOf(t, m) = "ends" BY <1>4, Heads DEF DownHeads
<1>5. CASE PhaseOf(t, m) \in {"fresh", "boots", "cycles", "ended", "gone"} BY <1>5, Heads DEF Booting, Cycling
<1> QED BY <1>1, <1>2, <1>3, <1>4, <1>5

LEMMA WholePlans ==
  ASSUME NEW m
  PROVE  /\ Stays(StartUp, m, "starts", 10) /\ Stays(EarlyTearDown, m, "leaves", 8)
         /\ Stays(TearDownIn(m), m, "ends", 18)
<1>1. ASSUME NEW plan \in Seq(Steps), NEW n \in Nat \ {0}, Len(plan) = n PROVE RestOf(plan, plan)
 <2>1. PICK v : v = SubSeq(plan, 1, n) OBVIOUS
 <2>2. v \in Seq(Steps) /\ Len(v) = n /\ \A i \in 1..n : v[i] = plan[i] BY <2>1, <1>1, SubSeqProperties
 <2>3. plan = v BY <2>2, <1>1, SeqEqual
 <2> QED BY <2>1, <2>3, <1>1 DEF RestOf
<1>2. PhaseOf(StartUp, m) = "starts" BY <1>1, UpPlan, UpIs
<1>3. PhaseOf(EarlyTearDown, m) = "leaves" BY <1>1, EarlyPlan, EarlyIs, SMTT(40)
<1>4. PhaseOf(TearDownIn(m), m) = "ends" BY <1>1, DownPlan, DownIs, SMTT(40)
<1> QED BY <1>2, <1>3, <1>4, UpPlan, EarlyPlan, DownPlan DEF Stays

LEMMA Detours ==
  ASSUME NEW t, NEW m, PhaseOf(t, m) = "starts"
  PROVE  /\ Len(t) = 4 => Stays(<<"boot">> \o Tail(t), m, "boots", 4)
         /\ Len(t) = 1 => Stays(<<"cycle">> \o t, m, "cycles", 2)
         /\ Len(t) = 3 => Stays(Tail(Tail(t)), m, "starts", 1)
<1>1. PICK k \in 1..10 : Stands(StartUp, 10, t, k) BY Heads, UpPlan, RestFacts
<1>2. t \in Seq(Steps) BY Heads, UpPlan, RestFacts
<1>3. Len(t) = k /\ t = SubSeq(StartUp, 10 + 1 - k, 10) /\ t # <<>> BY <1>1 DEF Stands
<1>4. ASSUME k = 4 PROVE Stays(<<"boot">> \o Tail(t), m, "boots", 4)
 <2>1. t = SubSeq(StartUp, 7, 10) /\ Len(t) = 4 BY <1>3, <1>4
 <2>2. t[2] = "announce" /\ t[3] = "ready" /\ t[4] = "play" BY <2>1 DEF StartUp
 <2>3. PICK u : u = Tail(t) OBVIOUS
 <2>4. u \in Seq(Steps) /\ Len(u) = 4 - 1 /\ \A i \in 1..Len(u) : u[i] = t[i + 1]
   BY <2>1, <2>3, <1>2, <1>3, HeadTailProperties
 <2>5. Len(u) = 3 /\ u[1] = "announce" /\ u[2] = "ready" /\ u[3] = "play" BY <2>2, <2>4
 <2>6. PICK b : b = <<"boot">> OBVIOUS
 <2>7. b \in Seq(Steps) /\ Len(b) = 1 /\ b[1] = "boot" BY <2>6 DEF Steps
 <2>8. PICK v : v = b \o u OBVIOUS
 <2>9. Joins(v, b, u, 1, 3) BY <2>4, <2>5, <2>7, <2>8, Joined
 <2>10. v \in Seq(Steps) /\ Len(v) = 4 /\ v[1] = "boot" /\ v[2] = "announce" /\ v[3] = "ready" /\ v[4] = "play"
   BY <2>5, <2>7, <2>9 DEF Joins
 <2>11. v = Booting
  <3>1. Booting \in Seq(Steps) /\ Len(Booting) = 4 /\ Booting[1] = "boot" /\ Booting[2] = "announce"
        /\ Booting[3] = "ready" /\ Booting[4] = "play"
    BY DEF Booting, Steps
  <3> QED BY <2>10, <3>1, SeqEqual
 <2>12. v # <<"run">> BY <2>10
 <2> QED BY <2>3, <2>6, <2>8, <2>10, <2>11, <2>12 DEF Stays, PhaseOf
<1>5. ASSUME k = 1 PROVE Stays(<<"cycle">> \o t, m, "cycles", 2)
 <2>1. t = SubSeq(StartUp, 10, 10) /\ Len(t) = 1 BY <1>3, <1>5
 <2>2. t[1] = "play" BY <2>1 DEF StartUp
 <2>6. PICK b : b = <<"cycle">> OBVIOUS
 <2>7. b \in Seq(Steps) /\ Len(b) = 1 /\ b[1] = "cycle" BY <2>6 DEF Steps
 <2>8. PICK v : v = b \o t OBVIOUS
 <2>9. Joins(v, b, t, 1, 1) BY <1>2, <2>1, <2>7, <2>8, Joined
 <2>10. v \in Seq(Steps) /\ Len(v) = 2 /\ v[1] = "cycle" /\ v[2] = "play" BY <2>2, <2>7, <2>9 DEF Joins
 <2>11. v = Cycling
  <3>1. Cycling \in Seq(Steps) /\ Len(Cycling) = 2 /\ Cycling[1] = "cycle" /\ Cycling[2] = "play" BY DEF Cycling, Steps
  <3> QED BY <2>10, <3>1, SeqEqual
 <2>12. v # <<"run">> /\ v # Booting BY <2>10 DEF Booting
 <2> QED BY <2>6, <2>8, <2>10, <2>11, <2>12 DEF Stays, PhaseOf
<1>6. ASSUME k = 3 PROVE Stays(Tail(Tail(t)), m, "starts", 1)
 <2>1. ASSUME NEW u, NEW l \in Nat, Len(u) = l, l > 1, PhaseOf(u, m) = "starts"
       PROVE  PhaseOf(Tail(u), m) = "starts" /\ Len(Tail(u)) = l - 1
   BY <2>1, StepOn DEF Stays
 <2>2. PICK u : u = Tail(t) OBVIOUS
 <2>3. PICK v : v = Tail(u) OBVIOUS
 <2>4. Len(t) = 3 BY <1>3, <1>6
 <2>5. PhaseOf(u, m) = "starts" /\ Len(u) = 2 BY <2>1, <2>2, <2>4, SMTT(40)
 <2>6. PhaseOf(v, m) = "starts" /\ Len(v) = 1
  <3>1. PICK l \in Nat : l = 2 /\ l > 1 /\ l - 1 = 1 OBVIOUS
  <3>2. Len(u) = l /\ PhaseOf(u, m) = "starts" BY <2>5, <3>1
  <3>3. PhaseOf(Tail(u), m) = "starts" /\ Len(Tail(u)) = l - 1 BY <2>1, <3>1, <3>2
  <3> QED BY <2>3, <3>1, <3>3
 <2> QED BY <2>2, <2>3, <2>6 DEF Stays
<1> QED BY <1>3, <1>4, <1>5, <1>6

\* The same of the owner's own place.
LEMMA Moves ==
  ASSUME mode' = mode, Shape
  PROVE  /\ Left \in Nat
         /\ todo' = todo => Phase' = Phase /\ Left' = Left
         /\ Done /\ Phase = "starts" /\ Left > 1 => Phase' = "starts" /\ Left' = Left - 1
         /\ Done /\ Phase = "boots" => Phase' = "starts" /\ Left' = 3
         /\ Done /\ Phase = "cycles" => Phase' = "starts" /\ Left' = 1
         /\ Done /\ Phase = "leaves" /\ Left > 2 => Phase' = "leaves" /\ Left' = Left - 1
         /\ Done /\ Phase = "leaves" /\ Left = 2 => Phase' = "ends" /\ Left' = 1
         /\ Done /\ Phase = "ends" /\ Left > 1 => Phase' = "ends" /\ Left' = Left - 1
         /\ Done /\ Phase = "ended" => Phase' = "gone" /\ Left' = 0
         /\ todo' = StartUp => Phase' = "starts" /\ Left' = 10
         /\ todo' = EarlyTearDown => Phase' = "leaves" /\ Left' = 8
         /\ todo' = TearDown => Phase' = "ends" /\ Left' = 18
         /\ todo' = <<"destroy">> => Phase' = "ended" /\ Left' = 1
         /\ todo' = <<"boot">> \o Tail(todo) /\ Phase = "starts" /\ Left = 4 => Phase' = "boots" /\ Left' = 4
         /\ todo' = <<"cycle">> \o todo /\ Phase = "starts" /\ Left = 1 => Phase' = "cycles" /\ Left' = 2
         /\ todo' = Tail(Tail(todo)) /\ Phase = "starts" /\ Left = 3 => Phase' = "starts" /\ Left' = 1
<1> USE DEF Phase, Left
<1>1. Left \in Nat BY LeftNat DEF Shape
<1>2. todo' = todo => Phase' = Phase /\ Left' = Left OBVIOUS
<1>3. ASSUME Done PROVE
           /\ Phase = "starts" /\ Left > 1 => Phase' = "starts" /\ Left' = Left - 1
           /\ Phase = "boots" => Phase' = "starts" /\ Left' = 3
           /\ Phase = "cycles" => Phase' = "starts" /\ Left' = 1
           /\ Phase = "leaves" /\ Left > 2 => Phase' = "leaves" /\ Left' = Left - 1
           /\ Phase = "leaves" /\ Left = 2 => Phase' = "ends" /\ Left' = 1
           /\ Phase = "ends" /\ Left > 1 => Phase' = "ends" /\ Left' = Left - 1
           /\ Phase = "ended" => Phase' = "gone" /\ Left' = 0
  BY <1>1, <1>3, StepOn DEF Done, Stays
<1>4. todo' = StartUp => Phase' = "starts" /\ Left' = 10 BY WholePlans DEF Stays
<1>5. todo' = EarlyTearDown => Phase' = "leaves" /\ Left' = 8 BY WholePlans DEF Stays
<1>6. todo' = TearDown => Phase' = "ends" /\ Left' = 18
 <2>1. TearDown = TearDownIn(mode) BY DEF TearDown, TearDownIn
 <2> QED BY <2>1, WholePlans DEF Stays
<1>7. todo' = <<"destroy">> => Phase' = "ended" /\ Left' = 1 BY GoneIs
<1>8. todo' = <<"boot">> \o Tail(todo) /\ Phase = "starts" /\ Left = 4 => Phase' = "boots" /\ Left' = 4
  BY Detours DEF Stays
<1>9. todo' = <<"cycle">> \o todo /\ Phase = "starts" /\ Left = 1 => Phase' = "cycles" /\ Left' = 2 BY Detours DEF Stays
<1>10. todo' = Tail(Tail(todo)) /\ Phase = "starts" /\ Left = 3 => Phase' = "starts" /\ Left' = 1 BY Detours DEF Stays
<1> QED BY <1>1, <1>2, <1>3, <1>4, <1>5, <1>6, <1>7, <1>8, <1>9, <1>10
--------------------
\* The tear-down: what a step keeps.

PartsSame == UNCHANGED <<mode, begun, undone, bound, mail>>

\* jobs may be served or end by themselves, but none is added or cancelled
JobsServed ==
  /\ jobs' \in [Jobs -> {"new", "runs", "waiting", "answered", "cancelled", "done"}]
  /\ \A j \in Jobs : /\ jobs'[j] \in {jobs[j], "answered", "done"}
                     /\ jobs[j] \in {"new", "done"} => jobs'[j] = jobs[j]
  /\ closedToWork' = closedToWork
  /\ stop' \in BOOLEAN /\ (stop => stop') /\ asked' \in {"no", "waiting", "answered"}

\* the owner's places between which nothing but the owner need change
QuietMove ==
  \/ Phase' = Phase /\ Left' = Left
  \/ /\ Before /\ Before'
     /\ Phase' = "starts" /\ Left' > 3 => Phase = "starts" /\ Left > 3
  \/ Phase = "fresh" /\ Phase' = "starts"
  \/ Phase = "fresh" /\ Phase' = "leaves" /\ Left' = 8
  \/ Before /\ Phase' = "ends" /\ Left' = 18
  \/ /\ Phase = "ends" /\ Phase' = "ends" /\ Left' = Left - 1
     /\ Left \in {18, 16, 14, 13, 12, 11, 10, 9, 8, 6, 5}
     /\ Left = 16 => mode = "concurrent" /\ simPc \in {"absent", "done"}
     /\ Left = 12 => WorkIdle
  \/ /\ Phase = "leaves" /\ Phase' = "leaves" /\ Left' = Left - 1
     /\ Left # 7 /\ Left > 2 /\ (Left = 3 => WorkIdle)
  \/ Phase = "leaves" /\ Left = 2 /\ Phase' = "ends" /\ Left' = 1
  \/ Phase = "ends" /\ Left = 1 /\ Over'

LEMMA CleanedStays ==
  ASSUME CleanedSoFar, undone' = undone, Cleaned' = Cleaned
  PROVE  CleanedSoFar'
  BY DEF CleanedSoFar

LEMMA QuietKeeps ==
  ASSUME DownInv, PartsSame, JobsServed, simPc' = simPc, QuietMove, Left \in Nat
  PROVE  DownInv'
<1> USE DEF DownInv, PartsSame
<1>1. Types' BY DEF Types, JobsServed
<1>2. Shape' BY DEF Shape, QuietMove, Before, Over
<1>3. SimPlaces' BY DEF SimPlaces, QuietMove, Before, Over, Past, Untouched, Types, JobsServed
<1>4. CleanedSoFar'
 <2>1. \A c \in begun : UndoneBy(c)' <=> UndoneBy(c)
   BY DEF UndoneBy, QuietMove, Before, Over, Past, Untouched, Types, SimPlaces
 <2>2. Cleaned' = Cleaned BY <2>1 DEF Cleaned
 <2> QED BY <2>2, CleanedStays
<1>5. Unbound' BY DEF Unbound, QuietMove, Before, Over, Past, Untouched, Types, SimPlaces
<1>6. WorkKept'
 <2>1. WorkIdle => WorkIdle' BY DEF WorkIdle, JobsServed
 <2>2. WorkOver' => WorkOver \/ (WorkIdle /\ closedToWork) BY DEF WorkOver, QuietMove, Before, Over, WorkKept
 <2> QED BY <2>1, <2>2 DEF WorkKept, JobsServed, QuietMove, Before, Over
<1> QED BY <1>1, <1>2, <1>3, <1>4, <1>5, <1>6

LEMMA JobsKept ==
  ASSUME Types, UNCHANGED <<jobs, closedToWork>>, stop' \in BOOLEAN, stop => stop', asked' \in {"no", "waiting", "answered"}
  PROVE  JobsServed
  BY DEF Types, JobsServed

LEMMA DrainServes ==
  ASSUME Types, Drain, stop' \in BOOLEAN, stop => stop'
  PROVE  JobsServed
  BY DEF Types, JobsServed, Drain, Served

LEMMA InPlace ==
  ASSUME mode' = mode, todo' = todo
  PROVE  QuietMove
  BY DEF QuietMove, Phase, Left

USE DEF ownerVars, stopVars, failVars, lifeVars, simVars, workVars

LEMMA RunQuiet ==
  ASSUME DownInv, Run
  PROVE  DownInv'
<1> USE DEF DownInv
<1>1. Phase = "fresh" /\ (Phase' = "starts" \/ (Phase' = "leaves" /\ Left' = 8)) BY Located, Moves DEF Types, Run
<1>2. PartsSame /\ simPc' = simPc BY DEF Run, PartsSame, Drain, Pump
<1>3. JobsServed BY JobsKept DEF Run, Types, ForceStop
<1>4. QuietMove BY <1>1, Moves DEF QuietMove, Before, Over
<1> QED BY <1>1, <1>2, <1>3, <1>4, Moves, QuietKeeps DEF PartsSame

LEMMA DispatchQuiet ==
  ASSUME DownInv, Dispatch
  PROVE  DownInv'
<1> USE DEF DownInv
<1>1. Phase = "starts" /\ Left = 6 /\ Phase' = "starts" /\ Left' = 5 BY Located, Moves, SMTT(40) DEF Types, Dispatch
<1>2. PartsSame /\ simPc' = simPc BY DEF Dispatch, PartsSame, Drain, Pump
<1>3. JobsServed BY JobsKept, DrainServes DEF Dispatch, Types, ForceStop, Pump
<1>4. QuietMove BY <1>1, Moves DEF QuietMove, Before, Over
<1> QED BY <1>1, <1>2, <1>3, <1>4, Moves, QuietKeeps DEF PartsSame

LEMMA SelectWindowQuiet ==
  ASSUME DownInv, SelectWindow
  PROVE  DownInv'
<1> USE DEF DownInv
<1>1. /\ Phase = "starts" /\ Left = 5
      /\ (Phase' = "starts" /\ Left' = 4) \/ (Phase' = "ends" /\ Left' = 18)
  BY Located, Moves, SMTT(40) DEF Types, SelectWindow, EnterTearDown
<1>2. PartsSame /\ simPc' = simPc BY DEF SelectWindow, PartsSame, Drain, Pump
<1>3. JobsServed BY JobsKept DEF SelectWindow, Types, ForceStop
<1>4. QuietMove BY <1>1, Moves DEF QuietMove, Before, Over
<1> QED BY <1>1, <1>2, <1>3, <1>4, Moves, QuietKeeps DEF PartsSame

LEMMA AnnounceQuiet ==
  ASSUME DownInv, Announce
  PROVE  DownInv'
<1> USE DEF DownInv
<1>1. /\ Phase = "starts" /\ Left = 3
      /\ (Phase' = "starts" /\ Left' \in {1, 2}) \/ (Phase' = "ends" /\ Left' = 18)
  BY Located, Moves, SMTT(40) DEF Types, Announce, EnterTearDown, Done
<1>2. PartsSame /\ simPc' = simPc BY DEF Announce, PartsSame, Drain, Pump
<1>3. JobsServed BY JobsKept DEF Announce, Types, ForceStop
<1>4. QuietMove BY <1>1, Moves DEF QuietMove, Before, Over
<1> QED BY <1>1, <1>2, <1>3, <1>4, Moves, QuietKeeps DEF PartsSame

LEMMA PublishReadyQuiet ==
  ASSUME DownInv, PublishReady
  PROVE  DownInv'
<1> USE DEF DownInv
<1>1. Phase = "starts" /\ Left = 2 /\ Phase' = "starts" /\ Left' = 1 BY Located, Moves DEF Types, PublishReady
<1>2. PartsSame /\ simPc' = simPc BY DEF PublishReady, PartsSame, Drain, Pump
<1>3. JobsServed BY JobsKept DEF PublishReady, Types, ForceStop
<1>4. QuietMove BY <1>1, Moves DEF QuietMove, Before, Over
<1> QED BY <1>1, <1>2, <1>3, <1>4, Moves, QuietKeeps DEF PartsSame

LEMMA PlayQuiet ==
  ASSUME DownInv, Play
  PROVE  DownInv'
<1> USE DEF DownInv
<1>1. /\ Phase = "starts" /\ Left = 1
      /\ (Phase' = "cycles" /\ Left' = 2) \/ (Phase' = "ends" /\ Left' = 18)
  BY Located, Moves DEF Types, Play, EnterTearDown
<1>2. PartsSame /\ simPc' = simPc BY DEF Play, PartsSame, Drain, Pump
<1>3. JobsServed BY JobsKept DEF Play, Types, ForceStop
<1>4. QuietMove BY <1>1, Moves DEF QuietMove, Before, Over
<1> QED BY <1>1, <1>2, <1>3, <1>4, Moves, QuietKeeps DEF PartsSame

LEMMA CycleQuiet ==
  ASSUME DownInv, Cycle
  PROVE  DownInv'
<1> USE DEF DownInv
<1>1. /\ Phase = "cycles" /\ Left = 2
      /\ (Phase' = "starts" /\ Left' = 1) \/ (Phase' = "ends" /\ Left' = 18)
  BY Located, Moves DEF Types, Cycle, EnterTearDown
<1>2. PartsSame /\ simPc' = simPc BY DEF Cycle, PartsSame, Drain, Pump
<1>3. JobsServed BY JobsKept, DrainServes DEF Cycle, Types, ForceStop, Pump
<1>4. QuietMove BY <1>1, Moves DEF QuietMove, Before, Over
<1> QED BY <1>1, <1>2, <1>3, <1>4, Moves, QuietKeeps DEF PartsSame

LEMMA PublishStartingQuiet ==
  ASSUME DownInv, PublishStarting
  PROVE  DownInv'
<1> USE DEF DownInv
<1>1. \/ Phase = "leaves" /\ Left = 8 /\ Phase' = "leaves" /\ Left' = 7
      \/ Phase = "ends" /\ Left = 18 /\ Phase' = "ends" /\ Left' = 17
  BY Located, Moves DEF Types, PublishStarting
<1>2. PartsSame /\ simPc' = simPc BY DEF PublishStarting, PartsSame, Drain, Pump
<1>3. JobsServed
 <2>1. UNCHANGED <<jobs, closedToWork, asked>> /\ stop' = TRUE BY DEF PublishStarting, ForceStop
 <2> QED BY <2>1, JobsKept DEF Types
<1>4. QuietMove BY <1>1, Moves DEF QuietMove, Before, Over
<1> QED BY <1>1, <1>2, <1>3, <1>4, Moves, QuietKeeps DEF PartsSame

LEMMA PublishQuiescingQuiet ==
  ASSUME DownInv, PublishQuiescing
  PROVE  DownInv'
<1> USE DEF DownInv
<1>1. \/ Phase = "leaves" /\ Left = 5 /\ Phase' = "leaves" /\ Left' = 4
      \/ Phase = "ends" /\ Left = 13 /\ Phase' = "ends" /\ Left' = 12
  BY Located, Moves DEF Types, PublishQuiescing
<1>2. PartsSame /\ simPc' = simPc BY DEF PublishQuiescing, PartsSame, Drain, Pump
<1>3. JobsServed BY JobsKept DEF PublishQuiescing, Types, ForceStop
<1>4. QuietMove BY <1>1, Moves DEF QuietMove, Before, Over
<1> QED BY <1>1, <1>2, <1>3, <1>4, Moves, QuietKeeps DEF PartsSame

LEMMA BootQuiet ==
  ASSUME DownInv, Boot
  PROVE  DownInv'
<1> USE DEF DownInv
<1>1. /\ Phase = "boots" /\ Left = 4
      /\ (Phase' = Phase /\ Left' = Left) \/ (Phase' = "starts" /\ Left' = 3)
  BY Located, Moves DEF Types, Boot, Pump
<1>2. PartsSame /\ simPc' = simPc BY DEF Boot, PartsSame, Drain, Pump
<1>3. JobsServed
 <2>1. stop' \in BOOLEAN /\ (stop => stop')
  <3>1. stop' = stop \/ stop' = TRUE BY DEF Boot, ForceStop, Pump
  <3> QED BY <3>1 DEF Types
 <2>2. Drain \/ UNCHANGED <<jobs, closedToWork, asked>> BY DEF Boot, Pump
 <2> QED BY <2>1, <2>2, JobsKept, DrainServes DEF Types
<1>4. QuietMove BY <1>1, Moves DEF QuietMove, Before, Over
<1> QED BY <1>1, <1>2, <1>3, <1>4, Moves, QuietKeeps DEF PartsSame

LEMMA SettleQuiet ==
  ASSUME DownInv, Settle
  PROVE  DownInv'
<1> USE DEF DownInv
<1>1. /\ Phase = "ends" /\ Left = 16 /\ mode = "concurrent"
      /\ \/ Phase' = Phase /\ Left' = Left
         \/ simPc \in {"absent", "done"} /\ Phase' = "ends" /\ Left' = 15
  BY Located, Moves DEF Types, Settle, Pump
<1>2. PartsSame /\ simPc' = simPc BY DEF Settle, PartsSame, Drain, Pump
<1>3. JobsServed BY JobsKept, DrainServes DEF Settle, Types, ForceStop, Pump
<1>4. QuietMove BY <1>1, Moves DEF QuietMove, Before, Over
<1> QED BY <1>1, <1>2, <1>3, <1>4, Moves, QuietKeeps DEF PartsSame

LEMMA PumpWorkQuiet ==
  ASSUME DownInv, PumpWork
  PROVE  DownInv'
<1> USE DEF DownInv
<1>1. /\ Phase = "ends" /\ Left = 12
      /\ (Phase' = Phase /\ Left' = Left) \/ (WorkIdle /\ Phase' = "ends" /\ Left' = 11)
  BY Located, Moves DEF Types, PumpWork, Pump
<1>2. PartsSame /\ simPc' = simPc BY DEF PumpWork, PartsSame, Drain, Pump
<1>3. JobsServed BY JobsKept, DrainServes DEF PumpWork, Types, ForceStop, Pump
<1>4. QuietMove BY <1>1, Moves DEF QuietMove, Before, Over
<1> QED BY <1>1, <1>2, <1>3, <1>4, Moves, QuietKeeps DEF PartsSame

LEMMA FinishWorkQuiet ==
  ASSUME DownInv, FinishWork
  PROVE  DownInv'
<1> USE DEF DownInv
<1>1. \/ WorkIdle /\ Phase = "leaves" /\ Left = 3 /\ Phase' = "leaves" /\ Left' = 2
      \/ Phase = "ends" /\ Left = 11 /\ Phase' = "ends" /\ Left' = 10
  BY Located, Moves DEF Types, FinishWork
<1>2. PartsSame /\ simPc' = simPc BY DEF FinishWork, PartsSame, Drain, Pump
<1>3. JobsServed BY JobsKept DEF FinishWork, Types, ForceStop
<1>4. QuietMove BY <1>1, Moves DEF QuietMove, Before, Over
<1> QED BY <1>1, <1>2, <1>3, <1>4, Moves, QuietKeeps DEF PartsSame

LEMMA VisitQuiet ==
  ASSUME DownInv, Visit
  PROVE  DownInv'
<1> USE DEF DownInv
<1>1. \/ Phase = "leaves" /\ Left = 2 /\ Phase' = "ends" /\ Left' = 1
      \/ Phase = "ends" /\ Left \in {14, 10, 8, 6, 5} /\ Phase' = "ends" /\ Left' = Left - 1
  BY Located, Moves DEF Types, Visit, Needs
<1>2. PartsSame /\ simPc' = simPc BY DEF Visit, PartsSame, Drain, Pump
<1>3. JobsServed BY JobsKept DEF Visit, Types, ForceStop
<1>4. QuietMove BY <1>1, Moves DEF QuietMove, Before, Over
<1> QED BY <1>1, <1>2, <1>3, <1>4, Moves, QuietKeeps DEF PartsSame

LEMMA FinishRunQuiet ==
  ASSUME DownInv, FinishRun
  PROVE  DownInv'
<1> USE DEF DownInv
<1>1. Phase = "ends" /\ Left = 1 /\ Phase' = "ended" BY Located, Moves DEF Types, FinishRun
<1>2. PartsSame /\ simPc' = simPc BY DEF FinishRun, PartsSame, Drain, Pump
<1>3. JobsServed BY JobsKept DEF FinishRun, Types, ForceStop
<1>4. QuietMove BY <1>1, Moves DEF QuietMove, Before, Over
<1> QED BY <1>1, <1>2, <1>3, <1>4, Moves, QuietKeeps DEF PartsSame

LEMMA ProcessShutdownQuiet ==
  ASSUME DownInv, ProcessShutdown
  PROVE  DownInv'
<1> USE DEF DownInv
<1>1. PartsSame /\ simPc' = simPc /\ todo' = todo BY DEF ProcessShutdown, PartsSame
<1>2. JobsServed BY JobsKept DEF ProcessShutdown, Types, ForceStop
<1>3. QuietMove BY <1>1, InPlace DEF PartsSame
<1> QED BY <1>1, <1>2, <1>3, Moves, QuietKeeps DEF PartsSame

LEMMA SimAsksQuiet ==
  ASSUME DownInv, SimAsks
  PROVE  DownInv'
<1> USE DEF DownInv
<1>1. PartsSame /\ simPc' = simPc /\ todo' = todo BY DEF SimAsks, PartsSame
<1>2. JobsServed BY JobsKept DEF SimAsks, Types, ForceStop
<1>3. QuietMove BY <1>1, InPlace DEF PartsSame
<1> QED BY <1>1, <1>2, <1>3, Moves, QuietKeeps DEF PartsSame

LEMMA StopElsewhereQuiet ==
  ASSUME DownInv, StopElsewhere
  PROVE  DownInv'
<1> USE DEF DownInv
<1>1. PartsSame /\ simPc' = simPc /\ todo' = todo BY DEF StopElsewhere, PartsSame
<1>2. JobsServed BY JobsKept DEF StopElsewhere, Types, ForceStop
<1>3. QuietMove BY <1>1, InPlace DEF PartsSame
<1> QED BY <1>1, <1>2, <1>3, Moves, QuietKeeps DEF PartsSame

LEMMA JobEndsQuiet ==
  ASSUME DownInv, NEW j \in Jobs, JobEnds(j)
  PROVE  DownInv'
<1> USE DEF DownInv
<1>1. PartsSame /\ simPc' = simPc /\ todo' = todo BY DEF JobEnds, PartsSame
<1>2. JobsServed BY DEF JobEnds, Types, JobsServed
<1>3. QuietMove BY <1>1, InPlace DEF PartsSame
<1> QED BY <1>1, <1>2, <1>3, Moves, QuietKeeps DEF PartsSame

\* Start-up: parts begin, nothing is undone.
StartMove ==
  \/ Phase' = "starts" /\ Left' = Left - 1
  \/ Phase' = "ends" /\ Left' = 18
  \/ Phase' = "boots"

LEMMA StartsKeep ==
  ASSUME DownInv, Phase = "starts", Left \in Nat, Left > 3, StartMove,
         UNCHANGED <<mode, undone, jobs, closedToWork, stop, asked>>,
         begun' \subseteq Components, bound' \in BOOLEAN,
         mail' \in [{"platform", "simulation"} -> {"new", "open", "closed"}],
         mail' = mail \/ mail'["platform"] = "open",
         simPc' = simPc \/ (simPc' = "binds" /\ mode = "concurrent" /\ Phase' = "boots"),
         "simulation" \in begun' => mode = "sequential" /\ ~(Phase' = "starts" /\ Left' > 3)
  PROVE  DownInv'
<1> USE DEF DownInv, StartMove
<1>1. Types' BY DEF Types
<1>2. Shape' BY DEF Shape
<1>3. SimPlaces' BY DEF SimPlaces, Past, Over, Types
<1>4. CleanedSoFar'
 <2>1. Cleaned = {} BY DEF Cleaned, UndoneBy, Past, Over, SimPlaces
 <2>2. Cleaned' = {} BY DEF Cleaned, UndoneBy, Past, Over, SimPlaces
 <2> QED BY <2>1, <2>2, CleanedStays
<1>5. Unbound' BY DEF Unbound, Past, Over
<1>6. WorkKept' BY DEF WorkKept, WorkOver, WorkIdle
<1> QED BY <1>1, <1>2, <1>3, <1>4, <1>5, <1>6

LEMMA StartUpKeeps ==
  ASSUME DownInv, Initialize \/ InitializeFails \/ OpenMailboxes \/ InitPlatform \/ InitSimulation \/ StartThread
  PROVE  DownInv'
<1> USE DEF DownInv, Begins
<1>1. ASSUME Initialize PROVE DownInv'
 <2>1. PICK step \in DOMAIN Adapter : At(step) /\ Done /\ begun' = begun \cup {Adapter[step]} BY <1>1 DEF Initialize
 <2>2. /\ Phase = "starts" /\ Left \in {8, 10} /\ Phase' = "starts" /\ Left' = Left - 1
       /\ Adapter[step] \in {"renderer", "input"}
   BY <1>1, <2>1, Located, Moves DEF Adapter, Types, Initialize
 <2>3. /\ UNCHANGED <<mode, undone, jobs, closedToWork, stop, asked, mail, simPc>>
       /\ bound' \in BOOLEAN
   BY <1>1 DEF Initialize, Types
 <2>4. begun' = begun \cup {"renderer"} \/ begun' = begun \cup {"input"} BY <2>1, <2>2
 <2>5. begun' \subseteq Components BY <2>4 DEF Types, Components
 <2>6. "simulation" \notin begun' BY <2>2, <2>4 DEF SimPlaces
 <2> QED BY <2>2, <2>3, <2>5, <2>6, StartsKeep DEF Types, StartMove
<1>2. ASSUME InitializeFails PROVE DownInv'
 <2>1. PICK step \in DOMAIN Adapter : At(step) /\ EnterTearDown(step) /\ begun' = begun \cup {Adapter[step]}
   BY <1>2 DEF InitializeFails
 <2>2. /\ Phase = "starts" /\ Left \in {8, 10} /\ Phase' = "ends" /\ Left' = 18
       /\ Adapter[step] \in {"renderer", "input"}
   BY <1>2, <2>1, Located, Moves DEF Adapter, Types, EnterTearDown, InitializeFails
 <2>3. UNCHANGED <<mode, undone, jobs, closedToWork, stop, asked, mail, simPc, bound>> BY <1>2 DEF InitializeFails
 <2>4. begun' = begun \cup {"renderer"} \/ begun' = begun \cup {"input"} BY <2>1, <2>2
 <2>5. begun' \subseteq Components BY <2>4 DEF Types, Components
 <2>6. "simulation" \notin begun' BY <2>2, <2>4 DEF SimPlaces
 <2> QED BY <2>2, <2>3, <2>5, <2>6, StartsKeep DEF Types, StartMove
<1>3. ASSUME OpenMailboxes PROVE DownInv'
 <2>1. Phase = "starts" /\ Left = 9 /\ Phase' = "starts" /\ Left' = 8
   BY <1>3, Located, Moves, SMTT(40) DEF OpenMailboxes, Types
 <2>2. /\ UNCHANGED <<mode, undone, jobs, closedToWork, stop, asked, simPc, bound, begun>>
       /\ mail' \in [{"platform", "simulation"} -> {"new", "open", "closed"}] /\ mail'["platform"] = "open"
   BY <1>3 DEF OpenMailboxes, Types
 <2>3. "simulation" \notin begun BY <2>1 DEF SimPlaces
 <2> QED BY <2>1, <2>2, <2>3, StartsKeep DEF Types, StartMove
<1>4. ASSUME InitPlatform PROVE DownInv'
 <2>1. /\ Phase = "starts" /\ Left = 7
       /\ (Phase' = "starts" /\ Left' = 6) \/ (Phase' = "ends" /\ Left' = 18)
   BY <1>4, Located, Moves DEF InitPlatform, Types, EnterTearDown
 <2>2. /\ UNCHANGED <<mode, undone, jobs, closedToWork, stop, asked, simPc, bound, mail>>
       /\ begun' = begun \cup {"platform"}
   BY <1>4 DEF InitPlatform
 <2>3. begun' \subseteq Components /\ "simulation" \notin begun' BY <2>1, <2>2 DEF SimPlaces, Types, Components
 <2> QED BY <2>1, <2>2, <2>3, StartsKeep DEF Types, StartMove
<1>5. ASSUME InitSimulation PROVE DownInv'
 <2>1. /\ Phase = "starts" /\ Left = 4 /\ mode = "sequential"
       /\ (Phase' = "starts" /\ Left' = 3) \/ (Phase' = "ends" /\ Left' = 18)
   BY <1>5, Located, Moves DEF InitSimulation, Types, EnterTearDown
 <2>2. /\ UNCHANGED <<mode, undone, jobs, closedToWork, stop, asked, simPc, bound, mail>>
       /\ begun' \in {begun, begun \cup {"simulation"}}
   BY <1>5 DEF InitSimulation
 <2>3. begun' \subseteq Components BY <2>2 DEF Types, Components
 <2> QED BY <2>1, <2>2, <2>3, StartsKeep DEF Types, StartMove
<1>6. ASSUME StartThread PROVE DownInv'
 <2>1. /\ Phase = "starts" /\ Left = 4 /\ mode = "concurrent"
       /\ \/ Phase' = "boots" /\ simPc' = "binds"
          \/ Phase' = "ends" /\ Left' = 18 /\ simPc' = simPc
   BY <1>6, Located, Moves DEF StartThread, Types, EnterTearDown
 <2>2. UNCHANGED <<mode, undone, jobs, closedToWork, stop, asked, bound, mail, begun>> BY <1>6 DEF StartThread
 <2>3. "simulation" \notin begun BY <2>1 DEF SimPlaces
 <2> QED BY <2>1, <2>2, <2>3, StartsKeep DEF Types, StartMove
<1> QED BY <1>1, <1>2, <1>3, <1>4, <1>5, <1>6

LEMMA RunRefusedKeeps ==
  ASSUME DownInv, RunRefused
  PROVE  DownInv'
<1> USE DEF DownInv
<1>1. Phase = "fresh" /\ Phase' = "ended" /\ Left' = 1 BY Located, Moves DEF RunRefused, Types
<1>2. /\ UNCHANGED <<mode, begun, undone, bound, mail, simPc, asked, jobs, closedToWork>> /\ stop' = TRUE
      /\ Untouched
  BY <1>1 DEF RunRefused, SimPlaces, ForceStop
<1>3. Types' /\ Shape' /\ SimPlaces' /\ Unbound'
  BY <1>1, <1>2 DEF Types, Shape, SimPlaces, Unbound, Untouched, Past, Over
<1>4. CleanedSoFar'
 <2>1. Cleaned = {} /\ Cleaned' = {} BY <1>2 DEF Cleaned, Untouched
 <2> QED BY <2>1, <1>2, CleanedStays
<1>5. WorkKept' BY <1>1, <1>2 DEF WorkKept, WorkOver, WorkIdle
<1> QED BY <1>3, <1>4, <1>5

\* The simulation's thread, which the owner has not joined yet.
LEMMA NotJoined ==
  ASSUME DownInv, simPc \notin {"absent", "done"}
  PROVE  /\ mode = "concurrent" /\ ~Past(16) /\ Phase \notin {"fresh", "leaves"}
         /\ ~(Phase = "starts" /\ Left > 3) /\ Cleaned = {} /\ undone = <<>>
<1> USE DEF DownInv
<1>1. /\ mode = "concurrent" /\ ~Past(16) /\ Phase \notin {"fresh", "leaves"}
      /\ ~(Phase = "starts" /\ Left > 3)
  BY DEF SimPlaces, Untouched
<1>2. Left \in Nat BY LeftNat DEF Shape, Phase, Left
<1>3. \A n \in {2, 4, 7} : ~Past(n) BY <1>1, <1>2 DEF Past
<1>4. Cleaned = {} BY <1>1, <1>3 DEF Cleaned, UndoneBy, Types, Components
<1>5. Reversed({}) = <<>>
 <2>1. <<>> \o <<>> = <<>> BY EmptySeq, ConcatEmptySeq
 <2> QED BY <2>1 DEF Reversed, Given
<1> QED BY <1>1, <1>4, <1>5 DEF CleanedSoFar

\* the simulation moves, and has not finished its cleanup
LEMMA SimKeeps ==
  ASSUME DownInv, simPc \notin {"absent", "done"}, Types',
         UNCHANGED <<mode, todo, undone, bound, jobs, closedToWork>>,
         mail'["platform"] = mail["platform"], begun' \in {begun, begun \cup {"simulation"}},
         simPc' # "absent", simPc' = "done" => "simulation" \notin begun',
         simPc' = "binds" => begun' = begun /\ simPc = "binds",
         simPc' \in {"inits", "updates", "between", "deinits"} => "simulation" \in begun',
         simPc' = "awaits" => "simulation" \in begun' \/ stop'
  PROVE  DownInv'
<1> USE DEF DownInv
<1>1. Phase' = Phase /\ Left' = Left BY Moves
<1>2. /\ mode = "concurrent" /\ ~Past(16) /\ Phase \notin {"fresh", "leaves"}
      /\ ~(Phase = "starts" /\ Left > 3) /\ Cleaned = {}
  BY NotJoined
<1>3. \A n : Past(n)' <=> Past(n) BY <1>1 DEF Past, Over
<1>4. Shape' /\ SimPlaces' /\ Unbound' BY <1>1, <1>2, <1>3 DEF Shape, SimPlaces, Unbound
<1>5. CleanedSoFar'
 <2>1. Left \in Nat BY LeftNat DEF Shape, Phase, Left
 <2>2. \A n \in {2, 4, 7} : ~Past(n) BY <1>2, <2>1 DEF Past
 <2>3. Cleaned' = {} BY <1>2, <1>3, <2>2 DEF Cleaned, UndoneBy, Types, Components
 <2> QED BY <1>2, <2>3, CleanedStays
<1>6. WorkKept' BY <1>1 DEF WorkKept, WorkOver, WorkIdle
<1> QED BY <1>4, <1>5, <1>6

LEMMA SimulationKeeps ==
  ASSUME DownInv, Simulation
  PROVE  DownInv'
<1> USE DEF DownInv, SimMoves
<1>1. ASSUME SimBinds PROVE DownInv'
 <2>1. /\ simPc = "binds" /\ UNCHANGED <<mode, todo, undone, bound, jobs, closedToWork, mail, stop>>
       /\ \/ simPc' = "awaits" /\ begun' = begun /\ stop
          \/ simPc' = "inits" /\ begun' = begun \cup {"simulation"}
       /\ asked' = "no"
   BY <1>1 DEF SimBinds, Begins
 <2>2. Types' BY <2>1 DEF Types, Components
 <2> QED BY <2>1, <2>2, SimKeeps
<1>2. ASSUME SimReturns PROVE DownInv'
 <2>1. /\ simPc \in {"inits", "updates"} /\ simPc' \in {"awaits", "between"} /\ asked' = "no"
       /\ UNCHANGED <<mode, todo, undone, bound, jobs, closedToWork, mail, begun, stop>>
   BY <1>2 DEF SimReturns, InCallback
 <2>2. Types' /\ "simulation" \in begun BY <2>1 DEF Types, SimPlaces
 <2> QED BY <2>1, <2>2, SimKeeps
<1>3. ASSUME SimProceeds PROVE DownInv'
 <2>1. /\ simPc \in {"awaits", "between"} /\ asked' = "no"
       /\ simPc' = IF stop THEN "closes" ELSE "updates"
       /\ UNCHANGED <<mode, todo, undone, bound, jobs, closedToWork, mail, begun, stop>>
   BY <1>3 DEF SimProceeds
 <2>2. Types' /\ ("simulation" \in begun \/ simPc' = "closes") BY <2>1 DEF Types, SimPlaces
 <2> QED BY <2>1, <2>2, SimKeeps
<1>4. ASSUME SimThrows PROVE DownInv'
 <2>1. /\ simPc \in {"binds", "inits", "updates"} /\ simPc' = "closes" /\ asked' = "no"
       /\ UNCHANGED <<mode, todo, undone, bound, jobs, closedToWork, mail, begun>> /\ stop' = TRUE
   BY <1>4 DEF SimThrows, InCallback, ForceStop
 <2>2. Types' BY <2>1 DEF Types
 <2> QED BY <2>1, <2>2, SimKeeps
<1>5. ASSUME SimCloses PROVE DownInv'
 <2>1. /\ simPc = "closes" /\ asked' = "no"
       /\ simPc' = IF "simulation" \in begun THEN "deinits" ELSE "done"
       /\ UNCHANGED <<mode, todo, undone, bound, jobs, closedToWork, begun, stop>>
       /\ mail' = [mail EXCEPT !["simulation"] = "closed"]
   BY <1>5 DEF SimCloses
 <2>2. Types' /\ mail'["platform"] = mail["platform"] BY <2>1 DEF Types
 <2> QED BY <2>1, <2>2, SimKeeps
<1>6. ASSUME SimEnds PROVE DownInv'
 <2>1. /\ simPc = "deinits" /\ asked' = "no" /\ simPc' = "done"
       /\ UNCHANGED <<mode, todo, bound, jobs, closedToWork, begun, stop, mail>>
       /\ undone' = Append(undone, "simulation")
   BY <1>6 DEF SimEnds
 <2>2. /\ mode = "concurrent" /\ ~Past(16) /\ Phase \notin {"fresh", "leaves"} /\ "simulation" \in begun
       /\ ~(Phase = "starts" /\ Left > 3) /\ Cleaned = {} /\ undone = <<>>
   BY <2>1, NotJoined DEF SimPlaces
 <2>3. Phase' = Phase /\ Left' = Left /\ Left \in Nat BY <2>1, Moves
 <2>4. undone' = <<"simulation">> BY <2>1, <2>2
 <2>5. Types' BY <2>1, <2>4 DEF Types, Components
 <2>6. \A n : Past(n)' <=> Past(n) BY <2>3 DEF Past, Over
 <2>7. Shape' /\ SimPlaces' /\ Unbound' BY <2>1, <2>2, <2>3, <2>6 DEF Shape, SimPlaces, Unbound
 <2>8. CleanedSoFar'
  <3>1. \A n \in {2, 4, 7} : ~Past(n) BY <2>2, <2>3 DEF Past
  <3>2. Cleaned' = {"simulation"} BY <2>1, <2>2, <2>6, <3>1 DEF Cleaned, UndoneBy, Types, Components
  <3>3. Reversed({"simulation"}) = <<"simulation">>
   <4>1. <<"simulation">> \o <<>> = <<"simulation">> BY ConcatEmptySeq
   <4> QED BY <4>1 DEF Reversed, Given
  <3> QED BY <2>4, <3>2, <3>3 DEF CleanedSoFar
 <2>9. WorkKept'
  <3>1. ~\E i \in DOMAIN undone' : undone'[i] # "simulation" BY <2>4
  <3> QED BY <2>1, <2>2, <2>3, <3>1 DEF WorkKept, WorkOver, WorkIdle
 <2> QED BY <2>5, <2>7, <2>8, <2>9
<1> QED BY <1>1, <1>2, <1>3, <1>4, <1>5, <1>6 DEF Simulation

\* Work comes in only while the context takes it.
LEMMA WorkKeeps ==
  ASSUME DownInv, NEW j \in Jobs, Submit(j) \/ JobAsks(j)
  PROVE  DownInv'
<1> USE DEF DownInv
<1>1. /\ UNCHANGED <<mode, todo, begun, undone, bound, mail, simPc, asked, closedToWork, stop>>
      /\ jobs' \in [Jobs -> {"new", "runs", "waiting", "answered", "cancelled", "done"}]
      /\ \A i \in Jobs : jobs'[i] = "waiting" => jobs[i] = "waiting" \/ mail["platform"] = "open"
      /\ \A i \in Jobs : jobs'[i] = "cancelled" => jobs[i] = "cancelled"
  BY DEF Submit, JobAsks, Types
<1>2. ~WorkOver
 <2>1. ~closedToWork \/ ~WorkIdle BY DEF Submit, JobAsks, WorkIdle
 <2> QED BY <2>1 DEF WorkKept
<1>3. Phase' = Phase /\ Left' = Left BY <1>1, Moves
<1>4. \A n : Past(n)' <=> Past(n) BY <1>3 DEF Past, Over
<1>5. Types' /\ Shape' /\ SimPlaces' /\ Unbound' BY <1>1, <1>3, <1>4 DEF Types, Shape, SimPlaces, Unbound, Untouched
<1>6. CleanedSoFar'
 <2>1. Cleaned' = Cleaned BY <1>1, <1>4 DEF Cleaned, UndoneBy
 <2> QED BY <2>1, <1>1, CleanedStays
<1>7. WorkKept' BY <1>1, <1>2, <1>3 DEF WorkKept, WorkOver
<1> QED BY <1>5, <1>6, <1>7

\* Tear-down: parts are undone in their order.
LEMMA ReversedGrows ==
  ASSUME NEW parts \in SUBSET Components, NEW c \in Components \ parts,
         c = "simulation" => parts = {},
         c = "platform" => parts \subseteq {"simulation"},
         c = "input" => parts \subseteq {"simulation", "platform"}
  PROVE  Reversed(parts \cup {c}) = Append(Reversed(parts), c)
<1> DEFINE G(x) == Given(x, parts)
           H(x) == Given(x, parts \cup {c})
<1>1. \A x \in Components : G(x) \in Seq(Components) BY EmptySeq DEF Given
<1>2. ASSUME NEW x \in Components, x # c PROVE Given(x, parts \cup {c}) = G(x) BY <1>2 DEF Given
<1>3. Given(c, parts \cup {c}) = <<c>> /\ G(c) = <<>> BY DEF Given
<1>4. \A s \in Seq(Components) : s \o <<>> = s /\ <<>> \o s = s BY ConcatEmptySeq
<1>5. <<>> \in Seq(Components) /\ <<c>> \in Seq(Components) BY EmptySeq
<1>6. \A s \in Seq(Components) : s \o <<c>> = Append(s, c) BY AppendIsConcat
<1>7. \A s, t \in Seq(Components) : s \o t \in Seq(Components) BY ConcatProperties
<1>8. \A x \in Components : x \notin parts => G(x) = <<>> BY DEF Given
<1>9. c \in {"simulation", "platform", "input", "renderer"} BY DEF Components
<1>14. \A x \in Components : x # c => H(x) = G(x) BY <1>2
<1>15. H(c) = <<c>> BY <1>3
<1>16. Reversed(parts) = G("simulation") \o G("platform") \o G("input") \o G("renderer") BY DEF Reversed, G
<1>17. Reversed(parts \cup {c}) = H("simulation") \o H("platform") \o H("input") \o H("renderer") BY DEF Reversed
<1> HIDE DEF G, H
<1>10. CASE c = "simulation"
 <2>1. G("simulation") = <<>> /\ G("platform") = <<>> /\ G("input") = <<>> /\ G("renderer") = <<>>
   BY <1>8, <1>10 DEF Components
 <2>2. H("simulation") = <<c>> /\ H("platform") = <<>> /\ H("input") = <<>> /\ H("renderer") = <<>>
   BY <2>1, <1>10, <1>14, <1>15 DEF Components
 <2>3. Reversed(parts \cup {c}) = <<c>> /\ Reversed(parts) = <<>> BY <2>1, <2>2, <1>4, <1>5, <1>16, <1>17
 <2> QED BY <2>3
<1>11. CASE c = "platform"
 <2>1. G("platform") = <<>> /\ G("input") = <<>> /\ G("renderer") = <<>> BY <1>8, <1>11 DEF Components
 <2>2. /\ H("simulation") = G("simulation") /\ H("platform") = <<c>>
       /\ H("input") = <<>> /\ H("renderer") = <<>> /\ G("simulation") \in Seq(Components)
   BY <2>1, <1>1, <1>11, <1>14, <1>15 DEF Components
 <2>4. G("simulation") \o <<c>> \in Seq(Components) BY <2>2, <1>5, <1>7
 <2>5. Reversed(parts \cup {c}) = G("simulation") \o <<c>>
  <3>1. PICK e \in Seq(Components) : e = G("simulation") \o <<c>> BY <2>4
  <3>2. e \o <<>> = e BY <1>4
  <3>3. Reversed(parts \cup {c}) = e \o <<>> \o <<>> BY <2>2, <3>1, <1>17
  <3> QED BY <3>1, <3>2, <3>3
 <2>3. Reversed(parts) = G("simulation") BY <2>1, <2>2, <1>4, <1>16
 <2> QED BY <2>2, <2>3, <2>5, <1>6
<1>12. CASE c = "input"
 <2>1. G("input") = <<>> /\ G("renderer") = <<>> BY <1>8, <1>12 DEF Components
 <2>2. /\ H("simulation") = G("simulation") /\ H("platform") = G("platform") /\ H("input") = <<c>>
       /\ H("renderer") = <<>> /\ G("simulation") \o G("platform") \in Seq(Components)
   BY <2>1, <1>1, <1>7, <1>12, <1>14, <1>15 DEF Components
 <2>4. (G("simulation") \o G("platform")) \o <<c>> \in Seq(Components) BY <2>2, <1>5, <1>7
 <2>3. /\ Reversed(parts \cup {c}) = (G("simulation") \o G("platform")) \o <<c>>
       /\ Reversed(parts) = G("simulation") \o G("platform")
   BY <2>1, <2>2, <2>4, <1>4, <1>16, <1>17
 <2> QED BY <2>2, <2>3, <1>6
<1>13. CASE c = "renderer"
 <2>1. G("renderer") = <<>> BY <1>8, <1>13 DEF Components
 <2>2. /\ H("simulation") = G("simulation") /\ H("platform") = G("platform") /\ H("input") = G("input")
       /\ H("renderer") = <<c>> /\ G("simulation") \o G("platform") \o G("input") \in Seq(Components)
   BY <1>1, <1>7, <1>13, <1>14, <1>15 DEF Components
 <2>3. /\ Reversed(parts \cup {c}) = (G("simulation") \o G("platform") \o G("input")) \o <<c>>
       /\ Reversed(parts) = G("simulation") \o G("platform") \o G("input")
   BY <2>1, <2>2, <1>4, <1>5, <1>7, <1>16, <1>17
 <2> QED BY <2>2, <2>3, <1>6
<1> QED BY <1>9, <1>10, <1>11, <1>12, <1>13

LEMMA UndoKeeps ==
  ASSUME DownInv, Undo
  PROVE  DownInv'
<1> USE DEF DownInv
<1>1. PICK step \in DOMAIN Cleanup :
         /\ At(step) /\ Done
         /\ undone' = IF Cleanup[step] \in begun THEN Append(undone, Cleanup[step]) ELSE undone
  BY DEF Undo
<1>2. PICK c : c = Cleanup[step] OBVIOUS
<1>3. /\ Phase = "ends" /\ Phase' = "ends" /\ Left' = Left - 1
      /\ \/ c = "simulation" /\ Left = 15 /\ mode = "sequential"
         \/ c = "platform" /\ Left = 7
         \/ c = "input" /\ Left = 4
         \/ c = "renderer" /\ Left = 2
  BY <1>1, <1>2, Located, Moves DEF Cleanup, Types, Undo
<1>4. UNCHANGED <<mode, begun, bound, mail, simPc, asked, stop, jobs, closedToWork>> BY DEF Undo
<1>5. undone' \in Seq(Components) BY <1>1, <1>2, <1>3, AppendProperties DEF Types
<1>6. Types' /\ Shape' /\ SimPlaces' /\ Unbound' BY <1>3, <1>4, <1>5 DEF Types, Shape, SimPlaces, Unbound, Past, Over
<1>7. Cleaned' = IF c \in begun THEN Cleaned \cup {c} ELSE Cleaned
 <2>1. \A d \in begun : UndoneBy(d)' <=> UndoneBy(d) \/ d = c
   BY <1>3, <1>4 DEF UndoneBy, Past, Over, SimPlaces, Types, Components
 <2> QED BY <2>1, <1>4 DEF Cleaned
<1>8. CleanedSoFar'
 <2>1. CASE c \notin begun BY <2>1, <1>1, <1>2, <1>7, CleanedStays
 <2>2. CASE c \in begun
  <3>1. Cleaned \in SUBSET Components /\ c \in Components \ Cleaned
    BY <2>2, <1>3 DEF Cleaned, UndoneBy, Past, Over, Types, Components
  <3>2. /\ c = "simulation" => Cleaned = {}
        /\ c = "platform" => Cleaned \subseteq {"simulation"}
        /\ c = "input" => Cleaned \subseteq {"simulation", "platform"}
    BY <1>3 DEF Cleaned, UndoneBy, Past, Over, Types, Components
  <3>3. Reversed(Cleaned \cup {c}) = Append(Reversed(Cleaned), c) BY <3>1, <3>2, ReversedGrows
  <3> QED BY <2>2, <3>3, <1>1, <1>2, <1>7 DEF CleanedSoFar
 <2> QED BY <2>1, <2>2
<1>9. WorkKept'
 <2>1. CASE undone' = undone BY <2>1, <1>3, <1>4 DEF WorkKept, WorkOver, WorkIdle
 <2>2. CASE Left < 12 BY <2>2, <1>3, <1>4 DEF WorkKept, WorkOver, WorkIdle
 <2>3. CASE c = "simulation" /\ undone' = Append(undone, c)
  <3>1. \A i \in DOMAIN undone' : undone'[i] = "simulation" \/ (i \in DOMAIN undone /\ undone'[i] = undone[i])
    BY <2>3, AppendProperties DEF Types, Components
  <3> QED BY <2>3, <3>1, <1>3, <1>4 DEF WorkKept, WorkOver, WorkIdle
 <2> QED BY <2>1, <2>2, <2>3, <1>1, <1>2, <1>3
<1> QED BY <1>6, <1>8, <1>9

\* The other steps of the tear-down.
LEMMA LeavingKeeps ==
  ASSUME DownInv, CloseWork \/ CloseMailbox \/ Unbind \/ Destroy
  PROVE  DownInv'
<1> USE DEF DownInv
<1>1. ASSUME CloseWork PROVE DownInv'
 <2>1. \/ Phase = "leaves" /\ Left = 7 /\ Phase' = "leaves" /\ Left' = 6
       \/ Phase = "ends" /\ Left = 17 /\ Phase' = "ends" /\ Left' = 16
   BY <1>1, Located, Moves DEF CloseWork, Types
 <2>2. /\ UNCHANGED <<mode, begun, undone, bound, mail, simPc, asked, stop, jobs>> /\ closedToWork' = TRUE
   BY <1>1 DEF CloseWork
 <2>3. Types' /\ Shape' /\ SimPlaces' /\ Unbound'
   BY <2>1, <2>2 DEF Types, Shape, SimPlaces, Unbound, Untouched, Past, Over
 <2>4. CleanedSoFar'
  <3>1. \A d \in begun : UndoneBy(d)' <=> UndoneBy(d) BY <2>1, <2>2 DEF UndoneBy, Past, Over
  <3>2. Cleaned' = Cleaned BY <3>1, <2>2 DEF Cleaned
  <3> QED BY <3>2, <2>2, CleanedStays
 <2>5. WorkKept' BY <2>1, <2>2 DEF WorkKept, WorkOver, WorkIdle
 <2> QED BY <2>3, <2>4, <2>5
<1>2. ASSUME CloseMailbox PROVE DownInv'
 <2>1. PICK step \in DOMAIN Target :
          /\ At(step) /\ Done
          /\ mail' = [mail EXCEPT ![Target[step]] = IF @ = "open" THEN "closed" ELSE @]
          /\ IF step = "closePlatform" /\ mail["platform"] = "open"
             THEN jobs' = [j \in Jobs |-> IF jobs[j] = "waiting" THEN "cancelled" ELSE jobs[j]]
             ELSE UNCHANGED jobs
   BY <1>2 DEF CloseMailbox
 <2>2. /\ UNCHANGED <<mode, begun, undone, bound, simPc, asked, stop, closedToWork>> BY <1>2 DEF CloseMailbox
 <2>3. \/ step = "closePlatform" /\ Target[step] = "platform"
       \/ step = "closeSimulation" /\ Target[step] = "simulation"
   BY DEF Target
 <2>4. \/ Phase = "leaves" /\ Left \in {4, 6} /\ Phase' = "leaves" /\ Left' = Left - 1
       \/ /\ Phase = "ends" /\ Phase' = "ends" /\ Left' = Left - 1
          /\ \/ step = "closePlatform" /\ Left = 9
             \/ step = "closeSimulation" /\ Left = 16 /\ mode = "sequential"
             \/ step = "closeSimulation" /\ Left = 15 /\ mode = "concurrent"
   BY <1>2, <2>1, <2>2, <2>3, Located, Moves DEF Types
 <2>5. /\ mail' \in [{"platform", "simulation"} -> {"new", "open", "closed"}]
       /\ step = "closeSimulation" => mail'["platform"] = mail["platform"]
       /\ mail["platform"] # "open" => mail'["platform"] = mail["platform"]
       /\ mail'["platform"] \in {mail["platform"], "closed"}
   BY <2>1, <2>3 DEF Types
 <2>6. Phase = "leaves" => mail["platform"] = "new" /\ mail'["platform"] = "new" BY <2>5 DEF SimPlaces, Untouched
 <2>7. jobs' = jobs
  <3>1. CASE step = "closePlatform" /\ mail["platform"] = "open"
   <4>1. WorkIdle BY <3>1, <2>4, <2>6 DEF WorkKept, WorkOver
   <4> QED BY <4>1, <3>1, <2>1 DEF WorkIdle, Types
  <3> QED BY <3>1, <2>1
 <2>8. Types' /\ Shape' /\ SimPlaces' /\ Unbound'
   BY <2>2, <2>4, <2>5, <2>6, <2>7 DEF Types, Shape, SimPlaces, Unbound, Untouched, Past, Over
 <2>9. CleanedSoFar'
  <3>1. \A d \in begun : UndoneBy(d)' <=> UndoneBy(d) BY <2>2, <2>4 DEF UndoneBy, Past, Over
  <3>2. Cleaned' = Cleaned BY <3>1, <2>2 DEF Cleaned
  <3> QED BY <3>2, <2>2, CleanedStays
 <2>10. WorkKept'
  <3>1. WorkOver' => WorkOver BY <2>2, <2>3, <2>4, <2>5, <2>6 DEF WorkOver
  <3>2. (Phase = "ends" /\ Left = 9) => WorkIdle BY DEF WorkKept, WorkOver
  <3>3. \A j \in Jobs : jobs[j] = "waiting" => mail'["platform"] = "open"
    BY <2>3, <2>4, <2>5, <2>6, <3>2 DEF WorkKept, WorkIdle
  <3> QED BY <3>1, <3>3, <2>2, <2>4, <2>7 DEF WorkKept, WorkIdle
 <2> QED BY <2>8, <2>9, <2>10
<1>3. ASSUME Unbind PROVE DownInv'
 <2>1. Phase = "ends" /\ Left = 3 /\ Phase' = "ends" /\ Left' = 2 BY <1>3, Located, Moves DEF Unbind, Types
 <2>2. /\ UNCHANGED <<mode, begun, undone, mail, simPc, asked, stop, jobs, closedToWork>> /\ bound' = FALSE
   BY <1>3 DEF Unbind
 <2>3. Types' /\ Shape' BY <2>1, <2>2 DEF Types, Shape
 <2>6. SimPlaces' BY <2>1, <2>2 DEF SimPlaces, Past, Over
 <2>7. Unbound' BY <2>2 DEF Unbound
 <2>4. CleanedSoFar'
  <3>1. \A d \in begun : UndoneBy(d)' <=> UndoneBy(d) BY <2>1, <2>2 DEF UndoneBy, Past, Over
  <3>2. Cleaned' = Cleaned BY <3>1, <2>2 DEF Cleaned
  <3> QED BY <3>2, <2>2, CleanedStays
 <2>5. WorkKept' BY <2>1, <2>2 DEF WorkKept, WorkOver, WorkIdle
 <2> QED BY <2>3, <2>4, <2>5, <2>6, <2>7
<1>4. ASSUME Destroy PROVE DownInv'
 <2>1. /\ Phase = "ended"
       /\ (Phase' = "ended" /\ Left' = Left) \/ (WorkIdle /\ Phase' = "gone")
   BY <1>4, Located, Moves DEF Destroy, Types
 <2>2. /\ UNCHANGED <<mode, begun, undone, bound, mail, simPc, asked, stop, jobs>> /\ closedToWork' = TRUE
   BY <1>4 DEF Destroy
 <2>3. Types' /\ Shape' BY <2>1, <2>2 DEF Types, Shape
 <2>6. SimPlaces' BY <2>1, <2>2 DEF SimPlaces, Past, Over
 <2>7. Unbound' BY <2>1, <2>2 DEF Unbound, Past, Over
 <2>4. CleanedSoFar'
  <3>1. \A d \in begun : UndoneBy(d)' <=> UndoneBy(d) BY <2>1, <2>2 DEF UndoneBy, Past, Over
  <3>2. Cleaned' = Cleaned BY <3>1, <2>2 DEF Cleaned
  <3> QED BY <3>2, <2>2, CleanedStays
 <2>5. WorkKept' BY <2>1, <2>2 DEF WorkKept, WorkOver, WorkIdle
 <2> QED BY <2>3, <2>4, <2>5, <2>6, <2>7
<1> QED BY <1>1, <1>2, <1>3, <1>4

LEMMA Stutter ==
  ASSUME DownInv, UNCHANGED sessionVars
  PROVE  DownInv'
<1> USE DEF DownInv, sessionVars
<1>1. PartsSame /\ simPc' = simPc /\ todo' = todo /\ mode' = mode BY DEF PartsSame
<1>2. JobsServed BY JobsKept DEF Types
<1>3. QuietMove BY <1>1, InPlace
<1> QED BY <1>1, <1>2, <1>3, Moves, QuietKeeps

LEMMA DownInit == SessionInit => DownInv
<1> SUFFICES ASSUME SessionInit PROVE DownInv OBVIOUS
<1> USE DEF SessionInit
<1>1. Phase = "fresh" BY GoneIs DEF Phase
<1>2. Types BY ModesAssumption, EmptySeq DEF Types, Components
<1>3. Shape /\ SimPlaces /\ Unbound BY <1>1 DEF Shape, SimPlaces, Unbound, Untouched, Past, Over
<1>4. CleanedSoFar
 <2>1. Cleaned = {} BY DEF Cleaned
 <2>2. Reversed({}) = <<>>
  <3>1. <<>> \o <<>> = <<>> BY EmptySeq, ConcatEmptySeq
  <3> QED BY <3>1 DEF Reversed, Given
 <2> QED BY <2>1, <2>2 DEF CleanedSoFar
<1>5. WorkKept
 <2>1. DOMAIN undone = {} OBVIOUS
 <2> QED BY <1>1, <2>1 DEF WorkKept, WorkOver, WorkIdle
<1> QED BY <1>2, <1>3, <1>4, <1>5 DEF DownInv

LEMMA DownNext == DownInv /\ [SessionNext]_sessionVars => DownInv'
<1> SUFFICES ASSUME DownInv, [SessionNext]_sessionVars PROVE DownInv' OBVIOUS
<1>1. CASE OwnerStep
  BY <1>1, RunQuiet, DispatchQuiet, SelectWindowQuiet, AnnounceQuiet, PublishReadyQuiet, PlayQuiet, CycleQuiet,
    PublishStartingQuiet, PublishQuiescingQuiet, BootQuiet, SettleQuiet, PumpWorkQuiet, FinishWorkQuiet, VisitQuiet,
    FinishRunQuiet, StartUpKeeps, RunRefusedKeeps, UndoKeeps, LeavingKeeps DEF OwnerStep
<1>2. CASE Simulation BY <1>2, SimulationKeeps
<1>3. CASE ProcessShutdown \/ SimAsks \/ StopElsewhere BY <1>3, ProcessShutdownQuiet, SimAsksQuiet, StopElsewhereQuiet
<1>4. CASE \E j \in Jobs : Submit(j) \/ JobAsks(j) \/ JobEnds(j) BY <1>4, WorkKeeps, JobEndsQuiet
<1>5. CASE UNCHANGED sessionVars BY <1>5, Stutter
<1> QED BY <1>1, <1>2, <1>3, <1>4, <1>5 DEF SessionNext

LEMMA DownAlways == SessionSpec => []DownInv
  BY DownInit, DownNext, PTL DEF SessionSpec

--------------------
\* The parts cleaned up are a beginning of the whole order.
LEMMA Beginning ==
  ASSUME NEW s \in Seq(Components), NEW t \in Seq(Components)
  PROVE  s = SubSeq(s \o t, 1, Len(s))
<1>1. PICK n \in Nat : n = Len(s) BY LenProperties
<1>2. PICK k \in Nat : k = Len(t) BY LenProperties
<1>3. PICK u : u = s \o t OBVIOUS
<1>4. u \in Seq(Components) /\ Len(u) = n + k /\ \A i \in 1..n : u[i] = s[i] BY <1>1, <1>2, <1>3, ConcatProperties
<1>5. PICK v : v = SubSeq(u, 1, n) OBVIOUS
<1>6. \A i \in 1..n : u[i] \in Components BY <1>1, <1>4, ElementOfSeq
<1>7. v \in Seq(Components) /\ Len(v) = n /\ \A i \in 1..n : v[i] = u[i] BY <1>5, <1>6, SubSeqProperties
<1>8. v = s BY <1>1, <1>4, <1>7, SeqEqual
<1> QED BY <1>1, <1>3, <1>5, <1>8

LEMMA Regrouped == \A s, t, u \in Seq(Components) : (s \o t) \o u = s \o (t \o u)
  BY ConcatAssociative, SMTT(40)

LEMMA Prefixes ==
  ASSUME NEW parts \in SUBSET Components, NEW over \in SUBSET parts,
         "platform" \in over /\ "simulation" \in parts => "simulation" \in over,
         "input" \in over => parts \cap {"simulation", "platform"} \subseteq over,
         "renderer" \in over => over = parts
  PROVE  \E rest \in Seq(Components) : Reversed(parts) = Reversed(over) \o rest
<1> DEFINE G(x) == Given(x, parts)
           H(x) == Given(x, over)
<1>1. \A x \in Components : G(x) \in Seq(Components) /\ H(x) \in {G(x), <<>>} BY EmptySeq DEF Given
<1>2. Reversed(parts) = G("simulation") \o G("platform") \o G("input") \o G("renderer") BY DEF Reversed, G
<1>3. Reversed(over) = H("simulation") \o H("platform") \o H("input") \o H("renderer") BY DEF Reversed
<1>4. \A x \in Components : (x \in parts => x \in over) => H(x) = G(x) BY DEF Given
<1>5. \A x \in Components : x \notin over => H(x) = <<>> BY DEF Given
<1> HIDE DEF G, H
<1>6. PICK a, b, c, d \in Seq(Components) :
         a = G("simulation") /\ b = G("platform") /\ c = G("input") /\ d = G("renderer")
  BY <1>1 DEF Components
<1>7. \A s \in Seq(Components) : s \o <<>> = s /\ <<>> \o s = s BY ConcatEmptySeq
<1>14. \A s, t \in Seq(Components) : s \o t \in Seq(Components) BY ConcatProperties
<1>15. \A s, t, u \in Seq(Components) : (s \o t) \o u = s \o (t \o u) BY Regrouped
<1>16. <<>> \in Seq(Components) BY EmptySeq
<1>8. Reversed(parts) = a \o b \o c \o d BY <1>2, <1>6
<1>9. CASE "renderer" \in over
 <2>1. over = parts BY <1>9
 <2>2. Reversed(over) \in Seq(Components) BY <2>1, <1>8, <1>14
 <2> QED BY <2>1, <2>2, <1>7, <1>16
<1>10. CASE "renderer" \notin over /\ "input" \in over
 <2>1. H("simulation") = a /\ H("platform") = b /\ H("input") = c /\ H("renderer") = <<>>
   BY <1>4, <1>5, <1>6, <1>10 DEF Components
 <2>2. a \o b \o c \in Seq(Components) BY <1>14
 <2>3. Reversed(over) = a \o b \o c BY <2>1, <2>2, <1>3, <1>7
 <2> QED BY <2>3, <1>8
<1>11. CASE "renderer" \notin over /\ "input" \notin over /\ "platform" \in over
 <2>1. H("simulation") = a /\ H("platform") = b /\ H("input") = <<>> /\ H("renderer") = <<>>
   BY <1>4, <1>5, <1>6, <1>11 DEF Components
 <2>2. PICK e \in Seq(Components) : e = a \o b BY <1>14
 <2>3. Reversed(over) = e BY <2>1, <2>2, <1>3, <1>7, ZenonT(40)
 <2>4. Reversed(parts) = e \o (c \o d) /\ c \o d \in Seq(Components) BY <2>2, <1>8, <1>14, <1>15, ZenonT(40)
 <2> QED BY <2>3, <2>4
<1>12. CASE over = {"simulation"}
 <2>1. H("simulation") = a /\ H("platform") = <<>> /\ H("input") = <<>> /\ H("renderer") = <<>>
   BY <1>4, <1>5, <1>6, <1>12 DEF Components
 <2>2. Reversed(over) = a BY <2>1, <1>3, <1>7
 <2>3. PICK e \in Seq(Components) : e = b \o c BY <1>14
 <2>4. (a \o b) \o c = a \o e BY <2>3, <1>15, SMTT(40)
 <2>5. Reversed(parts) = a \o (e \o d) /\ e \o d \in Seq(Components) BY <2>4, <1>8, <1>14, <1>15, SMTT(40)
 <2> QED BY <2>2, <2>5
<1>13. CASE over = {}
 <2>1. H("simulation") = <<>> /\ H("platform") = <<>> /\ H("input") = <<>> /\ H("renderer") = <<>>
   BY <1>5, <1>13 DEF Components
 <2>2. Reversed(over) = <<>> BY <2>1, <1>3, <1>7
 <2>3. Reversed(parts) \in Seq(Components) BY <1>8, <1>14
 <2> QED BY <2>2, <2>3, <1>7
<1> QED BY <1>9, <1>10, <1>11, <1>12, <1>13 DEF Components

\* Whatever fails, the parts that began are cleaned up once each, in the
\* reverse of their order, and accepted work settles before the platform's
\* mailbox closes, before an adapter goes and before the context does
\* (run_sequential, run_concurrent, finish_worker_shutdown, ~Context).
THEOREM TornDown == SessionSpec => []TornDownInOrder
<1>1. DownInv => TornDownInOrder
 <2> SUFFICES ASSUME DownInv PROVE TornDownInOrder OBVIOUS
 <2> USE DEF DownInv
 <2>1. Left \in Nat BY LeftNat DEF Shape, Phase, Left
 <2>2. begun \in SUBSET Components /\ Cleaned \in SUBSET begun BY DEF Types, Cleaned
 <2>3. /\ "platform" \in Cleaned /\ "simulation" \in begun => "simulation" \in Cleaned
       /\ "input" \in Cleaned => begun \cap {"simulation", "platform"} \subseteq Cleaned
       /\ "renderer" \in Cleaned => Cleaned = begun
  <3>1. \A n, k \in Nat : n <= k /\ Past(n) => Past(k) BY <2>1 DEF Past
  <3>2. Past(2) => Past(4) BY <3>1
  <3>3. Past(4) => Past(7) BY <3>1
  <3>4. Past(7) => Past(15) BY <3>1
  <3>5. Past(15) => Past(16) BY <3>1
  <3>6. Past(7) /\ "simulation" \in begun => UndoneBy("simulation") BY <3>4, <3>5 DEF UndoneBy, SimPlaces, Types
  <3> QED BY <3>2, <3>3, <3>6 DEF Cleaned, UndoneBy, Types, Components
 <2>4. PICK rest \in Seq(Components) : Reversed(begun) = Reversed(Cleaned) \o rest BY <2>2, <2>3, Prefixes
 <2>5. undone = SubSeq(Reversed(begun), 1, Len(undone)) BY <2>4, Beginning DEF CleanedSoFar, Types
 <2>6. ASSUME Ends PROVE undone = Reversed(begun) /\ ~bound
  <3>1. Over BY <2>6, GoneIs DEF Ends, Over, Phase
  <3>2. \A n : Past(n) BY <3>1 DEF Past
  <3>3. \A c \in begun : UndoneBy(c) BY <3>2 DEF UndoneBy, SimPlaces, Types, Components
  <3>4. Cleaned = begun BY <3>3 DEF Cleaned
  <3> QED BY <3>2, <3>4 DEF CleanedSoFar, Unbound
 <2>7. CleanedUp BY <2>5, <2>6 DEF CleanedUp
 <2>8. WorkSettlesFirst
  <3>1. todo = <<>> => Phase = "gone" BY GoneIs DEF Phase
  <3> QED BY <3>1 DEF WorkSettlesFirst, WorkKept, WorkOver
 <2> QED BY <2>7, <2>8 DEF TornDownInOrder
<1> QED BY <1>1, DownAlways, PTL-----------------------------------------------------------------------------

\* What is told: the fields of a snapshot.

\* k tells of the same milestone as l, with n more secondary failures
Recounted(l, k, n) ==
  /\ k \in Snapshots
  /\ k.stage = l.stage /\ k.sequence = l.sequence /\ k.reachedReady = l.reachedReady
  /\ k.pending = l.pending /\ k.verdict = l.verdict /\ k.cause = l.cause
  /\ k.outcome = l.outcome /\ k.primary = l.primary /\ k.secondary = l.secondary + n

LEMMA Flagged ==
  ASSUME NEW l \in Snapshots, NEW b \in BOOLEAN, NEW c \in BOOLEAN, NEW k,
         \/ k = l \/ k = [l EXCEPT !.closed = b] \/ k = [l EXCEPT !.stopRequested = c]
         \/ k = [l EXCEPT !.closed = b, !.stopRequested = c]
  PROVE  Recounted(l, k, 0)
<1>1. k \in Snapshots BY ZenonT(40) DEF Snapshots
<1>2. l.secondary \in Nat BY DEF Snapshots
<1>3. /\ k.stage = l.stage /\ k.sequence = l.sequence /\ k.reachedReady = l.reachedReady
      /\ k.pending = l.pending /\ k.verdict = l.verdict /\ k.cause = l.cause
      /\ k.outcome = l.outcome /\ k.primary = l.primary /\ k.secondary = l.secondary
  BY ZenonT(40) DEF Snapshots
<1> QED BY <1>1, <1>2, <1>3 DEF Recounted

LEMMA Counts ==
  ASSUME NEW l \in Snapshots, NEW n \in Nat
  PROVE  Recounted(l, Secondary(l, n), n)
  BY DEF Recounted, Snapshots, Secondary

\* n tells of the milestone that comes after l
Follows(l, n, parts) ==
  /\ n \in Snapshots /\ n.sequence = l.sequence + 1 /\ n.secondary = l.secondary
  /\ n.reachedReady = l.reachedReady \/ (n.stage = "Ready" /\ l.stage = "Initializing")
  /\ n.stage = "Ready" => ~n.stopRequested /\ n.initialized = parts
  /\ n.verdict = "committed" => n.cause = "AcceptedRequest"
  /\ n.stage # "Ready" => ~n.pending

LEMMA ReadyFollows ==
  ASSUME NEW l \in Snapshots, NEW n, NEW parts \in SUBSET Capabilities,
         l.stage = "Initializing", l.stopRequested = FALSE,
         l.verdict = "committed" => l.cause = "AcceptedRequest",
         n = Advanced([l EXCEPT !.reachedReady = TRUE, !.initialized = parts], "Ready")
  PROVE  Follows(l, n, parts) /\ n.stage = "Ready"
<1>0. PICK s \in Nat : s = l.sequence + 1 BY DEF Snapshots
<1>1. n \in Snapshots
 <2>1. n = [[l EXCEPT !.reachedReady = TRUE, !.initialized = parts] EXCEPT !.stage = "Ready", !.sequence = s]
   BY <1>0 DEF Advanced, Snapshots
 <2>2. "Ready" \in Stages BY DEF Stages
 <2> QED BY <2>1, <2>2 DEF Snapshots
<1>2. /\ n.stage = "Ready" /\ n.sequence = l.sequence + 1 /\ n.secondary = l.secondary
      /\ n.stopRequested = FALSE /\ n.initialized = parts /\ n.verdict = l.verdict /\ n.cause = l.cause
  BY DEF Snapshots, Advanced
<1> QED BY <1>1, <1>2 DEF Follows

LEMMA StartingFollows ==
  ASSUME NEW l \in Snapshots, NEW m, NEW n, NEW parts \in SUBSET Capabilities, NEW c \in Causes,
         m = [l EXCEPT !.stopRequested = TRUE],
         n = Advanced([m EXCEPT !.cause = c, !.pending = FALSE, !.stopRequested = TRUE,
                      !.initialized = parts,
                      !.verdict = IF ~m.pending THEN "none"
                                  ELSE IF c = "AcceptedRequest" THEN "committed" ELSE "superseded"],
                  "Stopping")
  PROVE  Follows(l, n, parts) /\ n.stage = "Stopping"
<1>1. m \in Snapshots /\ m.sequence = l.sequence /\ m.secondary = l.secondary /\ m.reachedReady = l.reachedReady
  BY DEF Snapshots
<1>2. n \in Snapshots
 <2>1. PICK s \in Nat : s = m.sequence + 1 BY <1>1 DEF Snapshots
 <2>2. PICK v \in {"none", "committed", "superseded"} :
          v = IF ~m.pending THEN "none" ELSE IF c = "AcceptedRequest" THEN "committed" ELSE "superseded"
   OBVIOUS
 <2>3. PICK k : k = [m EXCEPT !.cause = c, !.pending = FALSE, !.stopRequested = TRUE,
                         !.initialized = parts, !.verdict = v]
   OBVIOUS
 <2>4. k \in Snapshots /\ k.sequence = m.sequence BY <1>1, <2>3, ZenonT(40) DEF Snapshots
 <2>5. n = [k EXCEPT !.stage = "Stopping", !.sequence = s] BY <2>1, <2>2, <2>3, <2>4 DEF Advanced
 <2>6. "Stopping" \in Stages BY DEF Stages
 <2> QED BY <2>4, <2>5, <2>6 DEF Snapshots
<1>3. /\ n.stage = "Stopping" /\ n.sequence = l.sequence + 1 /\ n.secondary = l.secondary
      /\ n.reachedReady = l.reachedReady /\ n.pending = FALSE /\ n.cause = c
      /\ n.verdict = "committed" => c = "AcceptedRequest"
  BY <1>1 DEF Snapshots, Advanced
<1> QED BY <1>2, <1>3 DEF Follows

LEMMA QuiescingFollows ==
  ASSUME NEW l \in Snapshots, NEW n, NEW parts, n = Advanced(l, "Quiescing"), l.pending = FALSE,
         l.verdict = "committed" => l.cause = "AcceptedRequest"
  PROVE  Follows(l, n, parts) /\ n.stage = "Quiescing"
<1>1. n \in Snapshots
 <2>1. PICK s \in Nat : s = l.sequence + 1 BY DEF Snapshots
 <2>2. n = [l EXCEPT !.stage = "Quiescing", !.sequence = s] BY <2>1 DEF Advanced
 <2>3. "Quiescing" \in Stages BY DEF Stages
 <2> QED BY <2>2, <2>3 DEF Snapshots
<1>2. /\ n.stage = "Quiescing" /\ n.sequence = l.sequence + 1 /\ n.secondary = l.secondary
      /\ n.reachedReady = l.reachedReady /\ n.pending = l.pending /\ n.verdict = l.verdict /\ n.cause = l.cause
  BY DEF Snapshots, Advanced
<1> QED BY <1>1, <1>2 DEF Follows

LEMMA StoppedFollows ==
  ASSUME NEW l \in Snapshots, NEW n, NEW parts, NEW f \in Places, l.pending = FALSE,
         l.verdict = "committed" => l.cause = "AcceptedRequest",
         n = Advanced([l EXCEPT !.outcome = IF f = "none" THEN "Completed" ELSE "Failed",
                       !.stopRequested = TRUE, !.primary = f, !.closed = TRUE], "Stopped")
  PROVE  /\ Follows(l, n, parts) /\ n.stage = "Stopped" /\ n.primary = f
         /\ n.outcome = "Failed" <=> f # "none"
<1>1. n \in Snapshots
 <2>1. PICK s \in Nat : s = l.sequence + 1 BY DEF Snapshots
 <2>2. PICK k : k = [l EXCEPT !.outcome = IF f = "none" THEN "Completed" ELSE "Failed",
                        !.stopRequested = TRUE, !.primary = f, !.closed = TRUE]
   OBVIOUS
 <2>3. k \in Snapshots /\ k.sequence = l.sequence BY <2>2 DEF Snapshots
 <2>4. n = [k EXCEPT !.stage = "Stopped", !.sequence = s] BY <2>1, <2>2, <2>3 DEF Advanced
 <2>5. "Stopped" \in Stages BY DEF Stages
 <2> QED BY <2>3, <2>4, <2>5 DEF Snapshots
<1>2. /\ n.stage = "Stopped" /\ n.sequence = l.sequence + 1 /\ n.secondary = l.secondary
      /\ n.reachedReady = l.reachedReady /\ n.pending = l.pending /\ n.verdict = l.verdict /\ n.cause = l.cause
  BY DEF Snapshots, Advanced
<1>3. n.primary = f /\ (n.outcome = "Failed" <=> f # "none") BY DEF Snapshots, Advanced
<1> QED BY <1>1, <1>2, <1>3 DEF Follows

LEMMA PendingFields ==
  ASSUME NEW l \in Snapshots, NEW n, NEW b \in BOOLEAN, NEW parts \in SUBSET Capabilities,
         n = [l EXCEPT !.pending = b, !.sequence = @ + 1, !.initialized = parts]
  PROVE  /\ n \in Snapshots /\ n.stage = l.stage /\ n.sequence = l.sequence + 1
         /\ n.reachedReady = l.reachedReady /\ n.verdict = l.verdict /\ n.cause = l.cause
         /\ n.outcome = l.outcome /\ n.primary = l.primary /\ n.secondary = l.secondary
<1>1. n \in Snapshots
 <2>1. PICK s \in Nat : s = l.sequence + 1 BY DEF Snapshots
 <2>2. n = [l EXCEPT !.pending = b, !.sequence = s, !.initialized = parts] BY <2>1
 <2> QED BY <2>2 DEF Snapshots
<1>2. /\ n.stage = l.stage /\ n.sequence = l.sequence + 1
      /\ n.reachedReady = l.reachedReady /\ n.verdict = l.verdict /\ n.cause = l.cause
      /\ n.outcome = l.outcome /\ n.primary = l.primary /\ n.secondary = l.secondary
  BY DEF Snapshots
<1> QED BY <1>1, <1>2

LEMMA Ranked == \A s \in Stages : Rank[s] \in 0..4
  BY DEF Stages, Rank

LEMMA SnapshotTypes ==
  ASSUME NEW l \in Snapshots
  PROVE  l.sequence \in Nat /\ l.secondary \in Nat /\ l.stage \in Stages /\ Rank[l.stage] \in 0..4
<1>1. l.sequence \in Nat /\ l.secondary \in Nat /\ l.stage \in Stages BY DEF Snapshots
<1> QED BY <1>1, Ranked

LEMMA Untold ==
  ASSUME NEW ns \in Seq(Snapshots), NEW l, ToldIn(ns, l), Rank[l.stage] = 0
  PROVE  ns = <<>>
<1>1. PICK n \in Nat : n = Len(ns) BY LenProperties
<1>2. DOMAIN ns = 1..n BY <1>1, LenProperties
<1>3. ASSUME n # 0 PROVE FALSE
 <2>1. 1 \in DOMAIN ns /\ ns[1] \in Snapshots BY <1>2, <1>3, ElementOfSeq, <1>1
 <2>2. Rank[ns[1].stage] > 0 /\ Rank[ns[1].stage] <= Rank[l.stage] BY <2>1 DEF ToldIn, ToldOf
 <2>3. Rank[ns[1].stage] \in 0..4 BY <2>1, SnapshotTypes
 <2> QED BY <2>2, <2>3
<1> QED BY <1>1, <1>3, EmptySeq

\* Nothing is told.
LEMMA ToldKept ==
  ASSUME NEW ns \in Seq(Snapshots), NEW l \in Snapshots, NEW k \in Snapshots, ToldIn(ns, l),
         k.stage = l.stage \/ (Rank[l.stage] = 0 /\ Rank[k.stage] = 0),
         k.sequence >= l.sequence, k.reachedReady = l.reachedReady,
         k.verdict = l.verdict, k.cause = l.cause,
         Rank[k.stage] > 1 => ~k.pending
  PROVE  ToldIn(ns, k)
<1>1. l.sequence \in Nat /\ k.sequence \in Nat /\ k.verdict = "committed" => k.cause = "AcceptedRequest"
  BY SnapshotTypes DEF ToldIn
<1>2. CASE k.stage = l.stage
 <2>1. ASSUME NEW i \in DOMAIN ns PROVE ToldOf(ns[i], k)
  <3>1. ns[i] \in Snapshots BY ElementOfSeq, LenProperties
  <3>2. ToldOf(ns[i], l) /\ ns[i].sequence \in Nat /\ l.sequence \in Nat /\ k.sequence \in Nat
    BY <3>1, SnapshotTypes DEF ToldIn
  <3>3. ns[i].sequence <= k.sequence BY <3>2 DEF ToldOf
  <3> QED BY <1>2, <3>2, <3>3 DEF ToldOf
 <2> QED BY <1>2, <2>1 DEF ToldIn
<1>3. CASE Rank[l.stage] = 0 /\ Rank[k.stage] = 0
 <2>1. ns = <<>> BY <1>3, Untold
 <2>2. DOMAIN ns = {} BY <2>1
 <2>3. k.verdict = "committed" => k.cause = "AcceptedRequest" BY DEF ToldIn
 <2> QED BY <1>3, <2>1, <2>2, <2>3 DEF ToldIn
<1> QED BY <1>2, <1>3

\* A milestone is told.
LEMMA ToldGrows ==
  ASSUME NEW ns \in Seq(Snapshots), NEW l \in Snapshots, ToldIn(ns, l),
         NEW n, NEW parts, Follows(l, n, parts), Rank[n.stage] > Rank[l.stage],
         n.stage = "Ready" => parts = Capabilities
  PROVE  ToldIn(Append(ns, n), n) /\ Append(ns, n) \in Seq(Snapshots)
<1>1. PICK z \in Nat : z = Len(ns) BY LenProperties
<1>2. DOMAIN ns = 1..z /\ \A i \in 1..z : ns[i] \in Snapshots BY <1>1, LenProperties, ElementOfSeq
<1>3. PICK t : t = Append(ns, n) OBVIOUS
<1>4. n \in Snapshots BY DEF Follows
<1>5. /\ t \in Seq(Snapshots) /\ Len(t) = z + 1 /\ DOMAIN t = 1..(z + 1)
      /\ \A i \in 1..z : t[i] = ns[i]
      /\ t[z + 1] = n
  BY <1>1, <1>3, <1>4, AppendProperties, LenProperties
<1>6. /\ n.sequence = l.sequence + 1 /\ l.sequence \in Nat /\ Rank[l.stage] \in 0..4 /\ Rank[n.stage] \in 0..4
      /\ Rank[n.stage] > Rank[l.stage]
  BY <1>4, SnapshotTypes DEF Follows
<1>7. ASSUME NEW i \in 1..z PROVE n.reachedReady = l.reachedReady
 <2>1. ns # <<>> BY <1>1
 <2>2. l.stage # "Initializing" BY <2>1, Untold DEF Rank
 <2> QED BY <2>2 DEF Follows
<1>8. ASSUME NEW i \in 1..z
      PROVE  /\ ToldOf(ns[i], n)
             /\ ns[i].sequence < n.sequence /\ Rank[ns[i].stage] < Rank[n.stage]
 <2>1. ToldOf(ns[i], l) BY <1>2 DEF ToldIn
 <2>2. ns[i].sequence <= l.sequence /\ Rank[ns[i].stage] <= Rank[l.stage] /\ ns[i].reachedReady = l.reachedReady
   BY <2>1 DEF ToldOf
 <2>3. ns[i].sequence \in Nat /\ Rank[ns[i].stage] \in 0..4 BY <1>2, SnapshotTypes
 <2>4. ns[i].reachedReady = n.reachedReady BY <1>7, <2>2
 <2>6. ns[i].sequence < n.sequence BY <1>6, <2>2, <2>3
 <2>7. Rank[ns[i].stage] < Rank[n.stage] BY <1>6, <2>2, <2>3, SMTT(40)
 <2>5. ns[i].sequence <= n.sequence /\ Rank[ns[i].stage] <= Rank[n.stage] BY <2>3, <2>6, <2>7, <1>6, SMTT(40)
 <2> QED BY <2>1, <2>4, <2>5, <2>6, <2>7 DEF ToldOf
<1>9. ToldOf(n, n)
 <2>1. n.sequence <= n.sequence /\ Rank[n.stage] > 0 /\ Rank[n.stage] <= Rank[n.stage] BY <1>6
 <2> QED BY <2>1 DEF ToldOf, Follows
<1>10. \A i \in 1..(z + 1) : ToldOf(t[i], n)
 <2>1. \A i \in 1..(z + 1) : i = z + 1 \/ i \in 1..z OBVIOUS
 <2> QED BY <2>1, <1>5, <1>8, <1>9
<1>11. ASSUME NEW i \in 1..(z + 1), NEW k \in 1..(z + 1), i < k
      PROVE  t[i].sequence < t[k].sequence /\ Rank[t[i].stage] < Rank[t[k].stage]
 <2>1. i \in 1..z /\ (k = z + 1 \/ k \in 1..z) BY <1>11
 <2>2. CASE k = z + 1 BY <2>1, <2>2, <1>5, <1>8
 <2>3. CASE k \in 1..z
  <3>1. ns[i].sequence < ns[k].sequence /\ Rank[ns[i].stage] < Rank[ns[k].stage] BY <2>1, <2>3, <1>2, <1>11 DEF ToldIn
  <3> QED BY <2>1, <2>3, <3>1, <1>5
 <2> QED BY <2>1, <2>2, <2>3
<1>12. t[Len(t)].stage = n.stage BY <1>5
<1>13. /\ n.verdict = "committed" => n.cause = "AcceptedRequest"
       /\ Rank[n.stage] > 1 => ~n.pending
  BY DEF Follows, Rank
<1> QED BY <1>3, <1>5, <1>10, <1>11, <1>12, <1>13 DEF ToldIn

\* The books of failures and stages, and what is told.
\* places between which no failure and no milestone comes
Passing ==
  \/ Phase' = Phase /\ Left' = Left
  \/ Before /\ Before' /\ (failure # "none" => Phase' = "starts" /\ Left' < 4)
  \/ /\ Phase = "ends" /\ Phase' = "ends" /\ Left \in 2..17 /\ Left' = Left - 1
     /\ Left = 16 => simFailure = seenFailure
  \/ Phase = "leaves" /\ Phase' = "leaves" /\ Left \in 2..7 /\ Left' = Left - 1
  \/ Phase = "leaves" /\ Left = 2 /\ Phase' = "ends" /\ Left' = 1
  \/ Phase = "ended" /\ Phase' = "gone"

\* the thread goes on, and has failed before only if it is about to end
SimGoesOn ==
  \/ UNCHANGED <<simPc, begun>>
  \/ simFailure = "none"
  \/ simPc' \in {"closes", "deinits", "done"} /\ begun' = begun

Telling == Told /\ LifeTypes

LEMMA NoSimulation ==
  ASSUME DownInv, FailureBooks, simPc = "absent"
  PROVE  simFailure = "none" /\ seenFailure = "none" /\ ~Unseen
  BY DEF FailureBooks, Unseen

LEMMA BooksKept ==
  ASSUME DownInv, FailureBooks, Passing, SimGoesOn, stop => stop', Left \in Nat,
         UNCHANGED <<failure, thrown, simFailure, seenFailure>>,
         life'.stage = life.stage, life'.secondary = life.secondary, life'.primary = life.primary,
         life'.outcome = life.outcome
  PROVE  FailureBooks'
<1>1. Unseen' <=> Unseen
 <2>1. Phase = "leaves" => simFailure = seenFailure BY NoSimulation DEF DownInv, SimPlaces, Untouched
 <2>2. Phase' = Phase /\ Left' = Left => (Past(16)' <=> Past(16)) BY DEF Past, Over
 <2> QED BY <2>1, <2>2 DEF Unseen, Past, Over, Passing, Before
<1>2. (Phase = "fresh" <=> Phase' = "fresh") /\ (Before <=> Before') /\ (Over <=> Over') BY DEF Passing, Before, Over
<1>3. /\ simFailure # "none" => simPc' \in {"closes", "deinits", "done"}
      /\ simFailure = "simulation_bind" => "simulation" \notin begun'
  BY DEF FailureBooks, SimGoesOn
<1>4. Before' /\ failure # "none" => stop' /\ Phase' = "starts" /\ Left' < 4 BY <1>2 DEF FailureBooks, Passing, Before
<1> QED BY <1>1, <1>2, <1>3, <1>4 DEF FailureBooks

LEMMA StagesKept ==
  ASSUME StagePlaces, Passing, Left \in Nat, life'.stage = life.stage,
         Before \/ life'.pending = life.pending
  PROVE  StagePlaces'
  BY DEF StagePlaces, Passing, Before, Over
\* no milestone is told, whatever is counted meanwhile
LEMMA ToldStill ==
  ASSUME LifeTypes, Told, NEW n, Recounted(life, life', n), notified' = notified
  PROVE  Told'
<1>1. /\ life \in Snapshots /\ notified \in Seq(Snapshots) /\ life.sequence \in Nat BY SnapshotTypes DEF LifeTypes
<1>2. PICK k \in Snapshots : k = life' BY DEF Recounted
<1>3. /\ k.stage = life.stage /\ k.sequence >= life.sequence /\ k.reachedReady = life.reachedReady
      /\ k.verdict = life.verdict /\ k.cause = life.cause /\ k.pending = life.pending
  BY <1>1, <1>2 DEF Recounted
<1>4. Rank[k.stage] > 1 => ~k.pending BY <1>3 DEF Told, ToldIn
<1>5. ToldIn(notified, k) BY <1>1, <1>3, <1>4, ToldKept DEF Told
<1> QED BY <1>2, <1>5 DEF Told

LEMMA PreserveKeeps ==
  ASSUME DownInv, FailureBooks, LifeTypes, NEW place \in Places \ {"none"}, Preserve(place), thrown' = thrown + 1,
         Phase \in {"ends", "leaves"}, Passing, Left \in Nat, stop => stop',
         UNCHANGED <<simPc, begun, simFailure, seenFailure>>
  PROVE  FailureBooks' /\ failure' \in Places /\ \E n \in {0, 1} : Recounted(life, life', n)
<1>1. PICK n \in {0, 1} : /\ Recounted(life, life', n)
                          /\ One(failure' # "none") + n = One(failure # "none") + 1
                          /\ failure' # "none" /\ failure' \in Places
 <2>1. CASE failure = "none"
  <3>1. life' = life /\ failure' = place BY <2>1 DEF Preserve
  <3>2. Recounted(life, life', 0) BY <3>1, Flagged DEF LifeTypes
  <3>3. One(failure' # "none") + 0 = One(failure # "none") + 1 BY <2>1, <3>1 DEF One
  <3> QED BY <3>1, <3>2, <3>3
 <2>2. CASE failure # "none"
  <3>1. life' = Secondary(life, 1) /\ failure' = failure BY <2>2 DEF Preserve
  <3> QED BY <2>2, <3>1, Counts DEF LifeTypes, One
 <2> QED BY <2>1, <2>2
<1>2. life'.stage = life.stage /\ life'.secondary = life.secondary + n BY <1>1 DEF Recounted
<1>3. Unseen' <=> Unseen
 <2>1. Phase = "leaves" => simFailure = seenFailure BY NoSimulation DEF DownInv, SimPlaces, Untouched
 <2>2. Phase' = Phase /\ Left' = Left => (Past(16)' <=> Past(16)) BY DEF Past, Over
 <2> QED BY <2>1, <2>2 DEF Unseen, Past, Over, Passing, Before
<1>4. life.stage # "Unstarted" => thrown' = life'.secondary + One(failure' # "none") + One(Unseen')
 <2>1. life.secondary \in Nat /\ thrown \in Nat BY DEF LifeTypes, Snapshots
 <2>2. One(failure # "none") \in Nat /\ One(failure' # "none") \in Nat /\ One(Unseen) \in Nat /\ One(Unseen') = One(Unseen)
   BY <1>3 DEF One
 <2>3. life.stage # "Unstarted" => thrown = life.secondary + One(failure # "none") + One(Unseen) BY DEF FailureBooks
 <2> QED BY <1>1, <1>2, <2>1, <2>2, <2>3
<1>5. Phase' # "fresh" /\ ~Before' /\ ~Over BY DEF Passing, Before, Over
<1>6. life.stage # "Stopped" BY <1>5 DEF FailureBooks
<1> QED BY <1>1, <1>2, <1>4, <1>5, <1>6 DEF FailureBooks

\* The tear-down begins, by itself or by what the owner threw.
LEMMA EnterKeeps ==
  ASSUME DownInv, LifeInv, NEW place \in Places, EnterTearDown(place), Before, mode' = mode,
         place = "none" => thrown' = thrown,
         place # "none" => thrown' = thrown + 1 /\ failure = "none",
         UNCHANGED <<simPc, simFailure>>, SimGoesOn, notified' = notified
  PROVE  FailureBooks' /\ StagePlaces' /\ Told' /\ life' \in Snapshots /\ failure' \in Places /\ seenFailure' \in Places
<1> USE DEF LifeInv
<1>1. Phase' = "ends" /\ Left' = 18 BY Moves DEF EnterTearDown, DownInv
<1>2. PICK own \in Places : own = IF place = "none" THEN failure ELSE place BY DEF LifeTypes
<1>3. PICK n \in Nat : n = IF own # "none" /\ simFailure # "none" THEN 1 ELSE 0 OBVIOUS
<1>4. /\ Recounted(life, life', n)
      /\ failure' = (IF own = "none" THEN simFailure ELSE own) /\ seenFailure' = simFailure
  BY <1>2, <1>3, Counts DEF EnterTearDown, LifeTypes
<1>5. life'.stage = life.stage /\ life'.secondary = life.secondary + n /\ life' \in Snapshots BY <1>4 DEF Recounted
<1>6. life.stage \in {"Initializing", "Ready"} BY DEF StagePlaces
<1>7. ~Unseen' /\ (Unseen <=> simFailure # "none") /\ seenFailure = "none"
  BY <1>1, <1>4 DEF Unseen, FailureBooks, Past, Before, Over
<1>8. thrown' = life'.secondary + One(failure' # "none") + One(Unseen')
 <2>1. life.secondary \in Nat /\ thrown \in Nat BY DEF LifeTypes, Snapshots
 <2>2. thrown = life.secondary + One(failure # "none") + One(Unseen) BY <1>6 DEF FailureBooks
 <2>3. CASE place = "none" BY <2>1, <2>2, <2>3, <1>2, <1>3, <1>4, <1>5, <1>7 DEF One
 <2>4. CASE place # "none" BY <2>1, <2>2, <2>4, <1>2, <1>3, <1>4, <1>5, <1>7 DEF One
 <2> QED BY <2>3, <2>4
<1>9. FailureBooks'
 <2>1. /\ simFailure' # "none" => simPc' \in {"closes", "deinits", "done"}
       /\ simFailure' = "simulation_bind" => "simulation" \notin begun'
   BY DEF FailureBooks, SimGoesOn
 <2> QED BY <2>1, <1>1, <1>4, <1>5, <1>6, <1>8 DEF FailureBooks, Before, Over
<1>10. StagePlaces' BY <1>1, <1>5, <1>6 DEF StagePlaces, Before, Over
<1>11. Told' BY <1>4, ToldStill
<1> QED BY <1>4, <1>5, <1>9, <1>10, <1>11 DEF LifeTypes

\* nothing is told, and no failure is counted
LEMMA Passes ==
  ASSUME DownInv, LifeInv, Passing, SimGoesOn, mode' = mode, stop => stop', Recounted(life, life', 0),
         notified' = notified, UNCHANGED <<failure, thrown, simFailure, seenFailure>>
  PROVE  FailureBooks' /\ StagePlaces' /\ Told' /\ life' \in Snapshots
<1> USE DEF LifeInv
<1>1. Left \in Nat BY Moves DEF DownInv
<1>2. /\ life'.stage = life.stage /\ life'.secondary = life.secondary /\ life'.primary = life.primary
      /\ life'.outcome = life.outcome /\ life'.pending = life.pending /\ life' \in Snapshots
 <2>1. life.secondary \in Nat BY SnapshotTypes DEF LifeTypes
 <2> QED BY <2>1 DEF Recounted
<1>3. FailureBooks' BY <1>1, <1>2, BooksKept
<1>4. StagePlaces' BY <1>1, <1>2, StagesKept
<1> QED BY <1>2, <1>3, <1>4, ToldStill

LEMMA PassesOn ==
  ASSUME DownInv, LifeInv, Passing, SimGoesOn, mode' = mode, stop => stop', Recounted(life, life', 0),
         notified' = notified, UNCHANGED <<failure, thrown, simFailure, seenFailure>>,
         initialized' \in SUBSET Capabilities, cause' \in Causes, PartPlaces'
  PROVE  LifeInv'
<1>1. FailureBooks' /\ StagePlaces' /\ Told' /\ life' \in Snapshots BY Passes
<1>2. LifeTypes' BY <1>1 DEF LifeInv, LifeTypes
<1> QED BY <1>1, <1>2 DEF LifeInv

\* no part is established, and none is needed for the place come to
LEMMA PartsStay ==
  ASSUME PartPlaces, mode' = mode, stop => stop', initialized' = initialized, Left \in Nat,
         \/ Phase' = Phase /\ Left' = Left
         \/ ~Before'
         \/ Phase = "starts" /\ Phase' = "starts" /\ Left \in {2, 5, 6, 7} /\ Left' = Left - 1
         \/ Phase = "cycles" /\ Phase' = "starts" /\ Left' = 1
         \/ Phase = "starts" /\ Left = 3 /\ Phase' = "starts" /\ Left' = 1
         \/ Phase = "starts" /\ Left = 1 /\ Phase' = "cycles"
  PROVE  PartPlaces'
  BY DEF PartPlaces, Before

LEMMA SameLife ==
  ASSUME LifeInv
  PROVE  /\ Recounted(life, life, 0) /\ initialized \in SUBSET Capabilities /\ cause \in Causes
         /\ Recounted(life, [life EXCEPT !.closed = TRUE], 0)
         /\ Recounted(life, [life EXCEPT !.stopRequested = TRUE], 0)
         /\ Recounted(life, [life EXCEPT !.closed = TRUE, !.stopRequested = TRUE], 0)
<1>1. life \in Snapshots /\ TRUE \in BOOLEAN BY DEF LifeInv, LifeTypes
<1> QED BY <1>1, Flagged DEF LifeInv, LifeTypes

\* the owner's step is one of those that neither fail nor tell anything
OwnerPasses ==
  /\ UNCHANGED <<mode, initialized, failure, thrown, simFailure, seenFailure, notified, simPc, begun>>
  /\ UNCHANGED <<stop, cause, life>>

LEMMA OwnerPassesOn ==
  ASSUME DownInv, LifeInv, OwnerPasses, Passing,
         \/ ~Before'
         \/ Phase' = Phase /\ Left' = Left
         \/ Phase = "starts" /\ Phase' = "starts" /\ Left \in {2, 5, 6, 7} /\ Left' = Left - 1
         \/ Phase = "cycles" /\ Phase' = "starts" /\ Left' = 1
         \/ Phase = "starts" /\ Left = 3 /\ Phase' = "starts" /\ Left' = 1
         \/ Phase = "starts" /\ Left = 1 /\ Phase' = "cycles"
  PROVE  LifeInv'
<1>1. Left \in Nat BY Moves DEF DownInv, OwnerPasses
<1>2. PartPlaces' BY <1>1, PartsStay DEF LifeInv, OwnerPasses
<1>3. SimGoesOn BY DEF SimGoesOn, OwnerPasses
<1> QED BY <1>2, <1>3, SameLife, PassesOn DEF OwnerPasses

LEMMA QuietSteps ==
  ASSUME DownInv, LifeInv, Dispatch \/ CloseWork \/ CloseMailbox \/ FinishWork \/ Unbind
  PROVE  LifeInv'
<1> USE DEF DownInv
<1>1. OwnerPasses BY DEF OwnerPasses, Dispatch, CloseWork, CloseMailbox, FinishWork, Unbind, Drain
<1>2. mode' = mode /\ Done /\ Left \in Nat
  BY <1>1, Moves DEF OwnerPasses, Dispatch, CloseWork, CloseMailbox, FinishWork, Unbind
<1>3. ASSUME Dispatch PROVE LifeInv'
 <2>1. Phase = "starts" /\ Left = 6 /\ Phase' = "starts" /\ Left' = 5 BY <1>2, <1>3, Located, Moves DEF Dispatch, Types
 <2>2. failure = "none" BY <2>1 DEF LifeInv, FailureBooks, Before
 <2> QED BY <2>1, <2>2, <1>1, OwnerPassesOn DEF Passing, Before
<1>4. ASSUME CloseWork PROVE LifeInv'
 <2>1. \/ Phase = "leaves" /\ Left = 7 /\ Phase' = "leaves" /\ Left' = 6
       \/ Phase = "ends" /\ Left = 17 /\ Phase' = "ends" /\ Left' = 16
   BY <1>2, <1>4, Located, Moves DEF CloseWork, Types
 <2> QED BY <2>1, <1>1, OwnerPassesOn DEF Passing, Before
<1>5. ASSUME CloseMailbox PROVE LifeInv'
 <2>1. PICK step \in DOMAIN Target : At(step) BY <1>5 DEF CloseMailbox
 <2>2. step \in {"closePlatform", "closeSimulation"} BY DEF Target
 <2>3. \/ Phase = "leaves" /\ Left \in {4, 6} /\ Phase' = "leaves" /\ Left' = Left - 1
       \/ Phase = "ends" /\ Left \in {9, 15} /\ Phase' = "ends" /\ Left' = Left - 1
       \/ Phase = "ends" /\ Left = 16 /\ Phase' = "ends" /\ Left' = 15 /\ mode = "sequential"
   BY <1>2, <2>1, <2>2, Located, Moves DEF Types
 <2>4. mode = "sequential" => simFailure = seenFailure BY NoSimulation DEF SimPlaces, LifeInv
 <2> QED BY <2>3, <2>4, <1>1, OwnerPassesOn DEF Passing, Before
<1>6. ASSUME FinishWork PROVE LifeInv'
 <2>1. \/ Phase = "leaves" /\ Left = 3 /\ Phase' = "leaves" /\ Left' = 2
       \/ Phase = "ends" /\ Left = 11 /\ Phase' = "ends" /\ Left' = 10
   BY <1>2, <1>6, Located, Moves DEF FinishWork, Types
 <2> QED BY <2>1, <1>1, OwnerPassesOn DEF Passing, Before
<1>7. ASSUME Unbind PROVE LifeInv'
 <2>1. Phase = "ends" /\ Left = 3 /\ Phase' = "ends" /\ Left' = 2 BY <1>2, <1>7, Located, Moves DEF Unbind, Types
 <2> QED BY <2>1, <1>1, OwnerPassesOn DEF Passing, Before
<1> QED BY <1>3, <1>4, <1>5, <1>6, <1>7

\* Steps that may throw in the tear-down.
LEMMA DownMayFail ==
  ASSUME DownInv, LifeInv, NEW place \in Places \ {"none"}, Preserve(place), thrown' = thrown + 1,
         Phase \in {"ends", "leaves"}, Passing, mode' = mode,
         UNCHANGED <<simPc, begun, simFailure, seenFailure, stop, cause, initialized, notified>>
  PROVE  LifeInv'
<1> USE DEF LifeInv
<1>1. Left \in Nat BY Moves DEF DownInv
<1>2. FailureBooks' /\ failure' \in Places BY <1>1, PreserveKeeps
<1>3. PICK n \in {0, 1} : Recounted(life, life', n) BY <1>1, PreserveKeeps
<1>4. life' \in Snapshots /\ life'.stage = life.stage /\ life'.pending = life.pending BY <1>3 DEF Recounted
<1>5. StagePlaces' BY <1>1, <1>4, StagesKept
<1>6. Told' BY <1>3, ToldStill
<1>7. PartPlaces'
 <2>1. ~Before' BY DEF Passing, Before
 <2> QED BY <1>1, <2>1, PartsStay
<1>8. LifeTypes' BY <1>2, <1>4 DEF LifeTypes
<1> QED BY <1>2, <1>5, <1>6, <1>7, <1>8

LEMMA DownSteps ==
  ASSUME DownInv, LifeInv, PumpWork \/ Undo \/ Visit
  PROVE  LifeInv'
<1> USE DEF DownInv
<1>1. /\ UNCHANGED <<mode, simPc, begun, simFailure, seenFailure, stop, cause, initialized, notified>>
      /\ \/ UNCHANGED <<failure, thrown, life>>
         \/ \E place \in {"maintenance"} \cup DOMAIN Cleanup \cup DOMAIN Needs : Throws /\ Preserve(place)
  BY DEF PumpWork, Undo, Visit, Pump, Drain, MayThrow
<1>2. /\ Phase \in {"ends", "leaves"} /\ Passing
      /\ ~Before'
 <2>1. \/ Phase = "leaves" /\ Left = 2 /\ Phase' = "ends" /\ Left' = 1
       \/ Phase = "ends" /\ Left \in {2, 4, 7, 15, 14, 10, 8, 6, 5, 12} /\ Phase' = "ends" /\ Left' = Left - 1
       \/ Phase = "ends" /\ Phase' = "ends" /\ Left' = Left
  <3>1. CASE PumpWork BY <3>1, <1>1, Located, Moves DEF PumpWork, Pump, Types
  <3>2. CASE Undo BY <3>2, <1>1, Located, Moves DEF Undo, Cleanup, Types
  <3>3. CASE Visit BY <3>3, <1>1, Located, Moves DEF Visit, Needs, Types
  <3> QED BY <3>1, <3>2, <3>3
 <2> QED BY <2>1 DEF Passing, Before
<1>3. CASE UNCHANGED <<failure, thrown, life>> BY <1>1, <1>2, <1>3, OwnerPassesOn DEF OwnerPasses
<1>4. CASE \E place \in {"maintenance"} \cup DOMAIN Cleanup \cup DOMAIN Needs : Throws /\ Preserve(place)
 <2>1. PICK place \in {"maintenance"} \cup DOMAIN Cleanup \cup DOMAIN Needs : Throws /\ Preserve(place) BY <1>4
 <2>2. place \in Places \ {"none"} BY DEF Cleanup, Needs, Places, Steps
 <2>3. thrown' = thrown + 1 BY <2>1 DEF Throws
 <2> QED BY <1>1, <1>2, <2>1, <2>2, <2>3, DownMayFail
<1> QED BY <1>1, <1>3, <1>4

\* Steps of the start-up and of the loop, which throw into the tear-down.
LEMMA UpFails ==
  ASSUME DownInv, LifeInv, NEW place \in Places, EnterTearDown(place), Before, mode' = mode,
         place = "none" => thrown' = thrown,
         place # "none" => thrown' = thrown + 1 /\ failure = "none",
         UNCHANGED <<simPc, simFailure, stop, cause, notified>>,
         begun' = begun \/ simPc = "absent",
         initialized' \in SUBSET Capabilities, "game" \in initialized' => "simulationOwner" \in initialized'
  PROVE  LifeInv'
<1>1. Phase' = "ends" /\ Left' = 18 BY Moves DEF EnterTearDown, DownInv
<1>2. SimGoesOn BY NoSimulation DEF SimGoesOn, LifeInv
<1>3. PartPlaces' BY <1>1 DEF PartPlaces
<1>4. FailureBooks' /\ StagePlaces' /\ Told' /\ life' \in Snapshots /\ failure' \in Places /\ seenFailure' \in Places
  BY <1>2, EnterKeeps
<1>5. thrown' \in Nat BY DEF LifeInv, LifeTypes
<1> QED BY <1>3, <1>4, <1>5 DEF LifeInv, LifeTypes

\* a step of the start-up that goes through
LEMMA UpPasses ==
  ASSUME DownInv, LifeInv, Phase = "starts", Left > 3, mode' = mode,
         (Phase' = "starts" /\ Left' = Left - 1) \/ (Phase' = "boots" /\ Left = 4),
         UNCHANGED <<failure, thrown, simFailure, seenFailure, stop, cause, life, notified>>,
         initialized' \in SUBSET Capabilities, PartPlaces'
  PROVE  LifeInv'
<1>1. failure = "none"
 <2>1. Left \in Nat BY Moves DEF DownInv
 <2> QED BY <2>1 DEF LifeInv, FailureBooks, Before
<1>2. SimGoesOn BY NoSimulation DEF SimGoesOn, LifeInv, DownInv, SimPlaces
<1>3. Passing BY <1>1 DEF Passing, Before
<1> QED BY <1>2, <1>3, SameLife, PassesOn

LEMMA UpSteps ==
  ASSUME DownInv, LifeInv, Initialize \/ InitializeFails \/ OpenMailboxes \/ InitPlatform
                           \/ SelectWindow \/ InitSimulation \/ StartThread
  PROVE  LifeInv'
<1> USE DEF DownInv
<1>1. /\ UNCHANGED <<mode, simFailure, stop, cause, notified>>
      /\ initialized' \in SUBSET Capabilities
  BY DEF Initialize, InitializeFails, OpenMailboxes, InitPlatform, SelectWindow, InitSimulation, StartThread, LifeInv,
    LifeTypes, Adapter, Capabilities
<1>2. Left \in Nat BY <1>1, Moves
<1>3. ASSUME Initialize PROVE LifeInv'
 <2>1. PICK step \in DOMAIN Adapter : At(step) /\ Done /\ initialized' = initialized \cup {Adapter[step]}
   BY <1>3 DEF Initialize
 <2>2. \/ /\ Phase = "starts" /\ Left = 10 /\ Phase' = "starts" /\ Left' = 9
          /\ initialized' = initialized \cup {"renderer"}
       \/ /\ Phase = "starts" /\ Left = 8 /\ Phase' = "starts" /\ Left' = 7
          /\ initialized' = initialized \cup {"input"}
   BY <1>1, <2>1, Located, Moves DEF Adapter, Types
 <2>3. PartPlaces' BY <2>2, <1>1 DEF PartPlaces, LifeInv
 <2> QED BY <2>2, <2>3, <1>1, <1>3, UpPasses DEF Initialize
<1>4. ASSUME InitializeFails PROVE LifeInv'
 <2>1. PICK step \in DOMAIN Adapter :
          At(step) /\ EnterTearDown(step) /\ initialized' \in {initialized, initialized \cup {Adapter[step]}}
   BY <1>4 DEF InitializeFails
 <2>2. /\ Phase = "starts" /\ Left \in {8, 10} /\ Adapter[step] \in {"renderer", "input"}
       /\ step \in {"renderer", "input"}
   BY <1>1, <2>1, Located DEF Adapter, Types
 <2>3. failure = "none" /\ simPc = "absent" /\ Before BY <2>2 DEF LifeInv, FailureBooks, Before, SimPlaces
 <2>4. "game" \in initialized' => "simulationOwner" \in initialized' BY <2>1, <2>2 DEF LifeInv, PartPlaces
 <2>5. step \in Places /\ step # "none" BY <2>2 DEF Places, Steps
 <2>6. thrown' = thrown + 1 /\ simPc' = simPc BY <1>4 DEF InitializeFails, Throws
 <2> QED BY <2>1, <2>3, <2>4, <2>5, <2>6, <1>1, UpFails
<1>5. ASSUME OpenMailboxes PROVE LifeInv'
 <2>1. Phase = "starts" /\ Left = 9 /\ Phase' = "starts" /\ Left' = 8
   BY <1>1, <1>5, Located, Moves DEF OpenMailboxes, Types
 <2>2. PartPlaces' BY <2>1, <1>1, <1>5 DEF OpenMailboxes, PartPlaces, LifeInv, Types
 <2> QED BY <2>1, <2>2, <1>1, <1>5, UpPasses DEF OpenMailboxes
<1>6. ASSUME InitPlatform \/ SelectWindow PROVE LifeInv'
 <2>1. /\ Phase = "starts" /\ Left \in {5, 7} /\ Before
       /\ \/ Phase' = "starts" /\ Left' = Left - 1 /\ UNCHANGED <<failure, thrown, life, seenFailure>>
          \/ thrown' = thrown + 1 /\ (EnterTearDown("platform") \/ EnterTearDown("window"))
   BY <1>1, <1>6, Located, Moves DEF InitPlatform, SelectWindow, Types, Throws, Before
 <2>2. failure = "none" /\ simPc = "absent" BY <2>1 DEF LifeInv, FailureBooks, Before, SimPlaces
 <2>3. initialized' = initialized /\ simPc' = simPc BY <1>6 DEF InitPlatform, SelectWindow
 <2>4. CASE Phase' = "starts" /\ Left' = Left - 1 /\ UNCHANGED <<failure, thrown, life, seenFailure>>
  <3>1. PartPlaces' BY <1>1, <1>2, <2>1, <2>3, <2>4, PartsStay DEF LifeInv
  <3> QED BY <1>1, <2>1, <2>4, <3>1, UpPasses
 <2>5. CASE thrown' = thrown + 1 /\ (EnterTearDown("platform") \/ EnterTearDown("window"))
  <3>1. PICK place \in {"platform", "window"} : EnterTearDown(place) BY <2>5
  <3>2. place \in Places /\ place # "none" BY DEF Places, Steps
  <3>3. "game" \in initialized' => "simulationOwner" \in initialized' BY <2>3 DEF LifeInv, PartPlaces
  <3> QED BY <1>1, <2>1, <2>2, <2>3, <2>5, <3>1, <3>2, <3>3, UpFails
 <2> QED BY <2>1, <2>4, <2>5
<1>7. ASSUME InitSimulation PROVE LifeInv'
 <2>1. /\ Phase = "starts" /\ Left = 4 /\ Before /\ mode = "sequential"
       /\ \/ /\ Phase' = "starts" /\ Left' = 3 /\ UNCHANGED <<failure, thrown, life, seenFailure>>
             /\ \/ initialized' = initialized /\ stop
                \/ initialized' = initialized \cup {"game"}
          \/ thrown' = thrown + 1 /\ EnterTearDown("simulation") /\ initialized' = initialized
   BY <1>1, <1>7, Located, Moves DEF InitSimulation, Types, Throws, Before
 <2>2. failure = "none" /\ simPc = "absent" /\ simPc' = simPc
   BY <2>1, <1>7 DEF LifeInv, FailureBooks, Before, SimPlaces, InitSimulation
 <2>3. CASE Phase' = "starts" /\ Left' = 3 /\ UNCHANGED <<failure, thrown, life, seenFailure>>
  <3>1. initialized' = initialized \/ initialized' = initialized \cup {"game"} BY <2>1
  <3>2. stop \/ "game" \in initialized' BY <2>1, <2>3 DEF LifeInv, LifeTypes
  <3>4. "simulationOwner" \in initialized /\ {"renderer", "input"} \subseteq initialized BY <2>1 DEF PartPlaces, LifeInv
  <3>3. PartPlaces' BY <2>1, <2>3, <3>1, <3>2, <3>4, <1>1 DEF PartPlaces
  <3> QED BY <1>1, <2>1, <2>3, <3>3, UpPasses
 <2>4. CASE thrown' = thrown + 1 /\ EnterTearDown("simulation") /\ initialized' = initialized
  <3>2. "simulation" \in Places BY DEF Places, Steps
  <3>3. "game" \in initialized' => "simulationOwner" \in initialized' BY <2>4 DEF LifeInv, PartPlaces
  <3> QED BY <1>1, <2>1, <2>2, <2>4, <3>2, <3>3, UpFails
 <2> QED BY <2>1, <2>3, <2>4
<1>8. ASSUME StartThread PROVE LifeInv'
 <2>1. /\ Phase = "starts" /\ Left = 4 /\ Before /\ mode = "concurrent" /\ initialized' = initialized
       /\ \/ Phase' = "boots" /\ UNCHANGED <<failure, thrown, life, seenFailure>>
          \/ thrown' = thrown + 1 /\ EnterTearDown("simulation") /\ simPc' = simPc
   BY <1>1, <1>8, Located, Moves DEF StartThread, Types, Throws, Before
 <2>2. failure = "none" /\ simPc = "absent" BY <2>1 DEF LifeInv, FailureBooks, Before, SimPlaces
 <2>3. CASE Phase' = "boots" /\ UNCHANGED <<failure, thrown, life, seenFailure>>
  <3>1. PartPlaces' BY <2>1, <2>3, <1>1 DEF PartPlaces, LifeInv
  <3> QED BY <1>1, <2>1, <2>3, <3>1, UpPasses
 <2>4. CASE thrown' = thrown + 1 /\ EnterTearDown("simulation") /\ simPc' = simPc
  <3>2. "simulation" \in Places BY DEF Places, Steps
  <3>3. "game" \in initialized' => "simulationOwner" \in initialized' BY <2>1 DEF LifeInv, PartPlaces
  <3> QED BY <1>1, <2>1, <2>2, <2>4, <3>2, <3>3, UpFails
 <2> QED BY <2>1, <2>3, <2>4
<1> QED BY <1>3, <1>4, <1>5, <1>6, <1>7, <1>8

LEMMA LoopSteps ==
  ASSUME DownInv, LifeInv, Announce \/ Play \/ Cycle
  PROVE  LifeInv'
<1> USE DEF DownInv
<1>1. UNCHANGED <<mode, simFailure, simPc, begun, initialized, stop, cause, notified>>
  BY DEF Announce, Play, Cycle, Drain
<1>2. Left \in Nat /\ thrown \in Nat BY <1>1, Moves DEF LifeInv, LifeTypes
<1>3. "game" \in initialized' => "simulationOwner" \in initialized' BY <1>1 DEF LifeInv, PartPlaces
<1>4. initialized' \in SUBSET Capabilities BY <1>1 DEF LifeInv, LifeTypes
<1>5. ASSUME Before, failure = "none" \/ (stop /\ Phase = "starts"),
             \/ Phase = "starts" /\ Phase' = "starts" /\ Left = 2 /\ Left' = 1
             \/ Phase = "cycles" /\ Phase' = "starts" /\ Left' = 1
             \/ Phase = "starts" /\ Left = 3 /\ Phase' = "starts" /\ Left' = 1
             \/ Phase = "starts" /\ Left = 1 /\ Phase' = "cycles" /\ failure = "none",
             UNCHANGED <<failure, thrown, life, seenFailure>>
      PROVE  LifeInv'
 <2>1. Passing BY <1>5 DEF Passing, Before
 <2> QED BY <1>1, <1>5, <2>1, OwnerPassesOn DEF OwnerPasses
<1>6. ASSUME Announce PROVE LifeInv'
 <2>1. Phase = "starts" /\ Left = 3 /\ Before BY <1>1, <1>6, Located DEF Announce, Types, Before
 <2>2. failure = "none" \/ (stop /\ Phase = "starts") BY <2>1 DEF LifeInv, FailureBooks
 <2>3. CASE UNCHANGED <<failVars, life, seenFailure>>
  <3>1. CASE todo' = Tail(Tail(todo))
   <4>1. Phase' = "starts" /\ Left' = 1 BY <3>1, <2>1, <1>1, Moves
   <4> QED BY <4>1, <2>1, <2>2, <2>3, <1>5
  <3>2. CASE ~(stop \/ (mode = "concurrent" /\ "game" \notin initialized)) /\ Done
   <4>1. Phase' = "starts" /\ Left' = 2 BY <3>2, <2>1, <1>1, Moves
   <4>2. "game" \in initialized /\ failure = "none" BY <2>1, <2>2, <3>2 DEF LifeInv, PartPlaces, Types
   <4>3. PartPlaces' BY <4>1, <4>2, <2>1, <1>1 DEF LifeInv, PartPlaces
   <4>4. Passing /\ SimGoesOn BY <4>1, <4>2, <2>1, <1>1 DEF Passing, Before, SimGoesOn
   <4> QED BY <4>3, <4>4, <2>3, <1>1, SameLife, PassesOn
  <3>3. Done \/ todo' = Tail(Tail(todo)) BY <1>6, <2>3, <1>2, <2>1, <1>1, Moves DEF Announce, Throws, Done
  <3> QED BY <3>1, <3>2, <1>6, <2>3, <1>2 DEF Announce, Throws, Done
 <2>4. CASE ~stop /\ Throws /\ EnterTearDown("announce")
  <3>1. "announce" \in Places BY DEF Places, Steps
  <3> QED BY <2>1, <2>2, <2>4, <3>1, <1>1, <1>3, <1>4, UpFails DEF Throws
 <2> QED BY <1>6, <2>3, <2>4 DEF Announce
<1>7. ASSUME Play PROVE LifeInv'
 <2>1. Phase = "starts" /\ Left = 1 /\ Before BY <1>1, <1>7, Located DEF Play, Types, Before
 <2>2. failure = "none" \/ (stop /\ Phase = "starts") BY <2>1 DEF LifeInv, FailureBooks
 <2>3. CASE stop \/ simPc = "done"
  <3>1. EnterTearDown("none") /\ thrown' = thrown BY <1>7, <2>3 DEF Play
  <3>2. "none" \in Places BY DEF Places
  <3> QED BY <2>1, <3>1, <3>2, <1>1, <1>3, <1>4, UpFails
 <2>4. CASE ~(stop \/ simPc = "done")
  <3>1. Phase' = "cycles" /\ UNCHANGED <<failure, thrown, life, seenFailure>> BY <1>1, <1>7, <2>1, <2>4, Moves DEF Play
  <3> QED BY <2>1, <2>2, <2>4, <3>1, <1>5
 <2> QED BY <2>3, <2>4
<1>8. ASSUME Cycle PROVE LifeInv'
 <2>1. Phase = "cycles" /\ Before BY <1>1, <1>8, Located DEF Cycle, Types, Before
 <2>2. failure = "none" BY <2>1 DEF LifeInv, FailureBooks
 <2>3. CASE Done /\ UNCHANGED <<failVars, life, seenFailure>>
  <3>1. Phase' = "starts" /\ Left' = 1 BY <1>1, <2>1, <2>3, Moves
  <3> QED BY <2>1, <2>2, <2>3, <3>1, <1>5
 <2>4. CASE Throws /\ EnterTearDown("cycle")
  <3>1. "cycle" \in Places BY DEF Places
  <3> QED BY <2>1, <2>2, <2>4, <3>1, <1>1, <1>3, <1>4, UpFails DEF Throws
 <2> QED BY <1>8, <2>3, <2>4 DEF Cycle
<1> QED BY <1>6, <1>7, <1>8

LEMMA EstablishedParts ==
  ASSUME DownInv, LifeInv, mode = "concurrent", Established
  PROVE  /\ initialized' \in SUBSET Capabilities /\ initialized \subseteq initialized'
         /\ "game" \in initialized' => "simulationOwner" \in initialized'
<1>1. SimReady => SimBound BY DEF SimReady, SimBound, DownInv, SimPlaces, LifeInv, FailureBooks
<1>2. "game" \in initialized => "simulationOwner" \in initialized BY DEF LifeInv, PartPlaces
<1>3. initialized \in SUBSET Capabilities BY DEF LifeInv, LifeTypes
<1> QED BY <1>1, <1>2, <1>3 DEF Established, Capabilities

LEMMA BootKeeps ==
  ASSUME DownInv, LifeInv, Boot
  PROVE  LifeInv'
<1> USE DEF DownInv
<1>1. UNCHANGED <<mode, simFailure, simPc, begun, notified, seenFailure>> BY DEF Boot, Pump, Drain
<1>2. Phase = "boots" /\ Left = 4 /\ Before BY Located DEF Boot, Types, Before
<1>3. failure = "none" /\ mode = "concurrent" /\ {"renderer", "input"} \subseteq initialized
  BY <1>2 DEF LifeInv, FailureBooks, PartPlaces
<1>4. CASE Pump
 <2>1. OwnerPasses /\ todo' = todo BY <1>1, <1>4 DEF OwnerPasses, Pump, Drain
 <2>2. Phase' = Phase /\ Left' = Left BY <2>1, <1>1, Moves
 <2> QED BY <2>1, <2>2, OwnerPassesOn DEF Passing
<1>5. CASE Done /\ Established
 <2>1. Phase' = "starts" /\ Left' = 3 BY <1>1, <1>2, <1>5, Moves
 <2>2. /\ initialized' \in SUBSET Capabilities /\ initialized \subseteq initialized'
       /\ "game" \in initialized' => "simulationOwner" \in initialized'
   BY <1>3, <1>5, EstablishedParts
 <2>3. PartPlaces' BY <2>1, <2>2, <1>1, <1>3 DEF PartPlaces
 <2>4. CASE UNCHANGED <<failVars, life, stop, cause>>
  <3>1. Passing /\ SimGoesOn BY <1>1, <1>2, <1>3, <2>1 DEF Passing, Before, SimGoesOn
  <3> QED BY <1>1, <2>2, <2>3, <2>4, <3>1, SameLife, PassesOn
 <2>5. CASE /\ Throws /\ ForceStop("StopRequested") /\ failure' = "maintenance"
            /\ life' = [life EXCEPT !.stopRequested = TRUE]
  <3>1. Recounted(life, life', 0) BY <2>5, SameLife
  <3>2. /\ life'.stage = life.stage /\ life'.pending = life.pending /\ life' \in Snapshots
        /\ life'.secondary = life.secondary /\ life.secondary \in Nat /\ thrown \in Nat
   <4>1. life.secondary \in Nat /\ thrown \in Nat BY DEF LifeInv, LifeTypes, Snapshots
   <4> QED BY <3>1, <4>1 DEF Recounted
  <3>3. Told' BY <3>1, <1>1, ToldStill DEF LifeInv
  <3>4. life.stage \in {"Initializing", "Ready"} BY <1>2 DEF LifeInv, StagePlaces
  <3>5. StagePlaces' BY <3>2, <3>4, <2>1 DEF StagePlaces, Before, Over
  <3>6. Unseen' <=> Unseen BY <1>1, <1>2, <2>1 DEF Unseen, Past, Over
  <3>7. thrown' = life'.secondary + One(failure' # "none") + One(Unseen')
   <4>1. thrown = life.secondary + One(failure # "none") + One(Unseen) /\ thrown' = thrown + 1
     BY <2>5, <3>4 DEF LifeInv, FailureBooks, Throws
   <4>2. One(failure # "none") = 0 /\ One(failure' # "none") = 1 /\ One(Unseen) \in Nat /\ One(Unseen') = One(Unseen)
     BY <1>3, <2>5, <3>6 DEF One
   <4> QED BY <4>1, <4>2, <3>2
  <3>8. FailureBooks'
   <4>1. stop' = TRUE BY <2>5 DEF ForceStop
   <4> QED BY <4>1, <3>2, <3>4, <3>7, <2>1, <1>1, <1>2 DEF LifeInv, FailureBooks, Before, Over
  <3>9. LifeTypes'
   <4>1. failure' \in Places /\ thrown' \in Nat /\ cause' \in Causes
     BY <2>5, <3>2 DEF Places, Throws, ForceStop, LifeInv, LifeTypes, Causes
   <4> QED BY <4>1, <3>2, <2>2, <1>1 DEF LifeInv, LifeTypes
  <3> QED BY <2>3, <3>3, <3>5, <3>8, <3>9 DEF LifeInv
 <2> QED BY <1>5, <2>4, <2>5, <1>2, <1>1, <2>1 DEF Boot, Pump
<1> QED BY <1>4, <1>5 DEF Boot

LEMMA Notified ==
  ASSUME LifeTypes, NEW ls, Notify(ls)
  PROVE  /\ ls = <<>> => life' = life /\ notified' = notified
         /\ \A n \in Snapshots : ls = <<n>> => life' = n /\ notified' = Append(notified, n)
<1>1. notified \in Seq(Snapshots) BY DEF LifeTypes
<1>2. notified \o <<>> = notified BY <1>1, ConcatEmptySeq
<1>3. \A n \in Snapshots : Append(notified, n) = notified \o <<n>> BY <1>1, AppendIsConcat
<1>4. ls = <<>> => life' = life /\ notified' = notified BY <1>2 DEF Notify
<1>5. ASSUME NEW n \in Snapshots, ls = <<n>> PROVE life' = n /\ notified' = Append(notified, n)
 <2>1. ls # <<>> /\ ls[1] = n BY <1>5
 <2>2. life' = ls[1] /\ notified' = notified \o ls BY <2>1 DEF Notify
 <2> QED BY <2>1, <2>2, <1>3, <1>5
<1> QED BY <1>4, <1>5

\* A milestone is told.
LEMMA MilestoneKeeps ==
  ASSUME DownInv, LifeInv, NEW n, NEW parts, Follows(life, n, parts), Rank[n.stage] > Rank[life.stage],
         n.stage = "Ready" => parts = Capabilities,
         n.stage = "Stopped" => Over' /\ n.primary = failure /\ (n.outcome = "Failed" <=> failure # "none"),
         n.stage # "Unstarted", life.stage \notin {"Unstarted", "Stopped"},
         life' = n, notified' = Append(notified, n),
         UNCHANGED <<mode, initialized, failure, thrown, simFailure, seenFailure, simPc, begun>>,
         stop => stop', cause' \in Causes, Left \in Nat,
         \/ Phase = "starts" /\ Phase' = "starts" /\ Left = 2 /\ Left' = 1
         \/ Phase = "ends" /\ Phase' = "ends" /\ Left \in {13, 18} /\ Left' = Left - 1
         \/ Phase = "leaves" /\ Phase' = "leaves" /\ Left \in {5, 8} /\ Left' = Left - 1
         \/ Phase = "ends" /\ Left = 1 /\ Phase' = "ended"
  PROVE  LifeTypes' /\ Told' /\ FailureBooks' /\ PartPlaces'
<1> USE DEF LifeInv
<1>1. life \in Snapshots /\ notified \in Seq(Snapshots) /\ n \in Snapshots BY DEF LifeTypes, Follows
<1>2. ToldIn(Append(notified, n), n) /\ Append(notified, n) \in Seq(Snapshots) BY <1>1, ToldGrows DEF Told
<1>3. LifeTypes' BY <1>1, <1>2 DEF LifeTypes
<1>4. Told' BY <1>2 DEF Told
<1>5. Unseen' <=> Unseen
 <2>1. Past(16)' <=> Past(16) BY DEF Past, Over
 <2> QED BY <2>1 DEF Unseen
<1>6. thrown' = life'.secondary + One(failure' # "none") + One(Unseen')
 <2>1. life'.secondary = life.secondary BY DEF Follows
 <2> QED BY <2>1, <1>5 DEF FailureBooks
<1>7. FailureBooks' BY <1>6 DEF FailureBooks, Before, Over
<1>8. PartPlaces' BY PartsStay, DownInv DEF Before
<1> QED BY <1>3, <1>4, <1>7, <1>8

LEMMA TellingSteps ==
  ASSUME DownInv, LifeInv, PublishReady \/ PublishStarting \/ PublishQuiescing \/ FinishRun
  PROVE  LifeInv'
<1> USE DEF DownInv
<1>1. UNCHANGED <<mode, initialized, failure, thrown, simFailure, seenFailure, simPc, begun>>
  BY DEF PublishReady, PublishStarting, PublishQuiescing, FinishRun
<1>2. Left \in Nat BY <1>1, Moves
<1>3. /\ life \in Snapshots /\ notified \in Seq(Snapshots) /\ initialized \in SUBSET Capabilities
      /\ cause \in Causes /\ failure \in Places /\ life.stage \in Stages
      /\ life.stopRequested \in BOOLEAN /\ life.pending \in BOOLEAN
      /\ life.verdict = "committed" => life.cause = "AcceptedRequest"
  BY DEF LifeInv, LifeTypes, Told, ToldIn, Snapshots
<1>4. ASSUME PublishReady PROVE LifeInv'
 <2>1. Phase = "starts" /\ Left = 2 /\ Phase' = "starts" /\ Left' = 1 /\ Before
   BY <1>1, <1>4, Located, Moves DEF PublishReady, Types, Before
 <2>2. initialized = Capabilities
  <3>1. "game" \in initialized /\ {"renderer", "input"} \subseteq initialized BY <2>1 DEF LifeInv, PartPlaces
  <3>2. "simulationOwner" \in initialized BY <3>1 DEF LifeInv, PartPlaces
  <3> QED BY <3>1, <3>2, <1>3 DEF Capabilities
 <2>3. UNCHANGED <<stop, cause>> /\ Notify(Ready(life, FALSE)) BY <1>4 DEF PublishReady
 <2>4. CASE life.stage # "Initializing" \/ life.stopRequested
  <3>1. Ready(life, FALSE) = <<>> BY <2>4 DEF Ready
  <3>2. life' = life /\ notified' = notified BY <2>3, <3>1, Notified DEF LifeInv
  <3>3. failure = "none" \/ Left' < 4 BY <2>1
  <3> QED BY <2>1, <2>3, <3>2, <1>1, OwnerPassesOn DEF OwnerPasses, Passing, Before
 <2>5. CASE life.stage = "Initializing" /\ ~life.stopRequested
  <3>1. PICK n : n = Advanced([life EXCEPT !.reachedReady = TRUE, !.initialized = initialized], "Ready") OBVIOUS
  <3>2. Ready(life, FALSE) = <<n>> BY <2>5, <3>1 DEF Ready
  <3>3. Follows(life, n, initialized) /\ n.stage = "Ready" BY <2>5, <3>1, <1>3, ReadyFollows
  <3>4. life' = n /\ notified' = Append(notified, n) BY <2>3, <3>2, <3>3, Notified DEF LifeInv, Follows
  <3>5. Rank[n.stage] > Rank[life.stage] BY <2>5, <3>3 DEF Rank
  <3>6. LifeTypes' /\ Told' /\ FailureBooks' /\ PartPlaces'
    BY <2>1, <2>2, <2>3, <2>5, <3>3, <3>4, <3>5, <1>1, <1>2, <1>3, MilestoneKeeps
  <3>7. StagePlaces' BY <2>1, <3>3, <3>4 DEF StagePlaces, Before, Over
  <3> QED BY <3>6, <3>7 DEF LifeInv
 <2> QED BY <2>4, <2>5
<1>5. ASSUME PublishStarting PROVE LifeInv'
 <2>1. \/ Phase = "leaves" /\ Left = 8 /\ Phase' = "leaves" /\ Left' = 7
       \/ Phase = "ends" /\ Left = 18 /\ Phase' = "ends" /\ Left' = 17
   BY <1>1, <1>5, Located, Moves DEF PublishStarting, Types
 <2>2. life.stage \in {"Initializing", "Ready"} BY <2>1 DEF LifeInv, StagePlaces
 <2>3. PICK m : m = [life EXCEPT !.stopRequested = TRUE] OBVIOUS
 <2>4. stop' = TRUE /\ cause' \in Causes /\ Notify(Starting(m, cause'))
   BY <1>3, <1>5, <2>3 DEF PublishStarting, ForceStop, Causes
 <2>5. PICK c \in Causes : c = cause' BY <2>4
 <2>6. PICK n : n = Advanced([m EXCEPT !.cause = c, !.pending = FALSE, !.stopRequested = TRUE,
                       !.initialized = initialized,
                       !.verdict = IF ~m.pending THEN "none"
                                   ELSE IF c = "AcceptedRequest" THEN "committed" ELSE "superseded"],
                   "Stopping")
   OBVIOUS
 <2>7. m.stage = life.stage BY <2>3, <1>3 DEF Snapshots
 <2>8. Starting(m, c) = <<n>> BY <2>2, <2>6, <2>7 DEF Starting
 <2>9. Follows(life, n, initialized) /\ n.stage = "Stopping" BY <2>3, <2>6, <1>3, StartingFollows
 <2>10. life' = n /\ notified' = Append(notified, n) BY <2>4, <2>5, <2>8, <2>9, Notified DEF LifeInv, Follows
 <2>11. Rank[n.stage] > Rank[life.stage] BY <2>2, <2>9 DEF Rank
 <2>12. LifeTypes' /\ Told' /\ FailureBooks' /\ PartPlaces'
   BY <2>1, <2>2, <2>4, <2>9, <2>10, <2>11, <1>1, <1>2, <1>3, MilestoneKeeps
 <2>13. StagePlaces' BY <2>1, <2>9, <2>10 DEF StagePlaces, Before, Over, Follows
 <2> QED BY <2>12, <2>13 DEF LifeInv
<1>6. ASSUME PublishQuiescing PROVE LifeInv'
 <2>1. \/ Phase = "leaves" /\ Left = 5 /\ Phase' = "leaves" /\ Left' = 4
       \/ Phase = "ends" /\ Left = 13 /\ Phase' = "ends" /\ Left' = 12
   BY <1>1, <1>6, Located, Moves DEF PublishQuiescing, Types
 <2>2. life.stage \in {"Stopping", "Quiescing"} /\ life.pending = FALSE BY <2>1, <1>3 DEF LifeInv, StagePlaces
 <2>3. UNCHANGED <<stop, cause>> /\ Notify(Quiescing(life)) BY <1>6 DEF PublishQuiescing
 <2>4. CASE life.stage # "Stopping"
  <3>1. Quiescing(life) = <<>> BY <2>4 DEF Quiescing
  <3>2. life' = life /\ notified' = notified BY <2>3, <3>1, Notified DEF LifeInv
  <3> QED BY <2>1, <2>3, <3>2, <1>1, OwnerPassesOn DEF OwnerPasses, Passing, Before
 <2>5. CASE life.stage = "Stopping"
  <3>1. PICK n : n = Advanced(life, "Quiescing") OBVIOUS
  <3>2. Quiescing(life) = <<n>> BY <2>5, <3>1 DEF Quiescing
  <3>3. Follows(life, n, initialized) /\ n.stage = "Quiescing" BY <2>2, <3>1, <1>3, QuiescingFollows
  <3>4. life' = n /\ notified' = Append(notified, n) BY <2>3, <3>2, <3>3, Notified DEF LifeInv, Follows
  <3>5. Rank[n.stage] > Rank[life.stage] BY <2>5, <3>3 DEF Rank
  <3>6. LifeTypes' /\ Told' /\ FailureBooks' /\ PartPlaces'
    BY <2>1, <2>3, <2>5, <3>3, <3>4, <3>5, <1>1, <1>2, <1>3, MilestoneKeeps
  <3>7. StagePlaces' BY <2>1, <3>3, <3>4 DEF StagePlaces, Before, Over, Follows
  <3> QED BY <3>6, <3>7 DEF LifeInv
 <2> QED BY <2>4, <2>5
<1>7. ASSUME FinishRun PROVE LifeInv'
 <2>1. Phase = "ends" /\ Left = 1 /\ Phase' = "ended" BY <1>1, <1>7, Located, Moves DEF FinishRun, Types
 <2>2. life.stage \in {"Stopping", "Quiescing"} /\ life.pending = FALSE BY <2>1, <1>3 DEF LifeInv, StagePlaces
 <2>3. stop' = TRUE /\ cause' \in Causes /\ Notify(Stopped(life)) BY <1>3, <1>7 DEF FinishRun, ForceStop, Causes
 <2>4. PICK n : n = Advanced([life EXCEPT !.outcome = IF failure = "none" THEN "Completed" ELSE "Failed",
                        !.stopRequested = TRUE, !.primary = failure, !.closed = TRUE], "Stopped")
   OBVIOUS
 <2>5. Stopped(life) = <<n>> BY <2>4 DEF Stopped
 <2>6. Follows(life, n, initialized) /\ n.stage = "Stopped" /\ n.primary = failure
       /\ (n.outcome = "Failed" <=> failure # "none")
   BY <2>2, <2>4, <1>3, StoppedFollows
 <2>7. life' = n /\ notified' = Append(notified, n) BY <2>3, <2>5, <2>6, Notified DEF LifeInv, Follows
 <2>8. Rank[n.stage] > Rank[life.stage] BY <2>2, <2>6 DEF Rank
 <2>9. Over' BY <2>1 DEF Over
 <2>10. LifeTypes' /\ Told' /\ FailureBooks' /\ PartPlaces'
   BY <2>1, <2>2, <2>3, <2>6, <2>7, <2>8, <2>9, <1>1, <1>2, <1>3, MilestoneKeeps
 <2>11. StagePlaces' BY <2>1, <2>6, <2>7 DEF StagePlaces, Before, Over
 <2> QED BY <2>10, <2>11 DEF LifeInv
<1> QED BY <1>4, <1>5, <1>6, <1>7

LEMMA RunKeeps ==
  ASSUME DownInv, LifeInv, Run \/ RunRefused
  PROVE  LifeInv'
<1> USE DEF DownInv
<1>1. Phase = "fresh" BY Located DEF Run, RunRefused, Types
<1>2. /\ simPc = "absent" /\ simFailure = "none" /\ seenFailure = "none" /\ failure = "none"
      /\ thrown = 0 /\ life.secondary = 0 /\ life.stage = "Unstarted"
  BY <1>1, NoSimulation DEF SimPlaces, Untouched, LifeInv, FailureBooks, StagePlaces
<1>3. /\ life \in Snapshots /\ notified \in Seq(Snapshots) /\ initialized \in SUBSET Capabilities /\ cause \in Causes
  BY DEF LifeInv, LifeTypes
<1>4. /\ UNCHANGED <<mode, initialized, failure, notified, simFailure, seenFailure, simPc, begun>>
  BY DEF Run, RunRefused
<1>5. "game" \in initialized => "simulationOwner" \in initialized BY DEF LifeInv, PartPlaces
<1>6. ASSUME Run PROVE LifeInv'
 <2>1. (Phase' = "starts" /\ Left' = 10) \/ (Phase' = "leaves" /\ Left' = 8) BY <1>4, <1>6, Moves DEF Run
 <2>2. UNCHANGED <<thrown, stop, cause>> /\ life' = [life EXCEPT !.stage = "Initializing"] BY <1>6 DEF Run
 <2>3. PICK k : k = life' OBVIOUS
 <2>4. /\ k \in Snapshots
  <3>1. "Initializing" \in Stages BY DEF Stages
  <3> QED BY <3>1, <2>2, <2>3, <1>3 DEF Snapshots
 <2>5. /\ k.stage = "Initializing" /\ k.sequence = life.sequence /\ k.reachedReady = life.reachedReady
       /\ k.verdict = life.verdict /\ k.cause = life.cause /\ k.secondary = life.secondary
   BY <2>2, <2>3, <1>3 DEF Snapshots
 <2>6. Told'
  <3>1. Rank[life.stage] = 0 /\ Rank[k.stage] = 0 BY <1>2, <2>5 DEF Rank
  <3>2. k.sequence >= life.sequence BY <2>5, <1>3, SnapshotTypes
  <3>3. ToldIn(notified, k) BY <1>3, <2>4, <2>5, <3>1, <3>2, ToldKept DEF LifeInv, Told
  <3> QED BY <3>3, <2>3, <1>4 DEF Told
 <2>7. FailureBooks'
  <3>1. thrown' = 0 /\ life'.secondary = 0 /\ life'.stage = "Initializing" BY <1>2, <2>2, <2>3, <2>5
  <3>2. One(failure' # "none") = 0 /\ One(Unseen') = 0 BY <1>2, <1>4 DEF One, Unseen
  <3> QED BY <1>2, <1>4, <2>1, <3>1, <3>2 DEF FailureBooks
 <2>8. StagePlaces' BY <2>1, <2>3, <2>5 DEF StagePlaces, Before, Over
 <2>9. PartPlaces' BY <2>1, <1>4, <1>5 DEF PartPlaces
 <2>10. LifeTypes' BY <2>2, <2>3, <2>4, <1>4 DEF LifeInv, LifeTypes
 <2> QED BY <2>6, <2>7, <2>8, <2>9, <2>10 DEF LifeInv
<1>7. ASSUME RunRefused PROVE LifeInv'
 <2>1. Phase' = "ended" BY <1>4, <1>7, Moves DEF RunRefused
 <2>2. /\ thrown' = thrown + 1 /\ cause' \in Causes
       /\ life' = [life EXCEPT !.closed = TRUE, !.stopRequested = TRUE]
   BY <1>3, <1>7 DEF RunRefused, Throws, ForceStop, Causes
 <2>3. Recounted(life, life', 0) BY <2>2, SameLife
 <2>4. life' \in Snapshots /\ life'.stage = "Unstarted" BY <1>2, <2>3 DEF Recounted
 <2>5. Told' BY <2>3, <1>4, ToldStill DEF LifeInv
 <2>6. FailureBooks' /\ StagePlaces' /\ PartPlaces'
   BY <1>2, <1>4, <1>5, <2>1, <2>4 DEF FailureBooks, StagePlaces, PartPlaces, Before, Over
 <2>7. LifeTypes' BY <1>2, <1>4, <2>2, <2>4 DEF LifeInv, LifeTypes
 <2> QED BY <2>5, <2>6, <2>7 DEF LifeInv
<1> QED BY <1>6, <1>7

\* The join counts a failure that the owner had not seen.
LEMMA SettleKeeps ==
  ASSUME DownInv, LifeInv, Settle
  PROVE  LifeInv'
<1> USE DEF DownInv
<1>1. UNCHANGED <<mode, stop, cause, notified, seenFailure, simPc, simFailure, begun>> BY DEF Settle, Pump, Drain
<1>2. Phase = "ends" /\ Left = 16 /\ mode = "concurrent" BY Located DEF Settle, Types
<1>3. CASE Pump
 <2>1. OwnerPasses /\ todo' = todo BY <1>1, <1>3 DEF OwnerPasses, Pump, Drain
 <2>2. Phase' = Phase /\ Left' = Left BY <2>1, <1>1, Moves
 <2> QED BY <2>1, <2>2, OwnerPassesOn DEF Passing
<1>4. CASE Throws /\ Preserve("maintenance") /\ UNCHANGED <<todo, initialized>>
 <2>1. Phase' = Phase /\ Left' = Left BY <1>1, <1>4, Moves
 <2>2. "maintenance" \in Places \ {"none"} /\ thrown' = thrown + 1 BY <1>4 DEF Places, Throws
 <2> QED BY <2>1, <2>2, <1>1, <1>2, <1>4, DownMayFail DEF Passing
<1>5. CASE /\ simPc \in {"absent", "done"} /\ Done /\ Established /\ thrown' = thrown
           /\ IF simFailure # seenFailure THEN Preserve(simFailure) ELSE UNCHANGED <<failure, life>>
 <2>1. Phase' = "ends" /\ Left' = 15 BY <1>1, <1>2, <1>5, Moves
 <2>2. /\ initialized' \in SUBSET Capabilities
       /\ "game" \in initialized' => "simulationOwner" \in initialized'
   BY <1>2, <1>5, EstablishedParts
 <2>3. PartPlaces' BY <2>1, <2>2 DEF PartPlaces
 <2>4. CASE simFailure = seenFailure
  <3>1. Passing /\ SimGoesOn BY <1>1, <1>2, <2>1, <2>4 DEF Passing, SimGoesOn
  <3>2. UNCHANGED <<failure, life>> BY <1>5, <2>4
  <3> QED BY <3>1, <3>2, <1>1, <1>5, <2>2, <2>3, SameLife, PassesOn
 <2>5. CASE simFailure # seenFailure
  <3>1. simFailure # "none" /\ simFailure \in Places /\ Preserve(simFailure)
    BY <1>5, <2>5 DEF LifeInv, FailureBooks, LifeTypes
  <3>2. Unseen /\ ~Unseen' BY <1>1, <1>2, <2>1, <2>5 DEF Unseen, Past, Over
  <3>3. life \in Snapshots /\ life.secondary \in Nat /\ thrown \in Nat /\ failure \in Places
    BY DEF LifeInv, LifeTypes, Snapshots
  <3>4. PICK n \in {0, 1} : /\ Recounted(life, life', n)
                            /\ One(failure' # "none") + n = One(failure # "none") + 1
                            /\ failure' # "none" /\ failure' \in Places
   <4>1. CASE failure = "none"
    <5>1. life' = life /\ failure' = simFailure BY <3>1, <4>1 DEF Preserve
    <5>2. Recounted(life, life', 0) BY <5>1, SameLife
    <5>3. One(failure' # "none") + 0 = One(failure # "none") + 1 BY <3>1, <4>1, <5>1 DEF One
    <5> QED BY <3>1, <5>1, <5>2, <5>3
   <4>2. CASE failure # "none"
    <5>1. life' = Secondary(life, 1) /\ failure' = failure BY <3>1, <4>2 DEF Preserve
    <5> QED BY <3>3, <4>2, <5>1, Counts
   <4> QED BY <4>1, <4>2
  <3>5. /\ life'.stage = life.stage /\ life'.secondary = life.secondary + n /\ life' \in Snapshots
        /\ life'.pending = life.pending
    BY <3>4 DEF Recounted
  <3>6. life.stage \in {"Stopping", "Quiescing"} /\ ~life.pending BY <1>2 DEF LifeInv, StagePlaces
  <3>7. thrown' = life'.secondary + One(failure' # "none") + One(Unseen')
   <4>1. thrown = life.secondary + One(failure # "none") + One(Unseen) BY <3>6 DEF LifeInv, FailureBooks
   <4>2. One(Unseen) = 1 /\ One(Unseen') = 0 /\ One(failure # "none") \in Nat /\ One(failure' # "none") \in Nat
     BY <3>2 DEF One
   <4> QED BY <4>1, <4>2, <3>3, <3>4, <3>5, <1>5
  <3>8. FailureBooks' BY <3>5, <3>6, <3>7, <2>1, <1>1 DEF LifeInv, FailureBooks, Before, Over
  <3>9. StagePlaces' BY <3>5, <3>6, <2>1 DEF StagePlaces, Before, Over
  <3>10. Told' BY <3>4, <1>1, ToldStill DEF LifeInv
  <3>11. LifeTypes' BY <3>4, <3>5, <2>2, <1>1, <1>5 DEF LifeInv, LifeTypes
  <3> QED BY <2>3, <3>8, <3>9, <3>10, <3>11 DEF LifeInv
 <2> QED BY <2>4, <2>5
<1> QED BY <1>3, <1>4, <1>5 DEF Settle

\* Steps of others, and the end of the context.
LEMMA OtherSteps ==
  ASSUME DownInv, LifeInv, \/ Destroy \/ ProcessShutdown \/ StopElsewhere \/ SimAsks
                           \/ \E j \in Jobs : Submit(j) \/ JobAsks(j) \/ JobEnds(j)
  PROVE  LifeInv'
<1> USE DEF DownInv
<1>1. UNCHANGED <<mode, initialized, failure, thrown, simFailure, seenFailure, notified, simPc, begun>>
  BY DEF Destroy, ProcessShutdown, StopElsewhere, SimAsks, Submit, JobAsks, JobEnds
<1>2. SimGoesOn /\ Left \in Nat BY <1>1, Moves DEF SimGoesOn
<1>3. /\ life \in Snapshots /\ notified \in Seq(Snapshots) /\ initialized \in SUBSET Capabilities /\ cause \in Causes
  BY DEF LifeInv, LifeTypes
<1>4. ASSUME Destroy PROVE LifeInv'
 <2>1. (Phase' = "ended" /\ Left' = Left) \/ Phase' = "gone" BY <1>1, <1>4, Located, Moves DEF Destroy, Types
 <2>2. Recounted(life, life', 0) /\ UNCHANGED <<stop, cause>> BY <1>4, SameLife DEF Destroy
 <2>3. Phase = "ended" BY <1>4, Located DEF Destroy, Types
 <2>4. Passing BY <2>1, <2>3 DEF Passing
 <2>5. PartPlaces'
  <3>1. ~Before' BY <2>1 DEF Before
  <3> QED BY <3>1, <1>1, <1>2, <2>2, PartsStay DEF LifeInv
 <2> QED BY <1>1, <1>2, <1>3, <2>2, <2>4, <2>5, PassesOn
<1>5. ASSUME todo' = todo, stop => stop', cause' \in Causes, Recounted(life, life', 0) PROVE LifeInv'
 <2>1. Phase' = Phase /\ Left' = Left BY <1>1, <1>5, Moves
 <2>2. PartPlaces' BY <2>1, <1>1, <1>2, <1>5, PartsStay DEF LifeInv
 <2> QED BY <1>1, <1>2, <1>3, <1>5, <2>1, <2>2, PassesOn DEF Passing
<1>6. ASSUME StopElsewhere PROVE LifeInv'
 <2>1. todo' = todo /\ (stop => stop') /\ cause' \in Causes BY <1>3, <1>6 DEF StopElsewhere, ForceStop, Causes
 <2>2. life' = life \/ life' = [life EXCEPT !.stopRequested = TRUE] BY <1>6 DEF StopElsewhere
 <2>3. Recounted(life, life', 0) BY <2>2, SameLife
 <2> QED BY <2>1, <2>3, <1>5
<1>7. ASSUME SimAsks \/ \E j \in Jobs : Submit(j) \/ JobAsks(j) \/ JobEnds(j) PROVE LifeInv'
 <2>1. todo' = todo /\ stop' = stop /\ cause' = cause /\ life' = life BY <1>7 DEF SimAsks, Submit, JobAsks, JobEnds
 <2> QED BY <2>1, <1>3, <1>5, SameLife
<1>8. ASSUME ProcessShutdown PROVE LifeInv'
 <2>1. Before /\ todo' = todo BY <1>8, Located DEF ProcessShutdown, Types, Before
 <2>2. CASE life' = life
  <3>1. (stop => stop') /\ cause' \in Causes BY <1>3, <1>8 DEF ProcessShutdown, ForceStop, Causes
  <3> QED BY <2>1, <2>2, <3>1, <1>5, SameLife
 <2>3. CASE /\ UNCHANGED <<stop, cause>>
            /\ life' = Pending(life, TRUE) \/ life' = Pending(life, FALSE)
  <3>1. PICK b \in BOOLEAN : life' = Pending(life, b) BY <2>3
  <3>2. PICK k : k = life' OBVIOUS
  <3>3. k = [life EXCEPT !.pending = b, !.sequence = @ + 1, !.initialized = initialized] BY <3>1, <3>2 DEF Pending
  <3>4. /\ k \in Snapshots /\ k.stage = life.stage /\ k.sequence = life.sequence + 1
        /\ k.reachedReady = life.reachedReady /\ k.verdict = life.verdict /\ k.cause = life.cause
        /\ k.outcome = life.outcome /\ k.primary = life.primary /\ k.secondary = life.secondary
    BY <3>3, <1>3, PendingFields, ZenonT(40)
  <3>5. Phase' = Phase /\ Left' = Left BY <1>1, <2>1, Moves
  <3>6. FailureBooks' BY <3>2, <3>4, <3>5, <1>1, <1>2, <2>3, BooksKept DEF Passing, LifeInv
  <3>7. StagePlaces' BY <3>2, <3>4, <3>5, <1>2, <2>1, StagesKept DEF Passing, LifeInv
  <3>8. PartPlaces' BY <3>5, <1>1, <1>2, <2>3, PartsStay DEF LifeInv
  <3>9. Told'
   <4>1. life.stage \in {"Initializing", "Ready"} BY <2>1 DEF LifeInv, StagePlaces
   <4>2. ~(Rank[k.stage] > 1) BY <3>4, <4>1 DEF Rank
   <4>3. k.sequence >= life.sequence BY <3>4, <1>3, SnapshotTypes
   <4>4. ToldIn(notified, k) BY <1>3, <3>4, <4>2, <4>3, ToldKept DEF LifeInv, Told
   <4> QED BY <4>4, <3>2, <1>1 DEF Told
  <3>10. LifeTypes' BY <3>2, <3>4, <1>1, <2>3 DEF LifeInv, LifeTypes
  <3> QED BY <3>6, <3>7, <3>8, <3>9, <3>10 DEF LifeInv
 <2> QED BY <1>8, <2>2, <2>3 DEF ProcessShutdown
<1> QED BY <1>4, <1>6, <1>7, <1>8

\* The simulation's thread.
LEMMA SimSteps ==
  ASSUME DownInv, LifeInv, Simulation
  PROVE  LifeInv'
<1> USE DEF DownInv, SimMoves
<1>1. /\ UNCHANGED <<mode, todo, initialized, failure, seenFailure, notified>>
      /\ simPc \notin {"absent", "done"}
  BY DEF Simulation, SimBinds, SimReturns, SimProceeds, SimThrows, SimCloses, SimEnds, InCallback
<1>2. Phase' = Phase /\ Left' = Left /\ Left \in Nat BY <1>1, Moves
<1>3. /\ life \in Snapshots /\ notified \in Seq(Snapshots) /\ initialized \in SUBSET Capabilities /\ cause \in Causes
      /\ life.secondary \in Nat /\ thrown \in Nat
  BY DEF LifeInv, LifeTypes, Snapshots
<1>4. mode = "concurrent" /\ ~Past(16) /\ Phase \notin {"fresh", "leaves"} BY <1>1, NotJoined
<1>5. ~Past(16)' BY <1>2, <1>4 DEF Past, Over
<1>6. ~Over /\ ~Over' /\ Phase' # "fresh" BY <1>2, <1>4 DEF Past, Over
<1>7. ASSUME stop => stop' PROVE PartPlaces' BY <1>1, <1>2, <1>7, PartsStay DEF LifeInv
<1>8. ASSUME UNCHANGED <<stop, cause, life, thrown, simFailure>>, SimGoesOn PROVE LifeInv'
  BY <1>1, <1>2, <1>3, <1>7, <1>8, SameLife, PassesOn DEF Passing
<1>9. ASSUME SimBinds \/ SimReturns \/ SimProceeds \/ SimCloses PROVE LifeInv'
 <2>1. UNCHANGED <<stop, cause, life, thrown, simFailure>> BY <1>9 DEF SimBinds, SimReturns, SimProceeds, SimCloses
 <2>2. \/ simPc \notin {"closes", "deinits", "done"}
       \/ simPc' \in {"deinits", "done"} /\ begun' = begun
   BY <1>9 DEF SimBinds, SimReturns, SimProceeds, SimCloses, InCallback
 <2>3. SimGoesOn BY <2>2 DEF SimGoesOn, LifeInv, FailureBooks
 <2> QED BY <2>1, <2>3, <1>8
\* what is left of the books when the thread throws or ends
<1>10. ASSUME NEW n \in {0, 1}, Recounted(life, life', n), stop => stop', cause' \in Causes,
             thrown' = thrown + 1, simFailure' \in Places, simFailure' # "none", begun' = begun,
             simPc' \in {"closes", "deinits", "done"},
             simFailure' = "simulation_bind" => "simulation" \notin begun,
             seenFailure \in {"none", simFailure'},
             One(simFailure' # seenFailure) + n = One(simFailure # seenFailure) + 1
      PROVE  LifeInv'
 <2>1. /\ life'.stage = life.stage /\ life'.secondary = life.secondary + n /\ life' \in Snapshots
       /\ life'.pending = life.pending
   BY <1>10 DEF Recounted
 <2>2. (Unseen <=> simFailure # seenFailure) /\ (Unseen' <=> simFailure' # seenFailure) BY <1>1, <1>4, <1>5 DEF Unseen
 <2>3. life'.stage # "Unstarted" => thrown' = life'.secondary + One(failure' # "none") + One(Unseen')
  <3>1. life.stage # "Unstarted" => thrown = life.secondary + One(failure # "none") + One(Unseen)
    BY DEF LifeInv, FailureBooks
  <3>2. /\ One(failure # "none") \in Nat /\ One(Unseen) \in Nat /\ One(Unseen') \in Nat
        /\ One(failure' # "none") = One(failure # "none")
        /\ One(Unseen) = One(simFailure # seenFailure) /\ One(Unseen') = One(simFailure' # seenFailure)
    BY <2>2, <1>1 DEF One
  <3>3. PICK f \in Nat, u \in Nat, v \in Nat :
           f = One(failure # "none") /\ u = One(Unseen) /\ v = One(Unseen')
    BY <3>2
  <3>4. v + n = u + 1 BY <3>2, <3>3, <1>1, <1>10
  <3>5. SUFFICES ASSUME life.stage # "Unstarted" PROVE thrown' = life'.secondary + f + v BY <3>2, <3>3, <2>1
  <3>6. thrown = life.secondary + f + u BY <3>1, <3>3, <3>5
  <3>7. thrown' = thrown + 1 /\ life'.secondary = life.secondary + n BY <2>1, <1>10
  <3>8. PICK s \in Nat : s = life.secondary BY <1>3
  <3>9. s + f + u + 1 = s + n + f + v BY <3>4
  <3>10. thrown' = s + f + u + 1 BY <3>6, <3>7, <3>8
  <3>11. life'.secondary + f + v = s + n + f + v BY <3>7, <3>8
  <3> QED BY <3>9, <3>10, <3>11
 <2>4. life.stage # "Stopped" BY <1>6 DEF LifeInv, FailureBooks
 <2>5. Before' /\ failure' # "none" => stop' /\ Phase' = "starts" /\ Left' < 4
   BY <1>1, <1>2, <1>10 DEF LifeInv, FailureBooks, Before
 <2>6. Phase' = "fresh" \/ Before' => seenFailure' = "none" BY <1>1, <1>2 DEF LifeInv, FailureBooks, Before
 <2>7. FailureBooks' BY <2>1, <2>3, <2>4, <2>5, <2>6, <1>1, <1>6, <1>10 DEF FailureBooks
 <2>8. StagePlaces' BY <2>1, <1>2, StagesKept DEF Passing, LifeInv
 <2>9. Told' BY <1>1, <1>10, ToldStill DEF LifeInv
 <2>10. LifeTypes' BY <2>1, <1>1, <1>3, <1>10 DEF LifeInv, LifeTypes
 <2> QED BY <2>7, <2>8, <2>9, <2>10, <1>7, <1>10 DEF LifeInv
<1>11. ASSUME SimThrows PROVE LifeInv'
 <2>1. /\ thrown' = thrown + 1 /\ begun' = begun /\ simPc' = "closes" /\ life' = life
       /\ stop' = TRUE /\ cause' \in Causes /\ simPc \in {"binds", "inits", "updates"}
   BY <1>3, <1>11 DEF SimThrows, Throws, ForceStop, Causes, InCallback
 <2>2. simFailure = "none" /\ seenFailure = "none" BY <2>1 DEF LifeInv, FailureBooks
 <2>3. /\ simFailure' \in Places /\ simFailure' # "none"
       /\ simFailure' = "simulation_bind" => simPc = "binds"
   BY <1>11 DEF SimThrows, Places
 <2>4. simPc = "binds" => "simulation" \notin begun BY <1>4 DEF SimPlaces
 <2>5. One(simFailure' # seenFailure) + 0 = One(simFailure # seenFailure) + 1 BY <2>2, <2>3 DEF One
 <2>6. Recounted(life, life', 0) BY <2>1, SameLife
 <2>7. PICK n \in {0, 1} : n = 0 OBVIOUS
 <2> QED BY <2>1, <2>2, <2>3, <2>4, <2>5, <2>6, <2>7, <1>10
<1>12. ASSUME SimEnds PROVE LifeInv'
 <2>1. /\ begun' = begun /\ simPc' = "done" /\ UNCHANGED <<stop, cause>> /\ simPc = "deinits" BY <1>12 DEF SimEnds
 <2>2. CASE UNCHANGED <<simFailure, life, thrown>> BY <2>1, <2>2, <1>8 DEF SimGoesOn
 <2>3. CASE Throws /\ simFailure = "none" /\ simFailure' = "undoSimulation" /\ life' = life
  <3>1. seenFailure = "none" /\ simFailure' \in Places BY <2>3 DEF LifeInv, FailureBooks, Places, Steps
  <3>2. One(simFailure' # seenFailure) + 0 = One(simFailure # seenFailure) + 1 BY <2>3, <3>1 DEF One
  <3>3. Recounted(life, life', 0) BY <2>3, SameLife
  <3>4. PICK n \in {0, 1} : n = 0 OBVIOUS
  <3> QED BY <2>1, <2>3, <3>1, <3>2, <3>3, <3>4, <1>3, <1>10 DEF Throws
 <2>4. CASE Throws /\ simFailure # "none" /\ life' = Secondary(life, 1) /\ simFailure' = simFailure
  <3>1. /\ seenFailure \in {"none", simFailure} /\ simFailure \in Places
        /\ simFailure = "simulation_bind" => "simulation" \notin begun
    BY DEF LifeInv, FailureBooks, LifeTypes
  <3>2. Recounted(life, life', 1) BY <2>4, <1>3, Counts
  <3>3. One(simFailure' # seenFailure) + 1 = One(simFailure # seenFailure) + 1 BY <2>4
  <3>4. PICK n \in {0, 1} : n = 1 OBVIOUS
  <3> QED BY <2>1, <2>4, <3>1, <3>2, <3>3, <3>4, <1>3, <1>10 DEF Throws
 <2> QED BY <1>12, <2>2, <2>3, <2>4 DEF SimEnds
<1> QED BY <1>9, <1>11, <1>12 DEF Simulation

LEMMA LifeInit == SessionInit => LifeInv
<1> SUFFICES ASSUME SessionInit PROVE LifeInv OBVIOUS
<1> USE DEF SessionInit
<1>1. Phase = "fresh" BY GoneIs DEF Phase
<1>2. life \in Snapshots /\ life.stage = "Unstarted" /\ life.secondary = 0 /\ life.verdict = "none"
  BY DEF Snapshots, NoLife, Stages, Causes, Places, Capabilities
<1>3. LifeTypes BY <1>2, EmptySeq DEF LifeTypes, Capabilities, Causes, Places
<1>4. FailureBooks /\ StagePlaces /\ PartPlaces
  BY <1>1, <1>2 DEF FailureBooks, StagePlaces, PartPlaces, Before, Over, Unseen
<1>5. Told
 <2>1. DOMAIN notified = {} /\ notified = <<>> OBVIOUS
 <2>2. Rank[life.stage] = 0 BY <1>2 DEF Rank
 <2> QED BY <1>2, <2>1, <2>2 DEF Told, ToldIn
<1> QED BY <1>3, <1>4, <1>5 DEF LifeInv

LEMMA LifeStutters ==
  ASSUME DownInv, LifeInv, UNCHANGED sessionVars
  PROVE  LifeInv'
<1> USE DEF sessionVars
<1>1. Phase' = Phase /\ Left' = Left BY Moves DEF DownInv
<1>2. OwnerPasses BY DEF OwnerPasses
<1> QED BY <1>1, <1>2, OwnerPassesOn DEF Passing

LEMMA LifeNext == DownInv /\ LifeInv /\ [SessionNext]_sessionVars => LifeInv'
<1> SUFFICES ASSUME DownInv, LifeInv, [SessionNext]_sessionVars PROVE LifeInv' OBVIOUS
<1>1. CASE OwnerStep
  BY <1>1, RunKeeps, UpSteps, QuietSteps, LoopSteps, BootKeeps, TellingSteps, SettleKeeps, DownSteps, OtherSteps
    DEF OwnerStep
<1>2. CASE Simulation BY <1>2, SimSteps
<1>3. CASE ProcessShutdown \/ SimAsks \/ StopElsewhere \/ \E j \in Jobs : Submit(j) \/ JobAsks(j) \/ JobEnds(j)
  BY <1>3, OtherSteps
<1>4. CASE UNCHANGED sessionVars BY <1>4, LifeStutters
<1> QED BY <1>1, <1>2, <1>3, <1>4 DEF SessionNext

\* Every variable of a session stays in the set its type allows.
THEOREM TypeCorrect == SessionSpec => [](Types /\ LifeTypes)
<1>1. DownInv /\ LifeInv => Types /\ LifeTypes BY DEF DownInv, LifeInv
<1> QED BY <1>1, DownInit, DownNext, LifeInit, LifeNext, PTL DEF SessionSpec

\* What observers are told is what happened: milestones come in their
\* order, Ready only of a session that has all its parts and that nobody
\* was seen to stop, and everything that threw, on either thread, is the
\* primary failure or a counted secondary one (RuntimeLifecycle,
\* preserve_failure, finish_simulation).
THEOREM LifecycleTold == SessionSpec => []LifecycleIsTrue
<1>1. DownInv /\ LifeInv => LifecycleIsTrue
 <2> SUFFICES ASSUME DownInv, LifeInv PROVE LifecycleIsTrue OBVIOUS
 <2>1. Ends => Over BY GoneIs DEF Ends, Over, Phase
 <2>2. notified \in Seq(Snapshots) /\ ToldIn(notified, life) /\ life \in Snapshots BY DEF LifeInv, LifeTypes, Told
 <2>3. \A i \in DOMAIN notified : notified[i] \in Snapshots /\ ToldOf(notified[i], life)
   BY <2>2, ElementOfSeq, LenProperties DEF ToldIn
 <2>4. MilestonesTold
  <3>1. ASSUME NEW i \in DOMAIN notified, NEW k \in DOMAIN notified, i < k
        PROVE  /\ notified[i].sequence < notified[k].sequence
               /\ \E a, b \in 1..4 : a < b /\ notified[i].stage = StageOrder[a] /\ notified[k].stage = StageOrder[b]
               /\ notified[i].reachedReady = notified[k].reachedReady
   <4>1. notified[i].sequence < notified[k].sequence /\ Rank[notified[i].stage] < Rank[notified[k].stage]
     BY <2>2, <3>1 DEF ToldIn
   <4>2. PICK s \in Stages, t \in Stages : s = notified[i].stage /\ t = notified[k].stage BY <2>3, SnapshotTypes
   <4>3. Rank[s] > 0 /\ Rank[t] > 0 /\ Rank[s] < Rank[t] BY <2>3, <4>1, <4>2 DEF ToldOf
   <4>4. \A u \in Stages : Rank[u] > 0 => Rank[u] \in 1..4 /\ u = StageOrder[Rank[u]] BY DEF Stages, Rank, StageOrder
   <4>5. PICK a \in 1..4, b \in 1..4 : a = Rank[s] /\ b = Rank[t] BY <4>3, <4>4
   <4>6. a < b /\ s = StageOrder[a] /\ t = StageOrder[b] BY <4>3, <4>4, <4>5
   <4>7. notified[i].reachedReady = notified[k].reachedReady BY <2>3 DEF ToldOf
   <4> QED BY <4>1, <4>2, <4>6, <4>7
  <3>2. ASSUME NEW i \in DOMAIN notified
        PROVE  /\ notified[i].stage = "Ready" =>
                    ~notified[i].stopRequested /\ notified[i].initialized = {"renderer", "input", "game", "simulationOwner"}
               /\ notified[i].verdict = "committed" => notified[i].cause = "AcceptedRequest"
               /\ notified[i].stage # "Ready" => ~notified[i].pending
    BY <2>3 DEF ToldOf, Capabilities
  <3>3. ASSUME Ends, notified # <<>> PROVE notified[Len(notified)].stage = "Stopped"
   <4>1. notified[Len(notified)].stage = life.stage BY <2>2, <3>3 DEF ToldIn
   <4>2. life.stage # "Unstarted" BY <2>2, <3>3, Untold DEF Rank
   <4> QED BY <2>1, <3>3, <4>1, <4>2 DEF LifeInv, StagePlaces
  <3> QED BY <3>1, <3>2, <3>3 DEF MilestonesTold
 <2>5. FailuresAccounted
  <3> SUFFICES ASSUME Ends, life.stage = "Stopped"
               PROVE  /\ thrown = life.secondary + (IF life.outcome = "Failed" THEN 1 ELSE 0)
                      /\ life.outcome = "Failed" => life.primary = failure /\ failure # "none"
    BY DEF FailuresAccounted
  <3>1. ~Unseen BY <2>1 DEF Unseen, Past
  <3>2. /\ thrown = life.secondary + One(failure # "none") + One(Unseen)
        /\ life.primary = failure /\ (life.outcome = "Failed" <=> failure # "none")
    BY DEF LifeInv, FailureBooks
  <3>3. One(Unseen) = 0 /\ One(failure # "none") = IF life.outcome = "Failed" THEN 1 ELSE 0 BY <3>1, <3>2 DEF One
  <3>4. life.secondary \in Nat BY <2>2, SnapshotTypes
  <3> QED BY <3>2, <3>3, <3>4
 <2> QED BY <2>4, <2>5 DEF LifecycleIsTrue
<1> QED BY <1>1, DownInit, DownNext, LifeInit, LifeNext, PTL DEF SessionSpec

\* ---- The worker stream. ----


\* Where the pump of a call in progress can be.  A call that still has its
\* pump to mark finds it either unmarked and alive, or cancelled and gone;
\* a pump that is destroyed later was marked accepted.
CallShape ==
  /\ \A w \in Works : InCall(w) <=> holder = w
  /\ \A w \in Works : fate[w] \in {"new", "submitting"} => job[w] = "none" /\ phase[w] = "Preparing"
  /\ \A w \in Works : fate[w] = "withdrawing" => job[w] = "none"
  /\ \A w \in Works : fate[w] = "committing" =>
         \/ phase[w] = "Preparing" /\ job[w] \in {"queued", "drain"}
         \/ phase[w] = "Cancelled" /\ job[w] = "ended"
  /\ \A w \in Works : job[w] = "queued" /\ ~InCall(w) => phase[w] = "Accepted"

\* A posted work is in one place: in the queue once, or in the hand of the
\* pump that runs it.
WorkPlaces ==
  /\ \A p \in Works : job[p] = "working" => inHand[p] \in Works /\ fate[inHand[p]] = "running"
  /\ \A w \in Works : fate[w] = "running" => \E p \in Works : job[p] = "working" /\ inHand[p] = w
  /\ \A i \in DOMAIN pending : fate[pending[i]] = "waiting" \/ InCall(pending[i])
  /\ \A i, j \in DOMAIN pending : pending[i] = pending[j] => i = j

IInv == StreamTypeOK /\ OneOwner /\ NoneStranded /\ WithdrawsOwn /\ CallShape /\ WorkPlaces

--------------------
LEMMA InitHolds == StreamInit => IInv
<1> SUFFICES ASSUME StreamInit PROVE IInv OBVIOUS
<1> USE NobodyAssumption DEF StreamInit
<1>1. StreamTypeOK
 <2>1. <<>> \in Seq(Works) OBVIOUS
 <2>2. QED BY <2>1 DEF StreamTypeOK
<1>2. Owners = {} BY DEF Owners, InCall, Live
<1>3. OneOwner /\ NoneStranded BY <1>2 DEF OneOwner, NoneStranded
<1>4. WithdrawsOwn /\ CallShape /\ WorkPlaces BY DEF WithdrawsOwn, CallShape, WorkPlaces, InCall
<1>5. QED BY <1>1, <1>3, <1>4 DEF IInv

LEMMA RefuseKeeps ==
  ASSUME IInv, NEW w \in Works, Refuse(w)
  PROVE  IInv'
<1> USE NobodyAssumption DEF Refuse, IInv, queueVars, Unlocked
<1>1. StreamTypeOK' BY DEF StreamTypeOK
<1>2. OneOwner' BY DEF OneOwner, Owners, InCall, Live
<1>3. NoneStranded' BY DEF NoneStranded, Owners, InCall, Live
<1>4. WithdrawsOwn' BY DEF WithdrawsOwn, InCall
<1>5. CallShape' BY DEF CallShape, InCall
<1>6. WorkPlaces' BY DEF WorkPlaces, InCall
<1>7. QED BY <1>1, <1>2, <1>3, <1>4, <1>5, <1>6

LEMMA JoinKeeps ==
  ASSUME IInv, NEW w \in Works, Join(w)
  PROVE  IInv'
<1> USE NobodyAssumption DEF Join, IInv, queueVars, Unlocked
<1>1. StreamTypeOK' BY DEF StreamTypeOK
<1>2. OneOwner' BY DEF OneOwner, Owners, InCall, Live
<1>3. NoneStranded' BY DEF OneOwner, NoneStranded, Owners, InCall, Live
<1>4. WithdrawsOwn' BY DEF WithdrawsOwn, CallShape, InCall
<1>5. CallShape' BY DEF CallShape, InCall
<1>6. WorkPlaces' BY DEF StreamTypeOK, WorkPlaces, WithdrawsOwn, InCall
<1>7. QED BY <1>1, <1>2, <1>3, <1>4, <1>5, <1>6

LEMMA BringKeeps ==
  ASSUME IInv, NEW w \in Works, Bring(w)
  PROVE  IInv'
<1> USE NobodyAssumption DEF Bring, IInv, queueVars, Unlocked
<1>1. StreamTypeOK' BY DEF StreamTypeOK
<1>2. OneOwner' BY DEF StreamTypeOK, OneOwner, Owners, InCall, Live
<1>3. NoneStranded' BY DEF StreamTypeOK, NoneStranded, Owners, InCall
<1>4. WithdrawsOwn'
 <2>1. pending = <<>> BY DEF OneOwner, NoneStranded
 <2>2. pending' = <<w>> BY <2>1
 <2>3. ASSUME NEW v \in Works, InCall(v)' PROVE v = w BY <2>3 DEF CallShape, InCall
 <2>4. QED BY <2>2, <2>3 DEF WithdrawsOwn
<1>5. CallShape' BY DEF StreamTypeOK, CallShape, InCall
<1>6. WorkPlaces' BY DEF StreamTypeOK, WorkPlaces, WithdrawsOwn, InCall
<1>7. QED BY <1>1, <1>2, <1>3, <1>4, <1>5, <1>6

LEMMA PoolAcceptsKeeps ==
  ASSUME IInv, NEW w \in Works, PoolAccepts(w)
  PROVE  IInv'
<1> USE NobodyAssumption DEF PoolAccepts, IInv, queueVars, Unlocked
<1>1. StreamTypeOK' BY DEF StreamTypeOK, CallShape
<1>2. OneOwner' BY DEF OneOwner, Owners, InCall, Live
<1>3. NoneStranded' BY DEF NoneStranded, Owners, InCall
<1>4. WithdrawsOwn' BY DEF WithdrawsOwn, InCall
<1>5. CallShape' BY DEF StreamTypeOK, CallShape, InCall
<1>6. WorkPlaces' BY DEF WorkPlaces, CallShape, InCall
<1>7. QED BY <1>1, <1>2, <1>3, <1>4, <1>5, <1>6

LEMMA PoolThrowsKeeps ==
  ASSUME IInv, NEW w \in Works, PoolThrows(w)
  PROVE  IInv'
<1> USE NobodyAssumption DEF PoolThrows, IInv, queueVars, Unlocked
<1>1. StreamTypeOK' BY DEF StreamTypeOK
<1>2. OneOwner' BY DEF OneOwner, Owners, InCall, Live
<1>3. NoneStranded' BY DEF NoneStranded, Owners, InCall
<1>4. WithdrawsOwn' BY DEF WithdrawsOwn, InCall
<1>5. CallShape' BY DEF StreamTypeOK, CallShape, InCall
<1>6. WorkPlaces' BY DEF WorkPlaces, InCall
<1>7. QED BY <1>1, <1>2, <1>3, <1>4, <1>5, <1>6

LEMMA CommitKeeps ==
  ASSUME IInv, NEW w \in Works, Commit(w)
  PROVE  IInv'
<1> USE NobodyAssumption DEF Commit, IInv, queueVars, Unlocked
<1>1. StreamTypeOK' BY DEF StreamTypeOK
<1>2. OneOwner' BY DEF OneOwner, CallShape, Owners, InCall, Live
<1>3. NoneStranded' BY DEF NoneStranded, CallShape, Owners, Live
<1>4. WithdrawsOwn' BY DEF WithdrawsOwn, InCall
<1>5. CallShape' BY DEF StreamTypeOK, CallShape, InCall
<1>6. WorkPlaces' BY DEF WorkPlaces, InCall
<1>7. QED BY <1>1, <1>2, <1>3, <1>4, <1>5, <1>6

LEMMA WithdrawKeeps ==
  ASSUME IInv, NEW w \in Works, Withdraw(w)
  PROVE  IInv'
<1> USE NobodyAssumption DEF Withdraw, IInv, queueVars, Unlocked
<1>1. StreamTypeOK'
 <2>1. pending = <<w>> BY DEF WithdrawsOwn, InCall
 <2>2. pending' = <<>> /\ Head(pending) = w BY <2>1
 <2>3. <<>> \in Seq(Works) OBVIOUS
 <2>4. QED BY <2>2, <2>3 DEF StreamTypeOK
<1>2. OneOwner' BY DEF StreamTypeOK, OneOwner, WithdrawsOwn, CallShape, Owners, InCall, Live
<1>3. NoneStranded' BY DEF StreamTypeOK, NoneStranded, WithdrawsOwn, InCall
<1>4. WithdrawsOwn' BY DEF StreamTypeOK, WithdrawsOwn, InCall
<1>5. CallShape' BY DEF StreamTypeOK, CallShape, WithdrawsOwn, InCall
<1>6. WorkPlaces' BY DEF StreamTypeOK, WorkPlaces, WithdrawsOwn, InCall
<1>7. QED BY <1>1, <1>2, <1>3, <1>4, <1>5, <1>6

LEMMA JobEntersKeeps ==
  ASSUME IInv, NEW w \in Works, JobEnters(w)
  PROVE  IInv'
<1> USE NobodyAssumption DEF JobEnters, IInv, queueVars, Unlocked
<1>1. StreamTypeOK' BY DEF StreamTypeOK
<1>2. OneOwner' BY DEF OneOwner, Owners, InCall, Live
<1>3. NoneStranded' BY DEF NoneStranded, Owners, Live
<1>4. WithdrawsOwn' BY DEF WithdrawsOwn, InCall
<1>5. CallShape' BY DEF CallShape, InCall
<1>6. WorkPlaces' BY DEF WorkPlaces, InCall
<1>7. QED BY <1>1, <1>2, <1>3, <1>4, <1>5, <1>6

LEMMA JobDroppedKeeps ==
  ASSUME IInv, NEW w \in Works, JobDropped(w)
  PROVE  IInv'
<1> USE NobodyAssumption DEF JobDropped, IInv, queueVars, Unlocked
<1>1. StreamTypeOK' BY DEF StreamTypeOK
<1>2. OneOwner' BY DEF OneOwner, CallShape, Owners, InCall, Live
<1>3. NoneStranded' BY DEF NoneStranded, CallShape, Owners, InCall, Live
<1>4. WithdrawsOwn' BY DEF WithdrawsOwn, InCall
<1>5. CallShape' BY DEF StreamTypeOK, CallShape, InCall
<1>6. WorkPlaces' BY DEF WorkPlaces, InCall
<1>7. QED BY <1>1, <1>2, <1>3, <1>4, <1>5, <1>6

LEMMA DrainTakesKeeps ==
  ASSUME IInv, NEW w \in Works, DrainTakes(w)
  PROVE  IInv'
<1> USE NobodyAssumption DEF DrainTakes, IInv, queueVars, Unlocked
<1>1. StreamTypeOK' BY DEF StreamTypeOK
<1>2. OneOwner' BY DEF OneOwner, Owners, InCall, Live
<1>3. NoneStranded' BY DEF NoneStranded, Owners, Live
<1>4. WithdrawsOwn' BY DEF WithdrawsOwn, CallShape, InCall
<1>5. CallShape' BY DEF CallShape, InCall
<1>6. WorkPlaces' BY DEF StreamTypeOK, WorkPlaces, InCall
<1>7. QED BY <1>1, <1>2, <1>3, <1>4, <1>5, <1>6

LEMMA DrainEndsKeeps ==
  ASSUME IInv, NEW w \in Works, DrainEnds(w)
  PROVE  IInv'
<1> USE NobodyAssumption DEF DrainEnds, IInv, queueVars, Unlocked
<1>1. StreamTypeOK' BY DEF StreamTypeOK
<1>2. OneOwner' BY DEF StreamTypeOK, OneOwner, CallShape, Owners, InCall, Live
<1>3. NoneStranded' BY DEF NoneStranded
<1>4. WithdrawsOwn' BY DEF WithdrawsOwn, InCall
<1>5. CallShape' BY DEF CallShape, InCall
<1>6. WorkPlaces' BY DEF WorkPlaces
<1>7. QED BY <1>1, <1>2, <1>3, <1>4, <1>5, <1>6

LEMMA WorkReturnsKeeps ==
  ASSUME IInv, NEW w \in Works, WorkReturns(w)
  PROVE  IInv'
<1> USE NobodyAssumption DEF WorkReturns, WorkEnds, IInv, queueVars, Unlocked
<1>1. StreamTypeOK' BY DEF StreamTypeOK
<1>2. OneOwner' BY DEF OneOwner, Owners, InCall, Live
<1>3. NoneStranded' BY DEF NoneStranded, Owners, Live
<1>4. WithdrawsOwn' BY DEF WithdrawsOwn, InCall
<1>5. CallShape' BY DEF CallShape, WorkPlaces, InCall
<1>6. WorkPlaces' BY DEF StreamTypeOK, WorkPlaces, OneOwner, Owners, Live, InCall
<1>7. QED BY <1>1, <1>2, <1>3, <1>4, <1>5, <1>6

LEMMA WorkThrowsKeeps ==
  ASSUME IInv, NEW w \in Works, WorkThrows(w)
  PROVE  IInv'
<1> USE NobodyAssumption DEF WorkThrows, WorkEnds, IInv, queueVars, Unlocked
<1>1. StreamTypeOK' BY DEF StreamTypeOK
<1>2. OneOwner' BY DEF OneOwner, Owners, InCall, Live
<1>3. NoneStranded' BY DEF NoneStranded, Owners, Live
<1>4. WithdrawsOwn' BY DEF WithdrawsOwn, InCall
<1>5. CallShape' BY DEF CallShape, WorkPlaces, InCall
<1>6. WorkPlaces' BY DEF StreamTypeOK, WorkPlaces, OneOwner, Owners, Live, InCall
<1>7. QED BY <1>1, <1>2, <1>3, <1>4, <1>5, <1>6

LEMMA AbandonKeeps ==
  ASSUME IInv, NEW w \in Works, Abandon(w)
  PROVE  IInv'
<1> USE NobodyAssumption DEF Abandon, IInv, queueVars, Unlocked
<1>1. StreamTypeOK'
 <2>1. <<>> \in Seq(Works) OBVIOUS
 <2>2. fate' \in [Works -> {"new", "submitting", "committing", "withdrawing", "refused",
                           "waiting", "running", "done", "cancelled"}]
   BY DEF StreamTypeOK
 <2>3. QED BY <2>1, <2>2 DEF StreamTypeOK
<1>2. OneOwner' BY DEF StreamTypeOK, OneOwner, WithdrawsOwn, WorkPlaces, Owners, InCall, Live, Waiting
<1>3. NoneStranded' BY DEF NoneStranded
<1>4. WithdrawsOwn' BY DEF WithdrawsOwn, InCall, Waiting
<1>5. CallShape' BY DEF CallShape, InCall
<1>6. WorkPlaces' BY DEF WorkPlaces, InCall, Waiting
<1>7. QED BY <1>1, <1>2, <1>3, <1>4, <1>5, <1>6

LEMMA CloseGroupKeeps ==
  ASSUME IInv, CloseGroup
  PROVE  IInv'
<1> USE DEF CloseGroup, IInv, queueVars
<1>1. StreamTypeOK' BY DEF StreamTypeOK
<1>2. OneOwner' /\ NoneStranded' BY DEF OneOwner, NoneStranded, Owners, InCall, Live
<1>3. WithdrawsOwn' /\ CallShape' /\ WorkPlaces' BY DEF WithdrawsOwn, CallShape, WorkPlaces, InCall
<1>4. QED BY <1>1, <1>2, <1>3

LEMMA StutterKeeps ==
  ASSUME IInv, UNCHANGED streamVars
  PROVE  IInv'
<1> USE DEF streamVars, IInv, queueVars
<1>1. StreamTypeOK' BY DEF StreamTypeOK
<1>2. OneOwner' /\ NoneStranded' BY DEF OneOwner, NoneStranded, Owners, InCall, Live
<1>3. WithdrawsOwn' /\ CallShape' /\ WorkPlaces' BY DEF WithdrawsOwn, CallShape, WorkPlaces, InCall
<1>4. QED BY <1>1, <1>2, <1>3

LEMMA NextKeeps ==
  ASSUME IInv, [StreamNext]_streamVars
  PROVE  IInv'
<1>1. CASE \E w \in Works : Refuse(w) \/ Join(w) \/ Bring(w) \/ FinishPost(w)
  BY <1>1, RefuseKeeps, JoinKeeps, BringKeeps, PoolAcceptsKeeps, PoolThrowsKeeps, CommitKeeps, WithdrawKeeps
    DEF FinishPost
<1>2. CASE \E p \in Works : PumpStep(p)
  BY <1>2, JobEntersKeeps, JobDroppedKeeps, DrainTakesKeeps, DrainEndsKeeps, WorkReturnsKeeps, WorkThrowsKeeps,
    AbandonKeeps DEF PumpStep
<1>3. CASE CloseGroup BY <1>3, CloseGroupKeeps
<1>4. CASE UNCHANGED streamVars BY <1>4, StutterKeeps
<1>5. QED BY <1>1, <1>2, <1>3, <1>4 DEF StreamNext

THEOREM Invariant == StreamSpec => []IInv
<1>1. StreamInit => IInv BY InitHolds
<1>2. IInv /\ [StreamNext]_streamVars => IInv' BY NextKeeps
<1>3. QED BY <1>1, <1>2, PTL DEF StreamSpec

\* Every variable of the stream stays in its range, however many threads
\* post and whatever the pool does with the pumps.
THEOREM StreamTypeCorrect == StreamSpec => []StreamTypeOK
<1>1. IInv => StreamTypeOK BY DEF IInv
<1>2. QED BY <1>1, Invariant, PTL

\* The stream never has two pumps, and is scheduled exactly when somebody
\* answers for it.
THEOREM StreamHasOneOwner == StreamSpec => []OneOwner
<1>1. IInv => OneOwner BY DEF IInv
<1>2. QED BY <1>1, Invariant, PTL

\* No accepted work is left in a stream that nobody drains.
THEOREM NoWorkStranded == StreamSpec => []NoneStranded
<1>1. IInv => NoneStranded BY DEF IInv
<1>2. QED BY <1>1, Invariant, PTL

\* A failed submission withdraws the work of its own call and no other.
THEOREM FailureWithdrawsOwn == StreamSpec => []WithdrawsOwn
<1>1. IInv => WithdrawsOwn BY DEF IInv
<1>2. QED BY <1>1, Invariant, PTL

--------------------
\* The steps that only the pool and the pump's bookkeeping see.
LEMMA QuietStep ==
  ASSUME StreamTypeOK, NEW w \in Works,
         PoolAccepts(w) \/ PoolThrows(w) \/ Commit(w) \/ JobEnters(w) \/ JobDropped(w) \/ DrainEnds(w)
  PROVE  UNCHANGED Stream!vars
BY DEF StreamTypeOK, PoolAccepts, PoolThrows, Commit, JobEnters, JobDropped, DrainEnds, queueVars, Stream!vars, Running,
  Settled

LEMMA PostStep ==
  ASSUME IInv, NEW w \in Works, Join(w) \/ Bring(w)
  PROVE  Stream!Post(w)
<1>1. fate[w] = "new" /\ pending' = Append(pending, w) BY DEF Join, Bring
<1>2. Stream!Unposted(w) BY <1>1 DEF IInv, WorkPlaces, InCall, Stream!Unposted, Running, Settled
<1>3. UNCHANGED <<Running, Settled>> BY <1>1 DEF Join, Bring, IInv, StreamTypeOK, Running, Settled
<1>4. QED BY <1>1, <1>2, <1>3 DEF Stream!Post

LEMMA TurnAwayStep ==
  ASSUME IInv, NEW w \in Works, Refuse(w)
  PROVE  Stream!TurnAway(w)
<1>1. fate[w] = "new" /\ fate' = [fate EXCEPT ![w] = "refused"] /\ pending' = pending BY DEF Refuse, queueVars
<1>2. Stream!Unposted(w) BY <1>1 DEF IInv, WorkPlaces, InCall, Stream!Unposted, Running, Settled
<1>3. Running' = Running /\ Settled' = Settled \cup {w} BY <1>1 DEF IInv, StreamTypeOK, Running, Settled
<1>4. QED BY <1>1, <1>2, <1>3 DEF Stream!TurnAway

LEMMA WithdrawStep ==
  ASSUME IInv, NEW w \in Works, Withdraw(w)
  PROVE  Stream!Lose
<1>1. InCall(w) /\ pending = <<w>> BY DEF IInv, Withdraw, WithdrawsOwn, InCall
<1>2. pending' = <<>> /\ fate' = [fate EXCEPT ![w] = "refused"] BY <1>1 DEF Withdraw
<1>3. {pending[i] : i \in DOMAIN pending} = {w} BY <1>1
<1>4. Running' = Running /\ Settled' = Settled \cup {w} BY <1>1, <1>2 DEF IInv, StreamTypeOK, InCall, Running, Settled
<1>5. QED BY <1>2, <1>3, <1>4 DEF Stream!Lose

LEMMA AbandonStep ==
  ASSUME IInv, NEW p \in Works, Abandon(p)
  PROVE  Stream!Lose
<1>1. /\ Waiting \subseteq Works
      /\ \A w \in Waiting : fate[w] # "running"
  BY DEF IInv, StreamTypeOK, WorkPlaces, InCall, Waiting
<1>2. Running' = Running /\ Settled' = Settled \cup Waiting BY <1>1 DEF Abandon, Running, Settled
<1>3. QED BY <1>2 DEF Abandon, Stream!Lose, Waiting

LEMMA BeginStep ==
  ASSUME IInv, NEW p \in Works, DrainTakes(p)
  PROVE  Stream!Begin
<1>1. Running = {} BY DEF IInv, OneOwner, WorkPlaces, Owners, Live, DrainTakes, Running
<1>2. PICK w \in Works : w = Head(pending) BY DEF IInv, StreamTypeOK, DrainTakes
<1>3. fate[w] = "waiting" \/ InCall(w) BY <1>2 DEF IInv, StreamTypeOK, DrainTakes, WorkPlaces
<1>4. fate' = [fate EXCEPT ![w] = "running"] /\ pending # <<>> /\ pending' = Tail(pending) BY <1>2 DEF DrainTakes
<1>5. Running' = {w} /\ Settled' = Settled BY <1>1, <1>3, <1>4 DEF IInv, StreamTypeOK, InCall, Running, Settled
<1>6. QED BY <1>1, <1>2, <1>4, <1>5 DEF Stream!Begin

LEMMA EndStep ==
  ASSUME IInv, NEW p \in Works, WorkReturns(p) \/ WorkThrows(p)
  PROVE  Stream!End
<1>1. PICK w \in Works : w = inHand[p] /\ fate[w] = "running" BY DEF IInv, WorkPlaces, WorkReturns, WorkThrows, WorkEnds
<1>2. Running = {w}
 <2>1. job[p] = "working" BY DEF WorkReturns, WorkThrows, WorkEnds
 <2>2. QED BY <1>1, <2>1 DEF IInv, OneOwner, WorkPlaces, Owners, Live, Running
<1>3. fate' = [fate EXCEPT ![w] = "done"] /\ pending' = pending BY <1>1 DEF WorkReturns, WorkThrows, WorkEnds, queueVars
<1>4. Running' = {} /\ Settled' = Settled \cup {w} BY <1>2, <1>3 DEF IInv, StreamTypeOK, Running, Settled
<1>5. QED BY <1>2, <1>3, <1>4 DEF Stream!End

LEMMA NextRefines ==
  ASSUME IInv, [StreamNext]_streamVars
  PROVE  [Stream!Next]_(Stream!vars)
<1>1. CASE \E w \in Works : Refuse(w) \/ Join(w) \/ Bring(w) BY <1>1, TurnAwayStep, PostStep DEF Stream!Next
<1>2. CASE \E w \in Works : FinishPost(w) BY <1>2, QuietStep, WithdrawStep DEF FinishPost, IInv, Stream!Next
<1>3. CASE \E p \in Works : PumpStep(p)
  BY <1>3, QuietStep, BeginStep, EndStep, AbandonStep DEF PumpStep, IInv, Stream!Next
<1>4. CASE CloseGroup \/ UNCHANGED streamVars
  BY <1>4 DEF CloseGroup, streamVars, queueVars, Stream!vars, Running, Settled
<1>5. QED BY <1>1, <1>2, <1>3, <1>4 DEF StreamNext

\* The transport is a serial stream: its works run one at a time in the
\* order posted, whatever the pool does with its pumps.
THEOREM RefinesSerialStream == StreamSpec => IsSerialStream
<1>1. StreamInit => Stream!Init BY DEF StreamInit, Stream!Init, Running, Settled
<1>2. IInv /\ [StreamNext]_streamVars => [Stream!Next]_(Stream!vars) BY NextRefines
<1>3. QED BY <1>1, <1>2, Invariant, PTL DEF StreamSpec, IsSerialStream, Stream!Spec
====================
