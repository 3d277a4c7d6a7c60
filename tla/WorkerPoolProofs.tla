---- MODULE WorkerPoolProofs ----
\* Proofs about WorkerPool for any number of threads, clients, jobs and
\* groups, any limits and any CPUs.
EXTENDS WorkerPool, SequenceTheorems, FiniteSetTheorems, TLAPS

Busy == {"affinity", "settle", "run", "captures"}

\* A worker serves a group exactly from its selection to the declared
\* completion, and holds a reservation only meanwhile.
Locals ==
  \A w \in Workers :
      /\ group[w] # 0 <=> pc[w] \in Busy
      /\ target[w] # NoCpu => pc[w] \in Busy

IInv == TypeOK /\ Locals /\ Conservation /\ LoadIsHeld /\ CapRespected

--------------------
LEMMA CountsAreNat ==
  ASSUME NEW S \in SUBSET Workers
  PROVE  IsFiniteSet(S) /\ Cardinality(S) \in Nat
BY ThreadsAssumption, FS_Subset, FS_CardinalityType

\* Adding a worker to, or removing it from, a set of workers.
LEMMA CountAdd ==
  ASSUME NEW S \in SUBSET Workers, NEW w \in Workers, w \notin S
  PROVE  Cardinality(S \cup {w}) = Cardinality(S) + 1
BY CountsAreNat, FS_AddElement

LEMMA CountRemove ==
  ASSUME NEW S \in SUBSET Workers, NEW w \in S
  PROVE  /\ Cardinality(S \ {w}) = Cardinality(S) - 1
         /\ Cardinality(S) >= 1
<1>1. Cardinality(S \ {w}) = Cardinality(S) - 1 BY CountsAreNat, FS_RemoveElement
<1>2. Cardinality(S \ {w}) \in Nat BY CountsAreNat
<1>3. QED BY <1>1, <1>2, CountsAreNat

LEMMA CapIsNat == \A g \in Groups : Cap(g) \in Nat
BY GroupsAssumption, ThreadsAssumption, FS_CardinalityType DEF Cap

\* What a release does to the loads, for a worker that holds a reservation.
LEMMA ReleaseKeepsLoad ==
  ASSUME TypeOK, LoadIsHeld, NEW w \in Workers, Release(w),
         NEW c \in Cpus, target[w] = c
  PROVE  /\ LoadIsHeld'
         /\ target' \in [Workers -> Cpus \cup {NoCpu}]
         /\ cpuLoad' \in [Cpus -> Nat]
         /\ coreLoad' \in [Cores -> Nat]
         /\ target'[w] = NoCpu
         /\ \A v \in Workers \ {w} : target'[v] = target[v]
<1> DEFINE k == CoreOf[c]
<1>1. k \in Cores BY DEF Cores
<1>2. /\ target' \in [Workers -> Cpus \cup {NoCpu}]
      /\ target'[w] = NoCpu
      /\ \A v \in Workers \ {w} : target'[v] = target[v]
  BY DEF TypeOK, Release
<1>3. /\ w \in Holders(c) /\ Holders(c)' = Holders(c) \ {w}
      /\ \A d \in Cpus \ {c} : Holders(d)' = Holders(d)
  BY <1>1, <1>2, PlacementAssumption DEF Holders
<1>4. /\ w \in CoreHolders(k) /\ CoreHolders(k)' = CoreHolders(k) \ {w}
      /\ \A d \in Cores \ {k} : CoreHolders(d)' = CoreHolders(d)
  BY <1>1, <1>2, PlacementAssumption DEF CoreHolders
<1>5. /\ Cardinality(Holders(c)') = Cardinality(Holders(c)) - 1
      /\ Cardinality(Holders(c)) >= 1
 <2>1. Holders(c) \in SUBSET Workers BY DEF Holders
 <2>2. QED BY <1>3, <2>1, CountRemove
<1>6. /\ Cardinality(CoreHolders(k)') = Cardinality(CoreHolders(k)) - 1
      /\ Cardinality(CoreHolders(k)) >= 1
 <2>1. CoreHolders(k) \in SUBSET Workers BY DEF CoreHolders
 <2>2. QED BY <1>4, <2>1, CountRemove
<1>7. cpuLoad' = [cpuLoad EXCEPT ![c] = @ - 1] /\ coreLoad' = [coreLoad EXCEPT ![k] = @ - 1] BY DEF Release
<1>8. cpuLoad[c] = Cardinality(Holders(c)) /\ coreLoad[k] = Cardinality(CoreHolders(k)) BY <1>1 DEF LoadIsHeld
<1>9. cpuLoad' \in [Cpus -> Nat] /\ coreLoad' \in [Cores -> Nat] BY <1>1, <1>5, <1>6, <1>7, <1>8 DEF TypeOK
<1>10. \A d \in Cpus : cpuLoad'[d] = Cardinality(Holders(d)')
 <2>1. cpuLoad'[c] = Cardinality(Holders(c)') BY <1>5, <1>7, <1>8 DEF TypeOK
 <2>2. ASSUME NEW d \in Cpus, d # c PROVE cpuLoad'[d] = Cardinality(Holders(d)')
  <3>1. cpuLoad'[d] = cpuLoad[d] BY <1>7, <2>2 DEF TypeOK
  <3>2. QED BY <1>3, <2>2, <3>1 DEF LoadIsHeld
 <2>3. QED BY <2>1, <2>2
<1>11. \A d \in Cores : coreLoad'[d] = Cardinality(CoreHolders(d)')
 <2>1. coreLoad'[k] = Cardinality(CoreHolders(k)') BY <1>1, <1>6, <1>7, <1>8 DEF TypeOK
 <2>2. ASSUME NEW d \in Cores, d # k PROVE coreLoad'[d] = Cardinality(CoreHolders(d)')
  <3>1. coreLoad'[d] = coreLoad[d] BY <1>7, <2>2 DEF TypeOK
  <3>2. QED BY <1>4, <2>2, <3>1 DEF LoadIsHeld
 <2>3. QED BY <2>1, <2>2
<1>12. QED BY <1>2, <1>9, <1>10, <1>11 DEF LoadIsHeld

\* What a reservation does to the loads.
LEMMA ReserveKeepsLoad ==
  ASSUME TypeOK, LoadIsHeld, NEW w \in Workers, NEW g \in Groups,
         target[w] = NoCpu, Reserve(w, g)
  PROVE  /\ LoadIsHeld'
         /\ target' \in [Workers -> Cpus \cup {NoCpu}]
         /\ cpuLoad' \in [Cpus -> Nat]
         /\ coreLoad' \in [Cores -> Nat]
         /\ \A v \in Workers \ {w} : target'[v] = target[v]
<1>1. CASE UNCHANGED <<target, cpuLoad, coreLoad>> BY <1>1 DEF TypeOK, LoadIsHeld, Holders, CoreHolders
<1>2. ASSUME NEW c \in Cpus,
             target' = [target EXCEPT ![w] = c],
             cpuLoad' = [cpuLoad EXCEPT ![c] = @ + 1],
             coreLoad' = [coreLoad EXCEPT ![CoreOf[c]] = @ + 1]
      PROVE  /\ LoadIsHeld'
             /\ target' \in [Workers -> Cpus \cup {NoCpu}]
             /\ cpuLoad' \in [Cpus -> Nat]
             /\ coreLoad' \in [Cores -> Nat]
             /\ \A v \in Workers \ {w} : target'[v] = target[v]
 <2> DEFINE k == CoreOf[c]
 <2>1. k \in Cores BY DEF Cores
 <2>2. /\ target' \in [Workers -> Cpus \cup {NoCpu}]
       /\ target'[w] = c
       /\ \A v \in Workers \ {w} : target'[v] = target[v]
       /\ cpuLoad' \in [Cpus -> Nat]
       /\ coreLoad' \in [Cores -> Nat]
   BY <1>2, <2>1 DEF TypeOK
 <2>3. /\ w \notin Holders(c) /\ Holders(c)' = Holders(c) \cup {w}
       /\ \A d \in Cpus \ {c} : Holders(d)' = Holders(d)
   BY <2>2, PlacementAssumption DEF Holders
 <2>4. /\ w \notin CoreHolders(k) /\ CoreHolders(k)' = CoreHolders(k) \cup {w}
       /\ \A d \in Cores \ {k} : CoreHolders(d)' = CoreHolders(d)
   BY <2>2, PlacementAssumption DEF CoreHolders
 <2>5. Cardinality(Holders(c)') = Cardinality(Holders(c)) + 1
  <3>1. Holders(c) \in SUBSET Workers BY DEF Holders
  <3>2. QED BY <2>3, <3>1, CountAdd
 <2>6. Cardinality(CoreHolders(k)') = Cardinality(CoreHolders(k)) + 1
  <3>1. CoreHolders(k) \in SUBSET Workers BY DEF CoreHolders
  <3>2. QED BY <2>4, <3>1, CountAdd
 <2>7. \A d \in Cpus : cpuLoad'[d] = Cardinality(Holders(d)') BY <1>2, <2>3, <2>5 DEF TypeOK, LoadIsHeld
 <2>8. ASSUME NEW d \in Cores PROVE coreLoad'[d] = Cardinality(CoreHolders(d)')
  <3>1. CASE d = k BY <1>2, <2>1, <2>6, <3>1 DEF TypeOK, LoadIsHeld
  <3>2. CASE d # k BY <1>2, <2>1, <2>4, <3>2 DEF TypeOK, LoadIsHeld
  <3>3. QED BY <3>1, <3>2
 <2>9. QED BY <2>2, <2>7, <2>8 DEF LoadIsHeld
<1>3. CASE g \in Placed
 <2>1. PICK i \in DOMAIN Candidates[g] :
         /\ target' = [target EXCEPT ![w] = Candidates[g][i]]
         /\ cpuLoad' = [cpuLoad EXCEPT ![Candidates[g][i]] = @ + 1]
         /\ coreLoad' = [coreLoad EXCEPT ![CoreOf[Candidates[g][i]]] = @ + 1]
   BY <1>3 DEF Reserve
 <2>2. Candidates[g][i] \in Cpus BY PlacementAssumption
 <2>3. QED BY <1>2, <2>1, <2>2
<1>4. QED BY <1>1, <1>3 DEF Reserve

--------------------
\* A step that touches neither queues, counters, services nor reservations
\* keeps what the counters say.
LEMMA FrameKeeps ==
  ASSUME IInv,
         UNCHANGED <<pending, running, accepted, completed, group, target, cpuLoad, coreLoad>>,
         \A w \in Workers : pc'[w] \in Busy <=> pc[w] \in Busy
  PROVE  Locals' /\ Conservation' /\ LoadIsHeld' /\ CapRespected'
<1>1. Locals' BY DEF IInv, Locals
<1>2. Conservation' /\ CapRespected' /\ LoadIsHeld'
  BY DEF IInv, Conservation, CapRespected, LoadIsHeld, Servers, Holders, CoreHolders, Cap
<1>3. QED BY <1>1, <1>2

LEMMA InitInv == Init => IInv
<1> SUFFICES ASSUME Init PROVE IInv OBVIOUS
<1> USE GroupsAssumption DEF Init
<1>1. TypeOK BY DEF TypeOK, AvailableCpus, Threads
<1>2. Locals BY DEF Locals, Busy
<1>3. \A g \in Groups : Cardinality(Servers(g)) = 0
 <2>1. \A g \in Groups : Servers(g) = {} BY DEF Servers, Groups
 <2>2. QED BY <2>1, FS_EmptySet
<1>4. (\A c \in Cpus : Holders(c) = {}) /\ (\A k \in Cores : CoreHolders(k) = {})
  BY PlacementAssumption DEF Holders, CoreHolders
<1>5. Conservation
 <2> SUFFICES ASSUME NEW g \in Groups
              PROVE  /\ accepted[g] = Len(pending[g]) + running[g] + completed[g]
                     /\ running[g] = Cardinality(Servers(g))
   BY DEF Conservation
 <2>1. accepted[g] = 0 /\ pending[g] = <<>> /\ running[g] = 0 /\ completed[g] = 0 OBVIOUS
 <2>2. QED BY <1>3, <2>1
<1>6. LoadIsHeld BY <1>4, FS_EmptySet DEF LoadIsHeld
<1>7. CapRespected
 <2>1. \A g \in Groups : 0 <= Cap(g) BY CapIsNat
 <2>2. QED BY <1>3, <2>1 DEF CapRespected
<1>8. QED BY <1>1, <1>2, <1>5, <1>6, <1>7 DEF IInv

--------------------
\* The steps that change neither a queue nor a counter of running jobs.
QuietStep ==
  \/ \E w \in Workers : StartWorker(w)
  \/ StartFails \/ StartFailureNotifies \/ StartFailureJoins
  \/ \E t \in Threads : MakeGroup(t) \/ ClosePool(t) \/ NotifyAll(t)
  \/ \E t \in Threads, g \in Groups : CloseGroup(t, g)
  \/ \E c \in Clients, g \in Groups : DrainCall(c, g)
  \/ \E c \in Clients : BlockedCall(c) \/ ShutdownCall(c)
  \/ \E w \in Workers : \/ WorkerSleeps(w) \/ WorkerExits(w) \/ AffinityHolds(w)
                         \/ AffinityFails(w) \/ JobSettles(w) \/ OsRestricts(w)

LEMMA MasksAreCpuSets ==
  ASSUME TypeOK, Locals, NEW w \in Workers, pc[w] \in Busy
  PROVE  group[w] \in Groups /\ Desired(w) \in SUBSET Cpus
<1>1. group[w] \in Groups BY DEF TypeOK, Locals
<1>2. Mask(group[w]) \in SUBSET Cpus BY <1>1, PlacementAssumption DEF Mask
<1>3. QED BY <1>1, <1>2 DEF TypeOK, Desired

LEMMA QuietStepKeeps ==
  ASSUME IInv, QuietStep
  PROVE  IInv'
<1> USE DEF poolVars, queueVars, workerVars, placementVars, waitVars, clientVars
<1>1. ASSUME NEW w \in Workers, StartWorker(w) PROVE IInv'
 <2>1. TypeOK' BY <1>1, GroupsAssumption DEF IInv, TypeOK, StartWorker
 <2>2. Locals' /\ Conservation' /\ LoadIsHeld' /\ CapRespected' BY <1>1, FrameKeeps DEF IInv, TypeOK, Busy, StartWorker
 <2>3. QED BY <2>1, <2>2 DEF IInv
<1>2. ASSUME StartFails PROVE IInv'
 <2>1. TypeOK' BY <1>2, GroupsAssumption DEF IInv, TypeOK, StartFails
 <2>2. Locals' /\ Conservation' /\ LoadIsHeld' /\ CapRespected' BY <1>2, FrameKeeps DEF IInv, TypeOK, Busy, StartFails
 <2>3. QED BY <2>1, <2>2 DEF IInv
<1>3. ASSUME StartFailureNotifies PROVE IInv'
 <2>1. TypeOK' BY <1>3, GroupsAssumption DEF IInv, TypeOK, StartFailureNotifies
 <2>2. Locals' /\ Conservation' /\ LoadIsHeld' /\ CapRespected'
   BY <1>3, FrameKeeps DEF IInv, TypeOK, Busy, StartFailureNotifies
 <2>3. QED BY <2>1, <2>2 DEF IInv
<1>4. ASSUME StartFailureJoins PROVE IInv'
 <2>1. TypeOK' BY <1>4, GroupsAssumption DEF IInv, TypeOK, StartFailureJoins
 <2>2. Locals' /\ Conservation' /\ LoadIsHeld' /\ CapRespected'
   BY <1>4, FrameKeeps DEF IInv, TypeOK, Busy, StartFailureJoins
 <2>3. QED BY <2>1, <2>2 DEF IInv
<1>5. ASSUME NEW t \in Threads, MakeGroup(t) PROVE IInv'
 <2>1. TypeOK'
  <3>1. made' \in 0..NumGroups /\ made' \in Groups /\ open' \in [Groups -> BOOLEAN]
    BY <1>5, GroupsAssumption DEF IInv, TypeOK, MakeGroup, Groups
  <3>2. QED BY <1>5, <3>1 DEF IInv, TypeOK, MakeGroup
 <2>2. Locals' /\ Conservation' /\ LoadIsHeld' /\ CapRespected' BY <1>5, FrameKeeps DEF IInv, TypeOK, Busy, MakeGroup
 <2>3. QED BY <2>1, <2>2 DEF IInv
<1>6. ASSUME NEW t \in Threads, NEW g \in Groups, CloseGroup(t, g) PROVE IInv'
 <2>1. TypeOK' BY <1>6, GroupsAssumption DEF IInv, TypeOK, CloseGroup
 <2>2. Locals' /\ Conservation' /\ LoadIsHeld' /\ CapRespected' BY <1>6, FrameKeeps DEF IInv, TypeOK, Busy, CloseGroup
 <2>3. QED BY <2>1, <2>2 DEF IInv
<1>7. ASSUME NEW t \in Threads, ClosePool(t) PROVE IInv'
 <2>1. TypeOK' BY <1>7, GroupsAssumption DEF IInv, TypeOK, ClosePool, Close
 <2>2. Locals' /\ Conservation' /\ LoadIsHeld' /\ CapRespected' BY <1>7, FrameKeeps DEF IInv, TypeOK, Busy, ClosePool
 <2>3. QED BY <2>1, <2>2 DEF IInv
<1>8. ASSUME NEW t \in Threads, NotifyAll(t) PROVE IInv'
 <2>1. TypeOK' BY <1>8, GroupsAssumption DEF IInv, TypeOK, NotifyAll
 <2>2. Locals' /\ Conservation' /\ LoadIsHeld' /\ CapRespected' BY <1>8, FrameKeeps DEF IInv, TypeOK, Busy, NotifyAll
 <2>3. QED BY <2>1, <2>2 DEF IInv
<1>9. ASSUME NEW c \in Clients, NEW g \in Groups, DrainCall(c, g) PROVE IInv'
 <2>1. TypeOK'
  <3>1. g # 0 BY GroupsAssumption DEF Groups
  <3>2. \A d \in Clients : call'[d] = "drain" => drainee'[d] # 0 BY <1>9, <3>1 DEF IInv, TypeOK, DrainCall
  <3>3. QED BY <1>9, <3>2 DEF IInv, TypeOK, DrainCall
 <2>2. Locals' /\ Conservation' /\ LoadIsHeld' /\ CapRespected' BY <1>9, FrameKeeps DEF IInv, TypeOK, Busy, DrainCall
 <2>3. QED BY <2>1, <2>2 DEF IInv
<1>10. ASSUME NEW c \in Clients, DrainSleeps(c) PROVE IInv'
 <2>1. TypeOK' BY <1>10 DEF IInv, TypeOK, DrainSleeps, Threads
 <2>2. Locals' /\ Conservation' /\ LoadIsHeld' /\ CapRespected' BY <1>10, FrameKeeps DEF IInv, TypeOK, Busy, DrainSleeps
 <2>3. QED BY <2>1, <2>2 DEF IInv
<1>11. ASSUME NEW c \in Clients, DrainReturns(c) PROVE IInv'
 <2>1. TypeOK' BY <1>11, GroupsAssumption DEF IInv, TypeOK, DrainReturns
 <2>2. Locals' /\ Conservation' /\ LoadIsHeld' /\ CapRespected'
   BY <1>11, FrameKeeps DEF IInv, TypeOK, Busy, DrainReturns
 <2>3. QED BY <2>1, <2>2 DEF IInv
<1>12. ASSUME NEW c \in Clients, ShutdownCall(c) PROVE IInv'
 <2>1. TypeOK' BY <1>12, GroupsAssumption DEF IInv, TypeOK, ShutdownCall, Close, Threads
 <2>2. Locals' /\ Conservation' /\ LoadIsHeld' /\ CapRespected'
   BY <1>12, FrameKeeps DEF IInv, TypeOK, Busy, ShutdownCall
 <2>3. QED BY <2>1, <2>2 DEF IInv
<1>13. ASSUME NEW c \in Clients, ShutdownReturns(c) PROVE IInv'
 <2>1. TypeOK' BY <1>13, GroupsAssumption DEF IInv, TypeOK, ShutdownReturns
 <2>2. Locals' /\ Conservation' /\ LoadIsHeld' /\ CapRespected'
   BY <1>13, FrameKeeps DEF IInv, TypeOK, Busy, ShutdownReturns
 <2>3. QED BY <2>1, <2>2 DEF IInv
<1>14. ASSUME NEW w \in Workers, WorkerSleeps(w) PROVE IInv'
 <2>1. TypeOK' BY <1>14, GroupsAssumption DEF IInv, TypeOK, WorkerSleeps, Threads
 <2>2. Locals' /\ Conservation' /\ LoadIsHeld' /\ CapRespected'
   BY <1>14, FrameKeeps DEF IInv, TypeOK, Busy, WorkerSleeps
 <2>3. QED BY <2>1, <2>2 DEF IInv
<1>15. ASSUME NEW w \in Workers, WorkerExits(w) PROVE IInv'
 <2>1. TypeOK' BY <1>15, GroupsAssumption DEF IInv, TypeOK, WorkerExits
 <2>2. Locals' /\ Conservation' /\ LoadIsHeld' /\ CapRespected' BY <1>15, FrameKeeps DEF IInv, TypeOK, Busy, WorkerExits
 <2>3. QED BY <2>1, <2>2 DEF IInv
<1>16. ASSUME NEW w \in Workers, AffinityHolds(w) PROVE IInv'
 <2>1. group[w] \in Groups /\ Desired(w) \in SUBSET Cpus BY <1>16, MasksAreCpuSets DEF IInv, Busy, AffinityHolds
 <2>2. TypeOK' BY <1>16, <2>1 DEF IInv, TypeOK, AffinityHolds, Bound, AvailableCpus
 <2>3. Locals' /\ Conservation' /\ LoadIsHeld' /\ CapRespected'
   BY <1>16, FrameKeeps DEF IInv, TypeOK, Busy, AffinityHolds
 <2>4. QED BY <2>2, <2>3 DEF IInv
<1>17. ASSUME NEW w \in Workers, AffinityFails(w) PROVE IInv'
 <2>1. group[w] \in Groups /\ Desired(w) \in SUBSET Cpus BY <1>17, MasksAreCpuSets DEF IInv, Busy, AffinityFails
 <2>2. TypeOK'
  <3>1. policyFailures' \in [Groups -> Nat] BY <1>17, <2>1 DEF IInv, TypeOK, AffinityFails
  <3>2. /\ believed' \in [Workers -> SUBSET Cpus]
        /\ native' \in [Workers -> SUBSET Cpus]
        /\ policyError' \in [Workers -> BOOLEAN]
   <4>1. CASE Bound(w, AvailableCpus) /\ policyError' = [policyError EXCEPT ![w] = FALSE]
     BY <4>1 DEF IInv, TypeOK, Bound, AvailableCpus
   <4>2. ASSUME NEW mask \in SUBSET Cpus,
                native' = [native EXCEPT ![w] = mask],
                believed' = [believed EXCEPT ![w] = {}],
                policyError' = [policyError EXCEPT ![w] = TRUE]
         PROVE  /\ believed' \in [Workers -> SUBSET Cpus]
                /\ native' \in [Workers -> SUBSET Cpus]
                /\ policyError' \in [Workers -> BOOLEAN]
     BY <4>2 DEF IInv, TypeOK
   <4>3. QED BY <1>17, <4>1, <4>2 DEF AffinityFails
  <3>3. QED BY <1>17, <3>1, <3>2 DEF IInv, TypeOK, AffinityFails
 <2>3. Locals' /\ Conservation' /\ LoadIsHeld' /\ CapRespected'
   BY <1>17, FrameKeeps DEF IInv, TypeOK, Busy, AffinityFails
 <2>4. QED BY <2>2, <2>3 DEF IInv
<1>18. ASSUME NEW w \in Workers, JobSettles(w) PROVE IInv'
 <2>1. TypeOK' BY <1>18, GroupsAssumption DEF IInv, TypeOK, JobSettles
 <2>2. Locals' /\ Conservation' /\ LoadIsHeld' /\ CapRespected' BY <1>18, FrameKeeps DEF IInv, TypeOK, Busy, JobSettles
 <2>3. QED BY <2>1, <2>2 DEF IInv
<1>19. ASSUME NEW w \in Workers, OsRestricts(w) PROVE IInv'
 <2>1. TypeOK' BY <1>19, GroupsAssumption DEF IInv, TypeOK, OsRestricts
 <2>2. Locals' /\ Conservation' /\ LoadIsHeld' /\ CapRespected' BY <1>19, FrameKeeps DEF IInv, TypeOK, Busy, OsRestricts
 <2>3. QED BY <2>1, <2>2 DEF IInv
<1>20. QED
  BY <1>1, <1>2, <1>3, <1>4, <1>5, <1>6, <1>7, <1>8, <1>9, <1>10, <1>11, <1>12, <1>13, <1>14, <1>15, <1>16, <1>17,
    <1>18, <1>19 DEF QuietStep, BlockedCall

--------------------
LEMMA EnqueueKeeps ==
  ASSUME IInv, NEW t \in Threads, NEW g \in Groups, NEW j \in Jobs, Enqueue(t, g, j)
  PROVE  IInv'
<1> USE DEF poolVars, workerVars, placementVars, clientVars
<1>1. /\ pending' = [pending EXCEPT ![g] = Append(pending[g], j)]
      /\ accepted' = [accepted EXCEPT ![g] = accepted[g] + 1]
      /\ UNCHANGED <<running, completed, group, pc, target, cpuLoad, coreLoad>>
  BY DEF Enqueue
<1>2. pending[g] \in Seq(Jobs) /\ Append(pending[g], j) \in Seq(Jobs)
      /\ Len(Append(pending[g], j)) = Len(pending[g]) + 1
  BY DEF IInv, TypeOK
<1>3. TypeOK'
 <2>1. pending' \in [Groups -> Seq(Jobs)] /\ accepted' \in [Groups -> Nat] BY <1>1, <1>2 DEF IInv, TypeOK
 <2>2. QED BY <1>1, <2>1 DEF IInv, TypeOK, Enqueue
<1>4. Conservation'
 <2>1. \A h \in Groups : Servers(h)' = Servers(h) BY <1>1 DEF Servers
 <2>2. ASSUME NEW h \in Groups PROVE accepted'[h] = Len(pending'[h]) + running'[h] + completed'[h]
  <3>1. accepted[h] = Len(pending[h]) + running[h] + completed[h]
        /\ accepted[h] \in Nat /\ running[h] \in Nat /\ completed[h] \in Nat
        /\ Len(pending[h]) \in Nat
    BY DEF IInv, Conservation, TypeOK
  <3>2. CASE h = g BY <1>1, <1>2, <3>1, <3>2 DEF IInv, TypeOK
  <3>3. CASE h # g BY <1>1, <3>1, <3>3 DEF IInv, TypeOK
  <3>4. QED BY <3>2, <3>3
 <2>3. \A h \in Groups : running'[h] = Cardinality(Servers(h)') BY <1>1, <2>1 DEF IInv, Conservation
 <2>4. QED BY <2>2, <2>3 DEF Conservation
<1>5. Locals' /\ LoadIsHeld' /\ CapRespected'
  BY <1>1 DEF IInv, Locals, LoadIsHeld, CapRespected, Servers, Holders, CoreHolders, Cap
<1>6. QED BY <1>3, <1>4, <1>5 DEF IInv

LEMMA SettlePlacementKeeps ==
  ASSUME IInv, NEW w \in Workers, SettlePlacement(w)
  PROVE  IInv'
<1> USE DEF poolVars, queueVars, waitVars, clientVars
<1>1. /\ pc[w] = "settle" /\ pc' = [pc EXCEPT ![w] = "run"]
      /\ UNCHANGED <<pending, running, accepted, completed, group>>
  BY DEF SettlePlacement
<1>2. /\ LoadIsHeld'
      /\ target' \in [Workers -> Cpus \cup {NoCpu}]
      /\ cpuLoad' \in [Cpus -> Nat]
      /\ coreLoad' \in [Cores -> Nat]
      /\ \A v \in Workers \ {w} : target'[v] = target[v]
 <2>1. CASE UNCHANGED <<target, cpuLoad, coreLoad>> BY <2>1 DEF IInv, TypeOK, LoadIsHeld, Holders, CoreHolders
 <2>2. CASE target[w] # NoCpu /\ Release(w) BY <2>2, ReleaseKeepsLoad DEF IInv, TypeOK
 <2>3. QED BY <2>1, <2>2 DEF SettlePlacement, Forfeits
<1>3. TypeOK' BY <1>1, <1>2 DEF IInv, TypeOK, SettlePlacement
<1>4. Locals' BY <1>1, <1>2 DEF IInv, TypeOK, Locals, Busy
<1>5. Conservation' /\ CapRespected' BY <1>1 DEF IInv, Conservation, CapRespected, Servers, Cap
<1>6. QED BY <1>2, <1>3, <1>4, <1>5 DEF IInv

\* A selection moves one job from the queue of an eligible group to an idle
\* worker: one more server, which the limit allows.
LEMMA WorkerSelectsKeeps ==
  ASSUME IInv, NEW w \in Workers, WorkerSelects(w)
  PROVE  IInv'
<1> USE DEF poolVars, waitVars, clientVars
<1>1. PICK g \in Eligible :
        /\ Reserve(w, g)
        /\ Take(w, g)
  BY DEF WorkerSelects
<1>2. /\ g \in Groups /\ pending[g] # <<>> /\ running[g] < Cap(g)
      /\ pc[w] = "wait" /\ group[w] = 0 /\ target[w] = NoCpu
  BY DEF WorkerSelects, Eligible, IInv, Locals, Busy
<1>3. /\ pending' = [pending EXCEPT ![g] = Tail(pending[g])]
      /\ running' = [running EXCEPT ![g] = running[g] + 1]
      /\ group' = [group EXCEPT ![w] = g]
      /\ job' = [job EXCEPT ![w] = Head(pending[g])]
      /\ pc' = [pc EXCEPT ![w] = IF Affinity THEN "affinity" ELSE "run"]
      /\ UNCHANGED <<accepted, completed>>
  BY <1>1 DEF Take, WorkerSelects
<1>4. /\ LoadIsHeld'
      /\ target' \in [Workers -> Cpus \cup {NoCpu}]
      /\ cpuLoad' \in [Cpus -> Nat]
      /\ coreLoad' \in [Cores -> Nat]
      /\ \A v \in Workers \ {w} : target'[v] = target[v]
  BY <1>1, <1>2, ReserveKeepsLoad DEF IInv
<1>5. /\ Head(pending[g]) \in Jobs /\ Tail(pending[g]) \in Seq(Jobs)
      /\ Len(pending[g]) = Len(Tail(pending[g])) + 1
  BY <1>2 DEF IInv, TypeOK
<1>6. g # 0 BY <1>2, GroupsAssumption DEF Groups
<1>7. /\ w \notin Servers(g) /\ Servers(g)' = Servers(g) \cup {w}
      /\ \A h \in Groups \ {g} : Servers(h)' = Servers(h)
 <2>1. \A h \in Groups : h # 0 BY GroupsAssumption DEF Groups
 <2>2. QED BY <1>2, <1>3, <2>1 DEF IInv, TypeOK, Servers
<1>8. Cardinality(Servers(g)') = Cardinality(Servers(g)) + 1
 <2>1. Servers(g) \in SUBSET Workers BY DEF Servers
 <2>2. QED BY <1>7, <2>1, CountAdd
<1>9. TypeOK'
 <2>1. /\ pending' \in [Groups -> Seq(Jobs)]
       /\ running' \in [Groups -> Nat]
       /\ group' \in [Workers -> Groups \cup {0}]
       /\ job' \in [Workers -> Jobs \cup {NoJob}]
       /\ pc' \in [Workers -> {"unborn", "wait", "affinity", "settle", "run", "captures", "exited"}]
   BY <1>2, <1>3, <1>5 DEF IInv, TypeOK
 <2>2. QED BY <1>3, <1>4, <2>1 DEF IInv, TypeOK, WorkerSelects
<1>10. Locals' BY <1>2, <1>3, <1>4, <1>6 DEF IInv, TypeOK, Locals, Busy
<1>11. ASSUME NEW h \in Groups
       PROVE  /\ accepted'[h] = Len(pending'[h]) + running'[h] + completed'[h]
              /\ running'[h] = Cardinality(Servers(h)')
              /\ Cardinality(Servers(h)') <= Cap(h)
 <2>1. /\ accepted[h] = Len(pending[h]) + running[h] + completed[h]
       /\ running[h] = Cardinality(Servers(h)) /\ Cardinality(Servers(h)) <= Cap(h)
       /\ accepted[h] \in Nat /\ running[h] \in Nat /\ completed[h] \in Nat
   BY DEF IInv, Conservation, CapRespected, TypeOK
 <2>2. CASE h = g
  <3>1. /\ pending'[g] = Tail(pending[g]) /\ running'[g] = running[g] + 1
        /\ accepted'[g] = accepted[g] /\ completed'[g] = completed[g]
    BY <1>2, <1>3 DEF IInv, TypeOK
  <3>2. Len(Tail(pending[g])) \in Nat BY <1>5
  <3>3. Cap(g) \in Nat BY <1>2, CapIsNat
  <3>4. QED BY <1>2, <1>5, <1>8, <2>1, <2>2, <3>1, <3>2, <3>3
 <2>3. CASE h # g BY <1>3, <1>7, <2>1, <2>3 DEF IInv, TypeOK
 <2>4. QED BY <2>2, <2>3
<1>12. Conservation' /\ CapRespected' BY <1>11 DEF Conservation, CapRespected, Cap
<1>13. QED BY <1>4, <1>9, <1>10, <1>12 DEF IInv

\* A declared completion takes the worker off its group's servers.
LEMMA JobCompletesKeeps ==
  ASSUME IInv, NEW w \in Workers, JobCompletes(w)
  PROVE  IInv'
<1> USE DEF poolVars, clientVars
<1>1. PICK g \in Groups : g = group[w] BY DEF JobCompletes, IInv, TypeOK, Locals, Busy
<1>2. /\ pc[w] = "captures"
      /\ running' = [running EXCEPT ![g] = running[g] - 1]
      /\ completed' = [completed EXCEPT ![g] = completed[g] + 1]
      /\ group' = [group EXCEPT ![w] = 0]
      /\ job' = [job EXCEPT ![w] = NoJob]
      /\ pc' = [pc EXCEPT ![w] = "wait"]
      /\ notifying' = notifying \cup {w}
      /\ UNCHANGED <<pending, accepted>>
  BY <1>1 DEF JobCompletes, Declare
<1>3. /\ LoadIsHeld'
      /\ target' \in [Workers -> Cpus \cup {NoCpu}]
      /\ cpuLoad' \in [Cpus -> Nat]
      /\ coreLoad' \in [Cores -> Nat]
      /\ target'[w] = NoCpu
      /\ \A v \in Workers \ {w} : target'[v] = target[v]
 <2>1. CASE target[w] = NoCpu /\ UNCHANGED <<target, cpuLoad, coreLoad>>
   BY <2>1 DEF IInv, TypeOK, LoadIsHeld, Holders, CoreHolders
 <2>2. CASE target[w] # NoCpu /\ Release(w) BY <2>2, ReleaseKeepsLoad DEF IInv, TypeOK
 <2>3. QED BY <2>1, <2>2 DEF JobCompletes
<1>4. g # 0 BY GroupsAssumption DEF Groups
<1>5. /\ w \in Servers(g) /\ Servers(g)' = Servers(g) \ {w}
      /\ \A h \in Groups \ {g} : Servers(h)' = Servers(h)
 <2>1. \A h \in Groups : h # 0 BY GroupsAssumption DEF Groups
 <2>2. QED BY <1>1, <1>2, <2>1 DEF IInv, TypeOK, Servers
<1>6. /\ Cardinality(Servers(g)') = Cardinality(Servers(g)) - 1
      /\ Cardinality(Servers(g)) >= 1
 <2>1. Servers(g) \in SUBSET Workers BY DEF Servers
 <2>2. QED BY <1>5, <2>1, CountRemove
<1>7. running[g] \in Nat /\ running[g] >= 1 /\ completed[g] \in Nat BY <1>6 DEF IInv, TypeOK, Conservation
<1>8. TypeOK'
 <2>1. /\ running' \in [Groups -> Nat]
       /\ completed' \in [Groups -> Nat]
       /\ group' \in [Workers -> Groups \cup {0}]
       /\ job' \in [Workers -> Jobs \cup {NoJob}]
       /\ notifying' \subseteq Threads
   BY <1>2, <1>7 DEF IInv, TypeOK, Threads
 <2>2. QED BY <1>2, <1>3, <2>1 DEF IInv, TypeOK, JobCompletes
<1>9. Locals' BY <1>2, <1>3 DEF IInv, TypeOK, Locals, Busy
<1>10. ASSUME NEW h \in Groups
       PROVE  /\ accepted'[h] = Len(pending'[h]) + running'[h] + completed'[h]
              /\ running'[h] = Cardinality(Servers(h)')
              /\ Cardinality(Servers(h)') <= Cap(h)
 <2>1. /\ accepted[h] = Len(pending[h]) + running[h] + completed[h]
       /\ running[h] = Cardinality(Servers(h)) /\ Cardinality(Servers(h)) <= Cap(h)
       /\ accepted[h] \in Nat /\ running[h] \in Nat /\ completed[h] \in Nat
       /\ Len(pending[h]) \in Nat /\ Cap(h) \in Nat
   BY CapIsNat DEF IInv, Conservation, CapRespected, TypeOK
 <2>2. CASE h = g
  <3>1. running'[g] = running[g] - 1 /\ completed'[g] = completed[g] + 1 BY <1>2 DEF IInv, TypeOK
  <3>2. QED BY <1>2, <1>6, <2>1, <2>2, <3>1
 <2>3. CASE h # g BY <1>2, <1>5, <2>1, <2>3 DEF IInv, TypeOK
 <2>4. QED BY <2>2, <2>3
<1>11. Conservation' /\ CapRespected' BY <1>10 DEF Conservation, CapRespected, Cap
<1>12. QED BY <1>3, <1>8, <1>9, <1>11 DEF IInv

--------------------
LEMMA NextInv == IInv /\ [Next]_vars => IInv'
<1> SUFFICES ASSUME IInv, [Next]_vars
             PROVE  IInv'
  OBVIOUS
<1>1. CASE QuietStep BY <1>1, QuietStepKeeps
<1>2. ASSUME NEW t \in Threads, NEW g \in Groups, NEW j \in Jobs, Submit(t, g, j) PROVE IInv'
  BY <1>2, EnqueueKeeps DEF Submit
<1>3. ASSUME NEW w \in Workers, SettlePlacement(w) \/ WorkerSelects(w) \/ JobCompletes(w) PROVE IInv'
  BY <1>3, SettlePlacementKeeps, WorkerSelectsKeeps, JobCompletesKeeps
<1>4. CASE UNCHANGED vars
 <2> USE <1>4 DEF vars, poolVars, queueVars, workerVars, placementVars, waitVars, clientVars
 <2>1. TypeOK' BY DEF IInv, TypeOK
 <2>2. Locals' /\ Conservation' /\ LoadIsHeld' /\ CapRespected' BY FrameKeeps
 <2>3. QED BY <2>1, <2>2 DEF IInv
<1>5. CASE ConstructorStep BY <1>1, <1>5 DEF ConstructorStep, QuietStep
<1>6. ASSUME NEW w \in Workers, WorkerStep(w) \/ OsRestricts(w) PROVE IInv'
  BY <1>1, <1>3, <1>6 DEF WorkerStep, QuietStep
<1>7. ASSUME NEW t \in Threads, Call(t) \/ NotifyAll(t) PROVE IInv' BY <1>1, <1>2, <1>7 DEF Call, QuietStep
<1>8. ASSUME NEW c \in Clients,
             BlockedCall(c) \/ ShutdownCall(c) \/ \E g \in Groups : DrainCall(c, g)
      PROVE  IInv'
  BY <1>1, <1>8 DEF QuietStep
<1>9. QED BY <1>4, <1>5, <1>6, <1>7, <1>8 DEF Next

LEMMA Invariance == Spec => []IInv
BY InitInv, NextInv, PTL DEF Spec

--------------------
\* Where a job is, who drains, and what a reservation binds.

\* A worker holds a job while it serves a group, and a settled one last.
Carried ==
  \A w \in Workers :
      /\ group[w] # 0 <=> job[w] # NoJob
      /\ pc[w] = "captures" => result[job[w]] # "none"

\* What a call drains is published and closed.
Drains == \A c \in Clients : call[c] = "drain" => drainee[c] <= made /\ ~open[drainee[c]]

\* Only a group with a locality reserves, and a job runs where it is bound.
Reserved ==
  \A w \in Workers : target[w] # NoCpu =>
      /\ group[w] \in Placed
      /\ pc[w] \in {"run", "captures"} => ~policyError[w] /\ believed[w] = {target[w]}

SInv == IInv /\ NoWorkAbandoned /\ OnePlace /\ Carried /\ Drains /\ Reserved

\* The steps that move no job; those of them that open or close groups.
LocalStep ==
  \/ \E w \in Workers : StartWorker(w)
  \/ StartFails \/ StartFailureNotifies \/ StartFailureJoins
  \/ \E t \in Threads : NotifyAll(t)
  \/ \E c \in Clients, g \in Groups : DrainCall(c, g)
  \/ \E c \in Clients : DrainSleeps(c) \/ DrainReturns(c) \/ ShutdownReturns(c)
  \/ \E w \in Workers : \/ WorkerSleeps(w) \/ WorkerExits(w) \/ AffinityHolds(w)
                         \/ AffinityFails(w) \/ OsRestricts(w) \/ SettlePlacement(w)

GateStep ==
  \/ \E t \in Threads : MakeGroup(t) \/ ClosePool(t)
  \/ \E t \in Threads, g \in Groups : CloseGroup(t, g)
  \/ \E c \in Clients : ShutdownCall(c)

JobStep ==
  \/ \E t \in Threads, g \in Groups, j \in Jobs : Submit(t, g, j)
  \/ \E w \in Workers : WorkerSelects(w) \/ JobSettles(w) \/ JobCompletes(w)

LEMMA StepKinds ==
  ASSUME Next
  PROVE  LocalStep \/ GateStep \/ JobStep
<1>1. CASE ConstructorStep BY <1>1 DEF ConstructorStep, LocalStep
<1>2. CASE \E w \in Workers : WorkerStep(w) \/ OsRestricts(w) BY <1>2 DEF WorkerStep, LocalStep, JobStep
<1>3. CASE \E t \in Threads : Call(t) \/ NotifyAll(t) BY <1>3 DEF Call, LocalStep, GateStep, JobStep
<1>4. CASE \E c \in Clients : BlockedCall(c) \/ ShutdownCall(c) \/ \E g \in Groups : DrainCall(c, g)
  BY <1>4 DEF BlockedCall, LocalStep, GateStep
<1> QED BY <1>1, <1>2, <1>3, <1>4 DEF Next

JobsStay ==
  /\ UNCHANGED <<pending, job, group, result>>
  /\ \A w \in Workers : pc'[w] = "captures" <=> pc[w] = "captures"

LEMMA JobsAlone ==
  ASSUME TypeOK, LocalStep \/ GateStep
  PROVE  JobsStay
<1> USE DEF poolVars, queueVars, workerVars, placementVars, waitVars, clientVars
<1>1. CASE \/ \E w \in Workers : StartWorker(w)
           \/ StartFails \/ StartFailureNotifies \/ StartFailureJoins
  BY <1>1 DEF JobsStay, TypeOK, StartWorker, StartFails, StartFailureNotifies, StartFailureJoins
<1>2. CASE \/ \E t \in Threads : NotifyAll(t)
           \/ \E c \in Clients, g \in Groups : DrainCall(c, g)
           \/ \E c \in Clients : DrainSleeps(c) \/ DrainReturns(c) \/ ShutdownReturns(c)
  BY <1>2 DEF JobsStay, NotifyAll, DrainCall, DrainSleeps, DrainReturns, ShutdownReturns
<1>3. CASE \E w \in Workers : \/ WorkerSleeps(w) \/ WorkerExits(w) \/ AffinityHolds(w)
                              \/ AffinityFails(w) \/ OsRestricts(w) \/ SettlePlacement(w)
  BY <1>3 DEF JobsStay, TypeOK, WorkerSleeps, WorkerExits, AffinityHolds, AffinityFails, OsRestricts, SettlePlacement
<1>4. CASE GateStep BY <1>4 DEF JobsStay, GateStep, MakeGroup, ClosePool, CloseGroup, ShutdownCall
<1> QED BY <1>1, <1>2, <1>3, <1>4 DEF LocalStep

LEMMA PlacesStay ==
  ASSUME OnePlace, Carried, JobsStay
  PROVE  OnePlace' /\ Carried'
<1>1. OnePlace' BY DEF OnePlace, JobsStay, Queued
<1>2. Carried' BY DEF Carried, JobsStay
<1> QED BY <1>1, <1>2

--------------------
\* No thread leaves work behind.

Gone == \E w \in Workers : pc[w] = "exited"

LEMMA ExitsStep ==
  ASSUME TypeOK, NoWorkAbandoned, Next
  PROVE  NoWorkAbandoned'
<1> USE DEF poolVars, queueVars, workerVars, placementVars, waitVars, clientVars
<1>1. CASE \E w \in Workers : WorkerExits(w) BY <1>1 DEF WorkerExits, MayExit, NoWorkAbandoned, HasPending
<1>2. CASE \E t \in Threads, g \in Groups, j \in Jobs : Submit(t, g, j)
 <2>1. accepting /\ pc' = pc BY <1>2 DEF Submit, Enqueue
 <2> QED BY <2>1 DEF NoWorkAbandoned
<1>3. CASE \E w \in Workers : WorkerSelects(w)
 <2>1. HasPending BY <1>3 DEF WorkerSelects, Eligible, HasPending
 <2>2. \A v \in Workers : pc'[v] = "exited" => pc[v] = "exited" BY <1>3 DEF WorkerSelects, TypeOK
 <2> QED BY <2>1, <2>2 DEF NoWorkAbandoned
<1>4. ASSUME pending' = pending, accepting' => accepting,
             \A v \in Workers : pc'[v] = "exited" => pc[v] = "exited"
      PROVE  NoWorkAbandoned'
  BY <1>4 DEF NoWorkAbandoned, HasPending
<1>5. CASE GateStep
 <2>1. pending' = pending /\ (accepting' => accepting) /\ pc' = pc
   BY <1>5 DEF GateStep, MakeGroup, ClosePool, CloseGroup, ShutdownCall, Close
 <2> QED BY <1>4, <2>1
<1>6. CASE \/ \E w \in Workers : StartWorker(w)
           \/ StartFails \/ StartFailureNotifies \/ StartFailureJoins
 <2>1. /\ pending' = pending /\ (accepting' => accepting)
       /\ \A v \in Workers : pc'[v] = "exited" => pc[v] = "exited"
   BY <1>6 DEF TypeOK, StartWorker, StartFails, StartFailureNotifies, StartFailureJoins
 <2> QED BY <1>4, <2>1
<1>7. CASE \/ \E t \in Threads : NotifyAll(t)
           \/ \E c \in Clients, g \in Groups : DrainCall(c, g)
           \/ \E c \in Clients : DrainSleeps(c) \/ DrainReturns(c) \/ ShutdownReturns(c)
 <2>1. pending' = pending /\ accepting' = accepting /\ pc' = pc
   BY <1>7 DEF NotifyAll, DrainCall, DrainSleeps, DrainReturns, ShutdownReturns
 <2> QED BY <1>4, <2>1
<1>8. CASE \E w \in Workers : \/ WorkerSleeps(w) \/ AffinityHolds(w) \/ AffinityFails(w)
                              \/ OsRestricts(w) \/ SettlePlacement(w) \/ JobSettles(w)
                              \/ JobCompletes(w)
 <2>1. /\ pending' = pending /\ accepting' = accepting
       /\ \A v \in Workers : pc'[v] = "exited" => pc[v] = "exited"
   BY <1>8 DEF TypeOK, WorkerSleeps, AffinityHolds, AffinityFails, OsRestricts, SettlePlacement, JobSettles,
     JobCompletes
 <2> QED BY <1>4, <2>1
<1> QED BY <1>1, <1>2, <1>3, <1>5, <1>6, <1>7, <1>8, StepKinds DEF LocalStep, JobStep

--------------------
\* Drains.

LEMMA DrainsStep ==
  ASSUME TypeOK, Drains, Next
  PROVE  Drains'
<1> USE DEF poolVars, queueVars, workerVars, placementVars, waitVars, clientVars
<1>1. ASSUME UNCHANGED <<call, drainee, made>>,
             \A g \in Groups : open'[g] => open[g]
      PROVE  Drains'
 <2> SUFFICES ASSUME NEW c \in Clients, call[c] = "drain"
     PROVE  drainee[c] <= made /\ ~open'[drainee[c]]
   BY <1>1 DEF Drains
 <2>1. drainee[c] \in Groups BY DEF TypeOK
 <2> QED BY <1>1, <2>1 DEF Drains
<1>2. ASSUME NEW t \in Threads, MakeGroup(t) PROVE Drains'
 <2> SUFFICES ASSUME NEW c \in Clients, call[c] = "drain"
     PROVE  drainee[c] <= made' /\ ~open'[drainee[c]]
   BY <1>2 DEF Drains, MakeGroup
 <2>1. drainee[c] \in Groups /\ drainee[c] <= made /\ ~open[drainee[c]] /\ made \in Nat
   BY GroupsAssumption DEF TypeOK, Drains
 <2>2. drainee[c] \in Nat /\ drainee[c] # made + 1 BY <2>1, GroupsAssumption DEF Groups
 <2> QED BY <1>2, <2>1, <2>2 DEF MakeGroup, TypeOK
<1>3. ASSUME NEW c \in Clients, NEW g \in Groups, DrainCall(c, g) PROVE Drains' BY <1>3 DEF DrainCall, Drains, TypeOK
<1>4. ASSUME NEW c \in Clients, DrainReturns(c) \/ ShutdownReturns(c) PROVE Drains'
  BY <1>4 DEF DrainReturns, ShutdownReturns, Drains, TypeOK
<1>5. ASSUME NEW c \in Clients, ShutdownCall(c) PROVE Drains' BY <1>5 DEF ShutdownCall, Close, Drains, TypeOK
<1>6. ASSUME NEW t \in Threads, NEW g \in Groups, CloseGroup(t, g) PROVE Drains'
 <2>1. UNCHANGED <<call, drainee, made>> /\ \A h \in Groups : open'[h] => open[h] BY <1>6 DEF CloseGroup, TypeOK
 <2> QED BY <1>1, <2>1
<1>10. ASSUME NEW t \in Threads, ClosePool(t) PROVE Drains'
 <2>1. UNCHANGED <<call, drainee, made>> /\ \A h \in Groups : open'[h] => open[h] BY <1>10 DEF ClosePool, Close, TypeOK
 <2> QED BY <1>1, <2>1
<1>7. CASE JobStep
 <2>1. UNCHANGED <<call, drainee, made, open>>
   BY <1>7 DEF JobStep, Submit, Enqueue, WorkerSelects, JobSettles, JobCompletes
 <2> QED BY <1>1, <2>1
<1>8. CASE \/ \E w \in Workers : StartWorker(w)
           \/ StartFails \/ StartFailureNotifies \/ StartFailureJoins
           \/ \E t \in Threads : NotifyAll(t)
           \/ \E c \in Clients : DrainSleeps(c)
 <2>1. UNCHANGED <<call, drainee, made, open>>
   BY <1>8 DEF StartWorker, StartFails, StartFailureNotifies, StartFailureJoins, NotifyAll, DrainSleeps
 <2> QED BY <1>1, <2>1
<1>9. CASE \E w \in Workers : \/ WorkerSleeps(w) \/ WorkerExits(w) \/ AffinityHolds(w)
                              \/ AffinityFails(w) \/ OsRestricts(w) \/ SettlePlacement(w)
 <2>1. UNCHANGED <<call, drainee, made, open>>
   BY <1>9 DEF WorkerSleeps, WorkerExits, AffinityHolds, AffinityFails, OsRestricts, SettlePlacement
 <2> QED BY <1>1, <2>1
<1> QED BY <1>2, <1>3, <1>4, <1>5, <1>6, <1>10, <1>7, <1>8, <1>9, StepKinds DEF LocalStep, GateStep

--------------------
\* A job is in one place.

LEMMA QueuesAre ==
  ASSUME TypeOK, NEW g \in Groups
  PROVE  /\ pending[g] \in Seq(Jobs) /\ Len(pending[g]) \in Nat
         /\ DOMAIN pending[g] = 1 .. Len(pending[g])
         /\ \A i \in DOMAIN pending[g] : pending[g][i] \in Jobs
<1>1. pending[g] \in Seq(Jobs) BY DEF TypeOK
<1> QED BY <1>1, LenProperties, ElementOfSeq

\* What stands where in the queues once job j has joined that of g.
LEMMA Joining ==
  ASSUME TypeOK, NEW g \in Groups, NEW j \in Jobs,
         pending' = [pending EXCEPT ![g] = Append(@, j)]
  PROVE  /\ \A h \in Groups : \A i \in DOMAIN pending'[h] :
               \/ i \in DOMAIN pending[h] /\ pending'[h][i] = pending[h][i]
               \/ h = g /\ i = Len(pending[g]) + 1 /\ pending'[h][i] = j
         /\ \A h \in Groups : \A i \in DOMAIN pending[h] :
               i \in DOMAIN pending'[h] /\ pending'[h][i] = pending[h][i]
         /\ Len(pending[g]) + 1 \in DOMAIN pending'[g]
         /\ pending'[g][Len(pending[g]) + 1] = j
<1>1. PICK s, e : s = pending[g] /\ e = Append(s, j) OBVIOUS
<1>2. PICK n \in Nat : n = Len(s) BY <1>1, QueuesAre
<1>3. s \in Seq(Jobs) /\ DOMAIN s = 1 .. n BY <1>1, <1>2, QueuesAre
<1>4. e \in Seq(Jobs) /\ Len(e) = n + 1 /\ e[n + 1] = j /\ \A i \in 1 .. n : e[i] = s[i]
  BY <1>1, <1>2, <1>3, AppendProperties
<1>5. DOMAIN e = 1 .. n + 1 BY <1>4, LenProperties
<1>6. pending'[g] = e /\ \A h \in Groups \ {g} : pending'[h] = pending[h] BY <1>1 DEF TypeOK
<1> QED BY <1>1, <1>2, <1>3, <1>4, <1>5, <1>6

\* And once the first has left it.
LEMMA Leaving ==
  ASSUME TypeOK, NEW g \in Groups, pending[g] # <<>>,
         pending' = [pending EXCEPT ![g] = Tail(@)]
  PROVE  /\ 1 \in DOMAIN pending[g] /\ Head(pending[g]) = pending[g][1]
         /\ Head(pending[g]) \in Jobs
         /\ \A h \in Groups \ {g} : pending'[h] = pending[h]
         /\ \A i \in DOMAIN pending'[g] :
               i \in Nat /\ i + 1 # 1 /\ i + 1 \in DOMAIN pending[g]
                 /\ pending'[g][i] = pending[g][i + 1]
         /\ \A i \in DOMAIN pending[g] : i # 1 =>
               i - 1 \in DOMAIN pending'[g] /\ pending'[g][i - 1] = pending[g][i]
<1>1. PICK s, e : s = pending[g] /\ e = Tail(s) OBVIOUS
<1>2. PICK n \in Nat : n = Len(s) BY <1>1, QueuesAre
<1>3. s \in Seq(Jobs) /\ DOMAIN s = 1 .. n /\ s # <<>> BY <1>1, <1>2, QueuesAre
<1>4. n >= 1 BY <1>2, <1>3, EmptySeq
<1>5. /\ e \in Seq(Jobs) /\ Len(e) = n - 1 /\ Head(s) = s[1] /\ s[1] \in Jobs
      /\ \A i \in 1 .. Len(e) : e[i] = s[i + 1]
  BY <1>1, <1>2, <1>3, <1>4, HeadTailProperties
<1>6. DOMAIN e = 1 .. n - 1 BY <1>5, LenProperties
<1>7. pending'[g] = e /\ \A h \in Groups \ {g} : pending'[h] = pending[h] BY <1>1 DEF TypeOK
<1>8. \A i \in DOMAIN e : i \in Nat /\ i + 1 # 1 /\ i + 1 \in DOMAIN s /\ e[i] = s[i + 1] BY <1>3, <1>5, <1>6
<1>9. \A i \in DOMAIN s : i # 1 => i - 1 \in DOMAIN e /\ e[i - 1] = s[i] BY <1>3, <1>5, <1>6
<1>10. \A i \in DOMAIN pending'[g] :
          i \in Nat /\ i + 1 # 1 /\ i + 1 \in DOMAIN pending[g] /\ pending'[g][i] = pending[g][i + 1]
  BY <1>1, <1>7, <1>8
<1>11. \A i \in DOMAIN pending[g] : i # 1 =>
          i - 1 \in DOMAIN pending'[g] /\ pending'[g][i - 1] = pending[g][i]
  BY <1>1, <1>7, <1>9
<1>12. 1 \in DOMAIN pending[g] /\ Head(pending[g]) = pending[g][1] /\ Head(pending[g]) \in Jobs
 <2>1. 1 \in DOMAIN s BY <1>3, <1>4
 <2> QED BY <1>1, <1>5, <2>1
<1> QED BY <1>7, <1>10, <1>11, <1>12

LEMMA SubmitPlaces ==
  ASSUME TypeOK, OnePlace, Carried, NEW t \in Threads, NEW g \in Groups, NEW j \in Jobs,
         Submit(t, g, j)
  PROVE  OnePlace' /\ Carried'
<1>1. /\ UNCHANGED <<job, group, pc, result>> /\ Unsubmitted(j)
      /\ pending' = [pending EXCEPT ![g] = Append(@, j)]
  BY DEF Submit, Enqueue, workerVars
<1>2. /\ result[j] = "none" /\ \A w \in Workers : job[w] # j
      /\ \A h \in Groups : \A i \in DOMAIN pending[h] : pending[h][i] # j
  BY <1>1 DEF Unsubmitted
<1>3. PICK n : n = Len(pending[g]) + 1 OBVIOUS
<1>4. \A h \in Groups : \A i \in DOMAIN pending'[h] :
         \/ i \in DOMAIN pending[h] /\ pending'[h][i] = pending[h][i]
         \/ h = g /\ i = n /\ pending'[h][i] = j
  BY <1>1, <1>3, Joining
<1>5. \A x \in Jobs, h \in Groups : Queued(x, h)' => Queued(x, h) \/ x = j BY <1>4 DEF Queued
<1>6. ASSUME NEW x \in Jobs, NEW h \in Groups, NEW m \in Groups,
             NEW i \in DOMAIN pending'[h], NEW k \in DOMAIN pending'[m],
             pending'[h][i] = x, pending'[m][k] = x
      PROVE  h = m /\ i = k
 <2>1. CASE x = j BY <1>2, <1>4, <1>6, <2>1
 <2>2. CASE x # j
  <3>1. /\ i \in DOMAIN pending[h] /\ pending[h][i] = x
        /\ k \in DOMAIN pending[m] /\ pending[m][k] = x
    BY <1>4, <1>6, <2>2
  <3> QED BY <3>1 DEF OnePlace
 <2> QED BY <2>1, <2>2
<1>7. OnePlace' BY <1>1, <1>2, <1>5, <1>6 DEF OnePlace
<1>8. Carried' BY <1>1 DEF Carried
<1> QED BY <1>7, <1>8

LEMMA SelectIs ==
  ASSUME IInv, NEW w \in Workers, WorkerSelects(w)
  PROVE  \E g \in Groups :
            /\ pending[g] # <<>> /\ pending' = [pending EXCEPT ![g] = Tail(@)]
            /\ pc[w] = "wait" /\ group[w] = 0 /\ target[w] = NoCpu /\ Reserve(w, g)
            /\ job' = [job EXCEPT ![w] = Head(pending[g])]
            /\ group' = [group EXCEPT ![w] = g]
            /\ pc' = [pc EXCEPT ![w] = IF Affinity THEN "affinity" ELSE "run"]
            /\ UNCHANGED <<result, policyError, believed, open, made, drained>>
<1>1. PICK g \in Eligible : Reserve(w, g) /\ Take(w, g) BY DEF WorkerSelects
<1>2. g \in Groups /\ pending[g] # <<>> BY DEF Eligible
<1>3. pc[w] = "wait" /\ group[w] = 0 /\ target[w] = NoCpu BY DEF WorkerSelects, IInv, Locals, Busy
<1>4. /\ pc' = [pc EXCEPT ![w] = IF Affinity THEN "affinity" ELSE "run"]
      /\ UNCHANGED <<result, policyError, believed, open, made, drained>>
  BY DEF WorkerSelects, poolVars, clientVars
<1> QED BY <1>1, <1>2, <1>3, <1>4 DEF Take

LEMMA SelectPlaces ==
  ASSUME IInv, OnePlace, Carried, NEW w \in Workers, WorkerSelects(w)
  PROVE  OnePlace' /\ Carried'
<1>0. TypeOK BY DEF IInv
<1>1. PICK g \in Groups :
              /\ pending[g] # <<>> /\ pending' = [pending EXCEPT ![g] = Tail(@)]
              /\ pc[w] = "wait" /\ group[w] = 0
              /\ job' = [job EXCEPT ![w] = Head(pending[g])]
              /\ group' = [group EXCEPT ![w] = g]
              /\ pc' = [pc EXCEPT ![w] = IF Affinity THEN "affinity" ELSE "run"]
              /\ result' = result
  BY SelectIs
<1>2. PICK j \in Jobs : j = Head(pending[g]) BY <1>0, <1>1, Leaving
<1>3. /\ 1 \in DOMAIN pending[g] /\ pending[g][1] = j
      /\ \A h \in Groups \ {g} : pending'[h] = pending[h]
      /\ \A i \in DOMAIN pending'[g] :
            i \in Nat /\ i + 1 # 1 /\ i + 1 \in DOMAIN pending[g]
              /\ pending'[g][i] = pending[g][i + 1]
  BY <1>0, <1>1, <1>2, Leaving
<1>4. Queued(j, g) /\ result[j] = "none" /\ \A v \in Workers : job[v] # j BY <1>3 DEF Queued, OnePlace
<1>5. /\ job'[w] = j /\ \A v \in Workers \ {w} : job'[v] = job[v]
      /\ pc'[w] \in {"affinity", "run"} /\ \A v \in Workers \ {w} : pc'[v] = pc[v]
      /\ group'[w] = g /\ \A v \in Workers \ {w} : group'[v] = group[v]
  BY <1>0, <1>1, <1>2 DEF TypeOK
<1>6. ASSUME NEW h \in Groups, NEW i \in DOMAIN pending'[h]
      PROVE  \E k \in DOMAIN pending[h] : /\ pending[h][k] = pending'[h][i]
                                          /\ h = g => i \in Nat /\ k = i + 1 /\ k # 1
                                          /\ h # g => k = i
  BY <1>3
<1>7. ASSUME NEW x \in Jobs, NEW h \in Groups, NEW m \in Groups,
             NEW i \in DOMAIN pending'[h], NEW k \in DOMAIN pending'[m],
             pending'[h][i] = x, pending'[m][k] = x
      PROVE  h = m /\ i = k
 <2>1. PICK a \in DOMAIN pending[h] : /\ pending[h][a] = x
                                      /\ h = g => i \in Nat /\ a = i + 1
                                      /\ h # g => a = i
   BY <1>6, <1>7
 <2>2. PICK b \in DOMAIN pending[m] : /\ pending[m][b] = x
                                      /\ m = g => k \in Nat /\ b = k + 1
                                      /\ m # g => b = k
   BY <1>6, <1>7
 <2>3. h = m /\ a = b BY <2>1, <2>2 DEF OnePlace
 <2> QED BY <2>1, <2>2, <2>3
<1>8. ASSUME NEW x \in Jobs, NEW h \in Groups, Queued(x, h)' PROVE Queued(x, h) /\ x # j
 <2>1. PICK i \in DOMAIN pending'[h] : pending'[h][i] = x BY <1>8 DEF Queued
 <2>2. PICK k \in DOMAIN pending[h] : pending[h][k] = x /\ (h = g => k # 1) BY <1>6, <2>1
 <2>3. x # j BY <1>3, <2>2 DEF OnePlace
 <2> QED BY <2>2, <2>3 DEF Queued
<1>9. ASSUME NEW x \in Jobs
      PROVE  /\ \A u, v \in Workers : job'[u] = x /\ job'[v] = x => u = v
             /\ \A v \in Workers : job'[v] = x => \A h \in Groups : ~Queued(x, h)'
             /\ result[x] # "none" =>
                   /\ \A h \in Groups : ~Queued(x, h)'
                   /\ \A v \in Workers : job'[v] = x => pc'[v] = "captures"
 <2>1. CASE x = j BY <1>4, <1>5, <1>8, <2>1
 <2>2. CASE x # j BY <1>5, <1>8, <2>2 DEF OnePlace
 <2> QED BY <2>1, <2>2
<1>10. OnePlace' BY <1>1, <1>7, <1>9 DEF OnePlace
<1>11. g # 0 BY GroupsAssumption DEF Groups
<1>12. Carried' BY <1>1, <1>5, <1>11, JobsAssumption DEF Carried
<1> QED BY <1>10, <1>12

LEMMA HeldIs ==
  ASSUME IInv, Carried, NEW w \in Workers, pc[w] \in Busy
  PROVE  job[w] \in Jobs /\ group[w] \in Groups
  BY DEF IInv, TypeOK, Locals, Carried

LEMMA SettlePlaces ==
  ASSUME IInv, OnePlace, Carried, NEW w \in Workers, JobSettles(w)
  PROVE  OnePlace' /\ Carried'
<1>1. PICK j \in Jobs : j = job[w] BY HeldIs DEF JobSettles, Busy
<1>2. PICK r : r # "none" /\ result' = [result EXCEPT ![j] = r] BY <1>1 DEF JobSettles
<1>3. /\ UNCHANGED <<pending, job, group>>
      /\ pc'[w] = "captures" /\ \A v \in Workers \ {w} : pc'[v] = pc[v]
      /\ result'[j] # "none" /\ \A x \in Jobs \ {j} : result'[x] = result[x]
  BY <1>2 DEF JobSettles, queueVars, IInv, TypeOK
<1>4. \A x, h : Queued(x, h)' <=> Queued(x, h) BY <1>3 DEF Queued
<1>5. ASSUME NEW x \in Jobs, result'[x] # "none"
      PROVE  /\ \A h \in Groups : ~Queued(x, h)
             /\ \A v \in Workers : job[v] = x => pc'[v] = "captures"
 <2>1. CASE x = j BY <1>1, <1>3, <2>1 DEF OnePlace
 <2>2. CASE x # j BY <1>3, <1>5, <2>2 DEF OnePlace
 <2> QED BY <2>1, <2>2
<1>6. OnePlace' BY <1>3, <1>4, <1>5 DEF OnePlace
<1>7. ASSUME NEW v \in Workers, pc'[v] = "captures" PROVE result'[job[v]] # "none"
 <2>1. CASE v = w BY <1>1, <1>3, <2>1
 <2>2. CASE v # w
  <3>1. pc[v] = "captures" BY <1>3, <1>7, <2>2
  <3>2. job[v] \in Jobs /\ result[job[v]] # "none" BY <3>1, HeldIs DEF Carried, Busy
  <3> QED BY <1>3, <3>2
 <2> QED BY <2>1, <2>2
<1>8. Carried' BY <1>3, <1>7 DEF Carried
<1> QED BY <1>6, <1>8

LEMMA CompletePlaces ==
  ASSUME IInv, OnePlace, Carried, NEW w \in Workers, JobCompletes(w)
  PROVE  OnePlace' /\ Carried'
<1>1. /\ UNCHANGED <<pending, result>>
      /\ job'[w] = NoJob /\ \A v \in Workers \ {w} : job'[v] = job[v]
      /\ group'[w] = 0 /\ \A v \in Workers \ {w} : group'[v] = group[v]
      /\ pc'[w] = "wait" /\ \A v \in Workers \ {w} : pc'[v] = pc[v]
  BY DEF JobCompletes, IInv, TypeOK
<1>2. OnePlace' BY <1>1, JobsAssumption DEF OnePlace, Queued
<1>3. Carried' BY <1>1 DEF Carried
<1> QED BY <1>2, <1>3

LEMMA PlacesStep ==
  ASSUME IInv, OnePlace, Carried, Next
  PROVE  OnePlace' /\ Carried'
<1>0. TypeOK BY DEF IInv
<1>1. CASE LocalStep \/ GateStep BY <1>0, <1>1, JobsAlone, PlacesStay
<1>2. CASE JobStep BY <1>0, <1>2, SubmitPlaces, SelectPlaces, SettlePlaces, CompletePlaces DEF JobStep
<1> QED BY <1>1, <1>2, StepKinds
--------------------
\* A reservation is where the job runs.

\* The one element of a mask that has one.
LEMMA SoleCpuIs ==
  ASSUME NEW mask \in SUBSET Cpus, NEW c \in Cpus, SoleCpu(mask) = c
  PROVE  mask = {c}
<1>1. IsFiniteSet(mask) BY PlacementAssumption, FS_Subset
<1>2. Cardinality(mask) = 1 BY PlacementAssumption DEF SoleCpu
<1>3. PICK d : mask = {d} BY <1>1, <1>2, FS_Singleton
<1>4. SoleCpu(mask) = d BY <1>2, <1>3 DEF SoleCpu
<1> QED BY <1>3, <1>4

\* What a reservation binds, of one worker.
Binds(cpu, g, at, failed, mask) ==
  cpu # NoCpu => /\ g \in Placed
                 /\ at \in {"run", "captures"} => ~failed /\ mask = {cpu}

LEMMA ReservedIs ==
    /\ Reserved <=> \A w \in Workers :
        Binds(target[w], group[w], pc[w], policyError[w], believed[w])
    /\ Reserved' <=> \A w \in Workers :
        Binds(target'[w], group'[w], pc'[w], policyError'[w], believed'[w])
BY DEF Reserved, Binds

\* A step of one worker leaves what the others hold alone.
OthersKeep(w) ==
  \A v \in Workers \ {w} :
      /\ target'[v] = target[v] /\ group'[v] = group[v] /\ pc'[v] = pc[v]
      /\ policyError'[v] = policyError[v] /\ believed'[v] = believed[v]

LEMMA ReservedByOne ==
  ASSUME Reserved, NEW w \in Workers, OthersKeep(w),
         Binds(target'[w], group'[w], pc'[w], policyError'[w], believed'[w])
  PROVE  Reserved'
BY ReservedIs DEF OthersKeep

LEMMA SettleReserves ==
  ASSUME IInv, Reserved, NEW w \in Workers, SettlePlacement(w)
  PROVE  Reserved'
<1>0. TypeOK /\ LoadIsHeld BY DEF IInv
<1>1. PICK bound : bound = IF policyError[w] THEN NoCpu ELSE SoleCpu(believed[w]) OBVIOUS
<1>2. /\ pc' = [pc EXCEPT ![w] = "run"] /\ UNCHANGED <<group, policyError, believed>>
      /\ IF Forfeits(w, bound) THEN Release(w) ELSE target' = target
  BY <1>1 DEF SettlePlacement
<1>3. pc'[w] = "run" /\ \A v \in Workers \ {w} : pc'[v] = pc[v] BY <1>0, <1>2 DEF TypeOK
<1>4. \A v \in Workers \ {w} : target'[v] = target[v] BY <1>0, <1>2 DEF Release, TypeOK
<1>5. OthersKeep(w) BY <1>2, <1>3, <1>4 DEF OthersKeep
<1>6. CASE Forfeits(w, bound)
 <2>1. target'[w] = NoCpu BY <1>0, <1>2, <1>6 DEF Release, TypeOK
 <2> QED BY <1>5, <2>1, ReservedByOne DEF Binds
<1>7. CASE ~Forfeits(w, bound) /\ target[w] # NoCpu
 <2>1. target[w] \in Cpus /\ believed[w] \in SUBSET Cpus BY <1>0, <1>7 DEF TypeOK
 <2>2. ~policyError[w] /\ SoleCpu(believed[w]) = target[w] BY <1>1, <1>7 DEF Forfeits
 <2>3. believed[w] = {target[w]} BY <2>1, <2>2, SoleCpuIs
 <2>4. group[w] \in Placed BY <1>7 DEF Reserved
 <2> QED BY <1>2, <1>5, <1>7, <2>2, <2>3, <2>4, ReservedByOne DEF Binds
<1>8. CASE ~Forfeits(w, bound) /\ target[w] = NoCpu BY <1>2, <1>5, <1>8, ReservedByOne DEF Binds
<1> QED BY <1>6, <1>7, <1>8

LEMMA SelectReserves ==
  ASSUME IInv, Reserved, NEW w \in Workers, WorkerSelects(w)
  PROVE  Reserved'
<1>0. TypeOK BY DEF IInv
<1>1. PICK g \in Groups :
              /\ target[w] = NoCpu /\ Reserve(w, g)
              /\ group' = [group EXCEPT ![w] = g]
              /\ pc' = [pc EXCEPT ![w] = IF Affinity THEN "affinity" ELSE "run"]
              /\ UNCHANGED <<policyError, believed>>
  BY SelectIs
<1>2. /\ group'[w] = g /\ \A v \in Workers \ {w} : group'[v] = group[v]
      /\ pc'[w] = (IF Affinity THEN "affinity" ELSE "run")
      /\ \A v \in Workers \ {w} : pc'[v] = pc[v]
  BY <1>0, <1>1 DEF TypeOK
<1>3. CASE g \notin Placed
 <2>1. target' = target BY <1>1, <1>3 DEF Reserve
 <2>2. OthersKeep(w) BY <1>1, <1>2, <2>1 DEF OthersKeep
 <2> QED BY <1>1, <2>1, <2>2, ReservedByOne DEF Binds
<1>4. CASE g \in Placed
 <2>1. PICK c : target' = [target EXCEPT ![w] = c] BY <1>1, <1>4 DEF Reserve
 <2>2. OthersKeep(w) BY <1>0, <1>1, <1>2, <2>1 DEF OthersKeep, TypeOK
 <2>3. pc'[w] = "affinity" BY <1>2, <1>4, PlacementAssumption
 <2> QED BY <1>2, <1>4, <2>2, <2>3, ReservedByOne DEF Binds
<1> QED BY <1>3, <1>4

LEMMA CompleteReserves ==
  ASSUME IInv, Reserved, NEW w \in Workers, JobCompletes(w)
  PROVE  Reserved'
<1>0. TypeOK BY DEF IInv
<1>1. IF target[w] # NoCpu THEN Release(w) ELSE target' = target BY DEF JobCompletes
<1>2. target'[w] = NoCpu /\ \A v \in Workers \ {w} : target'[v] = target[v] BY <1>0, <1>1 DEF Release, TypeOK
<1>3. OthersKeep(w) BY <1>0, <1>2 DEF OthersKeep, JobCompletes, TypeOK
<1> QED BY <1>2, <1>3, ReservedByOne DEF Binds

LEMMA ReservedStep ==
  ASSUME IInv, Reserved, Next
  PROVE  Reserved'
<1>0. TypeOK BY DEF IInv
<1> USE DEF workerVars
<1>1. ASSUME UNCHANGED <<target, group, policyError, believed>>,
             \A v \in Workers : pc'[v] \in {"run", "captures"} => pc[v] \in {"run", "captures"}
      PROVE  Reserved'
  BY <1>1 DEF Reserved
<1>2. ASSUME NEW w \in Workers, AffinityHolds(w) \/ AffinityFails(w) PROVE Reserved'
 <2>1. /\ UNCHANGED <<target, group>> /\ pc'[w] = "settle"
       /\ \A v \in Workers \ {w} : pc'[v] = pc[v]
   BY <1>0, <1>2 DEF AffinityHolds, AffinityFails, TypeOK
 <2>2. \A v \in Workers \ {w} : policyError'[v] = policyError[v] /\ believed'[v] = believed[v]
   BY <1>0, <1>2 DEF AffinityHolds, AffinityFails, Bound, TypeOK
 <2>3. OthersKeep(w) BY <2>1, <2>2 DEF OthersKeep
 <2>4. target[w] # NoCpu => group[w] \in Placed BY DEF Reserved
 <2> QED BY <2>1, <2>3, <2>4, ReservedByOne DEF Binds
<1>3. ASSUME NEW w \in Workers, StartWorker(w) \/ WorkerSleeps(w) \/ WorkerExits(w)
                                  \/ OsRestricts(w) \/ JobSettles(w)
      PROVE  Reserved'
 <2>1. UNCHANGED <<target, group, policyError, believed>>
   BY <1>3 DEF StartWorker, WorkerSleeps, WorkerExits, OsRestricts, JobSettles
 <2>2. \A v \in Workers : pc'[v] \in {"run", "captures"} => pc[v] \in {"run", "captures"}
   BY <1>0, <1>3 DEF StartWorker, WorkerSleeps, WorkerExits, OsRestricts, JobSettles, TypeOK
 <2> QED BY <1>1, <2>1, <2>2
<1>4. CASE GateStep \/ \E t \in Threads, g \in Groups, j \in Jobs : Submit(t, g, j)
 <2>1. UNCHANGED <<target, group, policyError, believed, pc>>
   BY <1>4 DEF GateStep, MakeGroup, ClosePool, CloseGroup, ShutdownCall, Submit, Enqueue
 <2> QED BY <1>1, <2>1
<1>5. CASE \/ StartFails \/ StartFailureNotifies \/ StartFailureJoins
           \/ \E t \in Threads : NotifyAll(t)
           \/ \E c \in Clients, g \in Groups : DrainCall(c, g)
           \/ \E c \in Clients : DrainSleeps(c) \/ DrainReturns(c) \/ ShutdownReturns(c)
 <2>1. UNCHANGED <<target, group, policyError, believed, pc>>
   BY <1>5 DEF StartFails, StartFailureNotifies, StartFailureJoins, NotifyAll, DrainCall, DrainSleeps, DrainReturns,
     ShutdownReturns
 <2> QED BY <1>1, <2>1
<1>6. CASE \E w \in Workers : SettlePlacement(w) \/ WorkerSelects(w) \/ JobCompletes(w)
  BY <1>6, SettleReserves, SelectReserves, CompleteReserves
<1> QED BY <1>2, <1>3, <1>4, <1>5, <1>6, StepKinds DEF LocalStep, JobStep
--------------------
LEMMA SInit == Init => SInv
<1> SUFFICES ASSUME Init PROVE SInv OBVIOUS
<1>1. NoWorkAbandoned /\ Carried /\ Drains /\ Reserved BY DEF Init, NoWorkAbandoned, Carried, Drains, Reserved
<1>2. \A j \in Jobs : /\ \A w \in Workers : job[w] # j
                      /\ \A g \in Groups : DOMAIN pending[g] = {}
                      /\ result[j] = "none"
  BY JobsAssumption DEF Init
<1>3. OnePlace BY <1>2 DEF OnePlace, Queued
<1> QED BY <1>1, <1>3, InitInv DEF SInv

LEMMA SNext == SInv /\ [Next]_vars => SInv'
<1> SUFFICES ASSUME SInv, [Next]_vars PROVE SInv' OBVIOUS
<1>1. TypeOK BY DEF SInv, IInv
<1>2. CASE Next
 <2>1. IInv' BY <1>2, NextInv DEF SInv
 <2>2. NoWorkAbandoned' /\ Drains' BY <1>1, <1>2, ExitsStep, DrainsStep DEF SInv
 <2>3. OnePlace' /\ Carried' /\ Reserved' BY <1>2, PlacesStep, ReservedStep DEF SInv
 <2> QED BY <2>1, <2>2, <2>3 DEF SInv
<1>3. CASE UNCHANGED vars
 <2> USE <1>3 DEF vars, poolVars, queueVars, workerVars, placementVars, waitVars, clientVars
 <2>1. IInv' BY NextInv DEF SInv
 <2>2. NoWorkAbandoned' /\ Carried' /\ Drains' /\ Reserved'
   BY DEF SInv, NoWorkAbandoned, HasPending, Carried, Drains, Reserved
 <2>3. OnePlace' BY DEF SInv, OnePlace, Queued
 <2> QED BY <2>1, <2>2, <2>3 DEF SInv
<1> QED BY <1>2, <1>3

LEMMA ServiceInvariance == Spec => []SInv
BY SInit, SNext, PTL DEF Spec

\* A thread leaves only a closed pool with empty queues, and none fills
\* again: what callbacks and the destructors of captures submit while the
\* pool shuts down is run or rejected (run_worker, Group::enqueue).
THEOREM NothingLeftBehind == Spec => []NoWorkAbandoned
<1>1. SInv => NoWorkAbandoned BY DEF SInv
<1> QED BY <1>1, ServiceInvariance, PTL
--------------------
\* The pool as a job service.

\* Job j is in group g: a worker holds it for the group, or it is queued.
At(jb, gr, pn, j, g) ==
  \/ \E w \in Workers : jb[w] = j /\ gr[w] = g
  \/ g \in Groups /\ \E i \in DOMAIN pn[g] : pn[g][i] = j

Lone(jb, gr, pn) ==
  \A j \in Jobs : \A g, h : At(jb, gr, pn, j, g) /\ At(jb, gr, pn, j, h) => g = h

HomeIn(jb, gr, pn, j) ==
  LET heldFor == {gr[w] : w \in {v \in Workers : jb[v] = j}}
      queuedIn == {g \in Groups : \E i \in DOMAIN pn[g] : pn[g][i] = j}
  IN  IF heldFor \cup queuedIn = {} THEN 0 ELSE CHOOSE g \in heldFor \cup queuedIn : TRUE

LEMMA HomesAre ==
  ASSUME NEW jb, NEW gr, NEW pn, NEW j \in Jobs
  PROVE  /\ (\A g : ~At(jb, gr, pn, j, g)) => HomeIn(jb, gr, pn, j) = 0
         /\ (\E g : At(jb, gr, pn, j, g)) => At(jb, gr, pn, j, HomeIn(jb, gr, pn, j))
<1> DEFINE heldFor == {gr[w] : w \in {v \in Workers : jb[v] = j}}
           queuedIn == {g \in Groups : \E i \in DOMAIN pn[g] : pn[g][i] = j}
           S == heldFor \cup queuedIn
<1>1. \A g : g \in S <=> At(jb, gr, pn, j, g) BY DEF At
<1>2. HomeIn(jb, gr, pn, j) = IF S = {} THEN 0 ELSE CHOOSE g \in S : TRUE BY Zenon DEF HomeIn
<1> HIDE DEF S
<1>3. S # {} => HomeIn(jb, gr, pn, j) \in S BY <1>2
<1> QED BY <1>1, <1>2, <1>3

LEMMA HomeStays ==
  ASSUME NEW jb, NEW gr, NEW pn, NEW jc, NEW gs, NEW pm, NEW j \in Jobs,
         Lone(jb, gr, pn), Lone(jc, gs, pm),
         \A g : At(jb, gr, pn, j, g) <=> At(jc, gs, pm, j, g)
  PROVE  HomeIn(jc, gs, pm, j) = HomeIn(jb, gr, pn, j)
BY HomesAre DEF Lone

LEMMA HomeOfIs ==
  ASSUME NEW j
  PROVE  /\ HomeOf(j) = HomeIn(job, group, pending, j)
         /\ HomeOf(j)' = HomeIn(job', group', pending', j)
BY Zenon DEF HomeOf, HomeIn, Queued

LEMMA OnePlaceIsLone ==
  ASSUME OnePlace
  PROVE  Lone(job, group, pending)
<1> SUFFICES ASSUME NEW j \in Jobs, NEW g, NEW h, At(job, group, pending, j, g),
                    At(job, group, pending, j, h)
             PROVE  g = h
  BY DEF Lone
<1>1. CASE \E w \in Workers : job[w] = j BY <1>1 DEF At, OnePlace, Queued
<1>2. CASE ~\E w \in Workers : job[w] = j BY <1>2 DEF At, OnePlace
<1> QED BY <1>1, <1>2

LEMMA OnePlaceIsLoneNext ==
  ASSUME OnePlace'
  PROVE  Lone(job', group', pending')
<1> SUFFICES ASSUME NEW j \in Jobs, NEW g, NEW h, At(job', group', pending', j, g),
                    At(job', group', pending', j, h)
             PROVE  g = h
  BY DEF Lone
<1>1. CASE \E w \in Workers : job'[w] = j BY <1>1 DEF At, OnePlace, Queued
<1>2. CASE ~\E w \in Workers : job'[w] = j BY <1>2 DEF At, OnePlace
<1> QED BY <1>1, <1>2

Homes == [j \in Jobs |-> HomeOf(j)]
Settleds == {j \in Jobs : result[j] # "none" /\ HomeOf(j) = 0}
Opens == {g \in Groups : open[g]}
Freshes == {g \in Groups : g > made}
HomesAreKept == Homes' = Homes /\ Settleds' = Settleds

\* Where nothing moves from one group to another, no home changes.
LEMMA HomesStay ==
  ASSUME OnePlace, OnePlace',
         \A j \in Jobs : \A g :
            At(job, group, pending, j, g) <=> At(job', group', pending', j, g)
  PROVE  \A j \in Jobs : HomeOf(j)' = HomeOf(j)
<1> SUFFICES ASSUME NEW j \in Jobs PROVE HomeOf(j)' = HomeOf(j) OBVIOUS
<1>1. Lone(job, group, pending) /\ Lone(job', group', pending') BY OnePlaceIsLone, OnePlaceIsLoneNext
<1>2. \A g : At(job, group, pending, j, g) <=> At(job', group', pending', j, g) OBVIOUS
<1>3. HomeIn(job', group', pending', j) = HomeIn(job, group, pending, j) BY <1>1, <1>2, HomeStays
<1> QED BY <1>3, HomeOfIs

LEMMA UnmovedHomes ==
  ASSUME JobsStay
  PROVE  HomesAreKept
<1>1. \A j : HomeOf(j)' = HomeOf(j) BY DEF JobsStay, HomeOf, Queued
<1> QED BY <1>1 DEF HomesAreKept, Homes, Settleds, JobsStay

LEMMA SubmitAccepts ==
  ASSUME SInv, SInv', NEW t \in Threads, NEW g \in Groups, NEW j \in Jobs, Submit(t, g, j)
  PROVE  Service!Accept(j, g)
<1>0. TypeOK /\ OnePlace /\ OnePlace' BY DEF SInv, IInv
<1>1. /\ UNCHANGED <<job, group, pc, result, open, made, drained>> /\ Unsubmitted(j) /\ open[g]
      /\ pending' = [pending EXCEPT ![g] = Append(@, j)]
  BY DEF Submit, Enqueue, workerVars, poolVars, clientVars
<1>2. result[j] = "none" /\ \A h : ~At(job, group, pending, j, h) BY <1>1 DEF Unsubmitted, At
<1>3. HomeOf(j) = 0 BY <1>2, HomesAre, HomeOfIs
<1>4. /\ \A h \in Groups : \A i \in DOMAIN pending'[h] :
            \/ i \in DOMAIN pending[h] /\ pending'[h][i] = pending[h][i]
            \/ h = g /\ i = Len(pending[g]) + 1 /\ pending'[h][i] = j
      /\ \A h \in Groups : \A i \in DOMAIN pending[h] :
            i \in DOMAIN pending'[h] /\ pending'[h][i] = pending[h][i]
      /\ \E k \in DOMAIN pending'[g] : pending'[g][k] = j
 <2>1. Len(pending[g]) + 1 \in DOMAIN pending'[g] /\ pending'[g][Len(pending[g]) + 1] = j BY <1>0, <1>1, Joining
 <2>2. \E k \in DOMAIN pending'[g] : pending'[g][k] = j BY <2>1, Zenon
 <2> QED BY <1>0, <1>1, <2>2, Joining
<1>5. Lone(job, group, pending) /\ Lone(job', group', pending') BY <1>0, OnePlaceIsLone, OnePlaceIsLoneNext
<1>6. HomeOf(j)' = g
 <2>1. At(job', group', pending', j, g) BY <1>4 DEF At
 <2>2. At(job', group', pending', j, HomeIn(job', group', pending', j)) BY <2>1, HomesAre
 <2> QED BY <1>5, <2>1, <2>2, HomeOfIs DEF Lone
<1>7. ASSUME NEW x \in Jobs, x # j PROVE HomeOf(x)' = HomeOf(x)
 <2>1. \A h : At(job, group, pending, x, h) <=> At(job', group', pending', x, h) BY <1>1, <1>4, <1>7 DEF At
 <2>2. HomeIn(job', group', pending', x) = HomeIn(job, group, pending, x) BY <1>5, <2>1, HomeStays
 <2> QED BY <2>2, HomeOfIs
<1>8. /\ g \in Opens /\ Homes[j] = 0 /\ j \notin Settleds
      /\ Homes' = [Homes EXCEPT ![j] = g]
  BY <1>1, <1>2, <1>3, <1>6, <1>7 DEF Opens, Homes, Settleds
<1>9. Settleds' = Settleds BY <1>1, <1>2, <1>7 DEF Settleds
<1>10. UNCHANGED <<Opens, Freshes, drained>> BY <1>1 DEF Opens, Freshes
<1> QED BY <1>8, <1>9, <1>10 DEF Service!Accept, Homes, Settleds, Opens, Freshes

LEMMA SelectMoves ==
  ASSUME SInv, SInv', NEW w \in Workers, WorkerSelects(w)
  PROVE  HomesAreKept
<1>0. IInv /\ TypeOK /\ OnePlace /\ OnePlace' BY DEF SInv, IInv
<1>1. PICK g \in Groups :
              /\ pending[g] # <<>> /\ pending' = [pending EXCEPT ![g] = Tail(@)]
              /\ group[w] = 0
              /\ job' = [job EXCEPT ![w] = Head(pending[g])]
              /\ group' = [group EXCEPT ![w] = g]
              /\ result' = result
  BY <1>0, SelectIs
<1>2. PICK j \in Jobs : j = Head(pending[g]) BY <1>0, <1>1, Leaving
<1>3. /\ 1 \in DOMAIN pending[g] /\ pending[g][1] = j
      /\ \A h \in Groups \ {g} : pending'[h] = pending[h]
      /\ \A i \in DOMAIN pending'[g] :
            i \in Nat /\ i + 1 # 1 /\ i + 1 \in DOMAIN pending[g]
              /\ pending'[g][i] = pending[g][i + 1]
      /\ \A i \in DOMAIN pending[g] : i # 1 =>
            i - 1 \in DOMAIN pending'[g] /\ pending'[g][i - 1] = pending[g][i]
  BY <1>0, <1>1, <1>2, Leaving
<1>4. job[w] = NoJob BY <1>1 DEF SInv, Carried
<1>5. /\ job'[w] = j /\ \A v \in Workers \ {w} : job'[v] = job[v]
      /\ group'[w] = g /\ \A v \in Workers \ {w} : group'[v] = group[v]
  BY <1>0, <1>1, <1>2 DEF TypeOK
<1>6. \A x \in Jobs, h \in Groups :
         (\E i \in DOMAIN pending'[h] : pending'[h][i] = x) =>
            \E k \in DOMAIN pending[h] : pending[h][k] = x
  BY <1>3
<1>7. \A x \in Jobs \ {j}, h \in Groups :
         (\E i \in DOMAIN pending[h] : pending[h][i] = x) =>
            \E k \in DOMAIN pending'[h] : pending'[h][k] = x
  BY <1>3
<1>8. Lone(job, group, pending) /\ Lone(job', group', pending') BY <1>0, OnePlaceIsLone, OnePlaceIsLoneNext
<1>9. \A h : At(job, group, pending, j, h) <=> At(job', group', pending', j, h)
 <2>1. At(job, group, pending, j, g) BY <1>3 DEF At
 <2>2. At(job', group', pending', j, g) BY <1>5 DEF At
 <2> QED BY <1>8, <2>1, <2>2 DEF Lone
<1>10. ASSUME NEW x \in Jobs, x # j PROVE \A h : At(job, group, pending, x, h) <=> At(job', group', pending', x, h)
 <2>1. \A h : (\E v \in Workers : job[v] = x /\ group[v] = h)
                <=> (\E v \in Workers : job'[v] = x /\ group'[v] = h)
   BY <1>4, <1>5, <1>10, JobsAssumption
 <2>2. \A h \in Groups : (\E i \in DOMAIN pending[h] : pending[h][i] = x)
                           <=> (\E i \in DOMAIN pending'[h] : pending'[h][i] = x)
   BY <1>6, <1>7, <1>10
 <2> QED BY <2>1, <2>2 DEF At
<1>11. \A x \in Jobs : \A h :
          At(job, group, pending, x, h) <=> At(job', group', pending', x, h)
  BY <1>9, <1>10
<1>12. \A x \in Jobs : HomeOf(x)' = HomeOf(x) BY <1>0, <1>11, HomesStay
<1> QED BY <1>1, <1>12 DEF HomesAreKept, Homes, Settleds

\* The job a worker holds is at home in the group it serves.
LEMMA HeldAtHome ==
  ASSUME SInv, NEW w \in Workers, pc[w] \in Busy
  PROVE  HomeOf(job[w]) = group[w] /\ HomeOf(job[w]) # 0
<1>1. job[w] \in Jobs /\ group[w] \in Groups BY HeldIs DEF SInv
<1>2. Lone(job, group, pending) BY OnePlaceIsLone DEF SInv
<1>3. At(job, group, pending, job[w], group[w]) BY DEF At
<1>4. At(job, group, pending, job[w], HomeIn(job, group, pending, job[w])) BY <1>1, <1>3, HomesAre
<1>5. HomeOf(job[w]) = group[w] BY <1>1, <1>2, <1>3, <1>4, HomeOfIs DEF Lone
<1> QED BY <1>1, <1>5, GroupsAssumption DEF Groups

LEMMA SettlesStay ==
  ASSUME SInv, NEW w \in Workers, JobSettles(w)
  PROVE  HomesAreKept
<1>1. PICK j \in Jobs : j = job[w] /\ HomeOf(j) # 0 BY HeldIs, HeldAtHome DEF JobSettles, Busy, SInv
<1>2. PICK r : result' = [result EXCEPT ![j] = r] BY <1>1 DEF JobSettles
<1>3. UNCHANGED <<pending, job, group>> /\ \A x \in Jobs \ {j} : result'[x] = result[x]
  BY <1>2 DEF JobSettles, queueVars, SInv, IInv, TypeOK
<1>4. \A x : HomeOf(x)' = HomeOf(x) BY <1>3 DEF HomeOf, Queued
<1>5. Settleds' = Settleds BY <1>1, <1>3, <1>4 DEF Settleds
<1> QED BY <1>4, <1>5 DEF HomesAreKept, Homes

LEMMA CompleteSettles ==
  ASSUME SInv, SInv', NEW w \in Workers, JobCompletes(w)
  PROVE  \E j \in Jobs : Service!Settle(j)
<1>0. IInv /\ TypeOK /\ OnePlace /\ OnePlace' BY DEF SInv, IInv
<1>1. PICK j \in Jobs : j = job[w] /\ HomeOf(j) # 0 /\ result[j] # "none"
  BY HeldIs, HeldAtHome DEF JobCompletes, Busy, SInv, Carried
<1>2. /\ UNCHANGED <<pending, result, open, made, drained>>
      /\ job'[w] = NoJob /\ \A v \in Workers \ {w} : job'[v] = job[v]
      /\ group'[w] = 0 /\ \A v \in Workers \ {w} : group'[v] = group[v]
  BY <1>0 DEF JobCompletes, TypeOK, poolVars, clientVars
<1>3. Lone(job, group, pending) /\ Lone(job', group', pending') BY <1>0, OnePlaceIsLone, OnePlaceIsLoneNext
<1>4. HomeOf(j)' = 0
 <2>1. \A v \in Workers : job'[v] # j BY <1>0, <1>1, <1>2, JobsAssumption DEF OnePlace
 <2>2. \A g \in Groups : \A i \in DOMAIN pending'[g] : pending'[g][i] # j BY <1>0, <1>1, <1>2 DEF OnePlace, Queued
 <2>3. \A g : ~At(job', group', pending', j, g) BY <2>1, <2>2 DEF At
 <2> QED BY <2>3, HomesAre, HomeOfIs
<1>5. ASSUME NEW x \in Jobs, x # j PROVE HomeOf(x)' = HomeOf(x)
 <2>1. \A h : At(job, group, pending, x, h) <=> At(job', group', pending', x, h)
   BY <1>1, <1>2, <1>5, JobsAssumption DEF At
 <2>2. HomeIn(job', group', pending', x) = HomeIn(job, group, pending, x) BY <1>3, <2>1, HomeStays
 <2> QED BY <2>2, HomeOfIs
<1>6. Homes[j] # 0 /\ Homes' = [Homes EXCEPT ![j] = 0] BY <1>1, <1>4, <1>5 DEF Homes
<1>7. Settleds' = Settleds \cup {j} BY <1>1, <1>2, <1>4, <1>5 DEF Settleds
<1>8. UNCHANGED <<Opens, Freshes, drained>> BY <1>2 DEF Opens, Freshes
<1> QED BY <1>6, <1>7, <1>8 DEF Service!Settle, Homes, Settleds, Opens, Freshes

LEMMA GatesMove ==
  ASSUME TypeOK, GateStep
  PROVE  \/ \E g \in Groups : Service!Create(g)
         \/ \E G \in SUBSET Groups : Service!Close(G)
<1>1. Homes' = Homes /\ Settleds' = Settleds BY JobsAlone, UnmovedHomes DEF HomesAreKept
<1>2. ASSUME NEW t \in Threads, MakeGroup(t) PROVE \E g \in Groups : Service!Create(g)
 <2>1. PICK g \in Groups : g = made + 1 BY <1>2, GroupsAssumption DEF MakeGroup, Groups, TypeOK
 <2>2. made' = g /\ open' = [open EXCEPT ![g] = TRUE] /\ drained' = drained BY <1>2, <2>1 DEF MakeGroup, clientVars
 <2>3. Opens' = Opens \cup {g} BY <2>2 DEF Opens, TypeOK
 <2>4. g \in Freshes /\ Freshes' = Freshes \ {g}
  <3>1. made \in Nat /\ \A h \in Groups : h \in Nat BY GroupsAssumption DEF TypeOK, Groups
  <3>2. \A h \in Groups : h > g <=> h > made /\ h # g BY <2>1, <3>1
  <3>3. g > made BY <2>1, <3>1
  <3> QED BY <2>2, <3>2, <3>3 DEF Freshes
 <2>5. Service!Create(g) BY <1>1, <2>2, <2>3, <2>4 DEF Service!Create, Homes, Settleds, Opens, Freshes
 <2> QED BY <2>5
<1>3. ASSUME NEW t \in Threads, NEW g \in Groups, CloseGroup(t, g) PROVE \E G \in SUBSET Groups : Service!Close(G)
 <2>1. open' = [open EXCEPT ![g] = FALSE] /\ UNCHANGED <<made, drained>> BY <1>3 DEF CloseGroup, clientVars
 <2>2. Opens' = Opens \ {g} /\ Freshes' = Freshes BY <2>1 DEF Opens, Freshes, TypeOK
 <2>3. Service!Close({g}) BY <1>1, <2>1, <2>2 DEF Service!Close, Homes, Settleds, Opens, Freshes
 <2> QED BY <2>3
<1>4. ASSUME NEW t \in Threads, ClosePool(t) \/ (t \in Clients /\ ShutdownCall(t))
      PROVE  \E G \in SUBSET Groups : Service!Close(G)
 <2>1. open' = [g \in Groups |-> FALSE] /\ UNCHANGED <<made, drained>>
   BY <1>4 DEF ClosePool, ShutdownCall, Close, clientVars
 <2>2. Opens' = Opens \ Groups /\ Freshes' = Freshes BY <2>1 DEF Opens, Freshes
 <2>3. Service!Close(Groups) BY <1>1, <2>1, <2>2 DEF Service!Close, Homes, Settleds, Opens, Freshes
 <2> QED BY <2>3
<1>5. Clients \subseteq Threads BY DEF Threads
<1> QED BY <1>2, <1>3, <1>4, <1>5 DEF GateStep

LEMMA DrainEnds ==
  ASSUME SInv, NEW c \in Clients, DrainReturns(c)
  PROVE  \E g \in Groups : Service!DrainReturns(g)
<1>0. TypeOK /\ OnePlace /\ Conservation BY DEF SInv, IInv
<1>1. PICK g \in Groups : g = drainee[c] BY <1>0 DEF DrainReturns, TypeOK
<1>2. /\ g <= made /\ ~open[g] /\ pending[g] = <<>> /\ running[g] = 0
      /\ drained' = drained \cup {g} /\ UNCHANGED <<open, made, pending, job, group, result>>
  BY <1>1 DEF DrainReturns, SInv, Drains, Quiet, poolVars, queueVars, workerVars
<1>3. Servers(g) = {}
 <2>1. Servers(g) \in SUBSET Workers BY DEF Servers
 <2>2. IsFiniteSet(Servers(g)) /\ Cardinality(Servers(g)) = 0 BY <1>0, <1>2, <2>1, CountsAreNat DEF Conservation
 <2> QED BY <2>2, FS_EmptySet
<1>4. ASSUME NEW j \in Jobs PROVE HomeOf(j) # g
 <2>1. ~At(job, group, pending, j, g) BY <1>2, <1>3 DEF At, Servers
 <2>2. g # 0 BY GroupsAssumption DEF Groups
 <2> QED BY <2>1, <2>2, HomesAre, HomeOfIs
<1>5. \A j : HomeOf(j)' = HomeOf(j) BY <1>2 DEF HomeOf, Queued
<1>6. UNCHANGED <<Homes, Settleds, Opens, Freshes>> BY <1>2, <1>5 DEF Homes, Settleds, Opens, Freshes
<1>7. g \notin Opens \cup Freshes /\ \A j \in Jobs : Homes[j] # g
  BY <1>0, <1>2, <1>4, GroupsAssumption DEF Homes, Opens, Freshes, TypeOK, Groups
<1>8. Service!DrainReturns(g) BY <1>2, <1>6, <1>7 DEF Service!DrainReturns, Homes, Settleds, Opens, Freshes
<1> QED BY <1>8

LEMMA ServiceInit == Init => Service!Init
<1> SUFFICES ASSUME Init PROVE Service!Init OBVIOUS
<1>1. \A j \in Jobs : \A g : ~At(job, group, pending, j, g) BY JobsAssumption DEF Init, At
<1>2. \A j \in Jobs : HomeOf(j) = 0 BY <1>1, HomesAre, HomeOfIs
<1>3. \A g \in Groups : g > made BY GroupsAssumption DEF Init, Groups
<1> QED BY <1>2, <1>3 DEF Init, Service!Init

LEMMA ServiceStep ==
  ASSUME SInv, SInv', [Next]_vars
  PROVE  [Service!Next]_<<Homes, Settleds, Opens, Freshes, drained>>
<1>0. TypeOK /\ IInv BY DEF SInv, IInv
<1>1. CASE UNCHANGED vars
 <2>1. UNCHANGED <<job, group, pending, result, open, made, drained>>
   BY <1>1 DEF vars, poolVars, queueVars, workerVars, clientVars
 <2>2. \A j : HomeOf(j)' = HomeOf(j) BY <2>1 DEF HomeOf, Queued
 <2> QED BY <2>1, <2>2 DEF Homes, Settleds, Opens, Freshes
<1>2. ASSUME NEW t \in Threads, NEW g \in Groups, NEW j \in Jobs, Submit(t, g, j) PROVE Service!Next
  BY <1>2, SubmitAccepts DEF Service!Next
<1>3. ASSUME NEW w \in Workers, JobCompletes(w) PROVE Service!Next BY <1>3, CompleteSettles DEF Service!Next
<1>4. ASSUME NEW w \in Workers, WorkerSelects(w) \/ JobSettles(w)
      PROVE  UNCHANGED <<Homes, Settleds, Opens, Freshes, drained>>
 <2>1. HomesAreKept BY <1>4, SelectMoves, SettlesStay
 <2>2. UNCHANGED <<open, made, drained>> BY <1>4 DEF WorkerSelects, JobSettles, poolVars, clientVars
 <2> QED BY <2>1, <2>2 DEF HomesAreKept, Opens, Freshes
<1>5. CASE GateStep BY <1>0, <1>5, GatesMove DEF Service!Next
<1>6. ASSUME NEW c \in Clients, DrainReturns(c) PROVE Service!Next BY <1>6, DrainEnds DEF Service!Next
<1>7. CASE LocalStep /\ ~\E c \in Clients : DrainReturns(c)
 <2>1. HomesAreKept BY <1>0, <1>7, JobsAlone, UnmovedHomes
 <2>2. UNCHANGED <<open, made, drained>>
  <3> USE DEF poolVars, clientVars
  <3>1. CASE \/ \E w \in Workers : StartWorker(w)
             \/ StartFails \/ StartFailureNotifies \/ StartFailureJoins
    BY <3>1 DEF StartWorker, StartFails, StartFailureNotifies, StartFailureJoins
  <3>2. CASE \/ \E t \in Threads : NotifyAll(t)
             \/ \E c \in Clients, g \in Groups : DrainCall(c, g)
             \/ \E c \in Clients : DrainSleeps(c) \/ ShutdownReturns(c)
    BY <3>2 DEF NotifyAll, DrainCall, DrainSleeps, ShutdownReturns
  <3>3. CASE \E w \in Workers : \/ WorkerSleeps(w) \/ WorkerExits(w) \/ AffinityHolds(w)
                                \/ AffinityFails(w) \/ OsRestricts(w) \/ SettlePlacement(w)
    BY <3>3 DEF WorkerSleeps, WorkerExits, AffinityHolds, AffinityFails, OsRestricts, SettlePlacement
  <3> QED BY <1>7, <3>1, <3>2, <3>3 DEF LocalStep
 <2> QED BY <2>1, <2>2 DEF HomesAreKept, Opens, Freshes
<1>8. CASE JobStep BY <1>2, <1>3, <1>4, <1>8 DEF JobStep
<1> QED BY <1>1, <1>5, <1>6, <1>7, <1>8, StepKinds

\* Only the two outcomes of the affinity step lead a worker on from it.
BindsOrFails ==
  \A w \in Workers :
      pc[w] = "affinity" /\ pc'[w] = "settle" /\ ~policyError'[w] /\ group[w] \in Required
          => native'[w] = Desired(w)

LEMMA AffinityBinds ==
  ASSUME TypeOK, NEW w \in Workers, AffinityHolds(w), group[w] \in Required
  PROVE  native'[w] = Desired(w)
<1>1. CASE MaskStands(w) BY <1>1 DEF AffinityHolds, MaskStands
<1>2. CASE ~MaskStands(w)
 <2>1. native' = [native EXCEPT ![w] = Desired(w)] BY <1>2 DEF AffinityHolds, Bound
 <2> QED BY <2>1 DEF TypeOK
<1> QED BY <1>1, <1>2

LEMMA BindingStep ==
  ASSUME TypeOK, [Next]_vars
  PROVE  BindsOrFails
<1> SUFFICES ASSUME NEW w \in Workers, pc[w] = "affinity", pc'[w] = "settle", ~policyError'[w],
                    group[w] \in Required
             PROVE  native'[w] = Desired(w)
  BY DEF BindsOrFails
<1> USE DEF workerVars
<1>1. CASE UNCHANGED vars BY <1>1 DEF vars
<1>2. CASE GateStep \/ \E t \in Threads, g \in Groups, j \in Jobs : Submit(t, g, j)
  BY <1>2 DEF GateStep, MakeGroup, ClosePool, CloseGroup, ShutdownCall, Submit, Enqueue
<1>3. CASE \/ StartFails \/ StartFailureNotifies \/ StartFailureJoins
           \/ \E t \in Threads : NotifyAll(t)
           \/ \E c \in Clients, g \in Groups : DrainCall(c, g)
           \/ \E c \in Clients : DrainSleeps(c) \/ DrainReturns(c) \/ ShutdownReturns(c)
           \/ \E v \in Workers : WorkerSleeps(v) \/ OsRestricts(v)
  BY <1>3 DEF StartFails, StartFailureNotifies, StartFailureJoins, NotifyAll, DrainCall, DrainSleeps, DrainReturns,
    ShutdownReturns, WorkerSleeps, OsRestricts
<1>4. ASSUME NEW v \in Workers, StartWorker(v) \/ WorkerExits(v) \/ SettlePlacement(v)
                                  \/ JobSettles(v) \/ JobCompletes(v)
      PROVE  FALSE
 <2>1. pc'[v] # "settle" /\ \A u \in Workers \ {v} : pc'[u] = pc[u]
   BY <1>4 DEF StartWorker, WorkerExits, SettlePlacement, JobSettles, JobCompletes, TypeOK
 <2> QED BY <2>1
<1>5. ASSUME NEW v \in Workers, WorkerSelects(v) PROVE FALSE
 <2>1. pc'[v] # "settle" /\ \A u \in Workers \ {v} : pc'[u] = pc[u] BY <1>5 DEF WorkerSelects, TypeOK
 <2> QED BY <2>1
<1>6. ASSUME NEW v \in Workers, AffinityHolds(v) \/ AffinityFails(v) PROVE native'[w] = Desired(w)
 <2>1. \A u \in Workers \ {v} : pc'[u] = pc[u] BY <1>6 DEF AffinityHolds, AffinityFails, TypeOK
 <2>2. v = w BY <2>1
 <2>3. CASE AffinityHolds(w) BY <2>3, AffinityBinds
 <2>4. CASE AffinityFails(w) BY <2>4 DEF AffinityFails, TypeOK
 <2> QED BY <1>6, <2>2, <2>3, <2>4
<1> QED BY <1>1, <1>2, <1>3, <1>4, <1>5, <1>6, StepKinds DEF LocalStep, JobStep

\* The pool implements the job service: a job is accepted by an open group
\* only, is in one place until it is settled, once, and a drain returns
\* when every job of its group is; and a job runs where the policy of its
\* group binds it (Group::enqueue, Group::drain, run_worker).
THEOREM PoolIsAJobService == Spec => ImplementsService
<1>1. SInv /\ SInv' /\ [Next]_vars => [Service!Next]_<<Homes, Settleds, Opens, Freshes, drained>> BY ServiceStep
<1>2. Spec => Service!Spec
  BY <1>1, ServiceInvariance, ServiceInit, PTL DEF Spec, Service!Spec, Service!vars, Homes, Settleds, Opens, Freshes
<1>3. SInv => OnePlace /\ TypeOK BY DEF SInv, IInv
<1>4. SInv => ReservationIsBinding BY DEF SInv, Reserved, ReservationIsBinding
<1>5. TypeOK /\ [Next]_vars => [BindsOrFails]_vars BY BindingStep
<1>6. Spec => RunsWhereBound BY <1>3, <1>4, <1>5, ServiceInvariance, PTL DEF Spec, RunsWhereBound, BindsOrFails
<1> QED BY <1>2, <1>3, <1>6, ServiceInvariance, PTL DEF ImplementsService
--------------------
\* What is required of the pool.

\* Every variable of the pool keeps its type: in particular the counters of
\* running jobs and the CPU loads never go below zero.
THEOREM TypeCorrect == Spec => []TypeOK
<1>1. IInv => TypeOK BY DEF IInv
<1>2. QED BY <1>1, Invariance, PTL

\* GroupStatus is exact: accepted = pending + running + completed, and
\* running counts the workers that hold a job of the group.
THEOREM CountersAreExact == Spec => []Conservation
<1>1. IInv => Conservation BY DEF IInv
<1>2. QED BY <1>1, Invariance, PTL

\* No group ever runs more jobs at once than max_concurrency, or than the
\* pool has threads when it sets no limit.
THEOREM LimitsHold == Spec => []CapRespected
<1>1. IInv => CapRespected BY DEF IInv
<1>2. QED BY <1>1, Invariance, PTL

\* Each CPU reservation is counted while it is held and given back exactly
\* once, on the success, fallback and failure paths of run_worker.
THEOREM LoadsAreExact == Spec => []LoadIsHeld
<1>1. IInv => LoadIsHeld BY DEF IInv
<1>2. QED BY <1>1, Invariance, PTL

\* Neither a place within a limit nor a reserved CPU is taken twice or lost
\* by a pool of any size (run_worker, reserve_cpu, release_cpu).
THEOREM ResourcesAreHeld == Spec => []ResourcesHeld
BY LimitsHold, LoadsAreExact, PTL DEF ResourcesHeld
====================
