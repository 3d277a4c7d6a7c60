---- MODULE ShutdownProofs ----
\* Proofs about Shutdown, for any number of requests and policies.
\*
\* The inductive invariant says in whose hands each request without a
\* result is (the slot, the owner, or one of two forced stops), what may
\* have been written into it before and after its admission, what the
\* owner knows at each place of a pass, that a policy's gate counts the
\* callbacks inside it, and that an open gate belongs to the policy whose
\* owner still has it.
EXTENDS Shutdown, FiniteSetTheorems, TLAPS

USE DEF reqVars, policyVars, stateVars, ownerVars, forceVars, holderVars, wakeVars, histVars,
        OwnerQuiet

RequestTypes ==
  /\ slot \in 0..MaxRequests /\ issued \in 0..MaxRequests
  /\ req \in [Requests -> Slots] /\ result \in [Requests -> Results]

PolicyTypes ==
  /\ policy \in 0..MaxPolicies /\ installed \in 0..MaxPolicies
  /\ active \in [Generations -> BOOLEAN]
  /\ delivery \in [Generations -> {"immediate", "queued"}]
  /\ holderPc \in {"idle", "detach", "disconnect", "wait"} /\ held \in 0..MaxPolicies
  /\ selves \subseteq Generations

StateTypes ==
  /\ status \in {"Running", "Pending", "Committed", "Quiescing", "Stopped"}
  /\ cause \in {"None", "AcceptedRequest", "StopRequested", "Failure", "WindowClose"}
  /\ closed \in BOOLEAN /\ stop \in BOOLEAN /\ begun \in BOOLEAN /\ asleep \in BOOLEAN
  /\ pinging \subseteq Pingers /\ agreed \subseteq Requests /\ withdrawn \subseteq Requests

OwnerTypes ==
  /\ ownerPc \in OwnerStates /\ selected \in 0..MaxRequests /\ seen \in 0..MaxPolicies
  /\ after \in {"none", "idle", "quiesce"}

ForceTypes ==
  /\ forcePc \in [Forcers -> {"idle", "invalidate", "supersede", "stop"}]
  /\ authority \in [Forcers -> 0..MaxPolicies] /\ retired \in [Forcers -> 0..MaxRequests]

RunningTypes == running \in [Generations -> Nat]

\* the hands a request without a result is in
OwnerHolds(r) == ownerPc \in {"rejecting", "accept", "settle", "closing"} /\ selected = r
ForceHolds(t, r) == forcePc[t] \in {"invalidate", "supersede"} /\ retired[t] = r

InOneHand(r) ==
  /\ slot = r => r <= issued /\ result[r] = NoResult /\ ~OwnerHolds(r)
  /\ OwnerHolds(r) => result[r] = NoResult
  /\ \A t \in Forcers : ForceHolds(t, r) =>
        /\ result[r] = NoResult /\ slot # r /\ ~OwnerHolds(r) /\ r <= issued
        /\ \A u \in Forcers \ {t} : ~ForceHolds(u, r)

Hands == \A r \in Requests : InOneHand(r)

BookOf(r) ==
  /\ r > issued => ~req[r].admitted /\ result[r] = NoResult
  /\ ~req[r].admitted => req[r].decision = NoResult /\ req[r].job = "none"
  /\ req[r].admitted /\ req[r].expected # 0 => req[r].generation = req[r].expected
  /\ req[r].job # "none" => req[r].generation # 0
  /\ req[r].decision.disposition = "Accepted" => req[r].generation = 0 \/ r \in agreed
  /\ r \in withdrawn => req[r].decision.disposition = "Cancelled"
  /\ Accepted(r) => req[r].decision.disposition = "Accepted"

RequestBooks == \A r \in Requests : BookOf(r)

\* the places of a pass that is about the selected request
Passing == {"admit", "register", "reject", "rejecting", "notify", "callback", "decide",
            "accept", "settle"}

OwnerBooks ==
  /\ ownerPc \in Passing => selected # 0 /\ selected <= issued
  /\ ownerPc \in {"admit", "register", "reject", "rejecting"} => ~req[selected].admitted
  /\ ownerPc = "register" => req[selected].expected = 0 \/ req[selected].expected = seen
  /\ ownerPc = "notify" => /\ req[selected].admitted /\ req[selected].job = "none"
                           /\ seen # 0 /\ req[selected].generation = seen
  /\ ownerPc = "forced" => after # "none"
  /\ ownerPc = "closing" => selected = 0 \/ selected <= issued
  /\ ownerPc = "accept" => req[selected].decision.disposition = "Accepted"
  /\ ownerPc \in {"accept", "settle"} /\ req[selected].decision.disposition = "Accepted" =>
        cause = "AcceptedRequest" /\ \A r \in Requests : ~Accepted(r)

\* the callbacks inside a policy's gate
Inside(g) == {r \in Requests : req[r].job = "running" /\ req[r].generation = g}

GateCounts == \A g \in Generations : running[g] = Cardinality(Inside(g))
GateOpenToHolder == \A g \in Generations : active[g] => g = held /\ holderPc = "idle"

Types == RequestTypes /\ PolicyTypes /\ StateTypes /\ OwnerTypes /\ ForceTypes /\ RunningTypes

IInv ==
  /\ Types /\ Hands /\ RequestBooks /\ OwnerBooks /\ PendingIsAdmitted /\ CauseIsTrue
  /\ GateCounts /\ GateOpenToHolder /\ CallbacksAcknowledged

--------------------
\* What a step keeps of a request, and the types.

SameIssue == \A q \in Requests : /\ req'[q].expected = req[q].expected
                                 /\ req'[q].generation = req[q].generation
                                 /\ req'[q].admitted = req[q].admitted
SameDecisions == \A q \in Requests : req'[q].decision = req[q].decision
JobMoves(r) ==
  EnterListener(r) \/ Invoke(r) \/ CallbackEnds(r) \/ ReportFailure(r) \/ Drop(r)
SameJobs == \A q \in Requests : req'[q].job = req[q].job

Jobs == {"none", "queued", "entering", "running", "failing", "returned", "discarded"}

LEMMA SetJobTyped ==
  ASSUME req \in [Requests -> Slots], NEW r \in Requests, NEW j \in Jobs
  PROVE  SetJob(r, j) \in [Requests -> Slots]
  BY DEF SetJob, Slots, Jobs

LEMMA DecisionTyped ==
  ASSUME req \in [Requests -> Slots], NEW r \in Requests, NEW d \in Results
  PROVE  [req EXCEPT ![r].decision = d] \in [Requests -> Slots]
  BY DEF Slots

LEMMA RegisteredTyped ==
  ASSUME req \in [Requests -> Slots], NEW r \in Requests, NEW d \in BOOLEAN
  PROVE  [req EXCEPT ![r].registered = d] \in [Requests -> Slots]
  BY DEF Slots

LEMMA ExpectedTyped ==
  ASSUME req \in [Requests -> Slots], NEW r \in Requests, NEW d \in 0..MaxPolicies
  PROVE  [req EXCEPT ![r].expected = d] \in [Requests -> Slots]
  BY DEF Slots

LEMMA ResultsTyped ==
    /\ NoResult \in Results
    /\ [disposition |-> "Accepted", cancellation |-> "None"] \in Results
    /\ [disposition |-> "Superseded", cancellation |-> "None"] \in Results
    /\ \A c \in {"HostRejected", "PolicyDetached", "PolicyFailed"} :
        [disposition |-> "Cancelled", cancellation |-> c] \in Results
    /\ \A c \in {"AdmissionFailed", "RuntimeClosed"} :
        [disposition |-> "Rejected", cancellation |-> c] \in Results
  BY DEF Results, NoResult

LEMMA RegisterTyped ==
  ASSUME req \in [Requests -> Slots], NEW r \in Requests, NEW g \in 0..MaxPolicies
  PROVE  [req EXCEPT ![r].admitted = TRUE, ![r].generation = g, ![r].registered = (g # 0)]
            \in [Requests -> Slots]
<1>1. \A s \in Slots : [s EXCEPT !.admitted = TRUE, !.generation = g, !.registered = (g # 0)] \in Slots BY DEF Slots
<1> QED BY <1>1

LEMMA ReportTyped ==
  ASSUME req \in [Requests -> Slots], NEW r \in Requests, NEW d \in Results, NEW j \in Jobs
  PROVE  [req EXCEPT ![r].decision = d, ![r].job = j] \in [Requests -> Slots]
  BY DEF Slots, Jobs

LEMMA FinishTyped ==
  ASSUME RequestTypes, NEW r \in 0..MaxRequests, NEW d, NEW c, Finish(r, d, c),
         [disposition |-> d, cancellation |-> c] \in Results
  PROVE  req' \in [Requests -> Slots] /\ result' \in [Requests -> Results]
<1>1. CASE r = 0 BY <1>1 DEF RequestTypes, Finish
<1>2. CASE r # 0
 <2>1. r \in Requests BY <1>2, ShutdownAssumption DEF Requests
 <2>2. /\ req' = [req EXCEPT ![r].registered = FALSE]
       /\ result' = [result EXCEPT ![r] = [disposition |-> d, cancellation |-> c]]
   BY <1>2 DEF Finish
 <2> QED BY <2>1, <2>2, RegisteredTyped DEF RequestTypes
<1> QED BY <1>1, <1>2


LEMMA RequestTypesStep ==
  ASSUME RequestTypes, OwnerTypes, ForceTypes, OwnerBooks, PolicyTypes, [Next]_vars
  PROVE  RequestTypes'
<1>1. CASE Begin \/ OwnerForced \/ Admit \/ OwnerCalledBack \/ CommitStop
  BY <1>1, ShutdownAssumption, SetJobTyped, DecisionTyped, ExpectedTyped, ResultsTyped DEF Begin, OwnerForced, Admit,
    OwnerCalledBack, CommitStop, RequestTypes, OwnerTypes, ForceTypes, PolicyTypes, OwnerBooks, Requests, Passing
<1>2. CASE Quiesce \/ OwnerSleeps \/ NativeClose \/ ForceClose \/ EndSession
  BY <1>2, ShutdownAssumption, SetJobTyped, DecisionTyped, ExpectedTyped, ResultsTyped DEF Quiesce, OwnerSleeps,
    NativeClose, ForceClose, ForceBegins, EndSession, RequestTypes, OwnerTypes, ForceTypes, PolicyTypes, OwnerBooks,
    Requests, Passing
<1>3. CASE Install \/ Reset \/ AwaitIdle
  BY <1>3, ShutdownAssumption, SetJobTyped, DecisionTyped, ExpectedTyped, ResultsTyped DEF Install, Reset, AwaitIdle,
    RequestTypes, OwnerTypes, ForceTypes, PolicyTypes, OwnerBooks, Requests, Passing
<1>4. CASE Close
  BY <1>4, ShutdownAssumption, SetJobTyped, DecisionTyped, ExpectedTyped, ResultsTyped DEF Close, RequestTypes,
    OwnerTypes, ForceTypes, PolicyTypes, OwnerBooks, Requests, Passing
<1>5. CASE RejectRequest
  BY <1>5, ShutdownAssumption, SetJobTyped, DecisionTyped, ExpectedTyped, ResultsTyped DEF RejectRequest, RequestTypes,
    OwnerTypes, ForceTypes, PolicyTypes, OwnerBooks, Requests, Passing
<1>6. CASE Process
  BY <1>6, ShutdownAssumption, SetJobTyped, DecisionTyped, ExpectedTyped, ResultsTyped DEF Process, ForceBegins,
    RequestTypes, OwnerTypes, ForceTypes, PolicyTypes, OwnerBooks, Requests, Passing
<1>7. CASE FailSession
  BY <1>7, ShutdownAssumption, SetJobTyped, DecisionTyped, ExpectedTyped, ResultsTyped DEF FailSession, ForceBegins,
    RequestTypes, OwnerTypes, ForceTypes, PolicyTypes, OwnerBooks, Requests, Passing
<1>8. CASE ForceElsewhere
  BY <1>8, ShutdownAssumption, SetJobTyped, DecisionTyped, ExpectedTyped, ResultsTyped DEF ForceElsewhere, ForceBegins,
    RequestTypes, OwnerTypes, ForceTypes, PolicyTypes, OwnerBooks, Requests, Passing
<1>9. CASE StopSource
  BY <1>9, ShutdownAssumption, SetJobTyped, DecisionTyped, ExpectedTyped, ResultsTyped DEF StopSource, RequestTypes,
    OwnerTypes, ForceTypes, PolicyTypes, OwnerBooks, Requests, Passing
<1>10. CASE Request
 <2>1. CASE UNCHANGED <<issued, slot, req>> BY <1>10, <2>1 DEF Request, RequestTypes
 <2>2. CASE ~UNCHANGED <<issued, slot, req>>
  <3>1. /\ issued < MaxRequests /\ issued' = issued + 1 /\ slot' = issued + 1 /\ result' = result
        /\ req' = [req EXCEPT ![issued + 1].expected = policy]
    BY <1>10, <2>2 DEF Request
  <3>2. issued + 1 \in Requests BY <3>1, ShutdownAssumption DEF RequestTypes, Requests
  <3> QED BY <3>1, <3>2, ExpectedTyped, ShutdownAssumption DEF RequestTypes, PolicyTypes, Requests
 <2> QED BY <2>1, <2>2
<1>11. CASE AskClose
 <2>1. CASE UNCHANGED <<issued, slot, req>> BY <1>11, <2>1 DEF AskClose, RequestTypes
 <2>2. CASE ~UNCHANGED <<issued, slot, req>>
  <3>1. /\ issued < MaxRequests /\ issued' = issued + 1 /\ slot' = issued + 1 /\ result' = result
        /\ req' = [req EXCEPT ![issued + 1].expected = policy]
    BY <1>11, <2>2 DEF AskClose
  <3>2. issued + 1 \in Requests BY <3>1, ShutdownAssumption DEF RequestTypes, Requests
  <3> QED BY <3>1, <3>2, ExpectedTyped, ShutdownAssumption DEF RequestTypes, PolicyTypes, Requests
 <2> QED BY <2>1, <2>2
<1>12. CASE Detach
 <2>1. UNCHANGED <<slot, issued, result>> /\ (req' = req \/ (slot # 0 /\ req' = Withdraw(slot)))
   BY <1>12 DEF Detach, UnderPolicy
 <2>2. slot # 0 => slot \in Requests BY ShutdownAssumption DEF RequestTypes, Requests
 <2> QED BY <2>1, <2>2, DecisionTyped, ResultsTyped DEF RequestTypes, Withdraw
<1>13. CASE Disconnect
 <2>1. UNCHANGED <<slot, issued, result>> BY <1>13 DEF Disconnect
 <2>2. \A q \in Requests : [req[q] EXCEPT !.registered = FALSE] \in Slots /\ req[q] \in Slots BY DEF RequestTypes, Slots
 <2>3. req' \in [Requests -> Slots] BY <1>13, <2>2 DEF Disconnect
 <2> QED BY <2>1, <2>3 DEF RequestTypes
<1>14. CASE Register
 <2>1. /\ UNCHANGED <<slot, issued, result>>
       /\ \/ req' = req
          \/ req' = [req EXCEPT ![selected].admitted = TRUE, ![selected].generation = seen,
                                ![selected].registered = (seen # 0)]
   BY <1>14 DEF Register
 <2>2. selected \in Requests /\ seen \in 0..MaxPolicies
   BY <1>14, ShutdownAssumption DEF Register, OwnerBooks, Passing, OwnerTypes, Requests
 <2>3. [req EXCEPT ![selected].admitted = TRUE, ![selected].generation = seen,
                   ![selected].registered = (seen # 0)] \in [Requests -> Slots]
   BY <2>2, RegisterTyped, Zenon DEF RequestTypes
 <2> QED BY <2>1, <2>3 DEF RequestTypes
<1>15. CASE FinishRejected
 <2>1. selected \in 0..MaxRequests /\ Finish(selected, "Rejected", "AdmissionFailed") /\ UNCHANGED <<slot, issued>>
   BY <1>15 DEF FinishRejected, OwnerTypes, ForceTypes
 <2>2. [disposition |-> "Rejected", cancellation |-> "AdmissionFailed"] \in Results
   BY <1>15, ResultsTyped, ShutdownAssumption DEF FinishRejected, OwnerTypes, OwnerBooks, Passing, RequestTypes, Slots,
     Results, Requests
 <2> QED BY <2>1, <2>2, FinishTyped DEF RequestTypes
<1>16. CASE NotifyPolicy
  BY <1>16, ShutdownAssumption, SetJobTyped, DecisionTyped, ExpectedTyped, ResultsTyped DEF NotifyPolicy, RequestTypes,
    OwnerTypes, ForceTypes, PolicyTypes, OwnerBooks, Requests, Passing, Jobs
<1>17. CASE Conclude
 <2>1. /\ UNCHANGED <<issued, result>> /\ slot' \in {slot, 0}
       /\ req' = req \/ req' = [req EXCEPT ![selected].decision = Decision]
   BY <1>17 DEF Conclude
 <2>2. selected \in Requests BY <1>17, ShutdownAssumption DEF Conclude, OwnerBooks, Passing, OwnerTypes, Requests
 <2>3. req[selected].decision \in Results BY <2>2 DEF RequestTypes, Slots
 <2>4. Decision \in Results BY <2>3, ResultsTyped DEF Decision
 <2> QED BY <2>1, <2>2, <2>4, DecisionTyped, ShutdownAssumption DEF RequestTypes
<1>18. CASE Settle
 <2>1. selected \in 0..MaxRequests /\ Finish(selected, req[selected].decision.disposition, req[selected].decision.cancellation) /\ UNCHANGED <<slot, issued>>
   BY <1>18 DEF Settle, OwnerTypes, ForceTypes
 <2>2. [disposition |-> req[selected].decision.disposition, cancellation |-> req[selected].decision.cancellation] \in Results
   BY <1>18, ResultsTyped, ShutdownAssumption DEF Settle, OwnerTypes, OwnerBooks, Passing, RequestTypes, Slots, Results,
     Requests
 <2> QED BY <2>1, <2>2, FinishTyped DEF RequestTypes
<1>19. CASE FinishClosed
 <2>1. selected \in 0..MaxRequests /\ Finish(selected, "Rejected", "RuntimeClosed") /\ UNCHANGED <<slot, issued>>
   BY <1>19 DEF FinishClosed, OwnerTypes, ForceTypes
 <2>2. [disposition |-> "Rejected", cancellation |-> "RuntimeClosed"] \in Results
   BY <1>19, ResultsTyped, ShutdownAssumption DEF FinishClosed, OwnerTypes, OwnerBooks, Passing, RequestTypes, Slots,
     Results, Requests
 <2> QED BY <2>1, <2>2, FinishTyped DEF RequestTypes
<1>20. ASSUME NEW r \in Requests, Decide(r) PROVE RequestTypes'
  BY <1>20, ShutdownAssumption, SetJobTyped, DecisionTyped, ExpectedTyped, ResultsTyped DEF Decide, Current,
    RequestTypes, OwnerTypes, ForceTypes, PolicyTypes, OwnerBooks, Requests, Passing
<1>21. ASSUME NEW r \in Requests, EnterListener(r) PROVE RequestTypes'
  BY <1>21, ShutdownAssumption, SetJobTyped, DecisionTyped, ExpectedTyped, ResultsTyped DEF EnterListener, RequestTypes,
    OwnerTypes, ForceTypes, PolicyTypes, OwnerBooks, Requests, Passing, Jobs
<1>22. ASSUME NEW r \in Requests, Invoke(r) PROVE RequestTypes'
  BY <1>22, ShutdownAssumption, SetJobTyped, DecisionTyped, ExpectedTyped, ResultsTyped DEF Invoke, RequestTypes,
    OwnerTypes, ForceTypes, PolicyTypes, OwnerBooks, Requests, Passing, Jobs
<1>23. ASSUME NEW r \in Requests, CallbackEnds(r) PROVE RequestTypes'
  BY <1>23, ShutdownAssumption, SetJobTyped, DecisionTyped, ExpectedTyped, ResultsTyped DEF CallbackEnds, RequestTypes,
    OwnerTypes, ForceTypes, PolicyTypes, OwnerBooks, Requests, Passing, Jobs
<1>24. ASSUME NEW r \in Requests, ReportFailure(r) PROVE RequestTypes'
 <2>1. req[r].decision \in Results BY <1>24 DEF RequestTypes, Slots
 <2>2. FailedDecision(r) \in Results BY <2>1, ResultsTyped DEF FailedDecision
 <2> QED BY <1>24, <2>2, ReportTyped DEF ReportFailure, RequestTypes, Jobs
<1>25. ASSUME NEW r \in Requests, Drop(r) PROVE RequestTypes'
  BY <1>25, ShutdownAssumption, SetJobTyped, DecisionTyped, ExpectedTyped, ResultsTyped DEF Drop, DropDelivery,
    RequestTypes, OwnerTypes, ForceTypes, PolicyTypes, OwnerBooks, Requests, Passing, Jobs
<1>26. ASSUME NEW t \in Forcers, ForceInvalidates(t) \/ ForceStops(t) PROVE RequestTypes'
  BY <1>26, ShutdownAssumption, SetJobTyped, DecisionTyped, ExpectedTyped, ResultsTyped DEF ForceInvalidates,
    ForceStops, RequestTypes, OwnerTypes, ForceTypes, PolicyTypes, OwnerBooks, Requests, Passing
<1>27. ASSUME NEW t \in Forcers, ForceSupersedes(t) PROVE RequestTypes'
 <2>1. retired[t] \in 0..MaxRequests /\ Finish(retired[t], "Superseded", "None") /\ UNCHANGED <<slot, issued>>
   BY <1>27 DEF ForceSupersedes, OwnerTypes, ForceTypes
 <2>2. [disposition |-> "Superseded", cancellation |-> "None"] \in Results
   BY <1>27, ResultsTyped, ShutdownAssumption DEF ForceSupersedes, OwnerTypes, OwnerBooks, Passing, RequestTypes, Slots,
     Results, Requests
 <2> QED BY <2>1, <2>2, FinishTyped DEF RequestTypes
<1>28. ASSUME NEW t \in Pingers, Wake(t) PROVE RequestTypes'
  BY <1>28, ShutdownAssumption, SetJobTyped, DecisionTyped, ExpectedTyped, ResultsTyped DEF Wake, RequestTypes,
    OwnerTypes, ForceTypes, PolicyTypes, OwnerBooks, Requests, Passing
<1>29. CASE UNCHANGED vars
  BY <1>29, ShutdownAssumption, SetJobTyped, DecisionTyped, ExpectedTyped, ResultsTyped DEF vars, RequestTypes,
    OwnerTypes, ForceTypes, PolicyTypes, OwnerBooks, Requests, Passing
<1> QED BY <1>1, <1>2, <1>3, <1>4, <1>5, <1>6, <1>7, <1>8, <1>9, <1>10, <1>11, <1>12, <1>13, <1>14, <1>15, <1>16, <1>17,
   <1>18, <1>19, <1>20, <1>21, <1>22, <1>23, <1>24, <1>25, <1>26, <1>27, <1>28, <1>29 DEF Next, OwnerStep, DeliveryStep,
   ForceStep, HolderStep

LEMMA IssueElsewhere ==
  ASSUME RequestTypes, [Next]_vars, ~Request, ~AskClose, ~Register
  PROVE  SameIssue
<1>1. CASE Begin \/ OwnerForced \/ Admit \/ OwnerCalledBack \/ CommitStop \/ Quiesce \/ Close \/
           RejectRequest
  BY <1>1 DEF Begin, OwnerForced, Admit, OwnerCalledBack, CommitStop, Quiesce, Close, RejectRequest, RequestTypes,
    SameIssue, Slots
<1>2. CASE OwnerSleeps \/ NativeClose \/ Process \/ ForceClose \/ EndSession \/ FailSession \/
           ForceElsewhere \/ StopSource
  BY <1>2 DEF OwnerSleeps, NativeClose, Process, ForceBegins, ForceClose, EndSession, FailSession, ForceElsewhere,
    StopSource, RequestTypes, SameIssue, Slots
<1>3. CASE Install \/ Reset \/ AwaitIdle BY <1>3 DEF Install, Reset, AwaitIdle, RequestTypes, SameIssue, Slots
<1>4. CASE Detach BY <1>4 DEF Detach, Withdraw, RequestTypes, SameIssue, Slots
<1>5. CASE Disconnect BY <1>5 DEF Disconnect, RequestTypes, SameIssue, Slots
<1>6. CASE FinishRejected BY <1>6 DEF FinishRejected, Finish, RequestTypes, SameIssue, Slots
<1>7. CASE NotifyPolicy BY <1>7 DEF NotifyPolicy, SetJob, RequestTypes, SameIssue, Slots
<1>8. CASE Conclude BY <1>8 DEF Conclude, RequestTypes, SameIssue, Slots
<1>9. CASE Settle BY <1>9 DEF Settle, Finish, RequestTypes, SameIssue, Slots
<1>10. CASE FinishClosed BY <1>10 DEF FinishClosed, Finish, RequestTypes, SameIssue, Slots
<1>11. ASSUME NEW r \in Requests, Decide(r) PROVE SameIssue BY <1>11 DEF Decide, Current, RequestTypes, SameIssue, Slots
<1>12. ASSUME NEW r \in Requests, EnterListener(r) PROVE SameIssue
  BY <1>12 DEF EnterListener, SetJob, RequestTypes, SameIssue, Slots
<1>13. ASSUME NEW r \in Requests, Invoke(r) PROVE SameIssue BY <1>13 DEF Invoke, SetJob, RequestTypes, SameIssue, Slots
<1>14. ASSUME NEW r \in Requests, CallbackEnds(r) PROVE SameIssue
  BY <1>14 DEF CallbackEnds, SetJob, RequestTypes, SameIssue, Slots
<1>15. ASSUME NEW r \in Requests, ReportFailure(r) PROVE SameIssue
  BY <1>15 DEF ReportFailure, FailedDecision, Current, RequestTypes, SameIssue, Slots
<1>16. ASSUME NEW r \in Requests, Drop(r) PROVE SameIssue
  BY <1>16 DEF Drop, SetJob, DropDelivery, RequestTypes, SameIssue, Slots
<1>17. ASSUME NEW t \in Forcers, ForceInvalidates(t) \/ ForceStops(t) PROVE SameIssue
  BY <1>17 DEF ForceInvalidates, ForceStops, RequestTypes, SameIssue, Slots
<1>18. ASSUME NEW t \in Forcers, ForceSupersedes(t) PROVE SameIssue
  BY <1>18 DEF ForceSupersedes, Finish, RequestTypes, SameIssue, Slots
<1>19. ASSUME NEW t \in Pingers, Wake(t) PROVE SameIssue BY <1>19 DEF Wake, RequestTypes, SameIssue, Slots
<1>20. CASE UNCHANGED vars BY <1>20 DEF vars, RequestTypes, SameIssue, Slots
<1> QED BY <1>1, <1>2, <1>3, <1>4, <1>5, <1>6, <1>7, <1>8, <1>9, <1>10, <1>11, <1>12, <1>13, <1>14, <1>15, <1>16, <1>17,
   <1>18, <1>19, <1>20 DEF Next, OwnerStep, DeliveryStep, ForceStep, HolderStep

LEMMA DecisionsElsewhere ==
  ASSUME RequestTypes, [Next]_vars, ~Detach, ~Conclude, \A r \in Requests : ~Decide(r) /\
         ~ReportFailure(r)
  PROVE  SameDecisions
<1>1. CASE Begin \/ OwnerForced \/ Admit \/ OwnerCalledBack \/ CommitStop \/ Quiesce \/ Close \/
           RejectRequest
  BY <1>1 DEF Begin, OwnerForced, Admit, OwnerCalledBack, CommitStop, Quiesce, Close, RejectRequest, RequestTypes,
    SameDecisions, Slots
<1>2. CASE OwnerSleeps \/ NativeClose \/ Process \/ ForceClose \/ EndSession \/ FailSession \/
           ForceElsewhere \/ StopSource
  BY <1>2 DEF OwnerSleeps, NativeClose, Process, ForceBegins, ForceClose, EndSession, FailSession, ForceElsewhere,
    StopSource, RequestTypes, SameDecisions, Slots
<1>3. CASE Install \/ Reset \/ AwaitIdle BY <1>3 DEF Install, Reset, AwaitIdle, RequestTypes, SameDecisions, Slots
<1>4. CASE Request BY <1>4 DEF Request, RequestTypes, SameDecisions, Slots
<1>5. CASE AskClose BY <1>5 DEF AskClose, RequestTypes, SameDecisions, Slots
<1>6. CASE Disconnect BY <1>6 DEF Disconnect, RequestTypes, SameDecisions, Slots
<1>7. CASE Register BY <1>7 DEF Register, RequestTypes, SameDecisions, Slots
<1>8. CASE FinishRejected BY <1>8 DEF FinishRejected, Finish, RequestTypes, SameDecisions, Slots
<1>9. CASE NotifyPolicy BY <1>9 DEF NotifyPolicy, SetJob, RequestTypes, SameDecisions, Slots
<1>10. CASE Settle BY <1>10 DEF Settle, Finish, RequestTypes, SameDecisions, Slots
<1>11. CASE FinishClosed BY <1>11 DEF FinishClosed, Finish, RequestTypes, SameDecisions, Slots
<1>12. ASSUME NEW r \in Requests, EnterListener(r) PROVE SameDecisions
  BY <1>12 DEF EnterListener, SetJob, RequestTypes, SameDecisions, Slots
<1>13. ASSUME NEW r \in Requests, Invoke(r) PROVE SameDecisions
  BY <1>13 DEF Invoke, SetJob, RequestTypes, SameDecisions, Slots
<1>14. ASSUME NEW r \in Requests, CallbackEnds(r) PROVE SameDecisions
  BY <1>14 DEF CallbackEnds, SetJob, RequestTypes, SameDecisions, Slots
<1>15. ASSUME NEW r \in Requests, Drop(r) PROVE SameDecisions
  BY <1>15 DEF Drop, SetJob, DropDelivery, RequestTypes, SameDecisions, Slots
<1>16. ASSUME NEW t \in Forcers, ForceInvalidates(t) \/ ForceStops(t) PROVE SameDecisions
  BY <1>16 DEF ForceInvalidates, ForceStops, RequestTypes, SameDecisions, Slots
<1>17. ASSUME NEW t \in Forcers, ForceSupersedes(t) PROVE SameDecisions
  BY <1>17 DEF ForceSupersedes, Finish, RequestTypes, SameDecisions, Slots
<1>18. ASSUME NEW t \in Pingers, Wake(t) PROVE SameDecisions BY <1>18 DEF Wake, RequestTypes, SameDecisions, Slots
<1>19. CASE UNCHANGED vars BY <1>19 DEF vars, RequestTypes, SameDecisions, Slots
<1> QED BY <1>1, <1>2, <1>3, <1>4, <1>5, <1>6, <1>7, <1>8, <1>9, <1>10, <1>11, <1>12, <1>13, <1>14, <1>15, <1>16, <1>17,
   <1>18, <1>19 DEF Next, OwnerStep, DeliveryStep, ForceStep, HolderStep

LEMMA JobsElsewhere ==
  ASSUME RequestTypes, [Next]_vars, ~NotifyPolicy, \A r \in Requests : ~JobMoves(r)
  PROVE  SameJobs
<1>1. CASE Begin \/ OwnerForced \/ Admit \/ OwnerCalledBack \/ CommitStop \/ Quiesce \/ Close \/
           RejectRequest
  BY <1>1 DEF Begin, OwnerForced, Admit, OwnerCalledBack, CommitStop, Quiesce, Close, RejectRequest, RequestTypes,
    SameJobs, Slots
<1>2. CASE OwnerSleeps \/ NativeClose \/ Process \/ ForceClose \/ EndSession \/ FailSession \/
           ForceElsewhere \/ StopSource
  BY <1>2 DEF OwnerSleeps, NativeClose, Process, ForceBegins, ForceClose, EndSession, FailSession, ForceElsewhere,
    StopSource, RequestTypes, SameJobs, Slots
<1>3. CASE Install \/ Reset \/ AwaitIdle BY <1>3 DEF Install, Reset, AwaitIdle, RequestTypes, SameJobs, Slots
<1>4. CASE Request BY <1>4 DEF Request, RequestTypes, SameJobs, Slots
<1>5. CASE AskClose BY <1>5 DEF AskClose, RequestTypes, SameJobs, Slots
<1>6. CASE Detach BY <1>6 DEF Detach, Withdraw, RequestTypes, SameJobs, Slots
<1>7. CASE Disconnect BY <1>7 DEF Disconnect, RequestTypes, SameJobs, Slots
<1>8. CASE Register BY <1>8 DEF Register, RequestTypes, SameJobs, Slots
<1>9. CASE FinishRejected BY <1>9 DEF FinishRejected, Finish, RequestTypes, SameJobs, Slots
<1>10. CASE Conclude BY <1>10 DEF Conclude, RequestTypes, SameJobs, Slots
<1>11. CASE Settle BY <1>11 DEF Settle, Finish, RequestTypes, SameJobs, Slots
<1>12. CASE FinishClosed BY <1>12 DEF FinishClosed, Finish, RequestTypes, SameJobs, Slots
<1>13. ASSUME NEW r \in Requests, Decide(r) PROVE SameJobs BY <1>13 DEF Decide, Current, RequestTypes, SameJobs, Slots
<1>14. ASSUME NEW t \in Forcers, ForceInvalidates(t) \/ ForceStops(t) PROVE SameJobs
  BY <1>14 DEF ForceInvalidates, ForceStops, RequestTypes, SameJobs, Slots
<1>15. ASSUME NEW t \in Forcers, ForceSupersedes(t) PROVE SameJobs
  BY <1>15 DEF ForceSupersedes, Finish, RequestTypes, SameJobs, Slots
<1>16. ASSUME NEW t \in Pingers, Wake(t) PROVE SameJobs BY <1>16 DEF Wake, RequestTypes, SameJobs, Slots
<1>17. CASE UNCHANGED vars BY <1>17 DEF vars, RequestTypes, SameJobs, Slots
<1> QED BY <1>1, <1>2, <1>3, <1>4, <1>5, <1>6, <1>7, <1>8, <1>9, <1>10, <1>11, <1>12, <1>13, <1>14, <1>15, <1>16, <1>17
   DEF Next, JobMoves, OwnerStep, DeliveryStep, ForceStep, HolderStep

LEMMA OwnerTypesStep ==
  ASSUME RequestTypes, PolicyTypes, OwnerTypes, OwnerBooks, [Next]_vars
  PROVE  OwnerTypes'
<1>1. CASE Begin \/ OwnerForced \/ Admit \/ OwnerCalledBack \/ CommitStop \/ Quiesce
  BY <1>1, ShutdownAssumption DEF Begin, OwnerForced, Admit, OwnerCalledBack, CommitStop, Quiesce, RequestTypes,
    PolicyTypes, OwnerTypes, OwnerBooks, OwnerStates
<1>2. CASE OwnerSleeps \/ NativeClose \/ ForceElsewhere \/ StopSource \/ Install \/ Reset
  BY <1>2, ShutdownAssumption DEF OwnerSleeps, NativeClose, ForceElsewhere, ForceBegins, StopSource, Install, Reset,
    RequestTypes, PolicyTypes, OwnerTypes, OwnerBooks, OwnerStates
<1>3. CASE AwaitIdle \/ Request \/ AskClose \/ Detach \/ Disconnect \/ FinishRejected
  BY <1>3, ShutdownAssumption DEF AwaitIdle, Request, AskClose, Detach, Withdraw, Disconnect, FinishRejected, Finish,
    EndPass, RequestTypes, PolicyTypes, OwnerTypes, OwnerBooks, OwnerStates
<1>4. CASE Settle \/ FinishClosed
  BY <1>4, ShutdownAssumption DEF Settle, Finish, EndPass, FinishClosed, RequestTypes, PolicyTypes, OwnerTypes,
    OwnerBooks, OwnerStates
<1>5. CASE Close BY <1>5, ShutdownAssumption DEF Close, RequestTypes, PolicyTypes, OwnerTypes, OwnerBooks, OwnerStates
<1>6. CASE RejectRequest
  BY <1>6, ShutdownAssumption DEF RejectRequest, GoOn, EndPass, RequestTypes, PolicyTypes, OwnerTypes, OwnerBooks,
    OwnerStates
<1>7. CASE Process
  BY <1>7, ShutdownAssumption DEF Process, ForceBegins, RequestTypes, PolicyTypes, OwnerTypes, OwnerBooks, OwnerStates
<1>8. CASE ForceClose
  BY <1>8, ShutdownAssumption DEF ForceClose, ForceBegins, RequestTypes, PolicyTypes, OwnerTypes, OwnerBooks,
    OwnerStates
<1>9. CASE EndSession
  BY <1>9, ShutdownAssumption DEF EndSession, ForceBegins, RequestTypes, PolicyTypes, OwnerTypes, OwnerBooks,
    OwnerStates
<1>10. CASE FailSession
  BY <1>10, ShutdownAssumption DEF FailSession, ForceBegins, RequestTypes, PolicyTypes, OwnerTypes, OwnerBooks,
    OwnerStates
<1>11. CASE Register
  BY <1>11, ShutdownAssumption DEF Register, GoOn, EndPass, RequestTypes, PolicyTypes, OwnerTypes, OwnerBooks,
    OwnerStates
<1>12. CASE NotifyPolicy
  BY <1>12, ShutdownAssumption DEF NotifyPolicy, SetJob, RequestTypes, PolicyTypes, OwnerTypes, OwnerBooks, OwnerStates
<1>13. CASE Conclude
  BY <1>13, ShutdownAssumption DEF Conclude, GoOn, EndPass, RequestTypes, PolicyTypes, OwnerTypes, OwnerBooks,
    OwnerStates
<1>14. ASSUME NEW r \in Requests, Decide(r) \/ EnterListener(r) \/ Invoke(r) \/ CallbackEnds(r) \/
            ReportFailure(r) \/ Drop(r)
      PROVE  OwnerTypes'
  BY <1>14, ShutdownAssumption DEF Decide, Current, EnterListener, SetJob, Invoke, CallbackEnds, ReportFailure,
    FailedDecision, Drop, DropDelivery, RequestTypes, PolicyTypes, OwnerTypes, OwnerBooks, OwnerStates
<1>15. ASSUME NEW t \in Forcers, ForceInvalidates(t) \/ ForceSupersedes(t) \/ ForceStops(t) PROVE OwnerTypes'
  BY <1>15, ShutdownAssumption DEF ForceInvalidates, ForceSupersedes, Finish, ForceStops, RequestTypes, PolicyTypes,
    OwnerTypes, OwnerBooks, OwnerStates
<1>16. ASSUME NEW t \in Pingers, Wake(t) PROVE OwnerTypes'
  BY <1>16, ShutdownAssumption DEF Wake, RequestTypes, PolicyTypes, OwnerTypes, OwnerBooks, OwnerStates
<1>17. CASE UNCHANGED vars
  BY <1>17, ShutdownAssumption DEF vars, RequestTypes, PolicyTypes, OwnerTypes, OwnerBooks, OwnerStates
<1> QED BY <1>1, <1>2, <1>3, <1>4, <1>5, <1>6, <1>7, <1>8, <1>9, <1>10, <1>11, <1>12, <1>13, <1>14, <1>15, <1>16, <1>17
   DEF Next, OwnerStep, DeliveryStep, ForceStep, HolderStep

LEMMA ForceTypesStep ==
  ASSUME RequestTypes, PolicyTypes, ForceTypes, [Next]_vars
  PROVE  ForceTypes'
<1>1. CASE Begin \/ OwnerForced \/ Admit \/ OwnerCalledBack \/ CommitStop \/ Quiesce \/ Close \/
           RejectRequest \/ OwnerSleeps
  BY <1>1, ShutdownAssumption DEF Begin, OwnerForced, Admit, OwnerCalledBack, CommitStop, Quiesce, Close, RejectRequest,
    OwnerSleeps, RequestTypes, PolicyTypes, ForceTypes, Forcers
<1>2. CASE NativeClose \/ StopSource \/ Install \/ Reset \/ AwaitIdle \/ Request \/ AskClose \/
           Detach \/ Disconnect
  BY <1>2, ShutdownAssumption DEF NativeClose, StopSource, Install, Reset, AwaitIdle, Request, AskClose, Detach,
    Withdraw, Disconnect, RequestTypes, PolicyTypes, ForceTypes, Forcers
<1>3. CASE Register \/ FinishRejected \/ NotifyPolicy \/ Conclude \/ Settle \/ FinishClosed
  BY <1>3, ShutdownAssumption DEF Register, FinishRejected, Finish, NotifyPolicy, SetJob, Conclude, Settle,
    FinishClosed, RequestTypes, PolicyTypes, ForceTypes, Forcers
<1>4. CASE Process BY <1>4, ShutdownAssumption DEF Process, ForceBegins, RequestTypes, PolicyTypes, ForceTypes, Forcers
<1>5. CASE ForceClose
  BY <1>5, ShutdownAssumption DEF ForceClose, ForceBegins, RequestTypes, PolicyTypes, ForceTypes, Forcers
<1>6. CASE EndSession
  BY <1>6, ShutdownAssumption DEF EndSession, ForceBegins, RequestTypes, PolicyTypes, ForceTypes, Forcers
<1>7. CASE FailSession
  BY <1>7, ShutdownAssumption DEF FailSession, ForceBegins, RequestTypes, PolicyTypes, ForceTypes, Forcers
<1>8. CASE ForceElsewhere
  BY <1>8, ShutdownAssumption DEF ForceElsewhere, ForceBegins, RequestTypes, PolicyTypes, ForceTypes, Forcers
<1>9. ASSUME NEW r \in Requests, Decide(r) \/ EnterListener(r) \/ Invoke(r) \/ CallbackEnds(r) \/
            ReportFailure(r) \/ Drop(r)
      PROVE  ForceTypes'
  BY <1>9, ShutdownAssumption DEF Decide, Current, EnterListener, SetJob, Invoke, CallbackEnds, ReportFailure,
    FailedDecision, Drop, DropDelivery, RequestTypes, PolicyTypes, ForceTypes, Forcers
<1>10. ASSUME NEW t \in Forcers, ForceInvalidates(t) PROVE ForceTypes'
  BY <1>10, ShutdownAssumption DEF ForceInvalidates, RequestTypes, PolicyTypes, ForceTypes, Forcers
<1>11. ASSUME NEW t \in Forcers, ForceSupersedes(t) PROVE ForceTypes'
  BY <1>11, ShutdownAssumption DEF ForceSupersedes, Finish, RequestTypes, PolicyTypes, ForceTypes, Forcers
<1>12. ASSUME NEW t \in Forcers, ForceStops(t) PROVE ForceTypes'
  BY <1>12, ShutdownAssumption DEF ForceStops, RequestTypes, PolicyTypes, ForceTypes, Forcers
<1>13. ASSUME NEW t \in Pingers, Wake(t) PROVE ForceTypes'
  BY <1>13, ShutdownAssumption DEF Wake, RequestTypes, PolicyTypes, ForceTypes, Forcers
<1>14. CASE UNCHANGED vars BY <1>14, ShutdownAssumption DEF vars, RequestTypes, PolicyTypes, ForceTypes, Forcers
<1> QED BY <1>1, <1>2, <1>3, <1>4, <1>5, <1>6, <1>7, <1>8, <1>9, <1>10, <1>11, <1>12, <1>13, <1>14 DEF Next, OwnerStep,
   DeliveryStep, ForceStep, HolderStep

LEMMA StateTypesStep ==
  ASSUME RequestTypes, StateTypes, OwnerTypes, OwnerBooks, [Next]_vars
  PROVE  StateTypes'
<1>1. CASE OwnerForced \/ Admit
  BY <1>1, ShutdownAssumption DEF OwnerForced, Admit, StateTypes, Pingers, Forcers, Requests
<1>2. CASE OwnerCalledBack \/ RejectRequest
  BY <1>2, ShutdownAssumption DEF OwnerCalledBack, RejectRequest, StateTypes, Pingers, Forcers, Requests
<1>3. CASE OwnerSleeps \/ NativeClose
  BY <1>3, ShutdownAssumption DEF OwnerSleeps, NativeClose, StateTypes, Pingers, Forcers, Requests
<1>4. CASE StopSource \/ Install
  BY <1>4, ShutdownAssumption DEF StopSource, Ping, Install, StateTypes, Pingers, Forcers, Requests
<1>5. CASE Reset \/ AwaitIdle BY <1>5, ShutdownAssumption DEF Reset, AwaitIdle, StateTypes, Pingers, Forcers, Requests
<1>6. CASE AskClose \/ Register
  BY <1>6, ShutdownAssumption DEF AskClose, Register, StateTypes, Pingers, Forcers, Requests
<1>7. CASE FinishRejected \/ NotifyPolicy
  BY <1>7, ShutdownAssumption DEF FinishRejected, Finish, NotifyPolicy, SetJob, StateTypes, Pingers, Forcers, Requests
<1>8. CASE Settle \/ FinishClosed
  BY <1>8, ShutdownAssumption DEF Settle, Finish, FinishClosed, StateTypes, Pingers, Forcers, Requests
<1>9. CASE Begin BY <1>9, ShutdownAssumption DEF Begin, StateTypes, Pingers, Forcers, Requests
<1>10. CASE CommitStop BY <1>10, ShutdownAssumption DEF CommitStop, StateTypes, Pingers, Forcers, Requests
<1>11. CASE Quiesce BY <1>11, ShutdownAssumption DEF Quiesce, StateTypes, Pingers, Forcers, Requests
<1>12. CASE Close BY <1>12, ShutdownAssumption DEF Close, StateTypes, Pingers, Forcers, Requests
<1>13. CASE Process BY <1>13, ShutdownAssumption DEF Process, ForceBegins, StateTypes, Pingers, Forcers, Requests
<1>14. CASE ForceClose BY <1>14, ShutdownAssumption DEF ForceClose, ForceBegins, StateTypes, Pingers, Forcers, Requests
<1>15. CASE EndSession BY <1>15, ShutdownAssumption DEF EndSession, ForceBegins, StateTypes, Pingers, Forcers, Requests
<1>16. CASE FailSession
  BY <1>16, ShutdownAssumption DEF FailSession, ForceBegins, StateTypes, Pingers, Forcers, Requests
<1>17. CASE ForceElsewhere
  BY <1>17, ShutdownAssumption DEF ForceElsewhere, ForceBegins, StateTypes, Pingers, Forcers, Requests
<1>18. CASE Request BY <1>18, ShutdownAssumption DEF Request, Ping, StateTypes, Pingers, Forcers, Requests
<1>19. CASE Detach
  BY <1>19, ShutdownAssumption DEF Detach, Withdraw, StateTypes, Pingers, Forcers, Requests, RequestTypes, UnderPolicy
<1>20. CASE Disconnect BY <1>20, ShutdownAssumption DEF Disconnect, Ping, StateTypes, Pingers, Forcers, Requests
<1>21. CASE Conclude BY <1>21, ShutdownAssumption DEF Conclude, StateTypes, Pingers, Forcers, Requests
<1>22. ASSUME NEW r \in Requests, EnterListener(r) \/ Invoke(r) PROVE StateTypes'
  BY <1>22, ShutdownAssumption DEF EnterListener, SetJob, Invoke, StateTypes, Pingers, Forcers, Requests
<1>23. ASSUME NEW r \in Requests, CallbackEnds(r) \/ ReportFailure(r) PROVE StateTypes'
  BY <1>23, ShutdownAssumption DEF CallbackEnds, SetJob, ReportFailure, FailedDecision, Current, Ping, StateTypes,
    Pingers, Forcers, Requests
<1>24. ASSUME NEW r \in Requests, Drop(r) PROVE StateTypes'
  BY <1>24, ShutdownAssumption DEF Drop, SetJob, DropDelivery, StateTypes, Pingers, Forcers, Requests
<1>25. ASSUME NEW r \in Requests, Decide(r) PROVE StateTypes'
  BY <1>25, ShutdownAssumption DEF Decide, Current, Ping, StateTypes, Pingers, Forcers, Requests
<1>26. ASSUME NEW t \in Forcers, ForceInvalidates(t) \/ ForceSupersedes(t) PROVE StateTypes'
  BY <1>26, ShutdownAssumption DEF ForceInvalidates, ForceSupersedes, Finish, StateTypes, Pingers, Forcers, Requests
<1>27. ASSUME NEW t \in Forcers, ForceStops(t) PROVE StateTypes'
  BY <1>27, ShutdownAssumption DEF ForceStops, Ping, StateTypes, Pingers, Forcers, Requests
<1>28. ASSUME NEW t \in Pingers, Wake(t) PROVE StateTypes'
  BY <1>28, ShutdownAssumption DEF Wake, StateTypes, Pingers, Forcers, Requests
<1>29. CASE UNCHANGED vars BY <1>29, ShutdownAssumption DEF vars, StateTypes, Pingers, Forcers, Requests
<1> QED BY <1>1, <1>2, <1>3, <1>4, <1>5, <1>6, <1>7, <1>8, <1>9, <1>10, <1>11, <1>12, <1>13, <1>14, <1>15, <1>16, <1>17,
   <1>18, <1>19, <1>20, <1>21, <1>22, <1>23, <1>24, <1>25, <1>26, <1>27, <1>28, <1>29 DEF Next, OwnerStep, DeliveryStep,
   ForceStep, HolderStep

LEMMA PolicyTypesStep ==
  ASSUME RequestTypes, PolicyTypes, OwnerTypes, ForceTypes, [Next]_vars
  PROVE  PolicyTypes'
<1>1. CASE Begin \/ OwnerForced \/ Admit \/ OwnerCalledBack \/ Quiesce \/ RejectRequest \/
           OwnerSleeps \/ NativeClose
  BY <1>1, ShutdownAssumption DEF Begin, OwnerForced, Admit, OwnerCalledBack, Quiesce, RejectRequest, OwnerSleeps,
    NativeClose, PolicyTypes, Generations
<1>2. CASE StopSource \/ AwaitIdle \/ Request \/ AskClose \/ Disconnect \/ Register \/
           FinishRejected \/ NotifyPolicy
  BY <1>2, ShutdownAssumption DEF StopSource, AwaitIdle, Request, AskClose, Disconnect, Register, FinishRejected,
    Finish, NotifyPolicy, SetJob, PolicyTypes, Generations
<1>3. CASE Conclude \/ Settle BY <1>3, ShutdownAssumption DEF Conclude, Settle, Finish, PolicyTypes, Generations
<1>4. CASE CommitStop BY <1>4, ShutdownAssumption DEF CommitStop, PolicyTypes, Generations
<1>5. CASE Close BY <1>5, ShutdownAssumption DEF Close, PolicyTypes, Generations
<1>6. CASE Process BY <1>6, ShutdownAssumption DEF Process, ForceBegins, PolicyTypes, Generations
<1>7. CASE ForceClose BY <1>7, ShutdownAssumption DEF ForceClose, ForceBegins, PolicyTypes, Generations
<1>8. CASE EndSession BY <1>8, ShutdownAssumption DEF EndSession, ForceBegins, PolicyTypes, Generations
<1>9. CASE FailSession BY <1>9, ShutdownAssumption DEF FailSession, ForceBegins, PolicyTypes, Generations
<1>10. CASE ForceElsewhere BY <1>10, ShutdownAssumption DEF ForceElsewhere, ForceBegins, PolicyTypes, Generations
<1>11. CASE Install BY <1>11, ShutdownAssumption DEF Install, PolicyTypes, Generations
<1>12. CASE Reset BY <1>12, ShutdownAssumption DEF Reset, PolicyTypes, Generations
<1>13. CASE Detach BY <1>13, ShutdownAssumption DEF Detach, Withdraw, PolicyTypes, Generations
<1>14. CASE FinishClosed BY <1>14, ShutdownAssumption DEF FinishClosed, Finish, PolicyTypes, Generations
<1>15. ASSUME NEW r \in Requests, Decide(r) \/ EnterListener(r) \/ Invoke(r) \/ CallbackEnds(r) \/
            ReportFailure(r) \/ Drop(r)
      PROVE  PolicyTypes'
  BY <1>15, ShutdownAssumption DEF Decide, Current, EnterListener, SetJob, Invoke, CallbackEnds, ReportFailure,
    FailedDecision, Drop, DropDelivery, PolicyTypes, Generations
<1>16. ASSUME NEW t \in Forcers, ForceSupersedes(t) \/ ForceStops(t) PROVE PolicyTypes'
  BY <1>16, ShutdownAssumption DEF ForceSupersedes, Finish, ForceStops, PolicyTypes, Generations
<1>17. ASSUME NEW t \in Forcers, ForceInvalidates(t) PROVE PolicyTypes'
  BY <1>17, ShutdownAssumption DEF ForceInvalidates, PolicyTypes, Generations
<1>18. ASSUME NEW t \in Pingers, Wake(t) PROVE PolicyTypes'
  BY <1>18, ShutdownAssumption DEF Wake, PolicyTypes, Generations
<1>19. CASE UNCHANGED vars BY <1>19, ShutdownAssumption DEF vars, PolicyTypes, Generations
<1> QED BY <1>1, <1>2, <1>3, <1>4, <1>5, <1>6, <1>7, <1>8, <1>9, <1>10, <1>11, <1>12, <1>13, <1>14, <1>15, <1>16, <1>17,
   <1>18, <1>19 DEF Next, OwnerStep, DeliveryStep, ForceStep, HolderStep

LEMMA ForceTakesSlot ==
  ASSUME RequestTypes, ForceTypes, Hands, NEW t \in Forcers, NEW reason, ForceBegins(t, reason),
         UNCHANGED <<issued, result>>, \A r \in Requests : OwnerHolds(r)' => OwnerHolds(r)
  PROVE  Hands'
<1>1. \A u \in Forcers : forcePc'[u] = IF u = t THEN "invalidate" ELSE forcePc[u] BY DEF ForceBegins, ForceTypes
<1>2. /\ \A u \in Forcers \ {t} : retired'[u] = retired[u]
      /\ (retired'[t] = slot /\ slot' = 0) \/ (retired'[t] = 0 /\ slot' = slot)
 <2>1. CASE ~closed /\ ~Committed BY <2>1 DEF ForceBegins, ForceTypes
 <2>2. CASE ~(~closed /\ ~Committed) BY <2>2 DEF ForceBegins, ForceTypes
 <2> QED BY <2>1, <2>2
<1>3. \A r \in Requests : r # 0 BY ShutdownAssumption DEF Requests
<1>4. \A u \in Forcers, r \in Requests : ForceHolds(u, r)' =>
         (u # t /\ ForceHolds(u, r)) \/ (u = t /\ slot = r /\ slot' = 0)
 <2> TAKE u \in Forcers, r \in Requests
 <2>1. CASE u = t BY <2>1, <1>2, <1>3 DEF ForceHolds
 <2>2. CASE u # t BY <2>2, <1>1, <1>2 DEF ForceHolds
 <2> QED BY <2>1, <2>2
<1>5. ASSUME NEW r \in Requests PROVE InOneHand(r)'
 <2>1. InOneHand(r) /\ r # 0 /\ slot' \in {0, slot} BY <1>2, <1>3 DEF Hands
 <2> QED BY <2>1, <1>4 DEF InOneHand
<1> QED BY <1>5 DEF Hands

LEMMA HandsStep ==
  ASSUME RequestTypes, ForceTypes, OwnerTypes, Hands, RequestBooks, OwnerBooks, [Next]_vars
  PROVE  Hands'
<1>1. CASE Begin \/ OwnerForced \/ Admit \/ OwnerCalledBack \/ CommitStop
  BY <1>1, ShutdownAssumption DEF Begin, OwnerForced, Admit, OwnerCalledBack, CommitStop, RequestTypes, ForceTypes,
    OwnerTypes, Hands, InOneHand, OwnerHolds, ForceHolds, Forcers
<1>2. CASE Quiesce \/ OwnerSleeps \/ NativeClose \/ StopSource \/ Install
  BY <1>2, ShutdownAssumption DEF Quiesce, OwnerSleeps, NativeClose, StopSource, Install, RequestTypes, ForceTypes,
    OwnerTypes, Hands, InOneHand, OwnerHolds, ForceHolds, Forcers
<1>3. CASE Reset \/ AwaitIdle \/ Detach \/ NotifyPolicy
  BY <1>3, ShutdownAssumption DEF Reset, AwaitIdle, Detach, Withdraw, NotifyPolicy, SetJob, RequestTypes, ForceTypes,
    OwnerTypes, Hands, InOneHand, OwnerHolds, ForceHolds, Forcers
<1>4. CASE Close
 <2>9. \A r \in Requests : r # 0 BY ShutdownAssumption DEF Requests
 <2>1. UNCHANGED <<issued, result, forcePc, retired>> /\ slot' = 0 /\ selected' = slot /\ ownerPc' = "closing"
   BY <1>4 DEF Close
 <2>2. ASSUME NEW r \in Requests PROVE InOneHand(r)'
  <3>1. InOneHand(r) /\ r # 0 BY <2>9 DEF Hands
  <3> QED BY <2>1, <3>1 DEF InOneHand, OwnerHolds, ForceHolds
 <2> QED BY <2>2 DEF Hands
<1>5. CASE RejectRequest
 <2>9. \A r \in Requests : r # 0 BY ShutdownAssumption DEF Requests
 <2>1. /\ UNCHANGED <<issued, result, forcePc, retired>>
       /\ \/ slot = selected /\ slot' = 0 /\ ownerPc' = "rejecting" /\ selected' = selected
          \/ slot' = slot /\ ownerPc' = "idle"
   BY <1>5 DEF RejectRequest, GoOn, EndPass
 <2>2. ASSUME NEW r \in Requests PROVE InOneHand(r)'
  <3>1. InOneHand(r) /\ r # 0 BY <2>9 DEF Hands
  <3> QED BY <2>1, <3>1 DEF InOneHand, OwnerHolds, ForceHolds
 <2> QED BY <2>2 DEF Hands
<1>6. CASE Process
 <2>1. \A r \in Requests : OwnerHolds(r)' => OwnerHolds(r) BY <1>6 DEF Process, OwnerHolds
 <2>2. CASE ForceBegins("owner", "StopRequested") BY <1>6, <2>1, <2>2, ForceTakesSlot DEF Process, Forcers
 <2>3. CASE ~ForceBegins("owner", "StopRequested")
  <3>1. UNCHANGED <<slot, issued, result, forcePc, retired>> BY <1>6, <2>3 DEF Process
  <3> QED BY <2>1, <3>1 DEF Hands, InOneHand, ForceHolds
 <2> QED BY <2>2, <2>3
<1>7. CASE ForceClose
 <2>1. \A r \in Requests : OwnerHolds(r)' => OwnerHolds(r) BY <1>7 DEF ForceClose, OwnerHolds
 <2> QED BY <1>7, <2>1, ForceTakesSlot DEF ForceClose, Forcers
<1>8. CASE EndSession
 <2>1. \A r \in Requests : OwnerHolds(r)' => OwnerHolds(r) BY <1>8 DEF EndSession, OwnerHolds
 <2> QED BY <1>8, <2>1, ForceTakesSlot DEF EndSession, Forcers
<1>9. CASE FailSession
 <2>1. \A r \in Requests : OwnerHolds(r)' => OwnerHolds(r) BY <1>9 DEF FailSession, OwnerHolds
 <2> QED BY <1>9, <2>1, ForceTakesSlot DEF FailSession, Forcers
<1>10. CASE ForceElsewhere
 <2>1. \A r \in Requests : OwnerHolds(r)' => OwnerHolds(r) BY <1>10 DEF ForceElsewhere, OwnerHolds
 <2> QED BY <1>10, <2>1, ForceTakesSlot DEF ForceElsewhere, Forcers
<1>11. CASE Request
 <2>9. \A r \in Requests : r # 0 BY ShutdownAssumption DEF Requests
 <2>1. /\ UNCHANGED <<result, forcePc, retired, selected>>
       /\ ownerPc' = ownerPc \/ (ownerPc = "closeAsked" /\ ownerPc' = "idle")
       /\ \/ slot = 0 /\ issued' = issued + 1 /\ slot' = issued + 1
          \/ UNCHANGED <<issued, slot>>
   BY <1>11 DEF Request, AskClose
 <2>2. ASSUME NEW r \in Requests PROVE InOneHand(r)'
  <3>1. InOneHand(r) /\ r # 0 BY <2>9 DEF Hands
  <3>2. OwnerHolds(r)' => OwnerHolds(r) BY <2>1 DEF OwnerHolds
  <3>3. OwnerHolds(r) => r <= issued BY <3>1 DEF OwnerHolds, OwnerBooks, Passing
  <3>4. r > issued => result[r] = NoResult BY DEF RequestBooks, BookOf
  <3>5. r \in Int /\ issued \in Int BY ShutdownAssumption DEF Requests, RequestTypes
  <3> QED BY <2>1, <3>1, <3>2, <3>3, <3>4, <3>5 DEF InOneHand, ForceHolds
 <2> QED BY <2>2 DEF Hands
<1>12. CASE AskClose
 <2>9. \A r \in Requests : r # 0 BY ShutdownAssumption DEF Requests
 <2>1. /\ UNCHANGED <<result, forcePc, retired, selected>>
       /\ ownerPc' = ownerPc \/ (ownerPc = "closeAsked" /\ ownerPc' = "idle")
       /\ \/ slot = 0 /\ issued' = issued + 1 /\ slot' = issued + 1
          \/ UNCHANGED <<issued, slot>>
   BY <1>12 DEF Request, AskClose
 <2>2. ASSUME NEW r \in Requests PROVE InOneHand(r)'
  <3>1. InOneHand(r) /\ r # 0 BY <2>9 DEF Hands
  <3>2. OwnerHolds(r)' => OwnerHolds(r) BY <2>1 DEF OwnerHolds
  <3>3. OwnerHolds(r) => r <= issued BY <3>1 DEF OwnerHolds, OwnerBooks, Passing
  <3>4. r > issued => result[r] = NoResult BY DEF RequestBooks, BookOf
  <3>5. r \in Int /\ issued \in Int BY ShutdownAssumption DEF Requests, RequestTypes
  <3> QED BY <2>1, <3>1, <3>2, <3>3, <3>4, <3>5 DEF InOneHand, ForceHolds
 <2> QED BY <2>2 DEF Hands
<1>13. CASE Disconnect
  BY <1>13, ShutdownAssumption DEF Disconnect, RequestTypes, ForceTypes, OwnerTypes, Hands, InOneHand, OwnerHolds,
    ForceHolds, Forcers
<1>14. CASE Register
  BY <1>14, ShutdownAssumption DEF Register, GoOn, EndPass, RequestTypes, ForceTypes, OwnerTypes, Hands, InOneHand,
    OwnerHolds, ForceHolds, Forcers
<1>15. CASE FinishRejected
  BY <1>15, ShutdownAssumption DEF FinishRejected, Finish, EndPass, RequestTypes, ForceTypes, OwnerTypes, Hands,
    InOneHand, OwnerHolds, ForceHolds, Forcers
<1>16. CASE Conclude
 <2>9. \A r \in Requests : r # 0 BY ShutdownAssumption DEF Requests
 <2>1. /\ UNCHANGED <<issued, result, forcePc, retired>>
       /\ \/ slot = selected /\ slot' = 0 /\ ownerPc' \in {"accept", "settle"} /\ selected' = selected
          \/ slot' = slot /\ ownerPc' = "idle"
   BY <1>16 DEF Conclude, GoOn, EndPass, StillPending
 <2>2. ASSUME NEW r \in Requests PROVE InOneHand(r)'
  <3>1. InOneHand(r) /\ r # 0 BY <2>9 DEF Hands
  <3> QED BY <2>1, <3>1 DEF InOneHand, OwnerHolds, ForceHolds
 <2> QED BY <2>2 DEF Hands
<1>17. CASE Settle
  BY <1>17, ShutdownAssumption DEF Settle, Finish, EndPass, RequestTypes, ForceTypes, OwnerTypes, Hands, InOneHand,
    OwnerHolds, ForceHolds, Forcers
<1>18. CASE FinishClosed
  BY <1>18, ShutdownAssumption DEF FinishClosed, Finish, RequestTypes, ForceTypes, OwnerTypes, Hands, InOneHand,
    OwnerHolds, ForceHolds, Forcers
<1>19. ASSUME NEW r \in Requests, Decide(r) \/ EnterListener(r) \/ Invoke(r) \/ CallbackEnds(r) \/
            ReportFailure(r)
      PROVE  Hands'
  BY <1>19, ShutdownAssumption DEF Decide, Current, EnterListener, SetJob, Invoke, CallbackEnds, ReportFailure,
    FailedDecision, RequestTypes, ForceTypes, OwnerTypes, Hands, InOneHand, OwnerHolds, ForceHolds, Forcers
<1>20. ASSUME NEW r \in Requests, Drop(r) PROVE Hands'
  BY <1>20, ShutdownAssumption DEF Drop, SetJob, DropDelivery, RequestTypes, ForceTypes, OwnerTypes, Hands, InOneHand,
    OwnerHolds, ForceHolds, Forcers
<1>21. ASSUME NEW t \in Forcers, ForceInvalidates(t) PROVE Hands'
  BY <1>21, ShutdownAssumption DEF ForceInvalidates, RequestTypes, ForceTypes, OwnerTypes, Hands, InOneHand, OwnerHolds,
    ForceHolds, Forcers
<1>22. ASSUME NEW t \in Forcers, ForceSupersedes(t) PROVE Hands'
  BY <1>22, ShutdownAssumption DEF ForceSupersedes, Finish, RequestTypes, ForceTypes, OwnerTypes, Hands, InOneHand,
    OwnerHolds, ForceHolds, Forcers
<1>23. ASSUME NEW t \in Forcers, ForceStops(t) PROVE Hands'
  BY <1>23, ShutdownAssumption DEF ForceStops, RequestTypes, ForceTypes, OwnerTypes, Hands, InOneHand, OwnerHolds,
    ForceHolds, Forcers
<1>24. ASSUME NEW t \in Pingers, Wake(t) PROVE Hands'
  BY <1>24, ShutdownAssumption DEF Wake, RequestTypes, ForceTypes, OwnerTypes, Hands, InOneHand, OwnerHolds, ForceHolds,
    Forcers
<1>25. CASE UNCHANGED vars
  BY <1>25, ShutdownAssumption DEF vars, RequestTypes, ForceTypes, OwnerTypes, Hands, InOneHand, OwnerHolds, ForceHolds,
    Forcers
<1> QED BY <1>1, <1>2, <1>3, <1>4, <1>5, <1>6, <1>7, <1>8, <1>9, <1>10, <1>11, <1>12, <1>13, <1>14, <1>15, <1>16, <1>17,
   <1>18, <1>19, <1>20, <1>21, <1>22, <1>23, <1>24, <1>25 DEF Next, OwnerStep, DeliveryStep, ForceStep, HolderStep

--------------------
\* Results, and what is written into a request before there is one.

Settles(q) == ownerPc = "settle" /\ ownerPc' = "idle" /\ q = selected /\ req[q].decision.disposition = "Accepted"
InHand(q) == OwnerHolds(q) \/ \E t \in Forcers : ForceHolds(t, q)
ResultStands(q) == result'[q] # result[q] => InHand(q) /\ (Accepted(q)' => Settles(q))
ResultsStand == \A q \in Requests : ResultStands(q)

LEMMA ResultsStandStep ==
  ASSUME RequestTypes, OwnerTypes, ForceTypes, [Next]_vars
  PROVE  ResultsStand
<1>1. CASE Begin \/ OwnerForced \/ Admit \/ OwnerCalledBack \/ CommitStop \/ Quiesce \/ Close \/
           RejectRequest
  BY <1>1 DEF Begin, OwnerForced, Admit, OwnerCalledBack, CommitStop, Quiesce, Close, RejectRequest, ResultsStand,
    ResultStands
<1>2. CASE OwnerSleeps \/ NativeClose \/ Process \/ ForceClose \/ EndSession \/ FailSession \/
           ForceElsewhere \/ StopSource
  BY <1>2 DEF OwnerSleeps, NativeClose, Process, ForceBegins, ForceClose, EndSession, FailSession, ForceElsewhere,
    StopSource, ResultsStand, ResultStands
<1>3. CASE Install \/ Reset \/ AwaitIdle \/ Request \/ AskClose \/ Detach \/ Disconnect \/
           Register
  BY <1>3 DEF Install, Reset, AwaitIdle, Request, AskClose, Detach, Withdraw, Disconnect, Register, ResultsStand,
    ResultStands
<1>4. CASE NotifyPolicy \/ Conclude BY <1>4 DEF NotifyPolicy, SetJob, Conclude, ResultsStand, ResultStands
<1>5. CASE FinishRejected
  BY <1>5 DEF FinishRejected, Finish, ResultsStand, ResultStands, RequestTypes, ForceTypes, OwnerTypes, InHand,
    OwnerHolds, ForceHolds, Accepted, Settles
<1>6. CASE Settle
  BY <1>6 DEF Settle, Finish, EndPass, ResultsStand, ResultStands, RequestTypes, ForceTypes, OwnerTypes, InHand,
    OwnerHolds, ForceHolds, Accepted, Settles
<1>7. CASE FinishClosed
  BY <1>7 DEF FinishClosed, Finish, ResultsStand, ResultStands, RequestTypes, ForceTypes, OwnerTypes, InHand,
    OwnerHolds, ForceHolds, Accepted, Settles
<1>8. ASSUME NEW r \in Requests, Decide(r) \/ EnterListener(r) \/ Invoke(r) \/ CallbackEnds(r) \/
            ReportFailure(r) \/ Drop(r)
      PROVE  ResultsStand
  BY <1>8 DEF Decide, Current, EnterListener, SetJob, Invoke, CallbackEnds, ReportFailure, FailedDecision, Drop,
    DropDelivery, ResultsStand, ResultStands
<1>9. ASSUME NEW t \in Forcers, ForceInvalidates(t) \/ ForceStops(t) PROVE ResultsStand
  BY <1>9 DEF ForceInvalidates, ForceStops, ResultsStand, ResultStands
<1>10. ASSUME NEW t \in Forcers, ForceSupersedes(t) PROVE ResultsStand
  BY <1>10 DEF ForceSupersedes, Finish, ResultsStand, ResultStands, RequestTypes, ForceTypes, OwnerTypes, InHand,
    OwnerHolds, ForceHolds, Accepted, Settles
<1>11. ASSUME NEW t \in Pingers, Wake(t) PROVE ResultsStand BY <1>11 DEF Wake, ResultsStand, ResultStands
<1>12. CASE UNCHANGED vars BY <1>12 DEF vars, ResultsStand, ResultStands
<1> QED BY <1>1, <1>2, <1>3, <1>4, <1>5, <1>6, <1>7, <1>8, <1>9, <1>10, <1>11, <1>12 DEF Next, OwnerStep, DeliveryStep,
   ForceStep, HolderStep

LEMMA HistoryElsewhere ==
  ASSUME [Next]_vars, ~Request, ~AskClose, ~Detach, \A r \in Requests : ~Decide(r)
  PROVE  UNCHANGED <<issued, agreed, withdrawn>>
<1>1. CASE Begin \/ OwnerForced \/ Admit \/ OwnerCalledBack \/ CommitStop \/ Quiesce \/ Close \/
           RejectRequest
  BY <1>1 DEF Begin, OwnerForced, Admit, OwnerCalledBack, CommitStop, Quiesce, Close, RejectRequest
<1>2. CASE OwnerSleeps \/ NativeClose \/ Process \/ ForceClose \/ EndSession \/ FailSession \/
           ForceElsewhere \/ StopSource
  BY <1>2 DEF OwnerSleeps, NativeClose, Process, ForceBegins, ForceClose, EndSession, FailSession, ForceElsewhere,
    StopSource
<1>3. CASE Install \/ Reset \/ AwaitIdle \/ Disconnect \/ Register \/ FinishRejected \/
           NotifyPolicy \/ Conclude
  BY <1>3 DEF Install, Reset, AwaitIdle, Disconnect, Register, FinishRejected, Finish, NotifyPolicy, SetJob, Conclude
<1>4. CASE Settle \/ FinishClosed BY <1>4 DEF Settle, Finish, FinishClosed
<1>5. ASSUME NEW r \in Requests, EnterListener(r) \/ Invoke(r) \/ CallbackEnds(r) \/
            ReportFailure(r) \/ Drop(r)
      PROVE  UNCHANGED <<issued, agreed, withdrawn>>
  BY <1>5 DEF EnterListener, SetJob, Invoke, CallbackEnds, ReportFailure, FailedDecision, Current, Drop, DropDelivery
<1>6. ASSUME NEW t \in Forcers, ForceInvalidates(t) \/ ForceSupersedes(t) \/ ForceStops(t)
      PROVE  UNCHANGED <<issued, agreed, withdrawn>>
  BY <1>6 DEF ForceInvalidates, ForceSupersedes, Finish, ForceStops
<1>7. ASSUME NEW t \in Pingers, Wake(t) PROVE UNCHANGED <<issued, agreed, withdrawn>> BY <1>7 DEF Wake
<1>8. CASE UNCHANGED vars BY <1>8 DEF vars
<1> QED BY <1>1, <1>2, <1>3, <1>4, <1>5, <1>6, <1>7, <1>8 DEF Next, OwnerStep, DeliveryStep, ForceStep, HolderStep

LEMMA RequestBooksStep ==
  ASSUME RequestTypes, OwnerTypes, ForceTypes, PolicyTypes, StateTypes, Hands, RequestBooks,
         OwnerBooks, PendingIsAdmitted, [Next]_vars
  PROVE  RequestBooks'
<1> SUFFICES ASSUME NEW q \in Requests
             PROVE  BookOf(q)'
  BY DEF RequestBooks
<1>1. BookOf(q) /\ ResultStands(q) BY ResultsStandStep DEF RequestBooks, ResultsStand
<1>2. InHand(q) => q <= issued
 <2>1. OwnerHolds(q) => q <= issued
  <3>1. q # 0 BY ShutdownAssumption DEF Requests
  <3> QED BY <3>1 DEF OwnerHolds, OwnerBooks, Passing
 <2>2. \A t \in Forcers : ForceHolds(t, q) => q <= issued BY DEF Hands, InOneHand
 <2> QED BY <2>1, <2>2 DEF InHand
<1>3. Accepted(q)' => Accepted(q) \/ req[q].decision.disposition = "Accepted"
  BY <1>1 DEF ResultStands, Settles, Accepted
<1>4. q > issued => result'[q] = NoResult
  BY <1>1, <1>2, ShutdownAssumption DEF ResultStands, BookOf, Requests, RequestTypes
<1>5. /\ q \in Nat /\ issued \in Nat
      /\ NoResult.disposition = "none"
  BY ShutdownAssumption DEF Requests, RequestTypes, NoResult
<1>6. CASE Request \/ AskClose
 <2>1. SameDecisions /\ SameJobs BY <1>6 DEF Request, AskClose, SameDecisions, SameJobs, RequestTypes, Slots
 <2>2. /\ req'[q].admitted = req[q].admitted /\ req'[q].generation = req[q].generation
       /\ issued' = issued \/ issued' = issued + 1
       /\ q # issued' \/ issued' = issued => req'[q].expected = req[q].expected
       /\ UNCHANGED <<agreed, withdrawn>>
   BY <1>6 DEF Request, AskClose, RequestTypes, Slots
 <2> QED BY <1>1, <1>3, <1>4, <1>5, <2>1, <2>2 DEF BookOf, SameDecisions, SameJobs
<1>7. CASE Register
 <2>1. SameDecisions /\ SameJobs /\ UNCHANGED <<issued, agreed, withdrawn>>
  <3>1. \A p \in Requests : req'[p].decision = req[p].decision BY <1>7 DEF Register, RequestTypes, Slots
  <3>2. \A p \in Requests : req'[p].job = req[p].job BY <1>7 DEF Register, RequestTypes, Slots
  <3>3. UNCHANGED <<issued, agreed, withdrawn>> BY <1>7 DEF Register
  <3> QED BY <3>1, <3>2, <3>3 DEF SameDecisions, SameJobs
 <2>2. \/ /\ req'[q].admitted = req[q].admitted /\ req'[q].generation = req[q].generation
          /\ req'[q].expected = req[q].expected
       \/ /\ q = selected /\ req'[q].admitted /\ req'[q].generation = seen
          /\ req'[q].expected = req[q].expected
   BY <1>7 DEF Register, RequestTypes, Slots
 <2>3. q = selected => /\ q <= issued /\ ~req[q].admitted
                       /\ req[q].expected = 0 \/ req[q].expected = seen
   BY <1>7 DEF Register, OwnerBooks, Passing
 <2>4. q = selected => req[q].job = "none" /\ req[q].decision.disposition = "none" BY <1>1, <1>5, <2>3 DEF BookOf
 <2>5. q = selected => ~Accepted(q)' /\ q \notin withdrawn BY <1>1, <1>3, <2>4 DEF BookOf
 <2> QED BY <1>1, <1>3, <1>4, <1>5, <2>1, <2>2, <2>3, <2>4, <2>5 DEF BookOf, SameDecisions, SameJobs
<1>8. CASE Detach
 <2>1. SameIssue /\ SameJobs /\ UNCHANGED <<issued, agreed, result>>
   BY <1>8 DEF Detach, Withdraw, UnderPolicy, SameIssue, SameJobs, RequestTypes, Slots
 <2>2. \/ req'[q].decision = req[q].decision /\ (q \in withdrawn' <=> q \in withdrawn)
       \/ q = slot /\ req[q].admitted /\ req'[q].decision.disposition = "Cancelled"
   BY <1>8 DEF Detach, Withdraw, UnderPolicy, RequestTypes, Slots
 <2>3. q = slot => ~Accepted(q) BY <1>5 DEF Hands, InOneHand, Accepted
 <2> QED BY <1>1, <1>5, <2>1, <2>2, <2>3 DEF BookOf, SameIssue, SameJobs, Accepted
<1>9. CASE Conclude
 <2>1. SameIssue /\ SameJobs /\ UNCHANGED <<issued, agreed, withdrawn, result>>
   BY <1>9 DEF Conclude, SameIssue, SameJobs, RequestTypes, Slots
 <2>2. \/ req'[q].decision = req[q].decision
       \/ /\ q = slot /\ q = selected /\ status = "Pending" /\ req[q].decision = NoResult
          /\ req[q].generation = 0 /\ req'[q].decision.disposition = "Accepted"
   BY <1>9 DEF Conclude, StillPending, Decision, RequestTypes, Slots
 <2>3. q = slot /\ status = "Pending" => ~Accepted(q) /\ req[q].admitted
   BY <1>5 DEF Hands, InOneHand, Accepted, PendingIsAdmitted
 <2> QED BY <1>1, <1>5, <2>1, <2>2, <2>3 DEF BookOf, SameIssue, SameJobs, Accepted
<1>10. ASSUME NEW r \in Requests, Decide(r) PROVE BookOf(q)'
 <2>1. SameIssue /\ SameJobs /\ UNCHANGED <<issued, withdrawn, result>> /\ agreed \subseteq agreed'
   BY <1>10 DEF Decide, Current, SameIssue, SameJobs, RequestTypes, Slots
 <2>2. \/ req'[q].decision = req[q].decision
       \/ /\ q = slot /\ req[q].admitted /\ req[q].decision = NoResult
          /\ req'[q].decision.disposition = "Accepted" => q \in agreed'
          /\ req'[q].decision.disposition # "none"
   BY <1>10 DEF Decide, Current, RequestTypes, Slots
 <2>3. q = slot => ~Accepted(q) BY <1>5 DEF Hands, InOneHand, Accepted
 <2> QED BY <1>1, <1>5, <2>1, <2>2, <2>3 DEF BookOf, SameIssue, SameJobs, Accepted
<1>11. ASSUME NEW r \in Requests, ReportFailure(r) PROVE BookOf(q)'
 <2>1. SameIssue /\ UNCHANGED <<issued, agreed, withdrawn, result>>
   BY <1>11 DEF ReportFailure, SameIssue, RequestTypes, Slots
 <2>2. \/ req'[q].decision = req[q].decision
       \/ /\ q = slot /\ req[q].admitted /\ req[q].decision = NoResult
          /\ req'[q].decision.disposition = "Cancelled"
   BY <1>11 DEF ReportFailure, FailedDecision, Current, RequestTypes, Slots
 <2>3. req'[q].job # "none" => req[q].job # "none" BY <1>11 DEF ReportFailure, RequestTypes, Slots
 <2>4. q = slot => ~Accepted(q) BY <1>5 DEF Hands, InOneHand, Accepted
 <2> QED BY <1>1, <1>5, <2>1, <2>2, <2>3, <2>4 DEF BookOf, SameIssue, Accepted
<1>12. ASSUME NEW r \in Requests, EnterListener(r) \/ Invoke(r) \/ CallbackEnds(r) \/ Drop(r) PROVE BookOf(q)'
 <2>1. SameIssue /\ SameDecisions /\ UNCHANGED <<issued, agreed, withdrawn, result>>
   BY <1>12 DEF EnterListener, Invoke, CallbackEnds, Drop, DropDelivery, SetJob, SameIssue, SameDecisions, RequestTypes,
     Slots
 <2>2. req'[q].job # "none" => req[q].job # "none"
   BY <1>12 DEF EnterListener, Invoke, CallbackEnds, Drop, DropDelivery, SetJob, RequestTypes, Slots
 <2> QED BY <1>1, <2>1, <2>2 DEF BookOf, SameIssue, SameDecisions, Accepted
<1>13. CASE NotifyPolicy
 <2>1. SameIssue /\ SameDecisions /\ UNCHANGED <<issued, agreed, withdrawn, result>>
   BY <1>13 DEF NotifyPolicy, SetJob, SameIssue, SameDecisions, RequestTypes, Slots
 <2>2. req'[q].job = req[q].job \/ (q = selected /\ req[q].admitted /\ req[q].generation # 0)
   BY <1>13 DEF NotifyPolicy, SetJob, RequestTypes, Slots, OwnerBooks
 <2> QED BY <1>1, <2>1, <2>2 DEF BookOf, SameIssue, SameDecisions, Accepted
<1>14. CASE /\ ~Request /\ ~AskClose /\ ~Register /\ ~Detach /\ ~Conclude /\ ~NotifyPolicy
            /\ \A r \in Requests : ~Decide(r) /\ ~JobMoves(r)
 <2>1. SameIssue BY <1>14, IssueElsewhere
 <2>2. SameDecisions BY <1>14, DecisionsElsewhere DEF JobMoves
 <2>3. SameJobs /\ UNCHANGED <<issued, agreed, withdrawn>> BY <1>14, JobsElsewhere, HistoryElsewhere
 <2> QED BY <1>1, <1>3, <1>4, <2>1, <2>2, <2>3 DEF BookOf, SameIssue, SameDecisions, SameJobs
<1> QED BY <1>6, <1>7, <1>8, <1>9, <1>10, <1>11, <1>12, <1>13, <1>14 DEF JobMoves

--------------------
\* What the owner knows, the session's status and its cause.

OwnerMoves ==
  Begin \/ Process \/ OwnerForced \/ Admit \/ Register \/ RejectRequest \/
  FinishRejected \/ NotifyPolicy \/ OwnerCalledBack \/ Conclude \/ CommitStop \/ Settle
  \/ ForceClose \/ AskClose \/ Quiesce \/ Close \/ FinishClosed \/ NativeClose \/
  EndSession \/ FailSession

LEMMA OwnerElsewhere ==
  ASSUME [Next]_vars, ~OwnerMoves
  PROVE  UNCHANGED ownerVars
<1>1. CASE OwnerSleeps \/ ForceElsewhere \/ StopSource \/ Install \/ Reset \/ AwaitIdle \/ Request
           \/ Detach
  BY <1>1 DEF OwnerSleeps, ForceElsewhere, ForceBegins, StopSource, Install, Reset, AwaitIdle, Request, Detach, Withdraw
<1>2. CASE Disconnect BY <1>2 DEF Disconnect
<1>3. ASSUME NEW r \in Requests, Decide(r) \/ EnterListener(r) \/ Invoke(r) \/ CallbackEnds(r) \/
            ReportFailure(r) \/ Drop(r)
      PROVE  UNCHANGED ownerVars
  BY <1>3 DEF Decide, Current, EnterListener, SetJob, Invoke, CallbackEnds, ReportFailure, FailedDecision, Drop,
    DropDelivery
<1>4. ASSUME NEW t \in Forcers, ForceInvalidates(t) \/ ForceSupersedes(t) \/ ForceStops(t) PROVE UNCHANGED ownerVars
  BY <1>4 DEF ForceInvalidates, ForceSupersedes, Finish, ForceStops
<1>5. ASSUME NEW t \in Pingers, Wake(t) PROVE UNCHANGED ownerVars BY <1>5 DEF Wake
<1>6. CASE UNCHANGED vars BY <1>6 DEF vars
<1> QED BY <1>1, <1>2, <1>3, <1>4, <1>5, <1>6 DEF OwnerMoves, Next, OwnerStep, DeliveryStep, ForceStep, HolderStep

LEMMA IssuedGrows ==
  ASSUME RequestTypes, [Next]_vars
  PROVE  issued <= issued'
<1>1. CASE Begin \/ OwnerForced \/ Admit \/ OwnerCalledBack \/ CommitStop \/ Quiesce \/ Close \/
           RejectRequest \/ OwnerSleeps
  BY <1>1 DEF Begin, OwnerForced, Admit, OwnerCalledBack, CommitStop, Quiesce, Close, RejectRequest, GoOn, EndPass,
    OwnerSleeps, RequestTypes
<1>2. CASE NativeClose \/ Process \/ ForceClose \/ EndSession \/ FailSession \/ ForceElsewhere \/
           StopSource \/ Install \/ Reset
  BY <1>2 DEF NativeClose, Process, ForceBegins, ForceClose, EndSession, FailSession, ForceElsewhere, StopSource,
    Install, Reset, RequestTypes
<1>3. CASE AwaitIdle \/ Detach \/ Disconnect \/ Register \/ FinishRejected \/ NotifyPolicy \/
           Conclude \/ Settle \/ FinishClosed
  BY <1>3 DEF AwaitIdle, Detach, Withdraw, Disconnect, Register, GoOn, EndPass, FinishRejected, Finish, NotifyPolicy,
    SetJob, Conclude, Settle, FinishClosed, RequestTypes
<1>4. CASE Request BY <1>4 DEF Request, RequestTypes
<1>5. CASE AskClose BY <1>5 DEF AskClose, RequestTypes
<1>6. ASSUME NEW r \in Requests, Decide(r) \/ EnterListener(r) \/ Invoke(r) \/ CallbackEnds(r) \/
            ReportFailure(r) \/ Drop(r)
      PROVE  issued <= issued'
  BY <1>6 DEF Decide, Current, EnterListener, SetJob, Invoke, CallbackEnds, ReportFailure, FailedDecision, Drop,
    DropDelivery, RequestTypes
<1>7. ASSUME NEW t \in Forcers, ForceInvalidates(t) \/ ForceSupersedes(t) \/ ForceStops(t) PROVE issued <= issued'
  BY <1>7 DEF ForceInvalidates, ForceSupersedes, Finish, ForceStops, RequestTypes
<1>8. ASSUME NEW t \in Pingers, Wake(t) PROVE issued <= issued' BY <1>8 DEF Wake, RequestTypes
<1>9. CASE UNCHANGED vars BY <1>9 DEF vars, RequestTypes
<1> QED BY <1>1, <1>2, <1>3, <1>4, <1>5, <1>6, <1>7, <1>8, <1>9 DEF Next, OwnerStep, DeliveryStep, ForceStep, HolderStep

LEMMA CauseElsewhere ==
  ASSUME [Next]_vars, ~ForceElsewhere, UNCHANGED ownerVars
  PROVE  UNCHANGED <<cause, status>>
<1>1. CASE Begin \/ OwnerForced \/ Admit \/ OwnerCalledBack \/ CommitStop \/ RejectRequest \/
           OwnerSleeps \/ NativeClose \/ Process
  BY <1>1 DEF Begin, OwnerForced, Admit, OwnerCalledBack, CommitStop, RejectRequest, OwnerSleeps, NativeClose, Process,
    ForceBegins
<1>2. CASE ForceClose \/ EndSession \/ FailSession \/ StopSource \/ Install \/ Reset \/ AwaitIdle
           \/ Request \/ AskClose
  BY <1>2 DEF ForceClose, ForceBegins, EndSession, FailSession, StopSource, Install, Reset, AwaitIdle, Request, AskClose
<1>3. CASE Detach \/ Disconnect \/ FinishRejected \/ NotifyPolicy \/ Settle \/ FinishClosed
  BY <1>3 DEF Detach, Withdraw, Disconnect, FinishRejected, Finish, NotifyPolicy, SetJob, Settle, FinishClosed
<1>4. CASE Quiesce BY <1>4 DEF Quiesce
<1>5. CASE Close BY <1>5 DEF Close
<1>6. CASE Register BY <1>6 DEF Register, GoOn, EndPass
<1>7. CASE Conclude BY <1>7 DEF Conclude, GoOn, EndPass
<1>8. ASSUME NEW r \in Requests, Decide(r) \/ EnterListener(r) \/ Invoke(r) \/ CallbackEnds(r) \/
            ReportFailure(r) \/ Drop(r)
      PROVE  UNCHANGED <<cause, status>>
  BY <1>8 DEF Decide, Current, EnterListener, SetJob, Invoke, CallbackEnds, ReportFailure, FailedDecision, Drop,
    DropDelivery
<1>9. ASSUME NEW t \in Forcers, ForceInvalidates(t) \/ ForceSupersedes(t) \/ ForceStops(t)
      PROVE  UNCHANGED <<cause, status>>
  BY <1>9 DEF ForceInvalidates, ForceSupersedes, Finish, ForceStops
<1>10. ASSUME NEW t \in Pingers, Wake(t) PROVE UNCHANGED <<cause, status>> BY <1>10 DEF Wake
<1>11. CASE UNCHANGED vars BY <1>11 DEF vars
<1> QED BY <1>1, <1>2, <1>3, <1>4, <1>5, <1>6, <1>7, <1>8, <1>9, <1>10, <1>11 DEF Next, OwnerStep, DeliveryStep,
   ForceStep, HolderStep

LEMMA OwnerBooksStep ==
  ASSUME RequestTypes, OwnerTypes, ForceTypes, PolicyTypes, StateTypes, Hands, RequestBooks,
         OwnerBooks, PendingIsAdmitted, CauseIsTrue, [Next]_vars
  PROVE  OwnerBooks'
<1>1. ASSUME ownerPc \in Passing
      PROVE  selected \in Requests /\ BookOf(selected) /\ InOneHand(selected) /\ selected <= issued
 <2>1. selected # 0 /\ selected <= issued /\ selected \in 0..MaxRequests BY <1>1 DEF OwnerBooks, OwnerTypes
 <2>2. selected \in Requests BY <2>1, ShutdownAssumption DEF Requests
 <2> QED BY <2>1, <2>2 DEF RequestBooks, Hands
<1>2. ASSUME NEW r \in Requests, Accepted(r)', ownerPc # "settle" \/ ownerPc' # "idle" PROVE Accepted(r)
  BY <1>2, ResultsStandStep DEF ResultsStand, ResultStands, Settles, Accepted
<1>3. CASE UNCHANGED ownerVars
 <2>1. ~Register /\ ~Conclude /\ ~NotifyPolicy /\ ~AskClose
   BY <1>3 DEF Register, Conclude, NotifyPolicy, AskClose, GoOn, EndPass
 <2>2. issued <= issued' BY <2>1, IssuedGrows
 <2>3. ASSUME ownerPc \in Passing
       PROVE  /\ req'[selected].admitted = req[selected].admitted
              /\ req'[selected].generation = req[selected].generation
              /\ req'[selected].expected = req[selected].expected
  <3>1. CASE Request BY <1>1, <2>3, <3>1, ShutdownAssumption DEF Request, RequestTypes, Slots, Requests
  <3>2. CASE ~Request BY <1>1, <2>1, <2>3, <3>2, IssueElsewhere DEF SameIssue
  <3> QED BY <3>1, <3>2
 <2>4. ASSUME ownerPc \in {"accept", "settle"} PROVE req'[selected].decision = req[selected].decision
  <3>1. selected \in Requests /\ selected # slot BY <1>1, <2>4 DEF InOneHand, OwnerHolds, Passing
  <3>2. CASE Detach BY <3>1, <3>2 DEF Detach, UnderPolicy, Withdraw, RequestTypes, Slots
  <3>3. ASSUME NEW r \in Requests, Decide(r) \/ ReportFailure(r) PROVE req'[selected].decision = req[selected].decision
    BY <3>1, <3>3 DEF Decide, ReportFailure, FailedDecision, Current, RequestTypes, Slots
  <3>4. CASE ~Detach /\ \A r \in Requests : ~Decide(r) /\ ~ReportFailure(r)
    BY <2>1, <3>1, <3>4, DecisionsElsewhere DEF SameDecisions
  <3> QED BY <3>2, <3>3, <3>4
 <2>5. ASSUME ownerPc = "notify" PROVE req'[selected].job = "none"
  <3>1. selected \in Requests /\ req[selected].job = "none" BY <1>1, <2>5 DEF OwnerBooks, Passing
  <3>2. ASSUME NEW r \in Requests, JobMoves(r) PROVE req'[selected].job = "none"
    BY <3>1, <3>2 DEF JobMoves, EnterListener, Invoke, CallbackEnds, ReportFailure, Drop, DropDelivery, SetJob,
      RequestTypes, Slots
  <3>3. CASE \A r \in Requests : ~JobMoves(r) BY <2>1, <3>1, <3>3, JobsElsewhere DEF SameJobs
  <3> QED BY <3>2, <3>3
 <2>6. cause = "AcceptedRequest" => cause' = cause
  <3>1. CASE ForceElsewhere BY <3>1 DEF ForceElsewhere, ForceBegins, CauseIsTrue, Committed
  <3>2. CASE ~ForceElsewhere BY <1>3, <3>2, CauseElsewhere
  <3> QED BY <3>1, <3>2
 <2>7. \A r \in Requests : Accepted(r)' => Accepted(r) BY <1>2, <1>3
 <2>8. ownerPc' = ownerPc /\ selected' = selected /\ seen' = seen /\ after' = after BY <1>3
 <2>9. /\ selected \in Nat /\ issued \in Nat /\ issued' \in Nat
   BY RequestTypesStep, ShutdownAssumption DEF RequestTypes, OwnerTypes
 <2> QED BY <2>2, <2>3, <2>4, <2>5, <2>6, <2>7, <2>8, <2>9 DEF OwnerBooks, Passing
<1>4. CASE \/ Begin \/ OwnerForced \/ FinishRejected \/ Settle \/ ForceClose \/ EndSession
           \/ FailSession \/ AskClose \/ Quiesce \/ FinishClosed \/ NativeClose
  BY <1>4 DEF OwnerBooks, Passing, OwnerTypes, Begin, OwnerForced, FinishRejected, Settle, ForceClose, EndSession,
    FailSession, AskClose, Quiesce, FinishClosed, NativeClose, EndPass
<1>5. CASE Process
 <2>1. slot # 0 => slot <= issued /\ slot \in Requests
   BY ShutdownAssumption DEF RequestTypes, Requests, Hands, InOneHand
 <2> QED BY <1>5, <2>1 DEF Process, OwnerBooks, Passing
<1>6. CASE Admit \/ RejectRequest \/ OwnerCalledBack
  BY <1>6 DEF Admit, RejectRequest, OwnerCalledBack, OwnerBooks, Passing, AuthorityStands, GoOn, EndPass
<1>7. CASE Register
 <2>1. req[selected].job = "none" /\ selected \in Requests BY <1>1, <1>7 DEF Register, BookOf, OwnerBooks, Passing
 <2>2. CASE ownerPc' = "notify"
  <3>1. /\ req' = [req EXCEPT ![selected].admitted = TRUE, ![selected].generation = seen,
                               ![selected].registered = (seen # 0)]
        /\ seen # 0 /\ UNCHANGED <<selected, seen, issued>>
    BY <1>7, <2>2 DEF Register, GoOn, EndPass
  <3>2. req'[selected].admitted /\ req'[selected].generation = seen /\ req'[selected].job = "none"
    BY <2>1, <3>1 DEF RequestTypes, Slots
  <3> QED BY <1>7, <2>2, <3>1, <3>2 DEF Register, OwnerBooks, Passing
 <2>3. CASE ownerPc' # "notify" BY <1>7, <2>3 DEF Register, OwnerBooks, Passing, GoOn, EndPass
 <2> QED BY <2>2, <2>3
<1>8. CASE NotifyPolicy BY <1>8 DEF NotifyPolicy, OwnerBooks, Passing
<1>9. CASE Conclude
 <2>1. selected \in Requests /\ selected <= issued /\ selected # 0 BY <1>1, <1>9 DEF Conclude, Passing, OwnerBooks
 <2>2. CASE StillPending /\ Decision # NoResult
  <3>1. req'[selected].decision = Decision /\ UNCHANGED <<issued, result, selected>>
    BY <1>9, <2>1, <2>2 DEF Conclude, RequestTypes, Slots, GoOn
  <3>2. \A r \in Requests : ~Accepted(r)' BY <2>2, <3>1 DEF StillPending, CauseIsTrue, Accepted
  <3> QED BY <1>9, <2>1, <2>2, <3>1, <3>2 DEF Conclude, OwnerBooks, Passing, GoOn
 <2>3. CASE ~(StillPending /\ Decision # NoResult) BY <1>9, <2>3 DEF Conclude, OwnerBooks, Passing, EndPass
 <2> QED BY <2>2, <2>3
<1>10. CASE CommitStop BY <1>10 DEF CommitStop, OwnerBooks, Passing, Accepted
<1>11. CASE Close
 <2>1. slot # 0 => slot <= issued BY ShutdownAssumption DEF RequestTypes, Requests, Hands, InOneHand
 <2> QED BY <1>11, <2>1 DEF Close, OwnerBooks, Passing
<1> QED BY <1>3, <1>4, <1>5, <1>6, <1>7, <1>8, <1>9, <1>10, <1>11, OwnerElsewhere DEF OwnerMoves

StatusMoves ==
  Request \/ AskClose \/ Process \/ ForceClose \/ EndSession \/ FailSession \/
  ForceElsewhere \/ Register \/ RejectRequest \/ Conclude \/ Quiesce \/ Close

LEMMA StatusElsewhere ==
  ASSUME [Next]_vars, ~StatusMoves
  PROVE  UNCHANGED <<slot, status>>
<1>1. CASE Begin \/ OwnerForced \/ Admit \/ OwnerCalledBack \/ CommitStop \/ OwnerSleeps \/
           NativeClose \/ StopSource
  BY <1>1 DEF Begin, OwnerForced, Admit, OwnerCalledBack, CommitStop, OwnerSleeps, NativeClose, StopSource
<1>2. CASE Install \/ Reset \/ AwaitIdle \/ Detach \/ Disconnect \/ FinishRejected \/ NotifyPolicy
           \/ Settle
  BY <1>2 DEF Install, Reset, AwaitIdle, Detach, Withdraw, Disconnect, FinishRejected, Finish, NotifyPolicy, SetJob,
    Settle
<1>3. CASE FinishClosed BY <1>3 DEF FinishClosed, Finish
<1>4. ASSUME NEW r \in Requests, Decide(r) \/ EnterListener(r) \/ Invoke(r) \/ CallbackEnds(r) \/
            ReportFailure(r) \/ Drop(r)
      PROVE  UNCHANGED <<slot, status>>
  BY <1>4 DEF Decide, Current, EnterListener, SetJob, Invoke, CallbackEnds, ReportFailure, FailedDecision, Drop,
    DropDelivery
<1>5. ASSUME NEW t \in Forcers, ForceInvalidates(t) \/ ForceSupersedes(t) \/ ForceStops(t)
      PROVE  UNCHANGED <<slot, status>>
  BY <1>5 DEF ForceInvalidates, ForceSupersedes, Finish, ForceStops
<1>6. ASSUME NEW t \in Pingers, Wake(t) PROVE UNCHANGED <<slot, status>> BY <1>6 DEF Wake
<1>7. CASE UNCHANGED vars BY <1>7 DEF vars
<1> QED BY <1>1, <1>2, <1>3, <1>4, <1>5, <1>6, <1>7 DEF StatusMoves, Next, OwnerStep, DeliveryStep, ForceStep,
   HolderStep

CauseKept ==
  /\ cause # "None" => cause' = cause
  /\ cause' # "None" => Committed'

LEMMA CauseStands ==
  ASSUME CauseIsTrue, [Next]_vars
  PROVE  CauseKept
<1>1. CASE Begin \/ OwnerForced \/ Admit \/ OwnerCalledBack \/ CommitStop
  BY <1>1 DEF Begin, OwnerForced, Admit, OwnerCalledBack, CommitStop, CauseIsTrue, CauseKept, Committed
<1>2. CASE RejectRequest \/ OwnerSleeps \/ NativeClose \/ StopSource \/ Install
  BY <1>2 DEF RejectRequest, OwnerSleeps, NativeClose, StopSource, Install, CauseIsTrue, CauseKept, Committed
<1>3. CASE Reset \/ AwaitIdle \/ Request \/ AskClose \/ Detach
  BY <1>3 DEF Reset, AwaitIdle, Request, AskClose, Detach, Withdraw, CauseIsTrue, CauseKept, Committed
<1>4. CASE Disconnect \/ FinishRejected \/ NotifyPolicy \/ Settle \/ FinishClosed
  BY <1>4 DEF Disconnect, FinishRejected, Finish, NotifyPolicy, SetJob, Settle, FinishClosed, CauseIsTrue, CauseKept,
    Committed
<1>5. CASE Quiesce BY <1>5 DEF Quiesce, CauseIsTrue, CauseKept, Committed
<1>6. CASE Close BY <1>6 DEF Close, CauseIsTrue, CauseKept, Committed
<1>7. CASE Process BY <1>7 DEF Process, ForceBegins, CauseIsTrue, CauseKept, Committed
<1>8. CASE ForceClose BY <1>8 DEF ForceClose, ForceBegins, CauseIsTrue, CauseKept, Committed
<1>9. CASE EndSession BY <1>9 DEF EndSession, ForceBegins, CauseIsTrue, CauseKept, Committed
<1>10. CASE FailSession BY <1>10 DEF FailSession, ForceBegins, CauseIsTrue, CauseKept, Committed
<1>11. CASE ForceElsewhere BY <1>11 DEF ForceElsewhere, ForceBegins, CauseIsTrue, CauseKept, Committed
<1>12. CASE Register BY <1>12 DEF Register, CauseIsTrue, CauseKept, Committed, StillAdmissible
<1>13. CASE Conclude BY <1>13 DEF Conclude, CauseIsTrue, CauseKept, Committed, StillPending
<1>14. ASSUME NEW r \in Requests, Decide(r) \/ EnterListener(r) \/ Invoke(r) \/ CallbackEnds(r) \/
            ReportFailure(r)
      PROVE  CauseKept
  BY <1>14 DEF Decide, Current, EnterListener, SetJob, Invoke, CallbackEnds, ReportFailure, FailedDecision, CauseIsTrue,
    CauseKept, Committed
<1>15. ASSUME NEW r \in Requests, Drop(r) PROVE CauseKept
  BY <1>15 DEF Drop, SetJob, DropDelivery, CauseIsTrue, CauseKept, Committed
<1>16. ASSUME NEW t \in Forcers, ForceInvalidates(t) \/ ForceSupersedes(t) \/ ForceStops(t) PROVE CauseKept
  BY <1>16 DEF ForceInvalidates, ForceSupersedes, Finish, ForceStops, CauseIsTrue, CauseKept, Committed
<1>17. ASSUME NEW t \in Pingers, Wake(t) PROVE CauseKept BY <1>17 DEF Wake, CauseIsTrue, CauseKept, Committed
<1>18. CASE UNCHANGED vars BY <1>18 DEF vars, CauseIsTrue, CauseKept, Committed
<1> QED BY <1>1, <1>2, <1>3, <1>4, <1>5, <1>6, <1>7, <1>8, <1>9, <1>10, <1>11, <1>12, <1>13, <1>14, <1>15, <1>16, <1>17,
   <1>18 DEF Next, OwnerStep, DeliveryStep, ForceStep, HolderStep

LEMMA PendingStep ==
  ASSUME RequestTypes, OwnerTypes, Hands, RequestBooks, OwnerBooks, PendingIsAdmitted, [Next]_vars
  PROVE  PendingIsAdmitted'
<1>1. slot # 0 => slot \in Requests /\ slot <= issued BY ShutdownAssumption DEF RequestTypes, Requests, Hands, InOneHand
<1>2. CASE Request \/ AskClose
 <2>1. CASE UNCHANGED <<slot, req>> BY <1>2, <2>1 DEF Request, AskClose, PendingIsAdmitted
 <2>2. CASE ~UNCHANGED <<slot, req>>
  <3>1. /\ slot = 0 /\ slot' = issued + 1 /\ issued < MaxRequests /\ status' = status
        /\ req' = [req EXCEPT ![issued + 1].expected = policy]
    BY <1>2, <2>2 DEF Request, AskClose
  <3>2. issued + 1 \in Requests /\ ~req[issued + 1].admitted
    BY <3>1, ShutdownAssumption DEF RequestTypes, Requests, RequestBooks, BookOf
  <3>3. ~req'[issued + 1].admitted BY <3>1, <3>2 DEF RequestTypes, Slots
  <3> QED BY <3>1, <3>3 DEF PendingIsAdmitted
 <2> QED BY <2>1, <2>2
<1>3. CASE Process \/ ForceClose \/ EndSession \/ FailSession \/ ForceElsewhere
  BY <1>3 DEF Process, ForceClose, EndSession, FailSession, ForceElsewhere, ForceBegins, PendingIsAdmitted, Committed
<1>4. CASE Register
 <2>1. selected \in Requests BY <1>4, ShutdownAssumption DEF Register, OwnerBooks, OwnerTypes, Passing, Requests
 <2> QED BY <1>4, <2>1 DEF Register, StillAdmissible, PendingIsAdmitted, RequestTypes, Slots, OwnerBooks, Passing
<1>5. CASE RejectRequest BY <1>1, <1>5 DEF RejectRequest, OwnerBooks, Passing, PendingIsAdmitted
<1>6. CASE Conclude BY <1>6 DEF Conclude, StillPending, PendingIsAdmitted
<1>7. CASE Quiesce \/ Close BY <1>7 DEF Quiesce, Close, PendingIsAdmitted
<1>8. CASE ~StatusMoves
 <2>1. SameIssue /\ UNCHANGED <<slot, status>> BY <1>8, IssueElsewhere, StatusElsewhere DEF StatusMoves
 <2> QED BY <1>1, <2>1 DEF PendingIsAdmitted, SameIssue
<1> QED BY <1>2, <1>3, <1>4, <1>5, <1>6, <1>7, <1>8 DEF StatusMoves

LEMMA CauseStep ==
  ASSUME RequestTypes, OwnerTypes, ForceTypes, OwnerBooks, CauseIsTrue, [Next]_vars
  PROVE  CauseIsTrue'
<1>1. \A r \in Requests : Accepted(r)' => Accepted(r) \/ Settles(r)
  BY ResultsStandStep DEF ResultsStand, ResultStands, Accepted
<1>2. \A r \in Requests : Settles(r) =>
         r = selected /\ cause = "AcceptedRequest" /\ \A q \in Requests : ~Accepted(q)
  BY DEF Settles, OwnerBooks
<1>3. /\ cause # "None" => cause' = cause
      /\ cause' # "None" => Committed'
  BY CauseStands DEF CauseKept
<1> QED BY <1>1, <1>2, <1>3 DEF CauseIsTrue, Committed

--------------------
\* The policies' gates.

LEMMA InsideIsFinite ==
  ASSUME NEW g \in Generations
  PROVE  /\ IsFiniteSet(Inside(g)) /\ Cardinality(Inside(g)) \in Nat
         /\ Cardinality(Inside(g)) <= MaxRequests
<1>1. IsFiniteSet(Requests) /\ Cardinality(Requests) = MaxRequests BY FS_Interval, ShutdownAssumption DEF Requests
<1>2. Inside(g) \subseteq Requests BY DEF Inside
<1>3. IsFiniteSet(Inside(g)) /\ Cardinality(Inside(g)) <= Cardinality(Requests) BY <1>1, <1>2, FS_Subset
<1> QED BY <1>1, <1>3, FS_CardinalityType

\* The jobs that are running stay the same, except in the two steps that
\* enter and leave a gate.
LEMMA InsideElsewhere ==
  ASSUME RequestTypes, OwnerTypes, RequestBooks, OwnerBooks, [Next]_vars,
         \A r \in Requests : ~Invoke(r) /\ ~CallbackEnds(r), NEW q \in Requests
  PROVE  /\ req'[q].job = "running" <=> req[q].job = "running"
         /\ req[q].job = "running" => req'[q].generation = req[q].generation
<1>1. BookOf(q) BY DEF RequestBooks
<1>2. req'[q].job = "running" <=> req[q].job = "running"
 <2>1. CASE NotifyPolicy BY <2>1 DEF NotifyPolicy, SetJob, OwnerBooks, RequestTypes, Slots
 <2>2. ASSUME NEW r \in Requests, JobMoves(r) PROVE req'[q].job = "running" <=> req[q].job = "running"
   BY <2>2 DEF JobMoves, EnterListener, ReportFailure, Drop, DropDelivery, SetJob, RequestTypes, Slots
 <2>3. CASE ~NotifyPolicy /\ \A r \in Requests : ~JobMoves(r) BY <2>3, JobsElsewhere DEF SameJobs
 <2> QED BY <2>1, <2>2, <2>3
<1>3. req[q].job = "running" => req'[q].generation = req[q].generation
 <2>1. CASE Register BY <1>1, <2>1 DEF Register, OwnerBooks, BookOf, RequestTypes, Slots
 <2>2. CASE Request \/ AskClose BY <2>2 DEF Request, AskClose, RequestTypes, Slots
 <2>3. CASE ~Register /\ ~Request /\ ~AskClose BY <2>3, IssueElsewhere DEF SameIssue
 <2> QED BY <2>1, <2>2, <2>3
<1> QED BY <1>2, <1>3

LEMMA RunningElsewhere ==
  ASSUME [Next]_vars, \A r \in Requests : ~Invoke(r) /\ ~CallbackEnds(r)
  PROVE  UNCHANGED running
<1>1. CASE Begin \/ OwnerForced \/ Admit \/ OwnerCalledBack \/ CommitStop \/ Quiesce \/ Close \/
           RejectRequest \/ OwnerSleeps
  BY <1>1 DEF Begin, OwnerForced, Admit, OwnerCalledBack, CommitStop, Quiesce, Close, RejectRequest, OwnerSleeps
<1>2. CASE NativeClose \/ Process \/ ForceClose \/ EndSession \/ FailSession \/ ForceElsewhere \/
           StopSource \/ Install \/ Reset
  BY <1>2 DEF NativeClose, Process, ForceBegins, ForceClose, EndSession, FailSession, ForceElsewhere, StopSource,
    Install, Reset
<1>3. CASE AwaitIdle \/ Request \/ AskClose \/ Detach \/ Disconnect \/ Register \/ FinishRejected
           \/ NotifyPolicy \/ Conclude
  BY <1>3 DEF AwaitIdle, Request, AskClose, Detach, Withdraw, Disconnect, Register, FinishRejected, Finish,
    NotifyPolicy, SetJob, Conclude
<1>4. CASE Settle \/ FinishClosed BY <1>4 DEF Settle, Finish, FinishClosed
<1>5. ASSUME NEW r \in Requests, Decide(r) \/ EnterListener(r) \/ ReportFailure(r) \/ Drop(r) PROVE UNCHANGED running
  BY <1>5 DEF Decide, Current, EnterListener, SetJob, ReportFailure, FailedDecision, Drop, DropDelivery
<1>6. ASSUME NEW t \in Forcers, ForceInvalidates(t) \/ ForceSupersedes(t) \/ ForceStops(t) PROVE UNCHANGED running
  BY <1>6 DEF ForceInvalidates, ForceSupersedes, Finish, ForceStops
<1>7. ASSUME NEW t \in Pingers, Wake(t) PROVE UNCHANGED running BY <1>7 DEF Wake
<1>8. CASE UNCHANGED vars BY <1>8 DEF vars
<1> QED BY <1>1, <1>2, <1>3, <1>4, <1>5, <1>6, <1>7, <1>8 DEF Next, OwnerStep, DeliveryStep, ForceStep, HolderStep

LEMMA GateCountsStep ==
  ASSUME RequestTypes, OwnerTypes, RequestBooks, OwnerBooks, RunningTypes, GateCounts, [Next]_vars
  PROVE  RunningTypes' /\ GateCounts'
<1>1. ASSUME NEW r \in Requests, Invoke(r) PROVE RunningTypes' /\ GateCounts'
 <2>1. PICK g \in Generations : g = req[r].generation /\ req[r].job = "entering"
   BY <1>1, ShutdownAssumption DEF Invoke, RequestBooks, BookOf, RequestTypes, Slots, Generations
 <2>2. CASE GateOpen(g)
  <3>1. running' = [running EXCEPT ![g] = @ + 1] /\ req' = [req EXCEPT ![r].job = "running"]
    BY <1>1, <2>1, <2>2 DEF Invoke, EnterPolicy, SetJob
  <3>2. Inside(g)' = Inside(g) \cup {r} /\ r \notin Inside(g) BY <2>1, <3>1 DEF Inside, RequestTypes, Slots
  <3>3. \A h \in Generations \ {g} : Inside(h)' = Inside(h) BY <2>1, <3>1 DEF Inside, RequestTypes, Slots
  <3>4. Cardinality(Inside(g)') = Cardinality(Inside(g)) + 1 BY <2>1, <3>2, InsideIsFinite, FS_AddElement
  <3>5. \A h \in Generations : Cardinality(Inside(h)) \in Nat /\ running[h] = Cardinality(Inside(h))
    BY InsideIsFinite DEF GateCounts
  <3>6. ASSUME NEW h \in Generations PROVE running'[h] = Cardinality(Inside(h)') /\ running'[h] \in Nat
   <4>1. CASE h = g
    <5>1. running'[h] = running[h] + 1 BY <2>1, <3>1, <4>1 DEF RunningTypes
    <5>2. Cardinality(Inside(h)') = Cardinality(Inside(h)) + 1 BY <3>4, <4>1
    <5> QED BY <3>5, <5>1, <5>2
   <4>2. CASE h # g
    <5>1. running'[h] = running[h] BY <3>1, <4>2 DEF RunningTypes
    <5> QED BY <3>3, <3>5, <4>2, <5>1
   <4> QED BY <4>1, <4>2
  <3>7. running' = [h \in Generations |-> running'[h]] BY <3>1 DEF RunningTypes
  <3> QED BY <3>6, <3>7 DEF RunningTypes, GateCounts
 <2>3. CASE ~GateOpen(g)
  <3>1. running' = running /\ req' = [req EXCEPT ![r].job = "discarded"] BY <1>1, <2>1, <2>3 DEF Invoke, SetJob
  <3>2. \A h \in Generations : Inside(h)' = Inside(h) BY <2>1, <3>1 DEF Inside, RequestTypes, Slots
  <3> QED BY <3>1, <3>2 DEF RunningTypes, GateCounts
 <2> QED BY <2>2, <2>3
<1>2. ASSUME NEW r \in Requests, CallbackEnds(r) PROVE RunningTypes' /\ GateCounts'
 <2>1. PICK g \in Generations : g = req[r].generation /\ req[r].job = "running"
   BY <1>2, ShutdownAssumption DEF CallbackEnds, RequestBooks, BookOf, RequestTypes, Slots, Generations
 <2>2. running' = [running EXCEPT ![g] = @ - 1] BY <1>2, <2>1 DEF CallbackEnds, LeavePolicy
 <2>3. PICK j \in {"returned", "failing"} : req' = [req EXCEPT ![r].job = j] BY <1>2 DEF CallbackEnds, SetJob
 <2>4. Inside(g)' = Inside(g) \ {r} /\ r \in Inside(g) BY <2>1, <2>3 DEF Inside, RequestTypes, Slots
 <2>5. \A h \in Generations \ {g} : Inside(h)' = Inside(h) BY <2>1, <2>3 DEF Inside, RequestTypes, Slots
 <2>6. Cardinality(Inside(g)') = Cardinality(Inside(g)) - 1 BY <2>1, <2>4, InsideIsFinite, FS_RemoveElement
 <2>7. Cardinality(Inside(g)) # 0 BY <2>1, <2>4, InsideIsFinite, FS_EmptySet
 <2>8. running[g] = Cardinality(Inside(g)) /\ Cardinality(Inside(g)) \in Nat BY <2>1, InsideIsFinite DEF GateCounts
 <2>9. \A h \in Generations : Cardinality(Inside(h)) \in Nat /\ running[h] = Cardinality(Inside(h))
   BY InsideIsFinite DEF GateCounts
 <2>10. ASSUME NEW h \in Generations PROVE running'[h] = Cardinality(Inside(h)') /\ running'[h] \in Nat
  <3>1. CASE h = g
   <4>1. running'[h] = running[h] - 1 BY <2>1, <2>2, <3>1 DEF RunningTypes
   <4>2. Cardinality(Inside(h)') = Cardinality(Inside(h)) - 1 /\ Cardinality(Inside(h)) # 0 BY <2>6, <2>7, <3>1
   <4> QED BY <2>9, <4>1, <4>2
  <3>2. CASE h # g
   <4>1. running'[h] = running[h] BY <2>2, <3>2 DEF RunningTypes
   <4> QED BY <2>5, <2>9, <3>2, <4>1
  <3> QED BY <3>1, <3>2
 <2>11. running' = [h \in Generations |-> running'[h]] BY <2>2 DEF RunningTypes
 <2> QED BY <2>10, <2>11 DEF RunningTypes, GateCounts
<1>3. CASE \A r \in Requests : ~Invoke(r) /\ ~CallbackEnds(r)
 <2>1. \A g \in Generations : Inside(g)' = Inside(g) BY <1>3, InsideElsewhere DEF Inside
 <2> QED BY <1>3, <2>1, RunningElsewhere DEF RunningTypes, GateCounts
<1> QED BY <1>1, <1>2, <1>3

LEMMA GateOpenStep ==
  ASSUME PolicyTypes, OwnerTypes, ForceTypes, GateOpenToHolder, [Next]_vars
  PROVE  GateOpenToHolder'
<1>1. CASE Begin \/ OwnerForced \/ Admit \/ OwnerCalledBack \/ Quiesce \/ Close \/ RejectRequest
  BY <1>1 DEF Begin, OwnerForced, Admit, OwnerCalledBack, Quiesce, Close, RejectRequest, PolicyTypes, GateOpenToHolder,
    Generations
<1>2. CASE OwnerSleeps \/ NativeClose \/ Process \/ ForceClose \/ EndSession \/ FailSession \/
           ForceElsewhere
  BY <1>2 DEF OwnerSleeps, NativeClose, Process, ForceBegins, ForceClose, EndSession, FailSession, ForceElsewhere,
    PolicyTypes, GateOpenToHolder, Generations
<1>3. CASE StopSource \/ Request \/ AskClose \/ Register \/ FinishRejected \/ NotifyPolicy \/
           Conclude
  BY <1>3 DEF StopSource, Request, AskClose, Register, FinishRejected, Finish, NotifyPolicy, SetJob, Conclude,
    PolicyTypes, GateOpenToHolder, Generations
<1>4. CASE Settle BY <1>4 DEF Settle, Finish, PolicyTypes, GateOpenToHolder, Generations
<1>5. CASE CommitStop BY <1>5 DEF CommitStop, PolicyTypes, GateOpenToHolder, Generations
<1>6. CASE Install BY <1>6 DEF Install, PolicyTypes, GateOpenToHolder, Generations
<1>7. CASE Reset BY <1>7 DEF Reset, PolicyTypes, GateOpenToHolder, Generations
<1>8. CASE AwaitIdle BY <1>8 DEF AwaitIdle, PolicyTypes, GateOpenToHolder, Generations
<1>9. CASE Detach BY <1>9 DEF Detach, Withdraw, PolicyTypes, GateOpenToHolder, Generations
<1>10. CASE Disconnect BY <1>10 DEF Disconnect, PolicyTypes, GateOpenToHolder, Generations
<1>11. CASE FinishClosed BY <1>11 DEF FinishClosed, Finish, PolicyTypes, GateOpenToHolder, Generations
<1>12. ASSUME NEW r \in Requests, Decide(r) \/ EnterListener(r) \/ Invoke(r) \/ CallbackEnds(r) \/
            ReportFailure(r) \/ Drop(r)
      PROVE  GateOpenToHolder'
  BY <1>12 DEF Decide, Current, EnterListener, SetJob, Invoke, CallbackEnds, ReportFailure, FailedDecision, Drop,
    DropDelivery, PolicyTypes, GateOpenToHolder, Generations
<1>13. ASSUME NEW t \in Forcers, ForceSupersedes(t) \/ ForceStops(t) PROVE GateOpenToHolder'
  BY <1>13 DEF ForceSupersedes, Finish, ForceStops, PolicyTypes, GateOpenToHolder, Generations
<1>14. ASSUME NEW t \in Forcers, ForceInvalidates(t) PROVE GateOpenToHolder'
  BY <1>14 DEF ForceInvalidates, PolicyTypes, GateOpenToHolder, Generations
<1>15. ASSUME NEW t \in Pingers, Wake(t) PROVE GateOpenToHolder'
  BY <1>15 DEF Wake, PolicyTypes, GateOpenToHolder, Generations
<1>16. CASE UNCHANGED vars BY <1>16 DEF vars, PolicyTypes, GateOpenToHolder, Generations
<1> QED BY <1>1, <1>2, <1>3, <1>4, <1>5, <1>6, <1>7, <1>8, <1>9, <1>10, <1>11, <1>12, <1>13, <1>14, <1>15, <1>16
   DEF Next, OwnerStep, DeliveryStep, ForceStep, HolderStep

LEMMA HolderElsewhere ==
  ASSUME [Next]_vars, ~Install, ~Reset, ~AwaitIdle
  PROVE  UNCHANGED <<held, selves>>
<1>1. CASE Begin \/ OwnerForced \/ Admit \/ OwnerCalledBack \/ CommitStop \/ Quiesce \/ Close \/
           RejectRequest \/ OwnerSleeps
  BY <1>1 DEF Begin, OwnerForced, Admit, OwnerCalledBack, CommitStop, Quiesce, Close, RejectRequest, OwnerSleeps
<1>2. CASE NativeClose \/ Process \/ ForceClose \/ EndSession \/ FailSession \/ ForceElsewhere \/
           StopSource \/ Request \/ AskClose
  BY <1>2 DEF NativeClose, Process, ForceBegins, ForceClose, EndSession, FailSession, ForceElsewhere, StopSource,
    Request, AskClose
<1>3. CASE Detach \/ Disconnect \/ Register \/ FinishRejected \/ NotifyPolicy \/ Conclude \/
           Settle \/ FinishClosed
  BY <1>3 DEF Detach, Withdraw, Disconnect, Register, FinishRejected, Finish, NotifyPolicy, SetJob, Conclude, Settle,
    FinishClosed
<1>4. ASSUME NEW r \in Requests, Decide(r) \/ EnterListener(r) \/ Invoke(r) \/ CallbackEnds(r) \/
            ReportFailure(r) \/ Drop(r)
      PROVE  UNCHANGED <<held, selves>>
  BY <1>4 DEF Decide, Current, EnterListener, SetJob, Invoke, CallbackEnds, ReportFailure, FailedDecision, Drop,
    DropDelivery
<1>5. ASSUME NEW t \in Forcers, ForceInvalidates(t) \/ ForceSupersedes(t) \/ ForceStops(t)
      PROVE  UNCHANGED <<held, selves>>
  BY <1>5 DEF ForceInvalidates, ForceSupersedes, Finish, ForceStops
<1>6. ASSUME NEW t \in Pingers, Wake(t) PROVE UNCHANGED <<held, selves>> BY <1>6 DEF Wake
<1>7. CASE UNCHANGED vars BY <1>7 DEF vars
<1> QED BY <1>1, <1>2, <1>3, <1>4, <1>5, <1>6, <1>7 DEF Next, OwnerStep, DeliveryStep, ForceStep, HolderStep

LEMMA CallbacksStep ==
  ASSUME RequestTypes, OwnerTypes, PolicyTypes, RequestBooks, OwnerBooks, GateCounts,
         GateOpenToHolder, CallbacksAcknowledged, [Next]_vars
  PROVE  CallbacksAcknowledged'
<1> SUFFICES ASSUME NEW q \in Requests, req'[q].job = "running"
             PROVE  req'[q].generation = held' \/ req'[q].generation \in selves'
  BY DEF CallbacksAcknowledged
<1>1. req[q].job # "none" => req[q].generation \in Generations
  BY ShutdownAssumption DEF RequestBooks, BookOf, RequestTypes, Slots, Generations
<1>2. ASSUME NEW r \in Requests, Invoke(r) \/ CallbackEnds(r)
      PROVE  req'[q].generation = held' \/ req'[q].generation \in selves'
 <2>1. req'[q].generation = req[q].generation /\ UNCHANGED <<held, selves>>
   BY <1>2 DEF Invoke, CallbackEnds, SetJob, RequestTypes, Slots
 <2>2. req[q].job = "running" \/ (req[q].job # "none" /\ active[req[q].generation])
   BY <1>2 DEF Invoke, CallbackEnds, SetJob, GateOpen, RequestTypes, Slots
 <2> QED BY <1>1, <2>1, <2>2 DEF GateOpenToHolder, CallbacksAcknowledged
<1>3. CASE \A r \in Requests : ~Invoke(r) /\ ~CallbackEnds(r)
 <2>1. req[q].job = "running" /\ req'[q].generation = req[q].generation BY <1>3, InsideElsewhere
 <2>2. req[q].generation = held \/ req[q].generation \in selves BY <2>1 DEF CallbacksAcknowledged
 <2>3. CASE AwaitIdle
  <3>1. ASSUME req[q].generation = held, running[held] = 0 PROVE FALSE
   <4>1. held \in Generations /\ q \in Inside(held) /\ Cardinality(Inside(held)) = 0
     BY <1>1, <2>1, <3>1 DEF Inside, GateCounts
   <4> QED BY <4>1, InsideIsFinite, FS_EmptySet
  <3> QED BY <2>1, <2>2, <2>3, <3>1 DEF AwaitIdle
 <2>4. CASE Install BY <1>1, <2>1, <2>2, <2>4, ShutdownAssumption DEF Install, Generations
 <2>5. CASE Reset BY <2>1, <2>2, <2>5 DEF Reset
 <2>6. CASE ~Install /\ ~Reset /\ ~AwaitIdle BY <2>1, <2>2, <2>6, HolderElsewhere
 <2> QED BY <2>3, <2>4, <2>5, <2>6
<1> QED BY <1>2, <1>3

--------------------
\* The invariant and the theorems.

LEMMA Initially ==
  ASSUME Init
  PROVE  IInv
<1>1. Types
 <2>1. NewSlot \in Slots BY ResultsTyped, ShutdownAssumption DEF NewSlot, Slots
 <2>2. RequestTypes BY <2>1, ResultsTyped, ShutdownAssumption DEF Init, RequestTypes
 <2>3. PolicyTypes /\ RunningTypes BY ShutdownAssumption DEF Init, PolicyTypes, RunningTypes
 <2>5. StateTypes BY DEF Init, StateTypes
 <2>4. OwnerTypes /\ ForceTypes BY ShutdownAssumption DEF Init, OwnerTypes, ForceTypes, OwnerStates
 <2> QED BY <2>2, <2>3, <2>4, <2>5 DEF Types
<1>2. Hands /\ RequestBooks /\ OwnerBooks
  BY ShutdownAssumption DEF Init, Hands, InOneHand, OwnerHolds, ForceHolds, RequestBooks, BookOf, OwnerBooks, Passing,
    NewSlot, NoResult, Accepted, Requests
<1>3. PendingIsAdmitted /\ CauseIsTrue /\ GateOpenToHolder /\ CallbacksAcknowledged
  BY DEF Init, PendingIsAdmitted, CauseIsTrue, GateOpenToHolder, CallbacksAcknowledged, NewSlot, NoResult, Accepted
<1>4. GateCounts
 <2>1. ASSUME NEW g \in Generations PROVE Inside(g) = {} /\ running[g] = 0 BY DEF Init, Inside, NewSlot
 <2> QED BY <2>1, FS_EmptySet DEF GateCounts
<1> QED BY <1>1, <1>2, <1>3, <1>4 DEF IInv

LEMMA Step ==
  ASSUME IInv, [Next]_vars
  PROVE  IInv'
<1>1. /\ RequestTypes /\ PolicyTypes /\ StateTypes /\ OwnerTypes /\ ForceTypes /\ RunningTypes
      /\ Hands /\ RequestBooks /\ OwnerBooks /\ PendingIsAdmitted /\ CauseIsTrue
      /\ GateCounts /\ GateOpenToHolder /\ CallbacksAcknowledged
  BY DEF IInv, Types
<1>2. Types'
  BY <1>1, RequestTypesStep, PolicyTypesStep, StateTypesStep, OwnerTypesStep, ForceTypesStep, GateCountsStep DEF Types
<1>3. Hands' /\ RequestBooks' /\ OwnerBooks' BY <1>1, HandsStep, RequestBooksStep, OwnerBooksStep
<1>4. PendingIsAdmitted' /\ CauseIsTrue' BY <1>1, PendingStep, CauseStep
<1>5. GateCounts' /\ GateOpenToHolder' /\ CallbacksAcknowledged' BY <1>1, GateCountsStep, GateOpenStep, CallbacksStep
<1> QED BY <1>2, <1>3, <1>4, <1>5 DEF IInv

LEMMA Invariant == Spec => []IInv
<1>1. Init => IInv BY Initially
<1>2. IInv /\ [Next]_vars => IInv' BY Step
<1> QED BY <1>1, <1>2, PTL DEF Spec

LEMMA TypesFollow ==
  ASSUME IInv
  PROVE  TypeOK
<1>1. \A g \in Generations : running[g] \in 0..MaxRequests BY InsideIsFinite, ShutdownAssumption DEF IInv, GateCounts
<1> QED BY <1>1 DEF IInv, Types, RequestTypes, PolicyTypes, StateTypes, OwnerTypes, ForceTypes, RunningTypes, TypeOK

LEMMA AcceptedFollows ==
  ASSUME IInv
  PROVE  AcceptedByPolicy
<1> SUFFICES ASSUME NEW r \in Requests, Accepted(r)
             PROVE  /\ req[r].generation = 0 \/ r \in agreed
                    /\ req[r].expected # 0 => req[r].generation = req[r].expected
                    /\ r \notin withdrawn
  BY DEF AcceptedByPolicy
<1>1. BookOf(r) /\ NoResult.disposition = "none" BY DEF IInv, RequestBooks, NoResult
<1> QED BY <1>1 DEF BookOf

\* Every variable stays in its range.
THEOREM TypeCorrect == Spec => []TypeOK
<1> QED BY Invariant, TypesFollow, PTL

\* A session has one outcome and so has each ticket, and neither is
\* revised, with any number of requests and policies.
THEOREM OutcomeIsFinal == Spec => OneOutcome
<1>1. IInv => TypeOK /\ PendingIsAdmitted /\ CauseIsTrue BY TypesFollow DEF IInv
<1>2. ASSUME IInv, [Next]_vars PROVE NeverRevised
 <2>1. ASSUME NEW r \in Requests, Settled(r) PROVE result'[r] = result[r]
  <3>1. ResultStands(r) BY <1>2, ResultsStandStep DEF ResultsStand, IInv, Types
  <3>2. ~InHand(r) BY <1>2, <2>1 DEF IInv, Hands, InOneHand, InHand, Settled
  <3> QED BY <3>1, <3>2 DEF ResultStands
 <2> QED BY <1>2, <2>1, CauseStands DEF IInv, CauseKept, NeverRevised
<1>4. Spec => [](TypeOK /\ PendingIsAdmitted /\ CauseIsTrue) BY Invariant, <1>1, PTL
<1>5. Spec => [][NeverRevised]_vars BY Invariant, <1>2, PTL DEF Spec
<1> QED BY <1>4, <1>5 DEF OneOutcome

\* Only its policy accepts a request, while it is there, and after a reset
\* has returned none of the policy's callbacks runs.
THEOREM PolicyDecides == Spec => []PolicyHasItsSay
<1>1. IInv => PolicyHasItsSay BY AcceptedFollows DEF IInv, PolicyHasItsSay
<1> QED BY Invariant, <1>1, PTL

====================
