---- MODULE Shutdown ----
\* ShutdownState and ShutdownController: the negotiation of a session's
\* end.  Any thread stages a request and gets a ticket; the platform owner
\* admits it in a pass, asks the one installed policy, and commits or
\* cancels by the decision it finds; a forced stop supersedes all of it,
\* and the policy may be withdrawn at any moment.
\*
\* An action is one critical section of ShutdownState's mutex, of a
\* policy's, or of the scheduler's.  A policy is asked on the owner or, if
\* its delivery is queued, on another thread, and then it may be dropped.
EXTENDS Integers

CONSTANTS
    MaxRequests, MaxPolicies,   \* bounds of the exploration
    Deliveries,     \* the kinds of delivery a policy may be installed with
    NativeForce     \* NativeClosePolicy::Force

ASSUME ShutdownAssumption ==
  MaxRequests \in Nat /\ MaxPolicies \in Nat /\ NativeForce \in BOOLEAN
  /\ Deliveries \subseteq {"immediate", "queued"}

Requests == 1..MaxRequests
Generations == 1..MaxPolicies   \* policies; 0 stands for none
NoResult == [disposition |-> "none", cancellation |-> "None"]

VARIABLES
    slot,       \* the unresolved request, 0 if none
    issued,     \* requests made so far
    req,        \* ShutdownSlot, by request
    policy, installed,      \* ShutdownState::policy; policies made so far
    active, running,        \* ShutdownPolicyState::active, ::running
    status, cause, closed, stop, begun,
    result,     \* what the ticket's future holds
    ownerPc, selected, seen, after,     \* the platform thread in process()
    forcePc, authority, retired,        \* force(), by thread
    delivery,   \* of each policy
    holderPc, held,         \* the thread that owns the ShutdownPolicy
    selves,     \* policies that were reset from their own callback
    asleep, pinging,        \* the owner's wait; threads about to wake it
    agreed, withdrawn       \* history: requests a policy accepted, or left

reqVars == <<slot, issued, req, result>>
policyVars == <<policy, installed, active, running>>
stateVars == <<status, cause, closed, stop, begun>>
ownerVars == <<ownerPc, selected, seen, after>>
forceVars == <<forcePc, authority, retired>>
holderVars == <<delivery, holderPc, held, selves>>
wakeVars == <<asleep, pinging>>
histVars == <<agreed, withdrawn>>
vars == <<reqVars, policyVars, stateVars, ownerVars, forceVars, holderVars, wakeVars, histVars>>

Forcers == {"owner", "forcer"}
NewSlot == [expected |-> 0, generation |-> 0, admitted |-> FALSE, decision |-> NoResult,
            registered |-> FALSE, job |-> "none"]

Init ==
  /\ slot = 0 /\ issued = 0
  /\ req = [r \in Requests |-> NewSlot] /\ result = [r \in Requests |-> NoResult]
  /\ policy = 0 /\ installed = 0
  /\ active = [g \in Generations |-> FALSE] /\ running = [g \in Generations |-> 0]
  /\ status = "Running" /\ cause = "None" /\ closed = FALSE /\ stop = FALSE /\ begun = FALSE
  /\ ownerPc = "new" /\ selected = 0 /\ seen = 0 /\ after = "none"
  /\ forcePc = [t \in Forcers |-> "idle"]
  /\ authority = [t \in Forcers |-> 0] /\ retired = [t \in Forcers |-> 0]
  /\ delivery = [g \in Generations |-> "immediate"]
  /\ holderPc = "idle" /\ held = 0 /\ selves = {}
  /\ asleep = FALSE /\ pinging = {}
  /\ agreed = {} /\ withdrawn = {}

Committed == status \in {"Committed", "Quiescing", "Stopped"}
Enabled(g) == g # 0 => active[g]

\* Mutant: the owner finds out for itself.
PingNobody(t) == UNCHANGED pinging

\* ping() after a change.  One that finds the owner awake does nothing: the
\* owner looks at the change before it sleeps.
Ping(t) == pinging' = IF asleep THEN pinging \cup {t} ELSE pinging

\* Mutant: a ticket that is there already is settled as well.
FinishAll(r, disposition, cancellation) ==
  /\ result' = [q \in Requests |-> IF q <= r /\ r # 0
                                   THEN [disposition |-> disposition, cancellation |-> cancellation]
                                   ELSE result[q]]
  /\ req' = IF r = 0 THEN req ELSE [req EXCEPT ![r].registered = FALSE]

\* Mutant: a superseded ticket is forgotten.
FinishForgotten(r, disposition, cancellation) ==
  IF r = 0 \/ disposition = "Superseded" THEN UNCHANGED <<req, result>>
  ELSE /\ req' = [req EXCEPT ![r].registered = FALSE]
       /\ result' = [result EXCEPT ![r] = [disposition |-> disposition,
                                           cancellation |-> cancellation]]

\* finish: the policy's listener goes, then the ticket's future is set.
Finish(r, disposition, cancellation) ==
  IF r = 0 THEN UNCHANGED <<req, result>>
  ELSE /\ req' = [req EXCEPT ![r].registered = FALSE]
       /\ result' = [result EXCEPT ![r] = [disposition |-> disposition,
                                           cancellation |-> cancellation]]

--------------------
\* The policy's owner: installation before the session, reset at any time.

Install ==
  /\ holderPc = "idle" /\ held = 0
  /\ ~begun /\ ~closed /\ policy = 0 /\ ~Committed /\ ~stop
  /\ installed < MaxPolicies
  /\ installed' = installed + 1
  /\ policy' = installed + 1 /\ held' = installed + 1
  /\ active' = [active EXCEPT ![installed + 1] = TRUE]
  /\ \E d \in Deliveries : delivery' = [delivery EXCEPT ![installed + 1] = d]
  /\ UNCHANGED <<reqVars, running, stateVars, ownerVars, forceVars, holderPc, selves, wakeVars,
                 histVars>>

\* reset() on a thread of its own, or inside the policy's own callback.
Reset ==
  /\ holderPc = "idle" /\ held # 0
  /\ selves' \in {selves} \cup {selves \cup {g \in {held} : running[g] > 0}}
  /\ active' = [active EXCEPT ![held] = FALSE]
  /\ holderPc' = "detach"
  /\ UNCHANGED <<reqVars, policy, installed, running, stateVars, ownerVars, forceVars, delivery, held,
                 wakeVars, histVars>>

UnderPolicy(g) ==
  slot # 0 /\ req[slot].admitted /\ req[slot].generation = g /\ status = "Pending"

Withdraw(r) ==
  [req EXCEPT ![r].decision = [disposition |-> "Cancelled", cancellation |-> "PolicyDetached"]]

Detach ==
  /\ holderPc = "detach"
  /\ IF policy = held
     THEN /\ policy' = 0
          /\ IF UnderPolicy(held)
             THEN req' = Withdraw(slot) /\ withdrawn' = withdrawn \cup {slot}
             ELSE UNCHANGED <<req, withdrawn>>
          /\ holderPc' = "disconnect"
     ELSE UNCHANGED <<policy, req, withdrawn>> /\ holderPc' = "wait"
  /\ UNCHANGED <<slot, issued, result, installed, active, running, stateVars, ownerVars, forceVars,
                 delivery, held, selves, wakeVars, agreed>>

Disconnect ==
  /\ holderPc = "disconnect"
  /\ req' = [r \in Requests |-> IF r \in withdrawn /\ req[r].generation = held
                                THEN [req[r] EXCEPT !.registered = FALSE] ELSE req[r]]
  /\ Ping("holder")
  /\ holderPc' = "wait"
  /\ UNCHANGED <<slot, issued, result, policyVars, stateVars, ownerVars, forceVars, delivery, held, selves,
                 asleep, histVars>>

\* A reset from the callback does not wait for itself.
AwaitIdle ==
  /\ holderPc = "wait" /\ "holder" \notin pinging
  /\ held \in selves \/ running[held] = 0
  /\ holderPc' = "idle" /\ held' = 0
  /\ UNCHANGED <<reqVars, policyVars, stateVars, ownerVars, forceVars, delivery, selves, wakeVars,
                 histVars>>

--------------------
\* Requests and decisions, on any thread.

\* The request that is there already is shared.
Request ==
  /\ "client" \notin pinging
  /\ ~closed /\ ~Committed /\ ~stop
  /\ slot = 0 => issued < MaxRequests
  /\ IF slot = 0
     THEN /\ issued' = issued + 1 /\ slot' = issued + 1
          /\ req' = [req EXCEPT ![issued + 1].expected = policy]
     ELSE UNCHANGED <<issued, slot, req>>
  /\ Ping("client")
  /\ UNCHANGED <<result, policyVars, stateVars, ownerVars, forceVars, holderVars, asleep, histVars>>

\* Mutant: whatever request is pending is taken for the one decided.
Decidable(r, g) == ~closed /\ status = "Pending" /\ ~stop /\ slot # 0 /\ req[slot].admitted

Current(r, g) ==
  /\ ~closed /\ status = "Pending" /\ ~stop
  /\ slot = r /\ req[r].admitted /\ req[r].generation = g
  /\ req[r].decision = NoResult

\* A ShutdownDecision is kept and used as its holder likes, once at least
\* the policy has been called with it.
Decide(r) ==
  /\ "decider" \notin pinging
  /\ req[r].job \in {"running", "returned"}
  /\ Current(r, req[r].generation)
  /\ \E accept \in BOOLEAN :
        /\ req' = [req EXCEPT ![slot].decision =
                      IF accept THEN [disposition |-> "Accepted", cancellation |-> "None"]
                      ELSE [disposition |-> "Cancelled", cancellation |-> "HostRejected"]]
        /\ agreed' = IF accept THEN agreed \cup {r} ELSE agreed
  /\ Ping("decider")
  /\ UNCHANGED <<slot, issued, result, policyVars, stateVars, ownerVars, forceVars, holderVars,
                 asleep, withdrawn>>

--------------------
\* One delivery to the policy: a bus listener, then the policy's own gate.

SetJob(r, j) == [req EXCEPT ![r].job = j]

EnterListener(r) ==
  /\ req[r].job = "queued"
  /\ req' = SetJob(r, IF req[r].registered THEN "entering" ELSE "discarded")
  /\ UNCHANGED <<slot, issued, result, policyVars, stateVars, ownerVars, forceVars, holderVars,
                 wakeVars, histVars>>

GateOpen(g) == active[g]

\* Mutant: the gate is looked at without entering it.
LookOnly(g) == UNCHANGED running

EnterPolicy(g) == running' = [running EXCEPT ![g] = @ + 1]

Invoke(r) ==
  LET g == req[r].generation IN
  /\ req[r].job = "entering"
  /\ IF GateOpen(g)
     THEN EnterPolicy(g) /\ req' = SetJob(r, "running")
     ELSE UNCHANGED running /\ req' = SetJob(r, "discarded")
  /\ UNCHANGED <<slot, issued, result, policy, installed, active, stateVars, ownerVars, forceVars,
                 holderVars, wakeVars, histVars>>

\* The failure of a callback or a delivery is a decision too.
FailedDecision(r) ==
  IF Current(r, req[r].generation)
  THEN [disposition |-> "Cancelled", cancellation |-> "PolicyFailed"] ELSE req[r].decision

LeavePolicy(r) == running' = [running EXCEPT ![req[r].generation] = @ - 1]

\* The callback leaves its gate; a throw is then reported as the decision.
CallbackEnds(r) ==
  /\ req[r].job = "running"
  /\ ~(held \in selves /\ holderPc # "idle" /\ held = req[r].generation)
  /\ LeavePolicy(r)
  /\ req' \in {SetJob(r, "returned"), SetJob(r, "failing")}
  /\ UNCHANGED <<slot, issued, result, policy, installed, active, stateVars, ownerVars, forceVars,
                 holderVars, wakeVars, histVars>>

ReportFailure(r) ==
  /\ req[r].job = "failing" /\ "decider" \notin pinging
  /\ req' = [req EXCEPT ![r].decision = FailedDecision(r), ![r].job = "returned"]
  /\ IF Current(r, req[r].generation) THEN Ping("decider") ELSE UNCHANGED pinging
  /\ UNCHANGED <<slot, issued, result, policyVars, stateVars, ownerVars, forceVars, holderVars,
                 asleep, histVars>>

\* The bus reports a lost delivery of a listener that is still registered.
DropDelivery(r) == req' = SetJob(r, IF req[r].registered THEN "failing" ELSE "discarded")

Drop(r) ==
  /\ req[r].job = "queued" /\ delivery[req[r].generation] = "queued"
  /\ DropDelivery(r)
  /\ UNCHANGED <<slot, issued, result, policyVars, stateVars, ownerVars, forceVars, holderVars,
                 wakeVars, histVars>>

--------------------
\* force(): commit, invalidate, supersede, stop.

ForceBegins(t, reason) ==
  /\ forcePc' = [forcePc EXCEPT ![t] = "invalidate"]
  /\ authority' = [authority EXCEPT ![t] = policy]
  /\ IF ~closed /\ ~Committed
     THEN /\ status' = "Committed" /\ cause' = reason
          /\ retired' = [retired EXCEPT ![t] = slot] /\ slot' = 0
     ELSE UNCHANGED <<status, cause, slot>> /\ retired' = [retired EXCEPT ![t] = 0]

ForceInvalidates(t) ==
  /\ forcePc[t] = "invalidate"
  /\ active' = IF authority[t] = 0 THEN active ELSE [active EXCEPT ![authority[t]] = FALSE]
  /\ forcePc' = [forcePc EXCEPT ![t] = "supersede"]
  /\ UNCHANGED <<reqVars, policy, installed, running, stateVars, ownerVars, authority, retired,
                 holderVars, wakeVars, histVars>>

ForceSupersedes(t) ==
  /\ forcePc[t] = "supersede"
  /\ Finish(retired[t], "Superseded", "None")
  /\ forcePc' = [forcePc EXCEPT ![t] = "stop"]
  /\ UNCHANGED <<slot, issued, policyVars, stateVars, ownerVars, authority, retired, holderVars,
                 wakeVars, histVars>>

ForceStops(t) ==
  /\ forcePc[t] = "stop"
  /\ stop' = TRUE
  /\ Ping(t)
  /\ forcePc' = [forcePc EXCEPT ![t] = "idle"]
  /\ authority' = [authority EXCEPT ![t] = 0] /\ retired' = [retired EXCEPT ![t] = 0]
  /\ UNCHANGED <<reqVars, policyVars, status, cause, closed, begun, ownerVars, holderVars, asleep,
                 histVars>>

\* GameRuntime::stop or a failure, on another thread.
ForceElsewhere ==
  /\ forcePc["forcer"] = "idle" /\ ~stop
  /\ \E reason \in {"StopRequested", "Failure"} : ForceBegins("forcer", reason)
  /\ UNCHANGED <<issued, req, result, policyVars, closed, stop, begun, ownerVars, holderVars,
                 wakeVars, histVars>>

\* The game requests a stop of its tick's stop source, past the controller.
StopSource ==
  /\ ~stop
  /\ stop' = TRUE
  /\ Ping("game")
  /\ UNCHANGED <<reqVars, policyVars, status, cause, closed, begun, ownerVars, forceVars,
                 holderVars, asleep, histVars>>

--------------------
\* The platform owner.

\* process() returns.
EndPass == ownerPc' = "idle" /\ selected' = 0 /\ seen' = 0
GoOn(p) == ownerPc' = p /\ UNCHANGED <<selected, seen>>

OwnerRuns == forcePc["owner"] = "idle" /\ "owner" \notin pinging
OwnerQuiet == <<issued, installed, active, running, holderVars, pinging, histVars>>

Begin ==
  /\ ownerPc = "new"
  /\ begun' = TRUE
  /\ ownerPc' = "idle"
  /\ UNCHANGED <<reqVars, policyVars, status, cause, closed, stop, selected, seen, after, forceVars,
                 holderVars, wakeVars, histVars>>

HasPending == slot # 0 /\ (~req[slot].admitted \/ req[slot].decision # NoResult)

OwnerSleeps ==
  /\ ownerPc = "idle" /\ OwnerRuns /\ ~asleep
  /\ ~stop /\ ~HasPending
  /\ asleep' = TRUE
  /\ UNCHANGED <<reqVars, policyVars, stateVars, ownerVars, forceVars, holderVars, pinging, histVars>>

\* One pass of process() begins.
Process ==
  /\ ownerPc = "idle" /\ OwnerRuns /\ ~asleep
  /\ \/ /\ ~stop /\ ~closed /\ ~Committed /\ slot # 0
        /\ selected' = slot /\ seen' = policy
        /\ ownerPc' = IF req[slot].admitted THEN "decide" ELSE "admit"
        /\ UNCHANGED <<forceVars, status, cause, slot, after>>
     \/ /\ stop
        /\ ForceBegins("owner", "StopRequested")
        /\ ownerPc' = "forced" /\ after' = "idle"
        /\ UNCHANGED <<selected, seen>>
  /\ UNCHANGED <<req, result, policy, closed, stop, begun, asleep, OwnerQuiet>>

OwnerForced ==
  /\ ownerPc = "forced" /\ OwnerRuns
  /\ ownerPc' = after
  /\ UNCHANGED <<reqVars, policyVars, stateVars, selected, seen, after, forceVars, holderVars,
                 wakeVars, histVars>>

AuthorityStands(r) == (req[r].expected = 0 \/ req[r].expected = seen) /\ Enabled(seen)

\* The policy must be the one expected, and the bus accept its listener.
Admit ==
  /\ ownerPc = "admit"
  /\ \/ AuthorityStands(selected) /\ ownerPc' = "register"
     \/ ownerPc' = "reject"
  /\ UNCHANGED <<reqVars, policyVars, stateVars, selected, seen, after, forceVars, holderVars,
                 wakeVars, histVars>>

StillAdmissible ==
  slot = selected /\ ~Committed /\ ~stop /\ policy = seen /\ Enabled(seen)

Register ==
  /\ ownerPc = "register"
  /\ IF StillAdmissible
     THEN /\ req' = [req EXCEPT ![selected].admitted = TRUE, ![selected].generation = seen,
                                ![selected].registered = (seen # 0)]
          /\ status' = "Pending"
          /\ GoOn(IF seen = 0 THEN "decide" ELSE "notify")
     ELSE UNCHANGED <<req, status>> /\ EndPass
  /\ UNCHANGED <<slot, issued, result, policyVars, cause, closed, stop, begun, after, forceVars,
                 holderVars, wakeVars, histVars>>

RejectRequest ==
  /\ ownerPc = "reject"
  /\ IF slot = selected THEN slot' = 0 /\ GoOn("rejecting") ELSE UNCHANGED slot /\ EndPass
  /\ UNCHANGED <<issued, req, result, policyVars, stateVars, after, forceVars, holderVars, wakeVars,
                 histVars>>

FinishRejected ==
  /\ ownerPc = "rejecting"
  /\ Finish(selected, "Rejected", "AdmissionFailed")
  /\ EndPass
  /\ UNCHANGED <<slot, issued, policyVars, stateVars, after, forceVars, holderVars, wakeVars,
                 histVars>>

\* A queued delivery is accepted or rejected by its target at once.
NotifyPolicy ==
  /\ ownerPc = "notify"
  /\ req' = SetJob(selected, IF req[selected].registered THEN "queued" ELSE "discarded")
  /\ ownerPc' = IF delivery[seen] = "queued" THEN "decide" ELSE "callback"
  /\ UNCHANGED <<slot, issued, result, policyVars, stateVars, selected, seen, after, forceVars,
                 holderVars, wakeVars, histVars>>

OwnerCalledBack ==
  /\ ownerPc = "callback" /\ req[selected].job \in {"returned", "discarded"}
  /\ ownerPc' = "decide"
  /\ UNCHANGED <<reqVars, policyVars, stateVars, selected, seen, after, forceVars, holderVars,
                 wakeVars, histVars>>

\* What a pass finds decided: without a policy, acceptance.
Decision ==
  IF req[selected].decision # NoResult THEN req[selected].decision
  ELSE IF req[selected].generation = 0 THEN [disposition |-> "Accepted", cancellation |-> "None"]
  ELSE NoResult

StillPending == slot = selected /\ status = "Pending" /\ ~stop

Conclude ==
  /\ ownerPc = "decide"
  /\ IF StillPending /\ Decision # NoResult
     THEN /\ IF Decision.disposition = "Accepted"
             THEN status' = "Committed" /\ cause' = "AcceptedRequest" /\ GoOn("accept")
             ELSE status' = "Running" /\ UNCHANGED cause /\ GoOn("settle")
          /\ slot' = 0
          /\ req' = [req EXCEPT ![selected].decision = Decision]
     ELSE UNCHANGED <<status, cause, slot, req>> /\ EndPass
  /\ UNCHANGED <<issued, result, policyVars, closed, stop, begun, after, forceVars, holderVars,
                 wakeVars, histVars>>

CommitStop ==
  /\ ownerPc = "accept"
  /\ active' = IF req[selected].generation = 0 THEN active
               ELSE [active EXCEPT ![req[selected].generation] = FALSE]
  /\ stop' = TRUE
  /\ ownerPc' = "settle"
  /\ UNCHANGED <<reqVars, policy, installed, running, status, cause, closed, begun, selected, seen,
                 after, forceVars, holderVars, wakeVars, histVars>>

Settle ==
  /\ ownerPc = "settle"
  /\ Finish(selected, req[selected].decision.disposition, req[selected].decision.cancellation)
  /\ EndPass
  /\ UNCHANGED <<slot, issued, policyVars, stateVars, after, forceVars, holderVars, wakeVars,
                 histVars>>

\* A native close intent: forced, or a request like any other.  The
\* controller is looked at once before either of them looks again.
NativeClose ==
  /\ ownerPc = "idle" /\ OwnerRuns /\ ~asleep
  /\ ~closed /\ ~Committed /\ ~stop
  /\ ownerPc' = IF policy # 0 /\ NativeForce THEN "closeForced" ELSE "closeAsked"
  /\ UNCHANGED <<reqVars, policyVars, stateVars, selected, seen, after, forceVars, holderVars, wakeVars,
                 histVars>>

ForceClose ==
  /\ ownerPc = "closeForced"
  /\ ForceBegins("owner", "WindowClose")
  /\ ownerPc' = "forced" /\ after' = "idle"
  /\ UNCHANGED <<req, result, policy, closed, stop, begun, asleep, selected, seen, OwnerQuiet>>

AskClose ==
  /\ ownerPc = "closeAsked"
  /\ IF ~closed /\ ~Committed /\ ~stop /\ slot = 0 /\ issued < MaxRequests
     THEN /\ issued' = issued + 1 /\ slot' = issued + 1
          /\ req' = [req EXCEPT ![issued + 1].expected = policy]
     ELSE UNCHANGED <<issued, slot, req>>
  /\ ownerPc' = "idle"
  /\ UNCHANGED <<result, policyVars, stateVars, selected, seen, after, forceVars, holderVars,
                 wakeVars, histVars>>

\* The loop sees the stop, or fails: the session ends.
EndSession ==
  /\ ownerPc = "idle" /\ OwnerRuns /\ ~asleep
  /\ stop
  /\ ForceBegins("owner", "StopRequested")
  /\ ownerPc' = "forced" /\ after' = "quiesce"
  /\ UNCHANGED <<req, result, policy, closed, stop, begun, asleep, selected, seen, OwnerQuiet>>

FailSession ==
  /\ ownerPc = "idle" /\ OwnerRuns /\ ~asleep
  /\ ForceBegins("owner", "Failure")
  /\ ownerPc' = "forced" /\ after' = "quiesce"
  /\ UNCHANGED <<req, result, policy, closed, stop, begun, asleep, selected, seen, OwnerQuiet>>

Quiesce ==
  /\ ownerPc = "quiesce"
  /\ status' = IF status = "Committed" THEN "Quiescing" ELSE status
  /\ ownerPc' = "close"
  /\ UNCHANGED <<reqVars, policyVars, cause, closed, stop, begun, selected, seen, after, forceVars,
                 holderVars, wakeVars, histVars>>

Close ==
  /\ ownerPc = "close"
  /\ closed' = TRUE /\ status' = "Stopped"
  /\ selected' = slot /\ slot' = 0
  /\ seen' = policy /\ policy' = 0
  /\ ownerPc' = "closing"
  /\ UNCHANGED <<issued, req, result, installed, active, running, cause, stop, begun, after,
                 forceVars, holderVars, wakeVars, histVars>>

FinishClosed ==
  /\ ownerPc = "closing"
  /\ active' = IF seen = 0 THEN active ELSE [active EXCEPT ![seen] = FALSE]
  /\ Finish(selected, "Rejected", "RuntimeClosed")
  /\ ownerPc' = "closed"
  /\ UNCHANGED <<slot, issued, policy, installed, running, stateVars, selected, seen, after,
                 forceVars, holderVars, wakeVars, histVars>>

--------------------
Pingers == {"owner", "forcer", "holder", "client", "decider", "game"}

\* The wake callback takes the scheduler's mutex and notifies the owner.
Wake(t) ==
  /\ t \in pinging
  /\ pinging' = {}
  /\ asleep' = FALSE
  /\ UNCHANGED <<reqVars, policyVars, stateVars, ownerVars, forceVars, holderVars, histVars>>

OwnerStep ==
  \/ Begin \/ Process \/ OwnerForced \/ Admit \/ Register \/ RejectRequest \/ FinishRejected
  \/ NotifyPolicy \/ OwnerCalledBack \/ Conclude \/ CommitStop \/ Settle
  \/ ForceClose \/ AskClose \/ Quiesce \/ Close \/ FinishClosed

DeliveryStep(r) == EnterListener(r) \/ Invoke(r) \/ CallbackEnds(r) \/ ReportFailure(r)
ForceStep(t) == ForceInvalidates(t) \/ ForceSupersedes(t) \/ ForceStops(t)
HolderStep == Detach \/ Disconnect \/ AwaitIdle

Next ==
  \/ OwnerStep \/ OwnerSleeps \/ NativeClose \/ EndSession \/ FailSession
  \/ \E r \in Requests : DeliveryStep(r) \/ Drop(r) \/ Decide(r)
  \/ \E t \in Forcers : ForceStep(t)
  \/ ForceElsewhere \/ StopSource \/ Request
  \/ Install \/ Reset \/ HolderStep
  \/ \E t \in Pingers : Wake(t)

\* The owner keeps making passes, whatever else its cycle does, until it
\* has seen the stop; deliveries end, and no thread halts inside a call.
\* Nobody has to decide.
Fairness ==
  /\ WF_vars(OwnerStep) /\ SF_vars(Process) /\ SF_vars(EndSession)
  /\ \A r \in Requests : WF_vars(DeliveryStep(r))
  /\ \A t \in Forcers : WF_vars(ForceStep(t))
  /\ WF_vars(HolderStep)
  /\ \A t \in Pingers : WF_vars(Wake(t))

Spec == Init /\ [][Next]_vars
FairSpec == Spec /\ Fairness
--------------------
\* What is required of Shutdown.

Results ==
  [disposition : {"none", "Accepted", "Cancelled", "Superseded", "Rejected"},
   cancellation : {"None", "HostRejected", "PolicyDetached", "PolicyFailed", "AdmissionFailed",
                   "RuntimeClosed"}]
Slots == [expected : 0..MaxPolicies, generation : 0..MaxPolicies, admitted : BOOLEAN,
          decision : Results, registered : BOOLEAN,
          job : {"none", "queued", "entering", "running", "failing", "returned", "discarded"}]
OwnerStates == {"new", "idle", "forced", "admit", "register", "reject", "rejecting", "notify",
                "callback", "decide", "accept", "settle", "closeForced", "closeAsked", "quiesce",
                "close", "closing", "closed"}

\* Every variable stays in its range.
TypeOK ==
  /\ slot \in 0..MaxRequests /\ issued \in 0..MaxRequests
  /\ req \in [Requests -> Slots] /\ result \in [Requests -> Results]
  /\ policy \in 0..MaxPolicies /\ installed \in 0..MaxPolicies
  /\ active \in [Generations -> BOOLEAN] /\ running \in [Generations -> 0..MaxRequests]
  /\ status \in {"Running", "Pending", "Committed", "Quiescing", "Stopped"}
  /\ cause \in {"None", "AcceptedRequest", "StopRequested", "Failure", "WindowClose"}
  /\ closed \in BOOLEAN /\ stop \in BOOLEAN /\ begun \in BOOLEAN /\ asleep \in BOOLEAN
  /\ ownerPc \in OwnerStates /\ selected \in 0..MaxRequests /\ seen \in 0..MaxPolicies
  /\ after \in {"none", "idle", "quiesce"}
  /\ forcePc \in [Forcers -> {"idle", "invalidate", "supersede", "stop"}]
  /\ authority \in [Forcers -> 0..MaxPolicies] /\ retired \in [Forcers -> 0..MaxRequests]
  /\ holderPc \in {"idle", "detach", "disconnect", "wait"} /\ held \in 0..MaxPolicies
  /\ delivery \in [Generations -> {"immediate", "queued"}]
  /\ selves \subseteq Generations /\ pinging \subseteq Pingers
  /\ agreed \subseteq Requests /\ withdrawn \subseteq Requests

Accepted(r) == result[r].disposition = "Accepted"
Settled(r) == result[r] # NoResult

\* The session is Pending exactly while an admitted request is unresolved,
\* though status and slot are also written by forced stops on any thread.
PendingIsAdmitted == status = "Pending" <=> slot # 0 /\ req[slot].admitted

\* A request is accepted by its own policy and by nobody else: a
\* ShutdownDecision kept from an earlier request decides nothing about a
\* later one, a request made under a policy is not accepted for want of one
\* when the policy goes before the owner has admitted it, and a policy that
\* leaves takes back what it has decided and the owner has not yet read.
AcceptedByPolicy ==
  \A r \in Requests : Accepted(r) =>
      /\ req[r].generation = 0 \/ r \in agreed
      /\ req[r].expected # 0 => req[r].generation = req[r].expected
      /\ r \notin withdrawn

\* The recorded cause and the session's status say how it ends, however
\* forced stops and the owner's commitment meet, and at most one request
\* ends it.
CauseIsTrue ==
  /\ \A r, q \in Requests : Accepted(r) /\ Accepted(q) => r = q
  /\ (\E r \in Requests : Accepted(r)) => cause = "AcceptedRequest"
  /\ cause # "None" => status \in {"Committed", "Quiescing", "Stopped"}

NeverRevised ==
  /\ \A r \in Requests : Settled(r) => result'[r] = result[r]
  /\ cause # "None" => cause' = cause

\* A session has one outcome and so has each ticket, whoever takes its slot
\* away: the owner, a forced stop or the end of the session.  Neither is
\* ever revised.
OneOutcome ==
  /\ [](TypeOK /\ PendingIsAdmitted /\ CauseIsTrue)
  /\ [][NeverRevised]_vars

\* Once reset has returned, the policy's callback is not running and never
\* will be, except the invocation that itself called reset.
CallbacksAcknowledged ==
  \A r \in Requests :
      req[r].job = "running" => req[r].generation = held \/ req[r].generation \in selves

\* What is done in a policy's name is the policy's: only it accepts, while
\* it is there, and none of it is left running once it is gone.
PolicyHasItsSay == AcceptedByPolicy /\ CallbacksAcknowledged

\* A staged request is admitted, refused or superseded, and a decided one
\* is settled, though the owner may be asleep when it is; neither needs
\* anything from the policy.  A delivery that never reaches the policy does
\* not leave its request pending either: its loss, or the withdrawal that
\* discards it, decides it.
TicketsProgress ==
  \A r \in Requests :
      /\ (slot = r /\ ~req[r].admitted) ~> (req[r].admitted \/ Settled(r))
      /\ (slot = r /\ req[r].decision # NoResult) ~> Settled(r)
      /\ (req[r].job = "discarded") ~> Settled(r)

\* A stop, however it came, settles every ticket, decided or not.
StopSettlesTickets == \A r \in Requests : (stop /\ r <= issued) ~> Settled(r)

\* No ticket is left open: neither while the session runs nor at its end.
TicketsSettle == TicketsProgress /\ StopSettlesTickets
====================
