---- MODULE Objects ----
\* Lifetimes of objects in storage that a pool lends: the tracker of slots
\* that constructs and destroys for several threads, a batch of objects
\* that a factory makes in one allocation, and a reservation whose slots
\* are claimed one by one.  Constructors and destructors are user code:
\* they run outside of every lock and may throw.  An address is a slot.
EXTENDS Integers, Sequences, FiniteSets, SequencesExt

CONSTANTS SlotCount,    \* slots that the pool has
          Builders,     \* threads that use the tracker
          MaxThrows,    \* bound: how often user code throws
          MaxReserved   \* bound: how often storage is reserved or a batch made
ASSUME SlotAssumption == SlotCount \in Nat

VARIABLES
    use,        \* what this storage serves: "tracked", "made" or "reserved"
    slotPhase,      \* Context::slots_: by slot its phase, "unknown" when it has no entry
    object,     \* history: how many objects live at a slot
    building,   \* by builder: the slot it works on, and those that follow
    vacant,       \* slots the pool may lend
    made,       \* Factory::create(): the batch and its handles
    reserved,   \* Reservation
    claims,     \* handles that emplace() gave out
    throws, uses

objectVars == <<use, slotPhase, object, building, vacant, made, reserved, claims, throws, uses>>

SlotIds == 0..(SlotCount - 1)
NoBuilding == [at |-> "idle", slot |-> 0, last |-> 0, by |-> "none"]
NoneMade == [at |-> "none", first |-> 0, count |-> 0, handles |-> {}, dying |-> {}]
NoReservation == [at |-> "none", base |-> 0, count |-> 0, remaining |-> <<>>, index |-> 0]

ObjectsInit ==
  /\ use \in {"tracked", "made", "reserved"}
  /\ slotPhase = [s \in SlotIds |-> "unknown"] /\ object = [s \in SlotIds |-> 0]
  /\ building = [b \in Builders |-> NoBuilding]
  /\ vacant = SlotIds /\ made = NoneMade /\ reserved = NoReservation /\ claims = {}
  /\ throws = 0 /\ uses = 0

\* External: user code may throw, as often as the bound allows.
MayThrow == throws < MaxThrows /\ throws' = throws + 1
Run(first, count) == first..(first + count - 1)
--------------------
\* Constructor::Context.  A claim, a finish and an erase are each one locked
\* section; between them the slot is busy and everyone else is refused.
Busy(s) == slotPhase[s] \in {"constructing", "destroying"}

\* Mutant: a slot whose object is being destroyed is not seen as busy.
ClaimedIgnoring(b, s, last, by) ==
  IF slotPhase[s] = "constructing" THEN building' = [building EXCEPT ![b] = NoBuilding] /\ UNCHANGED slotPhase
  ELSE LET old == slotPhase[s] \in {"live", "destroying"} IN
       IF by = "destroy" /\ ~old THEN
            /\ building' = [building EXCEPT ![b] = IF s = last THEN NoBuilding ELSE [building[b] EXCEPT !.slot = s + 1]]
            /\ UNCHANGED slotPhase
       ELSE /\ slotPhase' = [slotPhase EXCEPT ![s] = IF old THEN "destroying" ELSE "constructing"]
            /\ building' = [building EXCEPT ![b].at = IF old THEN "destroying" ELSE "constructing"]

\* claim(): of a busy slot throws; destroying what is not alive does nothing.
Claimed(b, s, last, by) ==
  IF Busy(s) THEN building' = [building EXCEPT ![b] = NoBuilding] /\ UNCHANGED slotPhase
  ELSE IF by = "destroy" /\ slotPhase[s] # "live" THEN
       /\ building' = [building EXCEPT ![b] = IF s = last THEN NoBuilding ELSE [building[b] EXCEPT !.slot = s + 1]]
       /\ UNCHANGED slotPhase
  ELSE /\ slotPhase' = [slotPhase EXCEPT ![s] = IF @ = "live" THEN "destroying" ELSE "constructing"]
       /\ building' = [building EXCEPT ![b].at = IF slotPhase[s] = "live" THEN "destroying" ELSE "constructing"]

Ranges == {r \in SlotIds \X SlotIds : r[1] <= r[2]}
Begin(b, by, r) ==
  /\ use = "tracked" /\ building[b] = NoBuilding
  /\ building' = [building EXCEPT ![b] = [at |-> "claim", slot |-> r[1], last |-> r[2], by |-> by]]
  /\ UNCHANGED <<use, slotPhase, object, vacant, made, reserved, claims, throws, uses>>
Claim(b) ==
  /\ building[b].at = "claim"
  /\ Claimed(b, building[b].slot, building[b].last, building[b].by)
  /\ UNCHANGED <<use, object, vacant, made, reserved, claims, throws, uses>>

\* destroy_at() of what is replaced or destroyed, its finish() after it; when
\* it throws the slot is raw and the call over, with what it did before.
DestroyOne(b) ==
  /\ building[b].at = "destroying" /\ object' = [object EXCEPT ![building[b].slot] = @ - 1]
  /\ \/ building' = [building EXCEPT ![b].at = "destroyed"] /\ UNCHANGED throws
     \/ building' = [building EXCEPT ![b].at = "failed"] /\ MayThrow
  /\ UNCHANGED <<use, slotPhase, vacant, made, reserved, claims, uses>>
ConstructOne(b) ==
  /\ building[b].at = "constructing"
  /\ \/ /\ object' = [object EXCEPT ![building[b].slot] = @ + 1]
        /\ building' = [building EXCEPT ![b].at = "constructed"] /\ UNCHANGED throws
     \/ building' = [building EXCEPT ![b].at = "failed"] /\ MayThrow /\ UNCHANGED object
  /\ UNCHANGED <<use, slotPhase, vacant, made, reserved, claims, uses>>
Next1(w) == IF w.slot = w.last THEN NoBuilding ELSE [w EXCEPT !.at = "claim", !.slot = @ + 1]
FinishOne(b) ==
  LET w == building[b] IN
  /\ \/ /\ w.at = "destroyed" /\ w.by = "construct"
        /\ slotPhase' = [slotPhase EXCEPT ![w.slot] = "constructing"]
        /\ building' = [building EXCEPT ![b].at = "constructing"]
     \/ /\ w.at = "destroyed" /\ w.by = "destroy"
        /\ slotPhase' = [slotPhase EXCEPT ![w.slot] = "raw"] /\ building' = [building EXCEPT ![b] = Next1(w)]
     \/ /\ w.at = "constructed"
        /\ slotPhase' = [slotPhase EXCEPT ![w.slot] = "live"] /\ building' = [building EXCEPT ![b] = Next1(w)]
     \/ /\ w.at = "failed"
        /\ slotPhase' = [slotPhase EXCEPT ![w.slot] = "raw"] /\ building' = [building EXCEPT ![b] = NoBuilding]
  /\ UNCHANGED <<use, object, vacant, made, reserved, claims, throws, uses>>

\* erase(): all of a range that is inactive, or nothing.
Erase(r) ==
  /\ use = "tracked" /\ \A s \in r[1]..r[2] : slotPhase[s] \in {"unknown", "raw"}
  /\ slotPhase' = [s \in SlotIds |-> IF s \in r[1]..r[2] THEN "unknown" ELSE slotPhase[s]]
  /\ UNCHANGED <<use, object, building, vacant, made, reserved, claims, throws, uses>>
--------------------
\* Factory::create(): every handle keeps the one allocation; a failure drops
\* the handles made so far, each with its object, and the storage goes last.
MakeBatch(first, count) ==
  /\ use = "made" /\ made.at = "none" /\ uses < MaxReserved /\ Run(first, count) \subseteq vacant
  /\ vacant' = vacant \ Run(first, count) /\ uses' = uses + 1
  /\ made' = [NoneMade EXCEPT !.at = "making", !.first = first, !.count = count]
  /\ UNCHANGED <<use, slotPhase, object, building, reserved, claims, throws>>
MakeOne ==
  LET s == made.first + Cardinality(made.handles) IN
  /\ made.at = "making"
  /\ \/ /\ object' = [object EXCEPT ![s] = @ + 1]
        /\ made' = [made EXCEPT !.handles = @ \cup {s}, !.at = IF Cardinality(made.handles) + 1 = made.count THEN "lent" ELSE @]
        /\ UNCHANGED throws
     \/ /\ MayThrow /\ made' = [made EXCEPT !.at = "lent", !.dying = made.handles] /\ UNCHANGED object
  /\ UNCHANGED <<use, slotPhase, building, vacant, reserved, claims, uses>>
DropHandle(s) ==
  /\ made.at = "lent" /\ s \in made.handles \ made.dying
  /\ made' = [made EXCEPT !.dying = @ \cup {s}]
  /\ UNCHANGED <<use, slotPhase, object, building, vacant, reserved, claims, throws, uses>>
DestroyHandle(s) ==
  /\ made.at = "lent" /\ s \in made.dying
  /\ object' = [object EXCEPT ![s] = @ - 1]
  /\ made' = [made EXCEPT !.handles = @ \ {s}, !.dying = @ \ {s}]
  /\ UNCHANGED <<use, slotPhase, building, vacant, reserved, claims, throws, uses>>
Deallocate ==
  /\ made.at = "lent" /\ made.handles = {}
  /\ vacant' = vacant \cup Run(made.first, made.count) /\ made' = NoneMade
  /\ UNCHANGED <<use, slotPhase, object, building, reserved, claims, throws, uses>>
--------------------
\* Reservation: a block, of which what was not claimed is kept as ranges.
Unclaimed(first, length) == [first |-> first, length |-> length]
Reserve(first, count) ==
  /\ use = "reserved" /\ reserved.at = "none" /\ uses < MaxReserved /\ Run(first, count) \subseteq vacant
  /\ vacant' = vacant \ Run(first, count) /\ uses' = uses + 1
  /\ reserved' = [NoReservation EXCEPT !.at = "idle", !.base = first, !.count = count,
                                       !.remaining = IF count = 0 THEN <<>> ELSE <<Unclaimed(first, count)>>]
  /\ UNCHANGED <<use, slotPhase, object, building, made, claims, throws>>

\* emplace(): an index that is out of range or claimed already is refused.
HoldsAt(remaining, s) == {i \in DOMAIN remaining : s \in Run(remaining[i].first, remaining[i].length)}
Emplace(index) ==
  /\ reserved.at = "idle" /\ index < reserved.count
  /\ HoldsAt(reserved.remaining, reserved.base + index) # {}
  /\ reserved' = [reserved EXCEPT !.at = "emplacing", !.index = index]
  /\ UNCHANGED <<use, slotPhase, object, building, vacant, made, claims, throws, uses>>

\* Mutant: what follows the slot is forgotten when something precedes it.
WithoutForgetting(remaining, i, s) ==
  LET before == Unclaimed(remaining[i].first, s - remaining[i].first)
      after == Unclaimed(s + 1, remaining[i].length - before.length - 1)
  IN IF before.length > 0 THEN [remaining EXCEPT ![i] = before]
     ELSE IF after.length > 0 THEN [remaining EXCEPT ![i] = after] ELSE RemoveAt(remaining, i)

\* The commit: the slot leaves the ranges, which keep what is beside it.
Without(remaining, i, s) ==
  LET before == Unclaimed(remaining[i].first, s - remaining[i].first)
      after == Unclaimed(s + 1, remaining[i].length - before.length - 1)
      some(r) == IF r.length > 0 THEN <<r>> ELSE <<>>
  IN SubSeq(remaining, 1, i - 1) \o (some(before) \o some(after)) \o SubSeq(remaining, i + 1, Len(remaining))
EmplaceEnds ==
  LET s == reserved.base + reserved.index IN
  /\ reserved.at = "emplacing"
  /\ \/ /\ object' = [object EXCEPT ![s] = @ + 1] /\ claims' = claims \cup {s}
        /\ \E i \in HoldsAt(reserved.remaining, s) :
             reserved' = [reserved EXCEPT !.at = "idle", !.remaining = Without(@, i, s)]
        /\ UNCHANGED throws
     \/ MayThrow /\ reserved' = [reserved EXCEPT !.at = "idle"] /\ UNCHANGED <<object, claims>>
  /\ UNCHANGED <<use, slotPhase, building, vacant, made, uses>>

\* ~Claimed() by the last owner of a handle, on whatever thread that is.
ReleaseClaim(s) ==
  /\ s \in claims /\ claims' = claims \ {s}
  /\ object' = [object EXCEPT ![s] = @ - 1] /\ vacant' = vacant \cup {s}
  /\ UNCHANGED <<use, slotPhase, building, made, reserved, throws, uses>>
ReleaseReservation ==
  /\ reserved.at = "idle" /\ reserved' = NoReservation
  /\ vacant' = vacant \cup UNION {Run(r.first, r.length) : r \in ToSet(reserved.remaining)}
  /\ UNCHANGED <<use, slotPhase, object, building, made, claims, throws, uses>>

ObjectsNext ==
  \/ \E b \in Builders :
       \/ \E by \in {"construct", "destroy"}, r \in Ranges : Begin(b, by, r)
       \/ Claim(b) \/ DestroyOne(b) \/ ConstructOne(b) \/ FinishOne(b)
  \/ \E r \in Ranges : Erase(r)
  \/ \E first \in SlotIds, count \in 0..SlotCount : (count > 0 /\ MakeBatch(first, count)) \/ Reserve(first, count)
  \/ MakeOne \/ Deallocate \/ EmplaceEnds \/ ReleaseReservation
  \/ \E s \in SlotIds : DropHandle(s) \/ DestroyHandle(s) \/ Emplace(s) \/ ReleaseClaim(s)
--------------------
\* What a builder that works on a slot implies for the slot.
WorksOn(b, s) == building[b].slot = s /\ building[b].at \notin {"idle", "claim"}

\* At no address do two objects ever live, nor is one destroyed that does
\* not: a slot has at most one builder, its phase is what that builder is
\* doing, and a slot nobody works on is alive when its phase says so.
TrackedAsAlive ==
  /\ \A s \in SlotIds : object[s] \in {0, 1}
  /\ \A s \in SlotIds : Cardinality({b \in Builders : WorksOn(b, s)}) = IF Busy(s) THEN 1 ELSE 0
  /\ use = "tracked" => \A s \in SlotIds : ~Busy(s) => ((object[s] = 1) <=> (slotPhase[s] = "live"))

\* The pool may lend a slot when nobody else may still use it, and at once
\* then: it is in a batch, in a range of the reservation that was not
\* claimed, or held by exactly one handle; ranges keep their order.
LentOnce ==
  LET ranges == reserved.remaining
      unclaimed == UNION {Run(r.first, r.length) : r \in ToSet(ranges)}
  IN /\ use = "made" => vacant = SlotIds \ Run(made.first, made.count)
     /\ use = "reserved" => /\ vacant = (SlotIds \ unclaimed) \ claims
                            /\ unclaimed \cap claims = {}
                            /\ \A s \in SlotIds : (object[s] = 1) <=> s \in claims
     /\ \A i, j \in DOMAIN ranges : i < j => ranges[i].first + ranges[i].length < ranges[j].first + 1
     /\ \A i \in DOMAIN ranges : ranges[i].length > 0
     /\ \A s \in vacant : use # "tracked" => object[s] = 0

\* The tracker, a batch and a reservation agree with the objects there are.
ObjectsLiveOnce == TrackedAsAlive /\ LentOnce

--------------------
\* ---- Two templates that threads share values with: a singleton, which is
\* constructed once whoever asks first, and a versioned variable, whose
\* waiters sleep until it changes and whose observers are told of any set.
CONSTANTS Sharers,      \* threads
          Values,       \* of the variable
          Observers,    \* the number of its observers
          MaxSets,      \* bound: changes of the variable
          MaxFailures   \* bound: constructors and observers that throw

VARIABLES
    template,   \* which of the two this is about
    flag,       \* Storage::construct_flag: "unused", "running" or "done"
    present,  \* Storage::published
    versioned,  \* VersionedVariable: value and revision
    caller,     \* by thread the call it is in
    answers,    \* history: the last answer of a singleton, and how many said that they constructed it
    thrown,   \* history: how much user code threw
    sets        \* history: the values stored, by revision

sharedVars == <<template, flag, present, versioned, caller, answers, thrown, sets>>

NoCaller == [at |-> "idle"]
SharedInit ==
  /\ template \in {"singleton", "variable"}
  /\ flag = "unused" /\ present = FALSE
  /\ versioned \in [value : Values, revision : {0}] /\ sets = <<versioned.value>>
  /\ caller = [c \in Sharers |-> NoCaller] /\ thrown = 0
  /\ answers = [won |-> 0, last |-> <<>>]

\* External: a constructor or an observer throws.
UserThrows == thrown < MaxFailures /\ thrown' = thrown + 1
--------------------
\* Singleton.  A call that cannot construct the type only looks.
AskSingleton(c, by) ==
  /\ template = "singleton" /\ caller[c] = NoCaller
  /\ caller' = [caller EXCEPT ![c] = [at |-> IF by = "look" THEN "look" ELSE "construct", by |-> by, won |-> FALSE]]
  /\ UNCHANGED <<template, flag, present, versioned, answers, thrown, sets>>

\* Mutant: whoever finds nothing published constructs.
EntersUnpublished == IF present THEN "look" ELSE "make"

\* call_once(): others wait while one constructs, and try when that failed.
Enters == IF flag = "done" THEN "look" ELSE IF flag = "running" THEN "construct" ELSE "make"
EnterOnce(c) ==
  /\ template = "singleton" /\ caller[c].at = "construct" /\ Enters # "construct"
  /\ caller' = [caller EXCEPT ![c].at = Enters]
  /\ flag' = IF Enters = "make" THEN "running" ELSE flag
  /\ UNCHANGED <<template, present, versioned, answers, thrown, sets>>
ConstructValue(c) ==
  /\ template = "singleton" /\ caller[c].at = "make"
  /\ \/ caller' = [caller EXCEPT ![c].at = "made"] /\ UNCHANGED <<flag, thrown>>
     \/ UserThrows /\ flag' = "unused" /\ caller' = [caller EXCEPT ![c] = NoCaller]
  /\ UNCHANGED <<template, present, versioned, answers, sets>>
PublishValue(c) ==
  /\ template = "singleton" /\ caller[c].at = "made" /\ present' = TRUE
  /\ caller' = [caller EXCEPT ![c].at = "published"]
  /\ UNCHANGED <<template, flag, versioned, answers, thrown, sets>>
LeaveOnce(c) ==
  /\ template = "singleton" /\ caller[c].at = "published"
  /\ flag' = "done" /\ caller' = [caller EXCEPT ![c].at = "look", ![c].won = TRUE]
  /\ UNCHANGED <<template, present, versioned, answers, thrown, sets>>

\* initialize() is for the one who constructed; get() takes what there is.
Answer(c) ==
  /\ template = "singleton" /\ caller[c].at = "look"
  /\ LET refused == IF caller[c].by = "initialize" THEN ~caller[c].won ELSE ~present IN
     answers' = [won |-> IF caller[c].won THEN answers.won + 1 ELSE answers.won,
                 last |-> <<caller[c].by, IF refused THEN "refused" ELSE IF present THEN "found" ELSE "nothing">>]
  /\ caller' = [caller EXCEPT ![c] = NoCaller]
  /\ UNCHANGED <<template, flag, present, versioned, thrown, sets>>
--------------------
\* VersionedVariable::set(): an equal value is no change; ObservedVariable
\* calls its observers, one after the other, in any case.
Set(c, new) ==
  LET change == new # versioned.value IN
  /\ template = "variable" /\ caller[c] = NoCaller /\ (change => Len(sets) <= MaxSets)
  /\ caller' = [caller EXCEPT ![c] = [at |-> IF change THEN "notify" ELSE "observe", told |-> 0]]
  /\ versioned' = [value |-> new, revision |-> versioned.revision + IF change THEN 1 ELSE 0]
  /\ sets' = IF change THEN Append(sets, new) ELSE sets
  /\ UNCHANGED <<template, flag, present, answers, thrown>>

\* Mutant: one of the waiters is woken.
WokenFirst == {CHOOSE c \in Sharers : caller[c].at = "asleep" \/ \A d \in Sharers : caller[d].at # "asleep"}

Woken == {c \in Sharers : caller[c].at = "asleep"}
NotifyAll(c) ==
  /\ template = "variable" /\ caller[c].at = "notify"
  /\ caller' = [d \in Sharers |-> IF d = c THEN [caller[c] EXCEPT !.at = "observe"]
                                  ELSE IF d \in Woken /\ caller[d].at = "asleep" THEN [caller[d] EXCEPT !.at = "awake"] ELSE caller[d]]
  /\ UNCHANGED <<template, flag, present, versioned, answers, thrown, sets>>
Observe(c) ==
  /\ template = "variable" /\ caller[c].at = "observe"
  /\ \/ /\ caller' = [caller EXCEPT ![c] = IF @.told + 1 < Observers THEN [at |-> "observe", told |-> @.told + 1] ELSE NoCaller]
        /\ UNCHANGED thrown
     \/ UserThrows /\ caller' = [caller EXCEPT ![c] = NoCaller]
  /\ UNCHANGED <<template, flag, present, versioned, answers, sets>>

\* wait_for_change(): since a revision read now, or kept from earlier on;
\* the predicate and falling asleep are one, as set() holds the same mutex.
WaitForChange(c, since) ==
  /\ template = "variable" /\ caller[c] = NoCaller
  /\ caller' = [caller EXCEPT ![c] = [at |-> "awake", since |-> since]]
  /\ UNCHANGED <<template, flag, present, versioned, answers, thrown, sets>>
Look(c) ==
  /\ template = "variable" /\ caller[c].at = "awake"
  /\ caller' = [caller EXCEPT ![c] = IF versioned.revision # @.since THEN [at |-> "got", since |-> @.since, got |-> versioned]
                                     ELSE [at |-> "asleep", since |-> @.since]]
  /\ UNCHANGED <<template, flag, present, versioned, answers, thrown, sets>>
TakeChange(c) ==
  /\ template = "variable" /\ caller[c].at = "got" /\ caller' = [caller EXCEPT ![c] = NoCaller]
  /\ UNCHANGED <<template, flag, present, versioned, answers, thrown, sets>>

SharedNext ==
  \E c \in Sharers :
    \/ \E by \in {"initialize", "get", "look"} : AskSingleton(c, by)
    \/ EnterOnce(c) \/ ConstructValue(c) \/ PublishValue(c) \/ LeaveOnce(c) \/ Answer(c)
    \/ \E new \in Values : Set(c, new)
    \/ NotifyAll(c) \/ Observe(c) \/ Look(c) \/ TakeChange(c)
    \/ \E since \in 0..versioned.revision : WaitForChange(c, since)
--------------------
\* One object at most is published, whoever asks while another constructs or
\* after a constructor threw: only one thread is ever inside, one call says
\* that it constructed it, and nobody was given what was not there.
ConstructedOnce ==
  /\ Cardinality({c \in Sharers : caller[c].at \in {"make", "made", "published"}}) <= 1
  /\ answers.won <= 1
  /\ answers.last # <<>> => answers.last[2] # "nothing" /\ answers.last # <<"get", "refused">>

\* Nobody sleeps through a change: while a waiter sleeps although the
\* revision moved on, the one who moved it has yet to notify; and what a
\* waiter is given is a value with the revision it was stored at.
NoChangeMissed ==
  \A c \in Sharers :
    /\ caller[c].at = "asleep" /\ caller[c].since # versioned.revision => \E d \in Sharers : caller[d].at = "notify"
    /\ caller[c].at = "got" => /\ caller[c].got.value = sets[caller[c].got.revision + 1]
                               /\ caller[c].got.revision > caller[c].since

\* What threads share through the templates is one thing to all of them.
SharedAsOne == ConstructedOnce /\ NoChangeMissed
====================
