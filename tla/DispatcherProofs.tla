---- MODULE DispatcherProofs ----
\* The mailbox's accounting and its wakeup, for any number of requests and
\* producers and for both ways of binding and waking the owner; and what
\* is proved by induction over the steps of a fold: the one outcome of
\* each playback, and the newest text with the fonts it is drawn in.
EXTENDS Dispatcher, Audio, TextLayout, WellFoundedInduction, SequenceTheorems, FiniteSetTheorems, TLAPS

\* running counts the batch from its detachment to the end of its callbacks
BatchCounted ==
  /\ pc = "callbacks" => running = Len(batch) /\ next <= Len(batch) + 1
  /\ pc # "callbacks" => running = 0

\* the wait holds the scheduler's mutex from its predicate until it blocks
WaitHoldsLock == locked <=> pc = "blocking"

IInv == TypeOK /\ Accounting /\ NoLostWakeup /\ BatchCounted /\ WaitHoldsLock

LEMMA EmptySequence == <<>> \in Seq(Requests) /\ Len(<<>>) = 0
OBVIOUS

LEMMA InitHolds == Init => IInv
<1> SUFFICES ASSUME Init PROVE IInv OBVIOUS
<1>1. TypeOK
 <2>0. kind \in {"platform", "simulation"} BY DEF Init
 <2>1. /\ pending \in Seq(Requests) /\ batch \in Seq(Requests) /\ line \in Seq(Requests) BY EmptySequence DEF Init
 <2>2. /\ opened \in BOOLEAN /\ accepting \in BOOLEAN /\ bound \in BOOLEAN
       /\ draining \in BOOLEAN /\ locked \in BOOLEAN
   BY DEF Init
 <2>3. /\ accepted \in Nat /\ completed \in Nat /\ cancelled \in Nat /\ running \in Nat
       /\ next \in Nat \ {0} /\ waking \subseteq Threads
   BY DEF Init
 <2>4. pc = "unopened" /\ future \in [Requests -> {"none", "value", "exception", "broken"}] BY DEF Init
 <2> QED BY <2>0, <2>1, <2>2, <2>3, <2>4 DEF TypeOK
<1>2. Accounting /\ NoLostWakeup /\ BatchCounted /\ WaitHoldsLock
  BY EmptySequence DEF Init, Accounting, NoLostWakeup, BatchCounted, WaitHoldsLock
<1> QED BY <1>1, <1>2 DEF IInv

LEMMA PostPreserves ==
  ASSUME IInv, NEW t \in Threads, NEW r \in Requests, Post(t, r)
  PROVE  IInv'
<1>1. /\ pending' \in Seq(Requests) /\ Len(pending') = Len(pending) + 1
      /\ line' \in Seq(Requests) /\ Len(line') = Len(line) + 1
  BY DEF IInv, TypeOK, Post, Enqueue
<1>2. TypeOK' BY <1>1 DEF IInv, TypeOK, Post, Enqueue, flagVars
<1>3. Accounting'
 <2>1. /\ accepted' = accepted + 1
       /\ UNCHANGED <<running, completed, cancelled>>
   BY DEF Post, Enqueue
 <2>2. Len(pending) \in Nat /\ Len(line) \in Nat BY DEF IInv, TypeOK
 <2> QED BY <1>1, <2>1, <2>2 DEF IInv, TypeOK, Accounting
<1>4. NoLostWakeup' BY DEF Post, NoLostWakeup
<1>5. BatchCounted' /\ WaitHoldsLock' BY DEF IInv, Post, BatchCounted, WaitHoldsLock
<1> QED BY <1>2, <1>3, <1>4, <1>5 DEF IInv

LEMMA WakePreserves ==
  ASSUME IInv, NEW t \in Threads, Wake(t)
  PROVE  IInv'
<1>1. TypeOK' BY DEF IInv, TypeOK, Wake, flagVars, countVars
<1>2. Accounting' BY DEF IInv, Accounting, Wake, countVars
<1>3. NoLostWakeup' BY DEF IInv, NoLostWakeup, WaitHoldsLock, Wake
<1>4. BatchCounted' /\ WaitHoldsLock' BY DEF IInv, BatchCounted, WaitHoldsLock, Wake
<1> QED BY <1>1, <1>2, <1>3, <1>4 DEF IInv

LEMMA SessionPreserves ==
  ASSUME IInv, Open \/ BindOwner
  PROVE  IInv'
<1>1. TypeOK'
 <2>1. /\ kind' = kind
       /\ opened' \in BOOLEAN /\ accepting' \in BOOLEAN /\ bound' \in BOOLEAN
       /\ pc' \in {"unbound", "idle"}
   BY DEF IInv, TypeOK, Open, BindOwner, BindsOnOpen
 <2>2. UNCHANGED <<draining, pending, countVars, running, batch, next, waitVars, future, line>> BY DEF Open, BindOwner
 <2> QED BY <2>1, <2>2 DEF IInv, TypeOK, countVars, waitVars
<1>2. Accounting' BY DEF IInv, Accounting, Open, BindOwner, countVars
<1>3. NoLostWakeup' /\ BatchCounted' /\ WaitHoldsLock'
  BY DEF IInv, NoLostWakeup, BatchCounted, WaitHoldsLock, Open, BindOwner, waitVars
<1> QED BY <1>1, <1>2, <1>3 DEF IInv

LEMMA DrainPreserves ==
  ASSUME IInv, Drain
  PROVE  IInv'
<1>1. Len(pending) \in Nat /\ running = 0 /\ Len(<<>>) = 0 BY EmptySequence DEF IInv, TypeOK, Drain, BatchCounted
<1>2. TypeOK' BY <1>1, EmptySequence DEF IInv, TypeOK, Drain, flagVars, countVars, waitVars
<1>3. Accounting'
 <2>1. /\ Len(pending') = 0 /\ running' = Len(pending)
       /\ UNCHANGED <<accepted, completed, cancelled, line>>
   BY <1>1 DEF Drain, countVars
 <2> QED BY <1>1, <2>1 DEF IInv, TypeOK, Accounting
<1>4. NoLostWakeup' /\ WaitHoldsLock' BY DEF IInv, NoLostWakeup, WaitHoldsLock, Drain, waitVars
<1>5. BatchCounted' BY <1>1 DEF BatchCounted, Drain
<1> QED BY <1>2, <1>3, <1>4, <1>5 DEF IInv

LEMMA BatchPreserves ==
  ASSUME IInv, RunRequest \/ FinishDrain \/ ReleaseBatch
  PROVE  IInv'
<1>1. CASE RunRequest
 <2>1. next <= Len(batch) /\ Len(batch) \in Nat /\ next \in Nat BY <1>1 DEF IInv, TypeOK, RunRequest
 <2>2. batch[next] \in Requests BY <2>1 DEF IInv, TypeOK
 <2>3. TypeOK' BY <1>1, <2>1, <2>2 DEF IInv, TypeOK, RunRequest, flagVars, countVars, waitVars
 <2>4. Accounting' /\ NoLostWakeup' /\ BatchCounted' /\ WaitHoldsLock'
   BY <1>1, <2>1 DEF IInv, Accounting, NoLostWakeup, BatchCounted, WaitHoldsLock, RunRequest, countVars, waitVars
 <2> QED BY <2>3, <2>4 DEF IInv
<1>2. CASE FinishDrain
 <2>1. running = next - 1 /\ next \in Nat /\ Len(batch) \in Nat BY <1>2 DEF IInv, TypeOK, BatchCounted, FinishDrain
 <2>2. TypeOK'
  <3>1. completed' = completed + running /\ running' = 0 BY <1>2, <2>1 DEF FinishDrain, CountBatch, IInv, TypeOK
  <3>2. completed' \in Nat /\ running' \in Nat BY <3>1 DEF IInv, TypeOK
  <3>3. draining' \in BOOLEAN /\ pc' = "release" BY <1>2 DEF FinishDrain
  <3>4. UNCHANGED <<kind, opened, accepting, bound, pending, accepted, cancelled, batch, next,
                    waking, locked, future, line>>
    BY <1>2 DEF FinishDrain, flagVars, waitVars
  <3> QED BY <3>2, <3>3, <3>4 DEF IInv, TypeOK
 <2>3. Accounting'
  <3>1. /\ completed' = completed + running /\ running' = 0
        /\ UNCHANGED <<accepted, pending, cancelled, line>>
    BY <1>2, <2>1 DEF FinishDrain, CountBatch
  <3>2. Len(pending) \in Nat BY DEF IInv, TypeOK
  <3> QED BY <3>1, <3>2 DEF IInv, TypeOK, Accounting
 <2>4. NoLostWakeup' /\ BatchCounted' /\ WaitHoldsLock'
   BY <1>2 DEF IInv, NoLostWakeup, BatchCounted, WaitHoldsLock, FinishDrain, CountBatch, waitVars
 <2> QED BY <2>2, <2>3, <2>4 DEF IInv
<1>3. CASE ReleaseBatch
 <2>1. TypeOK' BY <1>3, EmptySequence DEF IInv, TypeOK, ReleaseBatch, flagVars, countVars, waitVars
 <2>2. Accounting' /\ NoLostWakeup' /\ BatchCounted' /\ WaitHoldsLock'
   BY <1>3 DEF IInv, Accounting, NoLostWakeup, BatchCounted, WaitHoldsLock, ReleaseBatch, countVars, waitVars
 <2> QED BY <2>1, <2>2 DEF IInv
<1> QED BY <1>1, <1>2, <1>3

LEMMA WaitPreserves ==
  ASSUME IInv, WaitEnds \/ FindsNothing \/ Blocks \/ WaitInterrupted
  PROVE  IInv'
<1>1. TypeOK' BY DEF IInv, TypeOK, WaitEnds, FindsNothing, Blocks, WaitInterrupted, flagVars, countVars, waitVars
<1>2. Accounting' /\ BatchCounted'
  BY DEF IInv, Accounting, BatchCounted, WaitEnds, FindsNothing, Blocks, WaitInterrupted, countVars
<1>3. NoLostWakeup' /\ WaitHoldsLock'
  BY DEF IInv, NoLostWakeup, WaitHoldsLock, WaitEnds, FindsNothing, Blocks, WaitInterrupted, waitVars
<1> QED BY <1>1, <1>2, <1>3 DEF IInv

LEMMA ClosePreserves ==
  ASSUME IInv, CloseCall \/ Invalidate \/ CancelRequest \/ Closed
  PROVE  IInv'
<1>1. CASE CloseCall \/ Closed
 <2>1. TypeOK'
  <3>1. batch' \in Seq(Requests) /\ next' \in Nat \ {0} /\ pc' \in {"closing", "closed"}
   <4>1. CASE CloseCall BY <4>1 DEF IInv, TypeOK, CloseCall, waitVars
   <4>2. CASE Closed BY <4>2, EmptySequence DEF Closed
   <4> QED BY <1>1, <4>1, <4>2
  <3>2. UNCHANGED <<kind, opened, accepting, bound, draining, pending, accepted, completed, cancelled,
                    running, waking, locked, future, line>>
    BY <1>1 DEF CloseCall, Closed, flagVars, countVars, waitVars
  <3> QED BY <3>1, <3>2 DEF IInv, TypeOK
 <2>2. Accounting' /\ NoLostWakeup' /\ BatchCounted' /\ WaitHoldsLock'
   BY <1>1 DEF IInv, Accounting, NoLostWakeup, BatchCounted, WaitHoldsLock, CloseCall, Closed, countVars, waitVars
 <2> QED BY <2>1, <2>2 DEF IInv
<1>2. CASE Invalidate
 <2>1. Len(pending) \in Nat /\ Len(<<>>) = 0 BY EmptySequence DEF IInv, TypeOK
 <2>2. TypeOK'
  <3>1. /\ batch' \in Seq(Requests) /\ pending' \in Seq(Requests) /\ cancelled' \in Nat
        /\ next' \in Nat \ {0} /\ pc' = "cancelling" /\ accepting' \in BOOLEAN
   <4>1. batch' = pending /\ pending' \in Seq(Requests) /\ pc' = "cancelling"
     BY <1>2, EmptySequence DEF Invalidate, CancelAll
   <4>4. next' = 1 /\ accepting' = FALSE BY <1>2 DEF Invalidate
   <4>5. next' \in Nat \ {0} BY <4>4
   <4>6. accepting' \in BOOLEAN BY <4>4
   <4>2. cancelled' = cancelled + Len(pending) BY <1>2 DEF Invalidate, CancelAll
   <4>3. cancelled' \in Nat /\ pending \in Seq(Requests) BY <2>1, <4>2 DEF IInv, TypeOK
   <4> QED BY <4>1, <4>3, <4>5, <4>6
  <3>2. UNCHANGED <<kind, opened, bound, draining, accepted, completed, running, waking, locked, future, line>>
    BY <1>2 DEF Invalidate, waitVars
  <3> QED BY <2>1, <3>1, <3>2 DEF IInv, TypeOK
 <2>3. Accounting'
  <3>1. /\ Len(pending') = 0 /\ cancelled' = cancelled + Len(pending)
        /\ UNCHANGED <<accepted, completed, running, line>>
    BY <1>2, <2>1 DEF Invalidate, CancelAll
  <3> QED BY <2>1, <3>1 DEF IInv, TypeOK, Accounting
 <2>4. NoLostWakeup' /\ BatchCounted' /\ WaitHoldsLock'
   BY <1>2 DEF IInv, NoLostWakeup, BatchCounted, WaitHoldsLock, Invalidate, waitVars
 <2> QED BY <2>2, <2>3, <2>4 DEF IInv
<1>3. CASE CancelRequest
 <2>1. batch[next] \in Requests /\ next \in Nat BY <1>3 DEF IInv, TypeOK, CancelRequest
 <2>2. TypeOK' BY <1>3, <2>1 DEF IInv, TypeOK, CancelRequest, flagVars, countVars, waitVars
 <2>3. Accounting' /\ NoLostWakeup' /\ BatchCounted' /\ WaitHoldsLock'
   BY <1>3 DEF IInv, Accounting, NoLostWakeup, BatchCounted, WaitHoldsLock, CancelRequest, countVars, waitVars
 <2> QED BY <2>2, <2>3 DEF IInv
<1> QED BY <1>1, <1>2, <1>3

LEMMA Invariance == Spec => []IInv
<1>1. Init => IInv BY InitHolds
<1>2. IInv /\ [Next]_vars => IInv'
 <2> SUFFICES ASSUME IInv, [Next]_vars PROVE IInv' OBVIOUS
 <2>1. CASE UNCHANGED vars
   BY <2>1 DEF IInv, TypeOK, Accounting, NoLostWakeup, BatchCounted, WaitHoldsLock, vars, flagVars, countVars, waitVars
 <2>2. CASE Next
   BY <2>2, PostPreserves, WakePreserves, SessionPreserves, DrainPreserves, BatchPreserves, WaitPreserves,
     ClosePreserves DEF Next, OwnerStep, DrainStep, WaitStep, CloseStep
 <2> QED BY <2>1, <2>2
<1> QED BY <1>1, <1>2, PTL DEF Spec

--------------------
\* The line of accepted requests.

Rest == IF pc = "release" THEN 0 ELSE Len(batch) - (next - 1)
Served == Len(line) - Len(pending) - Rest

\* which of the owner's places accept posts, hold a batch or have emptied the queue
Phases ==
  /\ accepting <=> pc \notin {"unopened", "cancelling", "closed"}
  /\ pc = "unopened" => line = <<>>
  /\ pc \notin {"callbacks", "release", "cancelling"} => batch = <<>> /\ next = 1
  /\ next <= Len(batch) + 1
  /\ pc \in {"cancelling", "closed"} => pending = <<>>

\* the rest of the batch, then the queue, are the end of the line
Positions ==
  /\ Served >= 0
  /\ \A i \in 1 .. Rest : line[Served + i] = batch[next - 1 + i]
  /\ \A i \in 1 .. Len(pending) : line[Served + Rest + i] = pending[i]

\* a request is in the line once, and settled when the owner has passed it
Settlement ==
  /\ \A i, j \in DOMAIN line : line[i] = line[j] => i = j
  /\ \A i \in 1 .. Served : future[line[i]] # "none"
  /\ \A i \in Served + 1 .. Len(line) : future[line[i]] = "none"
  /\ \A r \in Requests : Unposted(r) => future[r] = "none"

LineInv == Phases /\ Positions /\ Settlement

LEMMA LineInit == Init => LineInv
<1> SUFFICES ASSUME Init PROVE LineInv OBVIOUS
<1>1. Phases BY EmptySequence DEF Init, Phases
<1>2. Positions BY EmptySequence DEF Init, Positions, Served, Rest
<1>3. Settlement BY EmptySequence DEF Init, Settlement, Served, Rest
<1> QED BY <1>1, <1>2, <1>3 DEF LineInv

LEMMA LineTypes ==
  ASSUME TypeOK, Phases
  PROVE  /\ Len(line) \in Nat /\ Len(pending) \in Nat /\ Len(batch) \in Nat /\ next \in Nat
         /\ Rest \in Nat /\ Served \in Int
         /\ DOMAIN line = 1 .. Len(line)
BY DEF TypeOK, Phases, Rest, Served

LEMMA PostKeepsLine ==
  ASSUME TypeOK, LineInv, NEW t \in Threads, NEW r \in Requests, Post(t, r)
  PROVE  LineInv'
<1>1. /\ pending' = Append(pending, r) /\ line' = Append(line, r)
      /\ Len(pending') = Len(pending) + 1 /\ Len(line') = Len(line) + 1
      /\ UNCHANGED <<pc, accepting, batch, next, future>>
      /\ accepting /\ Unposted(r)
  BY DEF TypeOK, Post, Enqueue, flagVars
<1>2. /\ \A i \in 1 .. Len(line) : line'[i] = line[i]
      /\ line'[Len(line) + 1] = r
      /\ \A i \in 1 .. Len(pending) : pending'[i] = pending[i]
      /\ pending'[Len(pending) + 1] = r
  BY <1>1 DEF TypeOK
<1>3. Rest' = Rest /\ Served' = Served BY <1>1, LineTypes DEF Rest, Served, LineInv
<1>4. Phases' BY <1>1 DEF LineInv, Phases
<1>5. Positions'
 <2>0. /\ Len(line) \in Nat /\ Len(pending) \in Nat /\ Rest \in Nat /\ Served \in Nat
       /\ Served + Rest + Len(pending) = Len(line)
   BY LineTypes DEF LineInv, Positions, Served
 <2>1. ASSUME NEW i \in 1 .. Rest PROVE line'[Served + i] = batch[next - 1 + i]
  <3>1. Served + i \in 1 .. Len(line) BY <2>0
  <3>2. line[Served + i] = batch[next - 1 + i] BY DEF LineInv, Positions
  <3> QED BY <1>2, <3>1, <3>2
 <2>2. ASSUME NEW i \in 1 .. Len(pending) + 1 PROVE line'[Served + Rest + i] = pending'[i]
  <3>1. CASE i = Len(pending) + 1
   <4>1. Served + Rest + i = Len(line) + 1 BY <2>0, <3>1
   <4> QED BY <1>2, <3>1, <4>1
  <3>2. CASE i # Len(pending) + 1
   <4>1. i \in 1 .. Len(pending) /\ Served + Rest + i \in 1 .. Len(line) BY <2>0, <3>2
   <4> QED BY <1>2, <4>1 DEF LineInv, Positions
  <3> QED BY <3>1, <3>2
 <2>3. Served' >= 0 BY <1>3, <2>0
 <2>4. \A i \in 1 .. Rest' : line'[Served' + i] = batch'[next' - 1 + i] BY <1>1, <1>3, <2>1
 <2>5. \A i \in 1 .. Len(pending') : line'[Served' + Rest' + i] = pending'[i] BY <1>1, <1>3, <2>2
 <2> QED BY <2>3, <2>4, <2>5 DEF Positions
<1>6. Settlement'
 <2>1. DOMAIN line' = 1 .. (Len(line) + 1) BY <1>1, LineTypes DEF TypeOK, LineInv
 <2>2. \A i \in 1 .. Len(line) : line'[i] # r BY <1>1, <1>2, LineTypes DEF Unposted, LineInv
 <2>3. future[r] = "none" BY <1>1 DEF LineInv, Settlement
 <2>4. \A i, j \in DOMAIN line' : line'[i] = line'[j] => i = j BY <1>2, <2>1, <2>2, LineTypes DEF LineInv, Settlement
 <2>5. /\ \A i \in 1 .. Served' : future'[line'[i]] # "none"
       /\ \A i \in Served' + 1 .. Len(line') : future'[line'[i]] = "none"
  <3>1. Len(line) \in Nat /\ Served \in Nat /\ Served <= Len(line) BY LineTypes DEF LineInv, Positions, Served
  <3>2. \A i \in Served + 1 .. Len(line) + 1 : future[line'[i]] = "none" BY <1>2, <2>3, <3>1 DEF LineInv, Settlement
  <3>3. \A i \in 1 .. Served : future[line'[i]] # "none" BY <1>2, <3>1 DEF LineInv, Settlement
  <3> QED BY <1>1, <1>3, <3>2, <3>3
 <2>6. \A q \in Requests : Unposted(q)' => future'[q] = "none"
   BY <1>1, <1>2, <2>1, LineTypes DEF LineInv, Settlement, Unposted
 <2> QED BY <2>4, <2>5, <2>6 DEF Settlement
<1> QED BY <1>4, <1>5, <1>6 DEF LineInv

\* Steps that change neither the line nor what is left of it.
LEMMA RestKeepsLine ==
  ASSUME TypeOK, LineInv,
         UNCHANGED <<pending, line, future, Rest>>,
         (batch' = batch /\ next' = next) \/ Rest' = 0,
         Phases'
  PROVE  LineInv'
<1>1. Served' = Served BY DEF Served
<1>2. Positions' BY <1>1, LineTypes DEF LineInv, Positions
<1>3. Settlement' BY <1>1 DEF LineInv, Settlement, Unposted
<1> QED BY <1>2, <1>3 DEF LineInv

LEMMA TakeKeepsLine ==
  ASSUME TypeOK, LineInv, Drain \/ Invalidate
  PROVE  LineInv'
<1>1. /\ batch' = pending /\ pending' = <<>> /\ next' = 1
      /\ UNCHANGED <<line, future>> /\ batch = <<>> /\ next = 1
      /\ pc \in {"idle", "closing"}
      /\ Len(<<>>) = 0
  BY EmptySequence DEF Drain, Invalidate, CancelAll, LineInv, Phases
<1>2. Phases'
 <2>1. CASE Drain BY <1>1, <2>1, LineTypes DEF Drain, LineInv, Phases, flagVars
 <2>2. CASE Invalidate BY <1>1, <2>2, LineTypes DEF Invalidate, LineInv, Phases
 <2> QED BY <2>1, <2>2
<1>3. Rest = 0 /\ Rest' = Len(pending) /\ Len(pending') = 0 /\ Served' = Served
 <2>1. pc' # "release" BY DEF Drain, Invalidate
 <2> QED BY <1>1, <2>1, LineTypes DEF Rest, Served, LineInv
<1>4. Positions' BY <1>1, <1>3, LineTypes DEF LineInv, Positions
<1>5. Settlement' BY <1>1, <1>3 DEF LineInv, Settlement, Unposted
<1> QED BY <1>2, <1>4, <1>5 DEF LineInv

LEMMA ServeKeepsLine ==
  ASSUME TypeOK, LineInv, RunRequest \/ CancelRequest
  PROVE  LineInv'
<1>1. /\ next <= Len(batch) /\ next' = next + 1
      /\ UNCHANGED <<line, pending, batch, pc, accepting>>
      /\ pc \in {"callbacks", "cancelling"}
  BY DEF RunRequest, CancelRequest, flagVars
<1>2. PICK outcome \in {"value", "exception", "broken"} : future' = [future EXCEPT ![batch[next]] = outcome]
  BY DEF RunRequest, CancelRequest
<1>3. Rest' = Rest - 1 /\ Rest \in Nat \ {0} /\ Served' = Served + 1 /\ Served \in Nat
 <2>1. Rest = Len(batch) - (next - 1) /\ Rest' = Len(batch) - next BY <1>1, LineTypes DEF Rest, LineInv
 <2>2. Rest \in Nat \ {0} /\ Rest' = Rest - 1 BY <1>1, <2>1, LineTypes DEF LineInv
 <2>3. Served' = Served + 1 BY <1>1, <2>2, LineTypes DEF Served, LineInv
 <2> QED BY <2>2, <2>3, LineTypes DEF LineInv, Positions
<1>4. batch[next] = line[Served + 1] /\ Served + 1 \in 1 .. Len(line)
 <2>1. 1 \in 1 .. Rest /\ next - 1 + 1 = next BY <1>3, LineTypes DEF LineInv
 <2>2. line[Served + 1] = batch[next - 1 + 1] BY <2>1 DEF LineInv, Positions
 <2>3. Served + Rest + Len(pending) = Len(line) BY LineTypes DEF LineInv, Served
 <2> QED BY <1>3, <2>1, <2>2, <2>3, LineTypes DEF LineInv
<1>5. Phases' BY <1>1, LineTypes DEF LineInv, Phases
<1>6. Positions'
 <2>1. \A i \in 1 .. Rest' : line'[Served' + i] = batch'[next' - 1 + i]
  <3>1. ASSUME NEW i \in 1 .. Rest' PROVE line'[Served' + i] = batch'[next' - 1 + i]
   <4>1. i + 1 \in 1 .. Rest BY <1>3
   <4>2. line[Served + (i + 1)] = batch[next - 1 + (i + 1)] BY <4>1 DEF LineInv, Positions
   <4>3. Served' + i = Served + (i + 1) /\ next' - 1 + i = next - 1 + (i + 1) BY <1>1, <1>3, LineTypes DEF LineInv
   <4> QED BY <1>1, <4>2, <4>3
  <3> QED BY <3>1
 <2>2. Served' + Rest' = Served + Rest /\ Served' >= 0 BY <1>3
 <2> QED BY <1>1, <2>1, <2>2 DEF LineInv, Positions
<1>7. Settlement'
 <2>1. \A i \in 1 .. Len(line) : line[i] \in Requests BY DEF TypeOK
 <2>2. \A i \in 1 .. Len(line) : i # Served + 1 => future'[line[i]] = future[line[i]]
   BY <1>2, <1>4, <2>1, LineTypes DEF TypeOK, LineInv, Settlement
 <2>3. future'[line[Served + 1]] # "none" BY <1>2, <1>4, <2>1 DEF TypeOK
 <2>4. \A q \in Requests : Unposted(q) => future'[q] = "none"
   BY <1>2, <1>4, <2>1, LineTypes DEF TypeOK, LineInv, Settlement, Unposted
 <2>5. /\ \A i \in 1 .. Served + 1 : future'[line[i]] # "none"
       /\ \A i \in Served + 2 .. Len(line) : future'[line[i]] = "none"
  <3>1. Served + 1 \in 1 .. Len(line) /\ Len(line) \in Nat BY <1>4, LineTypes DEF LineInv
  <3>2. \A i \in 1 .. Served : future'[line[i]] # "none" BY <1>3, <2>2, <3>1 DEF LineInv, Settlement
  <3>3. \A i \in Served + 2 .. Len(line) : future'[line[i]] = "none" BY <1>3, <2>2, <3>1 DEF LineInv, Settlement
  <3> QED BY <1>3, <2>3, <3>2, <3>3
 <2> QED BY <1>1, <1>3, <2>4, <2>5 DEF LineInv, Settlement, Unposted
<1> QED BY <1>5, <1>6, <1>7 DEF LineInv

LEMMA LineInvariance == Spec => []LineInv
<1>1. IInv /\ LineInv /\ [Next]_vars => LineInv'
 <2> SUFFICES ASSUME TypeOK, LineInv, [Next]_vars PROVE LineInv' BY DEF IInv
 <2>1. CASE UNCHANGED vars BY <2>1 DEF LineInv, Phases, Positions, Settlement, Unposted, Rest, Served, vars, flagVars
 <2>2. CASE \E t \in Threads : Wake(t) \/ \E r \in Requests : Post(t, r)
  <3>1. ASSUME NEW t \in Threads, Wake(t) PROVE LineInv'
   <4>1. /\ UNCHANGED <<accepting, pending, batch, next, future, line>>
         /\ (pc' = pc) \/ (pc = "blocked" /\ pc' = "check")
     BY <3>1 DEF Wake, flagVars
   <4>2. Phases' /\ Rest' = Rest BY <4>1 DEF LineInv, Phases, Rest
   <4> QED BY <4>1, <4>2, RestKeepsLine
  <3> QED BY <2>2, <3>1, PostKeepsLine
 <2>3. CASE Open \/ BindOwner \/ WaitStep \/ WaitInterrupted \/ CloseCall
  <3>1. Phases' /\ UNCHANGED <<pending, line, future, batch, next>> /\ pc # "release" /\ pc' # "release"
    BY <2>3 DEF LineInv, Phases, Open, BindsOnOpen, BindOwner, WaitStep, WaitEnds, FindsNothing, Blocks,
      WaitInterrupted, CloseCall, flagVars
  <3>2. Rest' = Rest BY <3>1 DEF Rest
  <3> QED BY <3>1, <3>2, RestKeepsLine
 <2>4. CASE FinishDrain \/ ReleaseBatch \/ Closed
  <3>1. UNCHANGED <<pending, line, future>> /\ Rest = 0
    BY <2>4, LineTypes DEF FinishDrain, ReleaseBatch, Closed, Rest, LineInv, Phases
  <3>2. Phases' /\ Rest' = 0
    BY <2>4, LineTypes, EmptySequence DEF LineInv, Phases, Rest, FinishDrain, ReleaseBatch, AwaitsPosts, Closed,
      flagVars
  <3> QED BY <3>1, <3>2, RestKeepsLine
 <2> QED BY <2>1, <2>2, <2>3, <2>4, TakeKeepsLine, ServeKeepsLine DEF Next, OwnerStep, DrainStep, CloseStep
<1> QED BY <1>1, LineInit, Invariance, PTL DEF Spec

\* f is d, b and c after one another.
Joined(f, d, b, c, S) ==
  /\ f \in Seq(S)
  /\ Len(f) = Len(d) + Len(b) + Len(c)
  /\ \A i \in 1 .. Len(d) : f[i] = d[i]
  /\ \A i \in 1 .. Len(b) : f[Len(d) + i] = b[i]
  /\ \A i \in 1 .. Len(c) : f[Len(d) + Len(b) + i] = c[i]

LEMMA ConcatThree ==
  ASSUME NEW S, NEW d \in Seq(S), NEW b \in Seq(S), NEW c \in Seq(S)
  PROVE  Joined(d \o b \o c, d, b, c, S)
<1> DEFINE e == d \o b
           f == e \o c
<1>0. Len(d) \in Nat /\ Len(b) \in Nat /\ Len(c) \in Nat OBVIOUS
<1>1. /\ e \in Seq(S) /\ Len(e) = Len(d) + Len(b)
      /\ \A i \in 1 .. Len(d) + Len(b) : e[i] = IF i <= Len(d) THEN d[i] ELSE b[i - Len(d)]
  BY ConcatProperties, Zenon
<1> HIDE DEF e
<1>2. /\ f \in Seq(S) /\ Len(f) = Len(e) + Len(c)
      /\ \A i \in 1 .. Len(e) + Len(c) : f[i] = IF i <= Len(e) THEN e[i] ELSE c[i - Len(e)]
 <2>1. e \in Seq(S) BY <1>1, Zenon
 <2> QED BY <2>1, ConcatProperties, Zenon
<1> HIDE DEF f
<1>3. ASSUME NEW i \in 1 .. Len(d) PROVE f[i] = d[i]
 <2>1. i \in 1 .. Len(d) + Len(b) /\ i <= Len(e) /\ i \in 1 .. Len(e) + Len(c) BY <1>0, <1>1
 <2> QED BY <1>1, <1>2, <2>1
<1>4. ASSUME NEW i \in 1 .. Len(b) PROVE f[Len(d) + i] = b[i]
 <2>1. /\ Len(d) + i \in 1 .. Len(d) + Len(b) /\ ~(Len(d) + i <= Len(d)) /\ Len(d) + i - Len(d) = i
       /\ Len(d) + i <= Len(e) /\ Len(d) + i \in 1 .. Len(e) + Len(c)
   BY <1>0, <1>1
 <2>2. e[Len(d) + i] = b[i] BY <1>1, <2>1
 <2> QED BY <1>2, <2>1, <2>2
<1>5. ASSUME NEW i \in 1 .. Len(c) PROVE f[Len(d) + Len(b) + i] = c[i]
 <2>1. /\ Len(d) + Len(b) + i \in 1 .. Len(e) + Len(c) /\ ~(Len(d) + Len(b) + i <= Len(e))
       /\ Len(d) + Len(b) + i - Len(e) = i
   BY <1>0, <1>1
 <2> QED BY <1>2, <2>1
<1>6. Joined(f, d, b, c, S) BY <1>0, <1>1, <1>2, <1>3, <1>4, <1>5 DEF Joined
<1> QED BY <1>6 DEF e, f

\* b and c are what follows the first n elements of a.
Pieces(a, b, c, n) ==
  /\ Len(a) = n + Len(b) + Len(c)
  /\ \A i \in 1 .. Len(b) : a[n + i] = b[i]
  /\ \A i \in 1 .. Len(c) : a[n + Len(b) + i] = c[i]

LEMMA Concatenation ==
  ASSUME NEW S, NEW a \in Seq(S), NEW b \in Seq(S), NEW c \in Seq(S), NEW n \in Nat,
         Pieces(a, b, c, n)
  PROVE  a = SubSeq(a, 1, n) \o b \o c
<1> DEFINE d == SubSeq(a, 1, n)
           f == d \o b \o c
<1>0. Len(a) \in Nat /\ Len(b) \in Nat /\ Len(c) \in Nat OBVIOUS
<1>1. d \in Seq(S) /\ Len(d) = n /\ \A i \in 1 .. n : d[i] = a[i]
 <2>1. n <= Len(a) /\ \A i \in 1 .. n : a[i] \in S BY <1>0 DEF Pieces
 <2> QED BY <2>1, SubSeqProperties
<1> HIDE DEF d
<1>2. Joined(f, d, b, c, S)
 <2>1. d \in Seq(S) BY <1>1, Zenon
 <2> QED BY <2>1, ConcatThree, Zenon
<1> HIDE DEF f
<1> USE DEF Pieces, Joined
<1>3. Len(f) = Len(a) BY <1>1, <1>2
<1>4. ASSUME NEW i \in 1 .. Len(a) PROVE a[i] = f[i]
 <2>1. CASE i <= n BY <1>0, <1>1, <1>2, <2>1
 <2>2. CASE i > n /\ i <= n + Len(b)
  <3>1. i - n \in 1 .. Len(b) /\ n + (i - n) = i /\ Len(d) + (i - n) = i BY <1>0, <1>1, <2>2
  <3>2. f[Len(d) + (i - n)] = b[i - n] BY <1>2, <3>1, Zenon
  <3>3. a[n + (i - n)] = b[i - n] BY <3>1, Zenon
  <3> QED BY <3>1, <3>2, <3>3, Zenon
 <2>3. CASE i > n + Len(b)
  <3> DEFINE j == i - (n + Len(b))
  <3>1. j \in 1 .. Len(c) /\ n + Len(b) + j = i /\ Len(d) + Len(b) + j = i BY <1>0, <1>1, <2>3
  <3> HIDE DEF j
  <3>2. f[Len(d) + Len(b) + j] = c[j] BY <1>2, <3>1, Zenon
  <3>3. a[n + Len(b) + j] = c[j] BY <3>1, Zenon
  <3> QED BY <3>1, <3>2, <3>3, Zenon
 <2> QED BY <1>0, <2>1, <2>2, <2>3
<1>5. a = f BY <1>2, <1>3, <1>4, SeqEqual
<1> QED BY <1>5 DEF f, d

LEMMA LineInvImplies == TypeOK /\ LineInv => InLine
<1> SUFFICES ASSUME TypeOK, LineInv PROVE InLine OBVIOUS
<1> DEFINE rest == IF pc = "release" THEN <<>> ELSE SubSeq(batch, next, Len(batch))
<1>1. rest \in Seq(Requests) /\ Len(rest) = Rest /\ \A i \in 1 .. Rest : rest[i] = batch[next - 1 + i]
  BY LineTypes, EmptySequence DEF TypeOK, LineInv, Phases, Rest
<1>2. Served \in Nat /\ Len(line) = Served + Len(rest) + Len(pending) BY <1>1, LineTypes DEF Served, LineInv, Positions
<1>3. line = SubSeq(line, 1, Served) \o rest \o pending
 <2>1. \A i \in 1 .. Len(rest) : line[Served + i] = rest[i] BY <1>1 DEF LineInv, Positions
 <2>2. \A i \in 1 .. Len(pending) : line[Served + Len(rest) + i] = pending[i] BY <1>1 DEF LineInv, Positions
 <2> HIDE DEF rest
 <2>6. line \in Seq(Requests) BY DEF TypeOK
 <2>7. pending \in Seq(Requests) BY DEF TypeOK
 <2>3. Len(line) = Served + Len(rest) + Len(pending) BY <1>1, <1>2
 <2>4. rest \in Seq(Requests) BY <1>1, Zenon
 <2>5. Served \in Nat BY <1>2, Zenon
 <2>8. Pieces(line, rest, pending, Served) BY <2>1, <2>2, <2>3 DEF Pieces
 <2> QED BY <2>4, <2>5, <2>6, <2>7, <2>8, Concatenation, Zenon
<1>4. pc = "closed" => ~accepting /\ Served = Len(line) BY LineTypes, EmptySequence DEF LineInv, Phases, Served, Rest
<1>5. Served = Len(line) - Len(pending) - (IF pc = "release" THEN 0 ELSE Len(batch) - (next - 1)) BY DEF Served, Rest
<1> QED BY <1>3, <1>4, <1>5 DEF InLine, LineInv, Settlement

--------------------
\* The refinement.

LEMMA BoxInit == Init => Box!Init
BY DEF Init, Box!Init

BoxServed == completed + (IF pc = "callbacks" THEN next - 1 ELSE 0)

LEMMA BoxStep ==
  ASSUME IInv, LineInv, [Next]_vars
  PROVE  [Box!Next]_<<line, BoxServed, accepting>>
<1>0. completed \in Nat /\ next \in Nat \ {0} BY DEF IInv, TypeOK
<1>1. CASE UNCHANGED vars BY <1>1 DEF BoxServed, vars, flagVars, countVars
<1>2. CASE Open
 <2>1. Box!Open BY <1>0, <1>2 DEF Open, Box!Open, LineInv, Phases, countVars
 <2> QED BY <2>1 DEF Box!Next
<1>3. ASSUME NEW t \in Threads, NEW r \in Requests, Post(t, r) PROVE Box!Accept(r)
  BY <1>3 DEF Post, Enqueue, Box!Accept, Unposted, flagVars
<1>4. CASE RunRequest
 <2>1. Len(line) = Len(pending) + Len(batch) + completed + cancelled
   BY <1>4 DEF IInv, Accounting, BatchCounted, RunRequest
 <2>2. completed + (next - 1) < Len(line)
  <3>1. Len(pending) \in Nat /\ Len(batch) \in Nat /\ cancelled \in Nat /\ next <= Len(batch)
    BY <1>4 DEF IInv, TypeOK, RunRequest
  <3> QED BY <1>0, <2>1, <3>1
 <2>3. Box!Serve BY <1>0, <1>4, <2>2 DEF RunRequest, Box!Serve, LineInv, Phases, flagVars, countVars
 <2> QED BY <2>3 DEF Box!Next
<1>5. CASE Invalidate
 <2>1. Box!Close BY <1>0, <1>5 DEF Invalidate, CancelAll, Box!Close, LineInv, Phases
 <2> QED BY <2>1 DEF Box!Next
<1>6. CASE \/ BindOwner \/ Drain \/ FinishDrain \/ ReleaseBatch \/ WaitStep \/ WaitInterrupted
           \/ CloseCall \/ CancelRequest \/ Closed \/ \E t \in Threads : Wake(t)
 <2>1. UNCHANGED <<line, accepting>>
   BY <1>6 DEF BindOwner, Drain, FinishDrain, ReleaseBatch, WaitStep, WaitEnds, FindsNothing, Blocks, WaitInterrupted,
     CloseCall, CancelRequest, Closed, Wake, flagVars
 <2>2. BoxServed' = BoxServed
   BY <1>0, <1>6 DEF BoxServed, BindOwner, Drain, FinishDrain, CountBatch, ReleaseBatch, AwaitsPosts, WaitStep,
     WaitEnds, FindsNothing, Blocks, WaitInterrupted, CloseCall, CancelRequest, Closed, Wake, countVars
 <2> QED BY <2>1, <2>2
<1> QED BY <1>1, <1>2, <1>3, <1>4, <1>5, <1>6 DEF Next, OwnerStep, DrainStep, CloseStep, Box!Next

\* The dispatcher implements the mailbox: requests are served in the order of
\* their acceptance and while it is open only, a served or cancelled one is never
\* taken back, and queue, batch and what has run are the line of accepted ones.
THEOREM ServesInOrder == Spec => IsMailbox
<1>1. Spec => [](IInv /\ LineInv) BY Invariance, LineInvariance, PTL
<1>2. [](IInv /\ LineInv) /\ Spec => Box!Spec
 <2>1. IInv /\ LineInv /\ [Next]_vars => [Box!Next]_<<line, BoxServed, accepting>> BY BoxStep
 <2> QED BY <2>1, BoxInit, PTL DEF Spec, Box!Spec, BoxServed
<1>3. IInv /\ LineInv => InLine BY LineInvImplies DEF IInv
<1> QED BY <1>1, <1>2, <1>3, PTL DEF IsMailbox

\* The type invariant of the dispatcher's state and of its owner's position.
THEOREM TypeCorrect == Spec => []TypeOK
BY Invariance, PTL DEF IInv

\* Whenever diagnostics() is read, every accepted request is counted exactly
\* once as pending, running, completed or cancelled.
THEOREM CountersAddUp == Spec => []Accounting
BY Invariance, PTL DEF IInv

\* No post falls between the predicate of the owner's wait and its sleep: the
\* wake callback takes the scheduler's mutex (game-runtime.cpp:743-746).
THEOREM NoWakeupIsLost == Spec => []NoLostWakeup
BY Invariance, PTL DEF IInv

\* ---- Folds over sequences, by the least number of steps that would not do. ----
LEMMA Least ==
  ASSUME NEW T, T \subseteq Nat, T # {}
  PROVE  \E n \in T : \A m \in T : n <= m
<1>1. PICK n \in T : \A m \in T : ~(<<m, n>> \in OpToRel(<, Nat)) BY WFMin, NatLessThanWellFounded
<1>2. \A m \in T : ~(m < n) BY <1>1 DEF OpToRel
<1> QED BY <1>2

LEMMA LargestIs ==
  ASSUME NEW k \in Nat, NEW s \in SUBSET (1..k), k \in s
  PROVE  Max(s) = k
<1>1. \A y \in s : k >= y OBVIOUS
<1>2. Max(s) \in s /\ \A y \in s : Max(s) >= y BY <1>1 DEF Max
<1>3. Max(s) \in 1..k /\ Max(s) >= k BY <1>2
<1> QED BY <1>3

\* The folds over sequences: a step of each, told apart by what "how" is.
TakenIn(r, x, names) == IF x \notin names \/ Contains(r, x) THEN r ELSE Append(r, x)
StepBy(how, b, v) ==
  CASE how.is = "take" -> TakenIn(b, v, how.names)
    [] how.is = "observe" -> Observe(b, v)
    [] how.is = "close" -> Retired(b, v)
    [] how.is = "maintain" -> Visited(b, v, how.late)
FoldsTo(f, how, first, q, k) ==
  f = [s \in SUBSET (1..k) |-> IF s = {} THEN first ELSE StepBy(how, f[s \ {Max(s)}], q[Max(s)])]

\* The function that a fold chooses exists, ...
LEMMA FoldExists ==
  ASSUME NEW how, NEW first, NEW q, NEW n \in Nat
  PROVE  \E f : FoldsTo(f, how, first, q, n)
<1> DEFINE T == {k \in Nat : ~\E f : FoldsTo(f, how, first, q, k)}
<1>1. CASE T = {} BY <1>1
<1>2. CASE T # {}
 <2>1. PICK k \in T : \A m \in T : k <= m BY <1>2, Least
 <2>2. k # 0
  <3>1. FoldsTo([s \in SUBSET (1..0) |-> first], how, first, q, 0)
   <4>1. 1..0 = {} /\ SUBSET (1..0) = {{}} OBVIOUS
   <4> QED BY <4>1 DEF FoldsTo
  <3> QED BY <2>1, <3>1
 <2>3. k - 1 \in Nat /\ k - 1 \notin T BY <2>1, <2>2
 <2>4. PICK f : FoldsTo(f, how, first, q, k - 1) BY <2>3
 <2> DEFINE g == [s \in SUBSET (1..k) |-> IF k \in s THEN StepBy(how, f[s \ {k}], q[k]) ELSE f[s]]
 <2>5. ASSUME NEW s \in SUBSET (1..k) PROVE g[s] = IF s = {} THEN first ELSE StepBy(how, g[s \ {Max(s)}], q[Max(s)])
  <3>1. CASE k \in s
   <4>1. Max(s) = k BY <2>1, <3>1, LargestIs
   <4>2. s \ {k} \in SUBSET (1..k) /\ k \notin s \ {k} OBVIOUS
   <4>3. g[s \ {k}] = f[s \ {k}] BY <4>2
   <4>4. g[s] = StepBy(how, f[s \ {k}], q[k]) BY <3>1
   <4> QED BY <3>1, <4>1, <4>3, <4>4
  <3>2. CASE k \notin s
   <4>1. s \in SUBSET (1..(k - 1)) BY <2>1, <3>2
   <4>2. g[s] = f[s] BY <3>2
   <4>3. s \ {Max(s)} \in SUBSET (1..k) /\ k \notin s \ {Max(s)} BY <3>2
   <4>4. g[s \ {Max(s)}] = f[s \ {Max(s)}] BY <4>3
   <4>5. f[s] = IF s = {} THEN first ELSE StepBy(how, f[s \ {Max(s)}], q[Max(s)]) BY <2>4, <4>1 DEF FoldsTo
   <4> QED BY <4>2, <4>4, <4>5
  <3> QED BY <3>1, <3>2
 <2>6. FoldsTo(g, how, first, q, k)
  <3>1. g = [s \in SUBSET (1..k) |-> g[s]] OBVIOUS
  <3> HIDE DEF g
  <3>2. g = [s \in SUBSET (1..k) |-> IF s = {} THEN first ELSE StepBy(how, g[s \ {Max(s)}], q[Max(s)])] BY <2>5, <3>1
  <3> QED BY <3>2 DEF FoldsTo
 <2> QED BY <2>1, <2>6
<1> QED BY <1>1, <1>2

\* ... and its values at 1..k are the fold's after k values.
InSteps(f, how, first, q) == f[0] = first /\ \A k \in 1..Len(q) : f[k] = StepBy(how, f[k - 1], q[k])
LEMMA StepsOfFold ==
  ASSUME NEW V, NEW how, NEW first, NEW q \in Seq(V), NEW h, FoldsTo(h, how, first, q, Len(q))
  PROVE  \E f : h[1..Len(q)] = f[Len(q)] /\ InSteps(f, how, first, q)
<1>1. DOMAIN q = 1..Len(q) /\ Len(q) \in Nat OBVIOUS
<1> DEFINE f == [k \in 0..Len(q) |-> h[1..k]]
<1>2. f[Len(q)] = h[1..Len(q)] /\ f[0] = h[{}] BY <1>1
<1>3. h[{}] = first BY DEF FoldsTo
<1>4. ASSUME NEW k \in 1..Len(q) PROVE f[k] = StepBy(how, f[k - 1], q[k])
 <2>1. k \in Nat /\ k >= 1 /\ k <= Len(q) BY <1>1
 <2>2. (1..k) \in SUBSET (1..Len(q)) /\ k \in 1..k /\ 1..k # {} /\ (1..k) \ {k} = 1..(k - 1)
  <3>1. k \in 1..k /\ \A x \in 1..k : x \in 1..Len(q) BY <1>1, <2>1
  <3>2. \A x : x \in (1..k) \ {k} <=> x \in 1..(k - 1) BY <2>1
  <3> QED BY <3>1, <3>2
 <2>3. Max(1..k) = k BY <2>1, <2>2, LargestIs
 <2>4. h[1..k] = StepBy(how, h[1..(k - 1)], q[k]) BY <2>2, <2>3 DEF FoldsTo
 <2>5. f[k] = h[1..k] /\ f[k - 1] = h[1..(k - 1)] BY <1>1
 <2> QED BY <2>4, <2>5
<1> HIDE DEF f
<1> QED BY <1>2, <1>3, <1>4 DEF InSteps

LEMMA TakenSteps ==
  ASSUME NEW V, NEW first, NEW q \in Seq(V), NEW names
  PROVE  \E f : KeptOnce(first, q, names) = f[Len(q)] /\ InSteps(f, [is |-> "take", names |-> names], first, q)
<1>1. DOMAIN q = 1..Len(q) /\ Len(q) \in Nat OBVIOUS
<1>2. PICK how : how = [is |-> "take", names |-> names] OBVIOUS
<1>3. \A r, x : StepBy(how, r, x) = TakenIn(r, x, names) BY <1>2 DEF StepBy
<1> DEFINE Chosen(f) == f = [s \in SUBSET DOMAIN q |->
                               IF s = {} THEN first ELSE TakenIn(f[s \ {Max(s)}], q[Max(s)], names)]
<1>4. ASSUME NEW f PROVE Chosen(f) <=> FoldsTo(f, how, first, q, Len(q)) BY <1>1, <1>3 DEF FoldsTo
<1>5. PICK h : h = CHOOSE f : Chosen(f) OBVIOUS
<1>6. KeptOnce(first, q, names) = h[1..Len(q)] BY <1>1, <1>5 DEF KeptOnce, FoldLeft, MapThenFoldSet, TakenIn
<1> HIDE DEF Chosen
<1>7. FoldsTo(h, how, first, q, Len(q))
 <2>1. \E f : FoldsTo(f, how, first, q, Len(q)) BY <1>1, FoldExists
 <2> QED BY <1>4, <1>5, <2>1
<1>8. \E f : h[1..Len(q)] = f[Len(q)] /\ InSteps(f, how, first, q) BY <1>7, StepsOfFold
<1> QED BY <1>2, <1>6, <1>8

LEMMA ObservedSteps ==
  ASSUME NEW V, NEW first, NEW q \in Seq(V)
  PROVE  \E f : FoldLeft(Observe, first, q) = f[Len(q)] /\ InSteps(f, [is |-> "observe"], first, q)
<1>1. DOMAIN q = 1..Len(q) /\ Len(q) \in Nat OBVIOUS
<1>2. PICK how : how = [is |-> "observe"] OBVIOUS
<1>3. \A r, x : StepBy(how, r, x) = Observe(r, x) BY <1>2 DEF StepBy
<1> DEFINE Chosen(f) == f = [s \in SUBSET DOMAIN q |->
                               IF s = {} THEN first ELSE Observe(f[s \ {Max(s)}], q[Max(s)])]
<1>4. ASSUME NEW f PROVE Chosen(f) <=> FoldsTo(f, how, first, q, Len(q)) BY <1>1, <1>3 DEF FoldsTo
<1>5. PICK h : h = CHOOSE f : Chosen(f) OBVIOUS
<1>6. FoldLeft(Observe, first, q) = h[1..Len(q)] BY <1>1, <1>5 DEF FoldLeft, MapThenFoldSet
<1> HIDE DEF Chosen
<1>7. FoldsTo(h, how, first, q, Len(q))
 <2>1. \E f : FoldsTo(f, how, first, q, Len(q)) BY <1>1, FoldExists
 <2> QED BY <1>4, <1>5, <2>1
<1>8. \E f : h[1..Len(q)] = f[Len(q)] /\ InSteps(f, how, first, q) BY <1>7, StepsOfFold
<1> QED BY <1>2, <1>6, <1>8

LEMMA RetiredSteps ==
  ASSUME NEW V, NEW first, NEW q \in Seq(V)
  PROVE  \E f : FoldLeft(Retired, first, q) = f[Len(q)] /\ InSteps(f, [is |-> "close"], first, q)
<1>1. DOMAIN q = 1..Len(q) /\ Len(q) \in Nat OBVIOUS
<1>2. PICK how : how = [is |-> "close"] OBVIOUS
<1>3. \A r, x : StepBy(how, r, x) = Retired(r, x) BY <1>2 DEF StepBy
<1> DEFINE Chosen(f) == f = [s \in SUBSET DOMAIN q |->
                               IF s = {} THEN first ELSE Retired(f[s \ {Max(s)}], q[Max(s)])]
<1>4. ASSUME NEW f PROVE Chosen(f) <=> FoldsTo(f, how, first, q, Len(q)) BY <1>1, <1>3 DEF FoldsTo
<1>5. PICK h : h = CHOOSE f : Chosen(f) OBVIOUS
<1>6. FoldLeft(Retired, first, q) = h[1..Len(q)] BY <1>1, <1>5 DEF FoldLeft, MapThenFoldSet
<1> HIDE DEF Chosen
<1>7. FoldsTo(h, how, first, q, Len(q))
 <2>1. \E f : FoldsTo(f, how, first, q, Len(q)) BY <1>1, FoldExists
 <2> QED BY <1>4, <1>5, <2>1
<1>8. \E f : h[1..Len(q)] = f[Len(q)] /\ InSteps(f, how, first, q) BY <1>7, StepsOfFold
<1> QED BY <1>2, <1>6, <1>8

LEMMA VisitedSteps ==
  ASSUME NEW V, NEW first, NEW q \in Seq(V), NEW late
  PROVE  \E f : FoldLeft(LAMBDA b, v : Visited(b, v, late), first, q) = f[Len(q)] /\ InSteps(f, [is |-> "maintain", late |-> late], first, q)
<1>1. DOMAIN q = 1..Len(q) /\ Len(q) \in Nat OBVIOUS
<1>2. PICK how : how = [is |-> "maintain", late |-> late] OBVIOUS
<1>3. \A r, x : StepBy(how, r, x) = Visited(r, x, late) BY <1>2 DEF StepBy
<1> DEFINE Chosen(f) == f = [s \in SUBSET DOMAIN q |->
                               IF s = {} THEN first ELSE Visited(f[s \ {Max(s)}], q[Max(s)], late)]
<1>4. ASSUME NEW f PROVE Chosen(f) <=> FoldsTo(f, how, first, q, Len(q)) BY <1>1, <1>3 DEF FoldsTo
<1>5. PICK h : h = CHOOSE f : Chosen(f) OBVIOUS
<1>6. FoldLeft(LAMBDA b, v : Visited(b, v, late), first, q) = h[1..Len(q)] BY <1>1, <1>5 DEF FoldLeft, MapThenFoldSet
<1> HIDE DEF Chosen
<1>7. FoldsTo(h, how, first, q, Len(q))
 <2>1. \E f : FoldsTo(f, how, first, q, Len(q)) BY <1>1, FoldExists
 <2> QED BY <1>4, <1>5, <2>1
<1>8. \E f : h[1..Len(q)] = f[Len(q)] /\ InSteps(f, how, first, q) BY <1>7, StepsOfFold
<1> QED BY <1>2, <1>6, <1>8

\* ---- Outcomes of playback. ----
Reasons == {"Completed", "Stopped", "Replaced", "Reclaimed", "OutputClosed"}
Sounds == [requested : {"Paused", "Playing", "Stopped"}, atEnd : BOOLEAN, waiting : BOOLEAN, looping : BOOLEAN,
           generation : Nat, terminal : Reasons \cup {"none"}, held : BOOLEAN]
Ends == [voice : Voices, generation : Nat, reason : Reasons]
AudioStates ==
  [open : BOOLEAN, discarded : BOOLEAN, voices : Seq(Voices), data : [Voices -> Sounds], ended : Seq(Ends),
   active : Nat, outbox : Seq(Nat), lost : Nat, firstLost : Nat, lastLost : Nat]
Records == [sequence : Nat, lost : Nat, firstLost : Nat, lastLost : Nat]

Lives(data, v) == data[v].generation > 0 /\ data[v].terminal = "none"
LivesOf(data) == {v \in Voices : Lives(data, v)}
HasEnd(ended, v, g) == \E i \in 1..Len(ended) : ended[i].voice = v /\ ended[i].generation = g
OnceEnded(ended) ==
  \A i, j \in 1..Len(ended) :
      ended[i].voice = ended[j].voice /\ ended[i].generation = ended[j].generation => i = j
EndsAre(data, ended) ==
  \A v \in Voices : \A g \in Nat :
      HasEnd(ended, v, g) <=> 1 <= g /\ g <= data[v].generation /\ (g < data[v].generation \/ ~Lives(data, v))
Counted(data, ended, active) ==
  IsFiniteSet(LivesOf(data)) /\ active = Cardinality(LivesOf(data)) /\ Len(ended) + active <= MaxSequence
VoicesOk(data, voices, open) ==
  /\ \A v \in Voices : Lives(data, v) => open /\ v \in ToSet(voices)
  /\ \A v \in Voices : data[v].held => data[v].generation > 0 /\ (open => v \in ToSet(voices))
RequestedOk(data) == \A v \in Voices : Lives(data, v) => data[v].requested # "Stopped"

\* The outbox has the last numbers, and what it no longer has was told or
\* lies within the range that is reported as lost.
Passed(ended, outbox) == Len(ended) - Len(outbox)
OutboxOk(ended, outbox) ==
  Len(outbox) <= Len(ended) /\ \A i \in 1..Len(outbox) : outbox[i] = Len(ended) - Len(outbox) + i
IsHeard(h, s) == \E i \in 1..Len(h) : h[i].sequence = s
LastTold(h) == IF Len(h) = 0 THEN 0 ELSE h[Len(h)].sequence
LastLoss(h) == IF Len(h) = 0 THEN 0 ELSE h[Len(h)].lost
LossOk(passed, lost, first, last, h) ==
  /\ passed - LastTold(h) = lost - LastLoss(h)
  /\ lost = 0 => first = 0 /\ \A s \in 1..passed : IsHeard(h, s)
  /\ lost > 0 => /\ 1 <= first /\ first <= last /\ last <= passed
                 /\ \A s \in 1..passed : IsHeard(h, s) \/ (first <= s /\ s <= last)
HeardOk(h) ==
  /\ h \in Seq(Records)
  /\ \A i \in 1..Len(h) :
       h[i].sequence - (IF i = 1 THEN 0 ELSE h[i - 1].sequence) - 1 = h[i].lost - (IF i = 1 THEN 0 ELSE h[i - 1].lost)

SystemOk(a, h) ==
  /\ a \in AudioStates /\ h \in Seq(Records)
  /\ OnceEnded(a.ended) /\ EndsAre(a.data, a.ended) /\ Counted(a.data, a.ended, a.active)
  /\ VoicesOk(a.data, a.voices, a.open)
  /\ OutboxOk(a.ended, a.outbox) /\ (a.discarded => ~a.open /\ a.outbox = <<>>)
  /\ ~a.discarded => LossOk(Passed(a.ended, a.outbox), a.lost, a.firstLost, a.lastLost, h)

\* What an outcome adds.
Over(data, v, reason) == [data EXCEPT ![v] = [data[v] EXCEPT !.terminal = reason]]
Outcome(data, v, reason) == [voice |-> v, generation |-> data[v].generation, reason |-> reason]
LEMMA EndAdded ==
  ASSUME NEW data \in [Voices -> Sounds], NEW ended \in Seq(Ends), NEW active \in Nat, NEW v \in Voices,
         NEW reason \in Reasons, Lives(data, v), OnceEnded(ended), EndsAre(data, ended), Counted(data, ended, active),
         NEW after, after = Over(data, v, reason), NEW e, e = Outcome(data, v, reason)
  PROVE  /\ after \in [Voices -> Sounds] /\ Append(ended, e) \in Seq(Ends) /\ active - 1 \in Nat
         /\ OnceEnded(Append(ended, e)) /\ EndsAre(after, Append(ended, e))
         /\ Counted(after, Append(ended, e), active - 1)
         /\ ~Lives(after, v)
         /\ \A w \in Voices : /\ w # v => after[w] = data[w]
                              /\ after[w].generation = data[w].generation /\ after[w].held = data[w].held
                              /\ after[w].requested = data[w].requested /\ (Lives(after, w) => Lives(data, w))
<1>1. PICK sound \in Sounds : sound = data[v] OBVIOUS
<1>2. PICK n \in Nat : n = Len(ended) OBVIOUS
<1>3. PICK over : over = [sound EXCEPT !.terminal = reason] OBVIOUS
<1>4. over \in Sounds /\ over.generation = sound.generation /\ over.held = sound.held
      /\ over.requested = sound.requested /\ over.terminal # "none"
  BY <1>1, <1>3 DEF Sounds, Reasons
<1>5. after \in [Voices -> Sounds] /\ after[v] = over /\ \A w \in Voices \ {v} : after[w] = data[w]
  BY <1>1, <1>3, <1>4 DEF Over
<1>6. e \in Ends /\ e.voice = v /\ e.generation = sound.generation BY <1>1 DEF Ends, Sounds, Outcome
<1>7. PICK more \in Seq(Ends) : more = Append(ended, e)
 <2>1. e \in Ends /\ ended \in Seq(Ends) BY <1>6
 <2> QED BY <2>1, AppendProperties
<1>8. Len(more) = n + 1 /\ more[n + 1] = e /\ \A i \in 1..n : more[i] = ended[i] BY <1>2, <1>6, <1>7
<1>9. ~HasEnd(ended, v, sound.generation) /\ sound.generation \in Nat /\ sound.generation > 0
  BY <1>1 DEF EndsAre, Lives, Sounds
<1>10. OnceEnded(more)
 <2>1. SUFFICES ASSUME NEW i \in 1..(n + 1), NEW j \in 1..(n + 1), more[i].voice = more[j].voice,
                       more[i].generation = more[j].generation
                PROVE  i = j
   BY <1>2, <1>8 DEF OnceEnded
 <2>2. CASE i \in 1..n /\ j \in 1..n BY <1>2, <1>8, <2>1, <2>2 DEF OnceEnded
 <2>3. CASE i = n + 1 /\ j # n + 1 BY <1>2, <1>6, <1>8, <1>9, <2>1, <2>3 DEF HasEnd
 <2>4. CASE j = n + 1 /\ i # n + 1 BY <1>2, <1>6, <1>8, <1>9, <2>1, <2>4 DEF HasEnd
 <2> QED BY <1>2, <2>2, <2>3, <2>4
<1>11. ~Lives(after, v) /\ \A w \in Voices \ {v} : Lives(after, w) <=> Lives(data, w) BY <1>4, <1>5 DEF Lives
<1>12. \A w \in Voices : \A g : HasEnd(more, w, g) <=> HasEnd(ended, w, g) \/ (w = v /\ g = sound.generation)
 <2>1. ASSUME NEW w \in Voices, NEW g, HasEnd(more, w, g) PROVE HasEnd(ended, w, g) \/ (w = v /\ g = sound.generation)
   BY <1>2, <1>6, <1>8, <2>1 DEF HasEnd
 <2>2. ASSUME NEW w \in Voices, NEW g, HasEnd(ended, w, g) PROVE HasEnd(more, w, g) BY <1>2, <1>8, <2>2 DEF HasEnd
 <2>3. HasEnd(more, v, sound.generation) BY <1>2, <1>6, <1>8 DEF HasEnd
 <2> QED BY <2>1, <2>2, <2>3
<1>13. EndsAre(after, more)
 <2>1. SUFFICES ASSUME NEW w \in Voices, NEW g \in Nat
                PROVE  HasEnd(more, w, g) <=> 1 <= g /\ g <= after[w].generation
                           /\ (g < after[w].generation \/ ~Lives(after, w))
   BY DEF EndsAre
 <2>2. HasEnd(ended, w, g) <=> 1 <= g /\ g <= data[w].generation /\ (g < data[w].generation \/ ~Lives(data, w))
   BY DEF EndsAre
 <2>3. CASE w = v BY <1>1, <1>4, <1>5, <1>9, <1>11, <1>12, <2>2, <2>3
 <2>4. CASE w # v BY <1>5, <1>11, <1>12, <2>2, <2>4
 <2> QED BY <2>3, <2>4
<1>14. LivesOf(after) = LivesOf(data) \ {v} /\ v \in LivesOf(data) BY <1>11 DEF LivesOf
<1>15. Counted(after, more, active - 1) /\ active - 1 \in Nat
 <2>1. IsFiniteSet(LivesOf(data)) /\ active = Cardinality(LivesOf(data)) /\ n + active <= MaxSequence
   BY <1>2 DEF Counted
 <2>2. IsFiniteSet(LivesOf(after)) /\ Cardinality(LivesOf(after)) = active - 1
  <3>1. PICK set : set = LivesOf(data) OBVIOUS
  <3>2. IsFiniteSet(set \ {v}) /\ Cardinality(set \ {v}) = IF v \in set THEN Cardinality(set) - 1 ELSE Cardinality(set)
    BY <2>1, <3>1, FS_RemoveElement
  <3> QED BY <1>14, <2>1, <3>1, <3>2
 <2>3. active - 1 \in Nat BY <2>2, FS_CardinalityType
 <2> QED BY <1>2, <1>8, <2>1, <2>2, <2>3 DEF Counted
<1>16. \A w \in Voices : /\ w # v => after[w] = data[w]
                         /\ after[w].generation = data[w].generation /\ after[w].held = data[w].held
                         /\ after[w].requested = data[w].requested /\ (Lives(after, w) => Lives(data, w))
 <2>1. ASSUME NEW w \in Voices
       PROVE  /\ w # v => after[w] = data[w]
              /\ after[w].generation = data[w].generation /\ after[w].held = data[w].held
              /\ after[w].requested = data[w].requested /\ (Lives(after, w) => Lives(data, w))
  <3>1. CASE w = v BY <1>1, <1>4, <1>5, <1>11, <3>1
  <3>2. CASE w # v BY <1>5, <1>11, <3>2
  <3> QED BY <3>1, <3>2
 <2> QED BY <2>1
<1> QED BY <1>5, <1>7, <1>10, <1>11, <1>13, <1>15, <1>16

\* The outcome is staged behind the others, ...
LEMMA Staged ==
  ASSUME NEW ended \in Seq(Ends), NEW e \in Ends, NEW outbox \in Seq(Nat), OutboxOk(ended, outbox),
         NEW staged, staged = Append(outbox, Len(ended) + 1)
  PROVE  /\ staged \in Seq(Nat) /\ OutboxOk(Append(ended, e), staged)
         /\ Passed(Append(ended, e), staged) = Passed(ended, outbox)
<1>1. PICK n \in Nat : n = Len(ended) OBVIOUS
<1>2. PICK m \in Nat : m = Len(outbox) OBVIOUS
<1>3. Len(Append(ended, e)) = n + 1 BY <1>1
<1>4. staged = Append(outbox, n + 1) /\ n + 1 \in Nat BY <1>1
<1>5. staged \in Seq(Nat) /\ Len(staged) = m + 1 /\ staged[m + 1] = n + 1 /\ \A i \in 1..m : staged[i] = outbox[i]
  BY <1>2, <1>4
<1>6. m <= n /\ \A i \in 1..m : outbox[i] = n - m + i BY <1>1, <1>2 DEF OutboxOk
<1>7. ASSUME NEW i \in 1..(m + 1) PROVE staged[i] = (n + 1) - (m + 1) + i
 <2>1. CASE i = m + 1 BY <1>5, <1>6, <2>1
 <2>2. CASE i # m + 1
  <3>1. i \in 1..m BY <2>2
  <3>2. staged[i] = n - m + i /\ i \in Int BY <1>5, <1>6, <3>1
  <3> QED BY <1>1, <1>2, <3>2
 <2> QED BY <2>1, <2>2
<1> QED BY <1>1, <1>2, <1>3, <1>5, <1>6, <1>7 DEF OutboxOk, Passed

\* ... and the oldest of them is reported as lost if there is no room.
LEMMA Dropped ==
  ASSUME NEW ended \in Seq(Ends), NEW e \in Ends, NEW outbox \in Seq(Nat), OutboxOk(ended, outbox), outbox # <<>>,
         NEW lost \in Nat, NEW first \in Nat, NEW last \in Nat, NEW h \in Seq(Records),
         LossOk(Passed(ended, outbox), lost, first, last, h)
  PROVE  /\ Tail(outbox) \in Seq(Nat) /\ OutboxOk(ended, Tail(outbox)) /\ Head(outbox) \in Nat
         /\ Head(outbox) = Passed(ended, outbox) + 1 /\ Passed(ended, Tail(outbox)) = Passed(ended, outbox) + 1
         /\ LossOk(Passed(ended, outbox) + 1, lost + 1, IF first = 0 THEN Head(outbox) ELSE first, Head(outbox), h)
<1>1. PICK n \in Nat : n = Len(ended) OBVIOUS
<1>2. PICK m \in Nat : m = Len(outbox) OBVIOUS
<1>3. m > 0 /\ Head(outbox) = outbox[1] /\ Head(outbox) \in Nat /\ Tail(outbox) \in Seq(Nat)
      /\ Len(Tail(outbox)) = m - 1 /\ \A i \in 1..(m - 1) : Tail(outbox)[i] = outbox[i + 1]
  BY <1>2
<1>4. m <= n /\ \A i \in 1..m : outbox[i] = n - m + i BY <1>1, <1>2 DEF OutboxOk
<1>5. Head(outbox) = n - m + 1 BY <1>3, <1>4
<1>6. \A i \in 1..(m - 1) : Tail(outbox)[i] = n - (m - 1) + i BY <1>3, <1>4
<1>7. PICK p \in Nat : p = n - m /\ p = Passed(ended, outbox)
 <2>1. n - m \in Nat BY <1>4
 <2>2. n - m = Passed(ended, outbox) BY <1>1, <1>2 DEF Passed
 <2> QED BY <2>1, <2>2
<1>8. OutboxOk(ended, Tail(outbox)) /\ Passed(ended, Tail(outbox)) = p + 1
 <2>1. PICK rest \in Seq(Nat) : rest = Tail(outbox) BY <1>3
 <2>2. Len(rest) = m - 1 /\ m - 1 <= n /\ \A i \in 1..(m - 1) : rest[i] = n - (m - 1) + i BY <1>3, <1>4, <1>6, <2>1
 <2>3. OutboxOk(ended, rest) BY <1>1, <2>2 DEF OutboxOk
 <2>4. Passed(ended, rest) = n - (m - 1) BY <1>1, <2>2 DEF Passed
 <2> QED BY <1>7, <2>1, <2>3, <2>4
<1>9. LastTold(h) \in Nat /\ LastLoss(h) \in Nat
 <2>1. Len(h) # 0 => h[Len(h)] \in Records OBVIOUS
 <2> QED BY <2>1 DEF LastTold, LastLoss, Records
<1>10. PICK began \in Nat : began = IF first = 0 THEN p + 1 ELSE first OBVIOUS
<1>11. LossOk(p + 1, lost + 1, began, p + 1, h)
 <2>1. (p + 1) - LastTold(h) = (lost + 1) - LastLoss(h)
  <3>1. p - LastTold(h) = lost - LastLoss(h) BY <1>7 DEF LossOk
  <3>2. p \in Nat /\ lost \in Nat /\ LastTold(h) \in Nat /\ LastLoss(h) \in Nat BY <1>7, <1>9
  <3>3. PICK t \in Nat, l \in Nat : t = LastTold(h) /\ l = LastLoss(h) BY <3>2
  <3>4. p - t = lost - l BY <3>1, <3>3
  <3>5. (p + 1) - t = (lost + 1) - l BY <3>2, <3>4
  <3> QED BY <3>3, <3>5
 <2>2. 1 <= began /\ began <= p + 1 /\ \A s \in 1..(p + 1) : IsHeard(h, s) \/ (began <= s /\ s <= p + 1)
  <3>1. CASE lost = 0 BY <1>7, <1>10, <3>1 DEF LossOk
  <3>2. CASE lost > 0 BY <1>7, <1>10, <3>2 DEF LossOk
  <3> QED BY <3>1, <3>2
 <2> QED BY <2>1, <2>2 DEF LossOk
<1> QED BY <1>3, <1>5, <1>7, <1>8, <1>10, <1>11

\* ---- What a step under the mutex leaves as it was. ----
Onward(a, b) ==
  /\ b.open = a.open /\ b.discarded = a.discarded
  /\ \A w \in Voices : /\ b.data[w].generation = a.data[w].generation /\ b.data[w].held = a.data[w].held
                       /\ Lives(b.data, w) => Lives(a.data, w)
  /\ b.active + Len(b.ended) = a.active + Len(a.ended)

LEMMA TerminalKeeps ==
  ASSUME NEW a, NEW h, SystemOk(a, h), NEW v \in Voices, NEW reason \in Reasons, NEW b, b = Terminal(a, v, reason)
  PROVE  /\ SystemOk(b, h) /\ Onward(a, b) /\ ~Lives(b.data, v) /\ b.voices = a.voices
         /\ \A w \in Voices : /\ b.data[w].requested = a.data[w].requested
                              /\ w # v => b.data[w] = a.data[w]
<1>1. a \in AudioStates BY DEF SystemOk
<1>2. CASE ~Lives(a.data, v)
 <2>1. b = a
  <3>1. a.data[v].generation \in Nat BY <1>1 DEF AudioStates, Sounds
  <3> QED BY <1>2, <3>1 DEF Terminal, Lives
 <2> QED BY <1>2, <2>1 DEF Onward
<1>3. CASE Lives(a.data, v)
 <2>1. a.open /\ ~a.discarded BY <1>3 DEF SystemOk, VoicesOk
 <2>2. PICK e : e = [voice |-> v, generation |-> a.data[v].generation, reason |-> reason] OBVIOUS
 <2>3. PICK after : after = [a.data EXCEPT ![v] = [a.data[v] EXCEPT !.terminal = reason]] OBVIOUS
 <2>4. PICK more : more = Append(a.ended, e) OBVIOUS
 <2>5. PICK room : room = IF Len(a.outbox) = Capacity THEN Lose(a) ELSE a OBVIOUS
 <2>6. b = [[room EXCEPT !.outbox = Append(room.outbox, Len(a.ended) + 1)]
               EXCEPT !.data[v].terminal = reason, !.active = @ - 1, !.ended = Append(@, e)]
  <3>1. ~(a.data[v].generation = 0 \/ a.data[v].terminal # "none") BY <1>1, <1>3 DEF Lives, AudioStates, Sounds
  <3> QED BY <2>1, <2>2, <2>5, <3>1 DEF Terminal
 <2>7. /\ room \in AudioStates /\ room.data = a.data /\ room.ended = a.ended /\ room.active = a.active
       /\ room.voices = a.voices /\ room.open = a.open /\ room.discarded = a.discarded
       /\ OutboxOk(a.ended, room.outbox)
       /\ LossOk(Passed(a.ended, room.outbox), room.lost, room.firstLost, room.lastLost, h)
  <3>1. a.ended \in Seq(Ends) /\ a.outbox \in Seq(Nat) /\ a.lost \in Nat /\ a.firstLost \in Nat /\ a.lastLost \in Nat
    BY <1>1 DEF AudioStates
  <3>2. /\ OutboxOk(a.ended, a.outbox) /\ h \in Seq(Records)
        /\ LossOk(Passed(a.ended, a.outbox), a.lost, a.firstLost, a.lastLost, h)
    BY <2>1 DEF SystemOk
  <3>3. CASE Len(a.outbox) # Capacity BY <1>1, <2>5, <3>2, <3>3
  <3>4. CASE Len(a.outbox) = Capacity
   <4>1. a.outbox # <<>> BY <3>1, <3>4, NotificationAssumption
   <4>2. PICK e0 \in Ends : TRUE
    <5>1. e \in Ends BY <1>1, <2>2 DEF AudioStates, Sounds, Ends
    <5> QED BY <5>1
   <4>3. PICK p : p = Passed(a.ended, a.outbox) OBVIOUS
   <4>4. PICK head : head = Head(a.outbox) OBVIOUS
   <4>5. PICK rest : rest = Tail(a.outbox) OBVIOUS
   <4>6. PICK began : began = IF a.firstLost = 0 THEN head ELSE a.firstLost OBVIOUS
   <4>7. /\ rest \in Seq(Nat) /\ OutboxOk(a.ended, rest) /\ head \in Nat /\ head = p + 1
         /\ Passed(a.ended, rest) = p + 1 /\ LossOk(p + 1, a.lost + 1, began, head, h)
     BY <3>1, <3>2, <4>1, <4>2, <4>3, <4>4, <4>5, <4>6, Dropped
   <4>8. room = [a EXCEPT !.outbox = rest, !.lost = a.lost + 1, !.lastLost = head, !.firstLost = began]
     BY <2>5, <3>4, <4>4, <4>5, <4>6 DEF Lose
   <4>9. began \in Nat /\ a.lost + 1 \in Nat BY <3>1, <4>6, <4>7
   <4>10. room \in AudioStates BY <1>1, <4>7, <4>8, <4>9 DEF AudioStates
   <4>11. /\ room.outbox = rest /\ room.lost = a.lost + 1 /\ room.lastLost = head /\ room.firstLost = began
          /\ room.data = a.data /\ room.ended = a.ended /\ room.active = a.active
          /\ room.voices = a.voices /\ room.open = a.open /\ room.discarded = a.discarded
     BY <1>1, <4>8 DEF AudioStates
   <4> QED BY <4>7, <4>10, <4>11
  <3> QED BY <3>3, <3>4
 <2>8. PICK staged : staged = Append(room.outbox, Len(a.ended) + 1) OBVIOUS
 <2>9. b = [room EXCEPT !.outbox = staged, !.data = after, !.active = a.active - 1, !.ended = more]
   BY <2>3, <2>4, <2>6, <2>7, <2>8 DEF AudioStates
 <2>10. /\ after \in [Voices -> Sounds] /\ more \in Seq(Ends) /\ a.active - 1 \in Nat
        /\ OnceEnded(more) /\ EndsAre(after, more) /\ Counted(after, more, a.active - 1) /\ ~Lives(after, v)
        /\ \A w \in Voices : /\ w # v => after[w] = a.data[w]
                             /\ after[w].generation = a.data[w].generation /\ after[w].held = a.data[w].held
                             /\ after[w].requested = a.data[w].requested /\ (Lives(after, w) => Lives(a.data, w))
  <3>1. /\ a.data \in [Voices -> Sounds] /\ a.ended \in Seq(Ends) /\ a.active \in Nat
        /\ OnceEnded(a.ended) /\ EndsAre(a.data, a.ended) /\ Counted(a.data, a.ended, a.active)
    BY <1>1 DEF SystemOk, AudioStates
  <3>2. PICK d : d = a.data OBVIOUS
  <3>3. PICK k : k = a.ended OBVIOUS
  <3>4. PICK n : n = a.active OBVIOUS
  <3>5. /\ d \in [Voices -> Sounds] /\ k \in Seq(Ends) /\ n \in Nat /\ Lives(d, v)
        /\ OnceEnded(k) /\ EndsAre(d, k) /\ Counted(d, k, n)
        /\ after = Over(d, v, reason) /\ e = Outcome(d, v, reason) /\ more = Append(k, e)
    BY <1>3, <2>2, <2>3, <2>4, <3>1, <3>2, <3>3, <3>4 DEF Over, Outcome
  <3>6. /\ after \in [Voices -> Sounds] /\ Append(k, e) \in Seq(Ends) /\ n - 1 \in Nat
        /\ OnceEnded(Append(k, e)) /\ EndsAre(after, Append(k, e))
        /\ Counted(after, Append(k, e), n - 1) /\ ~Lives(after, v)
        /\ \A w \in Voices : /\ w # v => after[w] = d[w]
                             /\ after[w].generation = d[w].generation /\ after[w].held = d[w].held
                             /\ after[w].requested = d[w].requested /\ (Lives(after, w) => Lives(d, w))
    BY <3>5, EndAdded
  <3> QED BY <3>2, <3>4, <3>5, <3>6
 <2>11. e \in Ends /\ Len(more) = Len(a.ended) + 1 /\ Len(a.ended) \in Nat /\ a.active \in Nat
   BY <1>1, <2>2, <2>4 DEF AudioStates, Sounds, Ends
 <2>12. /\ staged \in Seq(Nat) /\ OutboxOk(more, staged)
        /\ Passed(more, staged) = Passed(a.ended, room.outbox)
  <3>1. a.ended \in Seq(Ends) /\ room.outbox \in Seq(Nat) BY <1>1, <2>7 DEF AudioStates
  <3> QED BY <2>4, <2>7, <2>8, <2>11, <3>1, Staged
 <2>13. b \in AudioStates BY <2>7, <2>9, <2>10, <2>12 DEF AudioStates
 <2>14. /\ b.outbox = staged /\ b.data = after /\ b.active = a.active - 1 /\ b.ended = more /\ b.open = a.open
        /\ b.discarded = a.discarded /\ b.voices = a.voices /\ b.lost = room.lost
        /\ b.firstLost = room.firstLost /\ b.lastLost = room.lastLost
   BY <2>7, <2>9 DEF AudioStates
 <2>15. VoicesOk(after, a.voices, a.open) BY <2>10 DEF SystemOk, VoicesOk
 <2>16. SystemOk(b, h) BY <2>1, <2>7, <2>10, <2>12, <2>13, <2>14, <2>15 DEF SystemOk
 <2>17. b.active + Len(b.ended) = a.active + Len(a.ended) BY <2>11, <2>14
 <2> QED BY <2>10, <2>14, <2>16, <2>17 DEF Onward
<1> QED BY <1>2, <1>3

\* ---- A step that changes no more of a sound than what no outcome depends on. ----
SoundSet(a, v, d) == [a EXCEPT !.data = [a.data EXCEPT ![v] = d]]
LEMMA SoundAlone ==
  ASSUME NEW a, NEW h, SystemOk(a, h), NEW v \in Voices, NEW d \in Sounds,
         d.generation = a.data[v].generation, d.terminal = a.data[v].terminal, d.held => a.data[v].held,
         NEW b, b = SoundSet(a, v, d)
  PROVE  /\ SystemOk(b, h) /\ b.voices = a.voices /\ b.open = a.open /\ b.discarded = a.discarded
         /\ b.active = a.active /\ b.ended = a.ended /\ b.data[v] = d
         /\ \A w \in Voices : /\ w # v => b.data[w] = a.data[w]
                              /\ b.data[w].generation = a.data[w].generation
                              /\ Lives(b.data, w) <=> Lives(a.data, w)
<1>1. a \in AudioStates BY DEF SystemOk
<1>2. PICK after : after = [a.data EXCEPT ![v] = d] OBVIOUS
<1>3. after \in [Voices -> Sounds] /\ after[v] = d /\ \A w \in Voices : w # v => after[w] = a.data[w]
  BY <1>1, <1>2 DEF AudioStates
<1>4. b \in AudioStates /\ b.data = after /\ b.ended = a.ended /\ b.active = a.active /\ b.voices = a.voices
      /\ b.open = a.open /\ b.discarded = a.discarded /\ b.outbox = a.outbox /\ b.lost = a.lost
      /\ b.firstLost = a.firstLost /\ b.lastLost = a.lastLost
  BY <1>1, <1>2, <1>3 DEF AudioStates, SoundSet
<1>5. \A w \in Voices : /\ after[w].generation = a.data[w].generation /\ (Lives(after, w) <=> Lives(a.data, w))
                        /\ after[w].held => a.data[w].held
  BY <1>3 DEF Lives
<1>6. EndsAre(after, a.ended) BY <1>5 DEF SystemOk, EndsAre
<1>7. LivesOf(after) = LivesOf(a.data) BY <1>5 DEF LivesOf
<1>8. Counted(after, a.ended, a.active) BY <1>7 DEF SystemOk, Counted
<1>9. VoicesOk(after, a.voices, a.open) BY <1>5 DEF SystemOk, VoicesOk
<1>10. SystemOk(b, h) BY <1>4, <1>6, <1>8, <1>9 DEF SystemOk
<1> QED BY <1>3, <1>4, <1>5, <1>10

\* Removal of a voice removes no other.
LEMMA RemovedAlone ==
  ASSUME NEW q \in Seq(Voices), NEW v
  PROVE  RemoveFirst(q, v) \in Seq(Voices) /\ \A w \in ToSet(q) : w # v => w \in ToSet(RemoveFirst(q, v))
<1>1. CASE ~\E i \in 1..Len(q) : q[i] = v BY <1>1 DEF RemoveFirst
<1>2. CASE \E i \in 1..Len(q) : q[i] = v
 <2> DEFINE I == {i \in 1..Len(q) : q[i] = v}
 <2>1. PICK k \in I : k = SelectInSeq(q, LAMBDA x : x = v)
  <3>1. I \subseteq Nat /\ I # {} BY <1>2
  <3>2. \E m \in I : \A n \in I : m <= n BY <3>1, Least
  <3>3. Min(I) \in I BY <3>2 DEF Min
  <3>4. SelectInSeq(q, LAMBDA x : x = v) = Min(I) BY <3>1 DEF SelectInSeq
  <3> QED BY <3>3, <3>4
 <2>2. k \in 1..Len(q) /\ Len(q) \in Nat OBVIOUS
 <2>3. PICK left : left = SubSeq(q, 1, k - 1) OBVIOUS
 <2>4. PICK right : right = SubSeq(q, k + 1, Len(q)) OBVIOUS
 <2>5. left \in Seq(Voices) /\ Len(left) = k - 1 /\ \A i \in 1..(k - 1) : left[i] = q[i] BY <2>2, <2>3
 <2>6. right \in Seq(Voices) /\ Len(right) = Len(q) - k /\ \A i \in 1..(Len(q) - k) : right[i] = q[k + i] BY <2>2, <2>4
 <2>7. RemoveFirst(q, v) = left \o right BY <1>2, <2>1, <2>3, <2>4 DEF RemoveFirst, RemoveAt
 <2>8. /\ left \o right \in Seq(Voices) /\ Len(left \o right) = Len(q) - 1
       /\ \A i \in 1..(k - 1) : (left \o right)[i] = q[i]
       /\ \A i \in 1..(Len(q) - k) : (left \o right)[k - 1 + i] = q[k + i]
  <3>1. \A i \in 1..(Len(left) + Len(right)) :
          (left \o right)[i] = IF i <= Len(left) THEN left[i] ELSE right[i - Len(left)]
    BY <2>5, <2>6, ConcatProperties
  <3>2. left \o right \in Seq(Voices) /\ Len(left \o right) = Len(left) + Len(right) BY <2>5, <2>6, ConcatProperties
  <3>3. ASSUME NEW i \in 1..(k - 1) PROVE (left \o right)[i] = q[i]
   <4>1. i \in 1..(Len(left) + Len(right)) /\ i <= Len(left) BY <2>2, <2>5, <2>6
   <4> QED BY <2>5, <3>1, <4>1
  <3>4. ASSUME NEW i \in 1..(Len(q) - k) PROVE (left \o right)[k - 1 + i] = q[k + i]
   <4>1. k - 1 + i \in 1..(Len(left) + Len(right)) /\ ~(k - 1 + i <= Len(left)) /\ k - 1 + i - Len(left) = i
     BY <2>2, <2>5, <2>6
   <4> QED BY <2>6, <3>1, <4>1
  <3>5. Len(left \o right) = Len(q) - 1 BY <2>2, <2>5, <2>6, <3>2
  <3> QED BY <3>2, <3>3, <3>4, <3>5
 <2> DEFINE joined == left \o right
 <2>a. joined = left \o right /\ ToSet(joined) = {joined[i] : i \in 1..(Len(q) - 1)}
  <3>1. joined \in Seq(Voices) /\ Len(joined) = Len(q) - 1 BY <2>8
  <3>2. DOMAIN joined = 1..(Len(q) - 1) BY <3>1
  <3> QED BY <3>2 DEF ToSet
 <2> HIDE DEF joined
 <2>9. ASSUME NEW w \in ToSet(q), w # v PROVE w \in ToSet(left \o right)
  <3>1. PICK i \in 1..Len(q) : q[i] = w BY DEF ToSet
  <3>2. i # k /\ q[k] = v BY <2>9, <3>1
  <3>3. CASE i < k
   <4>1. i \in 1..(k - 1) /\ i \in 1..(Len(q) - 1) BY <2>2, <3>3
   <4>2. joined[i] = w BY <2>8, <2>a, <3>1, <4>1
   <4> QED BY <2>a, <4>1, <4>2
  <3>4. CASE i > k
   <4>1. i - k \in 1..(Len(q) - k) /\ i - 1 \in 1..(Len(q) - 1) /\ k - 1 + (i - k) = i - 1 /\ k + (i - k) = i
     BY <2>2, <3>4
   <4>2. (left \o right)[i - 1] = w BY <2>8, <3>1, <4>1
   <4> QED BY <2>a, <4>1, <4>2
  <3> QED BY <2>2, <3>2, <3>3, <3>4
 <2> QED BY <2>7, <2>8, <2>9
<1> QED BY <1>1, <1>2

LEMMA ObserveKeeps ==
  ASSUME NEW a, NEW h, SystemOk(a, h), RequestedOk(a.data), NEW v \in Voices, NEW b, b = Observe(a, v)
  PROVE  /\ SystemOk(b, h) /\ RequestedOk(b.data) /\ Onward(a, b) /\ b.voices = a.voices
         /\ \A w \in Voices : b.data[w].requested = a.data[w].requested
<1>1. CASE a.data[v].atEnd
 <2>1. b = Terminal(a, v, "Completed") /\ "Completed" \in Reasons BY <1>1 DEF Observe, Reasons
 <2>2. /\ SystemOk(b, h) /\ Onward(a, b) /\ b.voices = a.voices
       /\ \A w \in Voices : b.data[w].requested = a.data[w].requested
   BY <2>1, TerminalKeeps
 <2> QED BY <2>2 DEF RequestedOk, Onward
<1>2. CASE ~a.data[v].atEnd BY <1>2 DEF Observe, Onward
<1> QED BY <1>1, <1>2

\* A visit of a walk over the voices.
Walks == [is : {"observe", "close"}] \cup [is : {"maintain"}, late : SUBSET Voices]

LEMMA VisitKeeps ==
  ASSUME NEW a, NEW h, SystemOk(a, h), RequestedOk(a.data), NEW v \in Voices, NEW how \in Walks,
         NEW b, b = StepBy(how, a, v)
  PROVE  /\ SystemOk(b, h) /\ RequestedOk(b.data) /\ Onward(a, b) /\ (how.is = "close" => ~Lives(b.data, v))
<1>1. PICK seen : seen = Observe(a, v) OBVIOUS
<1>2. /\ SystemOk(seen, h) /\ RequestedOk(seen.data) /\ Onward(a, seen) /\ seen.voices = a.voices
      /\ \A w \in Voices : seen.data[w].requested = a.data[w].requested
  BY <1>1, ObserveKeeps
<1>3. CASE how.is = "observe" BY <1>1, <1>2, <1>3 DEF StepBy
<1>4. CASE how.is = "close"
 <2>1. b = Terminal(seen, v, "OutputClosed") /\ "OutputClosed" \in Reasons BY <1>1, <1>4 DEF StepBy, Retired, Reasons
 <2>2. /\ SystemOk(b, h) /\ Onward(seen, b) /\ ~Lives(b.data, v)
       /\ \A w \in Voices : b.data[w].requested = seen.data[w].requested
   BY <1>2, <2>1, TerminalKeeps
 <2>3. RequestedOk(b.data) BY <1>2, <2>2 DEF RequestedOk, Onward
 <2>4. Onward(a, b) BY <1>2, <2>2 DEF Onward
 <2> QED BY <2>2, <2>3, <2>4
<1>5. CASE how.is = "maintain"
 <2>1. PICK now : now = IF v \in how.late THEN [seen EXCEPT !.data[v].atEnd = TRUE] ELSE seen OBVIOUS
 <2>2. SystemOk(now, h) /\ RequestedOk(now.data) /\ Onward(a, now) /\ now.voices = a.voices
  <3>1. CASE v \notin how.late BY <1>2, <2>1, <3>1
  <3>2. CASE v \in how.late
   <4>1. seen \in AudioStates BY <1>2 DEF SystemOk
   <4>2. PICK d : d = [seen.data[v] EXCEPT !.atEnd = TRUE] OBVIOUS
   <4>3. /\ d \in Sounds /\ d.generation = seen.data[v].generation /\ d.terminal = seen.data[v].terminal
         /\ d.held = seen.data[v].held /\ d.requested = seen.data[v].requested
     BY <4>1, <4>2 DEF AudioStates, Sounds
   <4>4. now = SoundSet(seen, v, d) BY <2>1, <3>2, <4>1, <4>2 DEF AudioStates, SoundSet
   <4>5. /\ SystemOk(now, h) /\ now.voices = seen.voices /\ now.open = seen.open /\ now.discarded = seen.discarded
         /\ now.active = seen.active /\ now.ended = seen.ended /\ now.data[v] = d
         /\ \A w \in Voices : /\ w # v => now.data[w] = seen.data[w]
                              /\ now.data[w].generation = seen.data[w].generation
                              /\ Lives(now.data, w) <=> Lives(seen.data, w)
     BY <1>2, <4>3, <4>4, SoundAlone
   <4>6. \A w \in Voices : now.data[w].held = seen.data[w].held /\ now.data[w].requested = seen.data[w].requested
     BY <4>3, <4>5
   <4>7. RequestedOk(now.data) BY <1>2, <4>5, <4>6 DEF RequestedOk
   <4> QED BY <1>2, <4>5, <4>6, <4>7 DEF Onward
  <3> QED BY <3>1, <3>2
 <2>3. CASE ~Reclaimable(now.data[v])
  <3>1. b = now BY <1>1, <1>5, <2>1, <2>3 DEF StepBy, Visited
  <3> QED BY <1>5, <2>2, <3>1
 <2>4. CASE Reclaimable(now.data[v])
  <3>1. PICK over : over = Terminal(now, v, "Reclaimed") OBVIOUS
  <3>2. /\ SystemOk(over, h) /\ Onward(now, over) /\ ~Lives(over.data, v) /\ over.voices = now.voices
        /\ \A w \in Voices : over.data[w].requested = now.data[w].requested
   <4>1. "Reclaimed" \in Reasons BY DEF Reasons
   <4> QED BY <2>2, <3>1, <4>1, TerminalKeeps
  <3>3. over \in AudioStates BY <3>2 DEF SystemOk
  <3>4. PICK rest : rest = RemoveFirst(over.voices, v) OBVIOUS
  <3>5. rest \in Seq(Voices) /\ \A w \in ToSet(over.voices) : w # v => w \in ToSet(rest)
    BY <3>3, <3>4, RemovedAlone DEF AudioStates
  <3>6. b = [over EXCEPT !.voices = rest] BY <1>1, <1>5, <2>1, <2>4, <3>1, <3>3, <3>4 DEF StepBy, Visited, AudioStates
  <3>7. /\ b \in AudioStates /\ b.voices = rest /\ b.data = over.data /\ b.ended = over.ended /\ b.active = over.active
        /\ b.open = over.open /\ b.discarded = over.discarded /\ b.outbox = over.outbox /\ b.lost = over.lost
        /\ b.firstLost = over.firstLost /\ b.lastLost = over.lastLost
    BY <3>3, <3>5, <3>6 DEF AudioStates
  <3>8. ~over.data[v].held BY <2>4, <3>2 DEF Reclaimable, Onward
  <3>9. VoicesOk(over.data, rest, over.open) BY <3>2, <3>5, <3>8 DEF SystemOk, VoicesOk
  <3>10. SystemOk(b, h) BY <3>2, <3>7, <3>9 DEF SystemOk
  <3>11. RequestedOk(b.data) BY <2>2, <3>2, <3>7 DEF RequestedOk, Onward
  <3>12. Onward(a, b) BY <2>2, <3>2, <3>7 DEF Onward
  <3> QED BY <1>5, <3>10, <3>11, <3>12
 <2> QED BY <2>3, <2>4
<1> QED BY <1>3, <1>4, <1>5 DEF Walks

LEMMA WalkKeeps ==
  ASSUME NEW a, NEW h, SystemOk(a, h), RequestedOk(a.data), NEW how \in Walks, NEW q \in Seq(Voices),
         NEW f, InSteps(f, how, a, q), NEW b, b = f[Len(q)]
  PROVE  /\ SystemOk(b, h) /\ RequestedOk(b.data) /\ Onward(a, b)
         /\ how.is = "close" => \A v \in ToSet(q) : ~Lives(b.data, v)
<1> DEFINE Good(k) == /\ SystemOk(f[k], h) /\ RequestedOk(f[k].data) /\ Onward(a, f[k])
                      /\ how.is = "close" => \A i \in 1..k : ~Lives(f[k].data, q[i])
           T == {k \in 0..Len(q) : ~Good(k)}
<1>1. Len(q) \in Nat /\ Len(q) \in 0..Len(q) /\ DOMAIN q = 1..Len(q) OBVIOUS
<1>2. CASE T = {}
 <2>1. Good(Len(q)) BY <1>1, <1>2
 <2> QED BY <1>1, <2>1 DEF ToSet
<1>3. CASE T # {}
 <2>1. PICK k \in T : \A m \in T : k <= m
  <3>1. T \subseteq Nat OBVIOUS
  <3> QED BY <1>3, <3>1, Least
 <2>2. k # 0
  <3>1. Good(0) BY DEF InSteps, Onward
  <3> QED BY <2>1, <3>1
 <2>3. k \in 1..Len(q) /\ k - 1 \in 0..Len(q) /\ k - 1 \notin T BY <2>1, <2>2
 <2>4. Good(k - 1) /\ q[k] \in Voices BY <2>3
 <2>5. f[k] = StepBy(how, f[k - 1], q[k]) BY <2>3 DEF InSteps
 <2> HIDE DEF T
 <2>6. PICK c : c = f[k - 1] OBVIOUS
 <2>7. PICK d : d = f[k] OBVIOUS
 <2>8. PICK v \in Voices : v = q[k] BY <2>4
 <2>9. SystemOk(c, h) /\ RequestedOk(c.data) /\ Onward(a, c) /\ d = StepBy(how, c, v) BY <2>4, <2>5, <2>6, <2>7, <2>8
 <2>10. SystemOk(d, h) /\ RequestedOk(d.data) /\ Onward(c, d) /\ (how.is = "close" => ~Lives(d.data, v))
   BY <2>9, VisitKeeps
 <2>11. Onward(a, d) BY <2>9, <2>10 DEF Onward
 <2>12. ASSUME how.is = "close", NEW i \in 1..k PROVE ~Lives(d.data, q[i])
  <3>1. CASE i = k BY <2>8, <2>10, <2>12, <3>1
  <3>2. CASE i # k
   <4>1. i \in 1..(k - 1) /\ i \in 1..Len(q) BY <2>3, <3>2
   <4>2. ~Lives(c.data, q[i]) /\ q[i] \in Voices BY <2>4, <2>6, <2>12, <4>1
   <4> QED BY <2>10, <4>2 DEF Onward
  <3> QED BY <3>1, <3>2
 <2>13. Good(k) BY <2>7, <2>10, <2>11, <2>12
 <2> QED BY <2>1, <2>13 DEF T
<1> QED BY <1>2, <1>3

\* Every walk of the system leaves it in order.
LEMMA ObservedKeeps ==
  ASSUME NEW a, NEW h, SystemOk(a, h), RequestedOk(a.data), NEW b, b = FoldLeft(Observe, a, a.voices)
  PROVE  SystemOk(b, h) /\ RequestedOk(b.data) /\ Onward(a, b)
<1>1. PICK q \in Seq(Voices) : q = a.voices BY DEF SystemOk, AudioStates
<1>2. PICK how : how = [is |-> "observe"] OBVIOUS
<1>3. how \in Walks BY <1>2 DEF Walks
<1>4. PICK f : FoldLeft(Observe, a, q) = f[Len(q)] /\ InSteps(f, [is |-> "observe"], a, q) BY <1>1, ObservedSteps
<1>5. InSteps(f, how, a, q) /\ b = f[Len(q)] BY <1>1, <1>2, <1>4
<1> QED BY <1>3, <1>5, WalkKeeps

LEMMA RetiredKeeps ==
  ASSUME NEW a, NEW h, SystemOk(a, h), RequestedOk(a.data), NEW b, b = FoldLeft(Retired, a, a.voices)
  PROVE  /\ SystemOk(b, h) /\ RequestedOk(b.data) /\ Onward(a, b)
         /\ \A v \in ToSet(a.voices) : ~Lives(b.data, v)
<1>1. PICK q \in Seq(Voices) : q = a.voices BY DEF SystemOk, AudioStates
<1>2. PICK how : how = [is |-> "close"] OBVIOUS
<1>3. how \in Walks /\ how.is = "close" BY <1>2 DEF Walks
<1>4. PICK f : FoldLeft(Retired, a, q) = f[Len(q)] /\ InSteps(f, [is |-> "close"], a, q) BY <1>1, RetiredSteps
<1>5. InSteps(f, how, a, q) /\ b = f[Len(q)] BY <1>1, <1>2, <1>4
<1>6. /\ SystemOk(b, h) /\ RequestedOk(b.data) /\ Onward(a, b)
      /\ how.is = "close" => \A v \in ToSet(q) : ~Lives(b.data, v)
  BY <1>3, <1>5, WalkKeeps
<1> QED BY <1>1, <1>3, <1>6

LEMMA MaintainedKeeps ==
  ASSUME NEW a, NEW h, SystemOk(a, h), RequestedOk(a.data), NEW late \in Late(a), NEW b, b = Maintained(a, late)
  PROVE  SystemOk(b, h) /\ RequestedOk(b.data) /\ Onward(a, b)
<1>1. PICK q \in Seq(Voices) : q = a.voices BY DEF SystemOk, AudioStates
<1>2. PICK how : how = [is |-> "maintain", late |-> late] OBVIOUS
<1>3. how \in Walks
 <2>1. late \subseteq Voices BY <1>1 DEF Late, ToSet
 <2> QED BY <1>2, <2>1 DEF Walks
<1>4. PICK f : /\ FoldLeft(LAMBDA c, v : Visited(c, v, late), a, q) = f[Len(q)]
               /\ InSteps(f, [is |-> "maintain", late |-> late], a, q)
  BY <1>1, VisitedSteps
<1>5. InSteps(f, how, a, q) /\ b = f[Len(q)] BY <1>1, <1>2, <1>4 DEF Maintained
<1> QED BY <1>3, <1>5, WalkKeeps

\* A sound changes in what no outcome depends on, or a new one is admitted
\* in the place of one that is over.
LEMMA SoundKeeps ==
  ASSUME NEW a, NEW h, SystemOk(a, h), RequestedOk(a.data), NEW v \in Voices, NEW d \in Sounds,
         d.generation = a.data[v].generation, d.terminal = a.data[v].terminal, d.held => a.data[v].held,
         d.requested # "Stopped" \/ d.requested = a.data[v].requested, NEW b, b = SoundSet(a, v, d)
  PROVE  SystemOk(b, h) /\ RequestedOk(b.data)
<1>1. /\ SystemOk(b, h) /\ b.data[v] = d
      /\ \A w \in Voices : (w # v => b.data[w] = a.data[w]) /\ (Lives(b.data, w) <=> Lives(a.data, w))
  BY SoundAlone
<1> QED BY <1>1 DEF RequestedOk

Admitted(a, v, d, q) == [SoundSet(a, v, d) EXCEPT !.voices = q, !.active = a.active + 1]
LEMMA AdmittedKeeps ==
  ASSUME NEW a, NEW h, SystemOk(a, h), NEW v \in Voices, ~Lives(a.data, v), a.open,
         a.active + Len(a.ended) < MaxSequence, NEW d \in Sounds, d.generation = a.data[v].generation + 1,
         d.terminal = "none", NEW q \in Seq(Voices), v \in ToSet(q), ToSet(a.voices) \subseteq ToSet(q),
         NEW b, b = Admitted(a, v, d, q)
  PROVE  /\ SystemOk(b, h) /\ b.data[v] = d
         /\ \A w \in Voices : w # v => b.data[w] = a.data[w] /\ (Lives(b.data, w) <=> Lives(a.data, w))
<1>1. a \in AudioStates BY DEF SystemOk
<1>2. PICK after : after = [a.data EXCEPT ![v] = d] OBVIOUS
<1>3. after \in [Voices -> Sounds] /\ after[v] = d /\ \A w \in Voices : w # v => after[w] = a.data[w]
  BY <1>1, <1>2 DEF AudioStates
<1>4. b = [a EXCEPT !.data = after, !.voices = q, !.active = a.active + 1] BY <1>2 DEF Admitted, SoundSet
<1>5. b \in AudioStates /\ b.data = after /\ b.ended = a.ended /\ b.active = a.active + 1 /\ b.voices = q
      /\ b.open = a.open /\ b.discarded = a.discarded /\ b.outbox = a.outbox /\ b.lost = a.lost
      /\ b.firstLost = a.firstLost /\ b.lastLost = a.lastLost
 <2>1. PICK n : n = a.active + 1 OBVIOUS
 <2>2. n \in Nat BY <1>1, <2>1 DEF AudioStates
 <2>3. b = [a EXCEPT !.data = after, !.voices = q, !.active = n] BY <1>4, <2>1
 <2>4. b \in AudioStates BY <1>1, <1>3, <2>2, <2>3 DEF AudioStates
 <2> QED BY <1>1, <2>1, <2>3, <2>4 DEF AudioStates
<1>6. Lives(after, v) /\ \A w \in Voices : w # v => (Lives(after, w) <=> Lives(a.data, w))
 <2>1. a.data[v].generation \in Nat BY <1>1 DEF AudioStates, Sounds
 <2> QED BY <1>3, <2>1 DEF Lives
<1>7. EndsAre(after, a.ended)
 <2>1. SUFFICES ASSUME NEW w \in Voices, NEW g \in Nat
                PROVE  HasEnd(a.ended, w, g) <=> 1 <= g /\ g <= after[w].generation
                           /\ (g < after[w].generation \/ ~Lives(after, w))
   BY DEF EndsAre
 <2>2. HasEnd(a.ended, w, g) <=> 1 <= g /\ g <= a.data[w].generation
           /\ (g < a.data[w].generation \/ ~Lives(a.data, w))
   BY DEF SystemOk, EndsAre
 <2>3. a.data[w].generation \in Nat BY <1>1 DEF AudioStates, Sounds
 <2>4. CASE w = v BY <1>3, <1>6, <2>2, <2>3, <2>4
 <2>5. CASE w # v BY <1>3, <1>6, <2>2, <2>5
 <2> QED BY <2>4, <2>5
<1>8. LivesOf(after) = LivesOf(a.data) \cup {v} /\ v \notin LivesOf(a.data) BY <1>6 DEF LivesOf
<1>9. Counted(after, a.ended, a.active + 1)
 <2>1. IsFiniteSet(LivesOf(a.data)) /\ a.active = Cardinality(LivesOf(a.data)) BY DEF SystemOk, Counted
 <2>2. PICK set : set = LivesOf(a.data) OBVIOUS
 <2>3. /\ IsFiniteSet(set \cup {v})
       /\ Cardinality(set \cup {v}) = IF v \in set THEN Cardinality(set) ELSE Cardinality(set) + 1
   BY <2>1, <2>2, FS_AddElement
 <2>4. Len(a.ended) \in Nat /\ a.active \in Nat /\ MaxSequence \in Nat BY <1>1, NotificationAssumption DEF AudioStates
 <2> QED BY <1>8, <2>1, <2>2, <2>3, <2>4 DEF Counted
<1>10. VoicesOk(after, q, a.open)
 <2>1. ASSUME NEW w \in Voices
       PROVE  /\ Lives(after, w) => w \in ToSet(q)
              /\ after[w].held => after[w].generation > 0 /\ w \in ToSet(q)
  <3>1. CASE w = v BY <1>3, <1>6, <3>1 DEF Lives
  <3>2. CASE w # v BY <1>3, <1>6, <3>2 DEF SystemOk, VoicesOk
  <3> QED BY <3>1, <3>2
 <2> QED BY <2>1 DEF VoicesOk
<1>11. SystemOk(b, h) BY <1>5, <1>7, <1>9, <1>10 DEF SystemOk
<1> QED BY <1>3, <1>5, <1>6, <1>11

\* A record told takes the oldest outcome from the outbox.
Record(a) == [sequence |-> Head(a.outbox), lost |-> a.lost, firstLost |-> a.firstLost, lastLost |-> a.lastLost]
Told(a) == [a EXCEPT !.outbox = Tail(a.outbox)]
LEMMA ToldKeeps ==
  ASSUME NEW a, NEW h, SystemOk(a, h), HeardOk(h), ~a.discarded, a.outbox # <<>>,
         NEW r, r = Record(a), NEW b, b = Told(a), NEW more, more = Append(h, r)
  PROVE  SystemOk(b, more) /\ HeardOk(more) /\ b.data = a.data
<1>1. a \in AudioStates /\ h \in Seq(Records) BY DEF SystemOk
<1>2. PICK rest : rest = Tail(a.outbox) OBVIOUS
<1>3. PICK p : p = Passed(a.ended, a.outbox) OBVIOUS
<1>4. PICK head : head = Head(a.outbox) OBVIOUS
<1>5. PICK n \in Nat : n = Len(h) BY <1>1
<1>a. Len(a.ended) \in Nat /\ Len(a.outbox) \in Nat
 <2>1. a.ended \in Seq(Ends) /\ a.outbox \in Seq(Nat) BY <1>1 DEF AudioStates
 <2> QED BY <2>1, LenProperties
<1>6. PICK k \in Nat : k = Len(a.ended) BY <1>a
<1>7. PICK m \in Nat : m = Len(a.outbox) BY <1>a
<1>8. OutboxOk(a.ended, a.outbox) /\ LossOk(p, a.lost, a.firstLost, a.lastLost, h) BY <1>3 DEF SystemOk
<1>9. m > 0 /\ m <= k /\ (\A i \in 1..m : a.outbox[i] = k - m + i) /\ p = k - m /\ p \in Nat
  BY <1>1, <1>3, <1>6, <1>7, <1>8 DEF AudioStates, OutboxOk, Passed
<1>10. head = p + 1 /\ rest \in Seq(Nat) /\ Len(rest) = m - 1 /\ \A i \in 1..(m - 1) : rest[i] = a.outbox[i + 1]
 <2>1. PICK box \in Seq(Nat) : box = a.outbox BY <1>1 DEF AudioStates
 <2>2. /\ Head(box) = box[1] /\ Tail(box) \in Seq(Nat) /\ Len(Tail(box)) = m - 1
       /\ \A i \in 1..(m - 1) : Tail(box)[i] = box[i + 1]
   BY <1>7, <1>9, <2>1
 <2>3. box[1] = k - m + 1 BY <1>9, <2>1
 <2> QED BY <1>2, <1>4, <1>9, <2>1, <2>2, <2>3
<1>11. OutboxOk(a.ended, rest) /\ Passed(a.ended, rest) = p + 1
 <2>1. ASSUME NEW i \in 1..(m - 1) PROVE rest[i] = k - (m - 1) + i
  <3>1. i + 1 \in 1..m /\ rest[i] = a.outbox[i + 1] /\ i \in Int BY <1>10
  <3>2. a.outbox[i + 1] = k - m + (i + 1) BY <1>9, <3>1
  <3> QED BY <3>1, <3>2
 <2> QED BY <1>6, <1>9, <1>10, <2>1 DEF OutboxOk, Passed
<1>12. r \in Records /\ r.sequence = p + 1 /\ r.lost = a.lost
 <2>1. a.lost \in Nat /\ a.firstLost \in Nat /\ a.lastLost \in Nat BY <1>1 DEF AudioStates
 <2>2. r = [sequence |-> p + 1, lost |-> a.lost, firstLost |-> a.firstLost, lastLost |-> a.lastLost]
   BY <1>4, <1>10 DEF Record
 <2> QED BY <1>9, <2>1, <2>2 DEF Records
<1>13. more \in Seq(Records) /\ Len(more) = n + 1 /\ more[n + 1] = r /\ \A i \in 1..n : more[i] = h[i]
  BY <1>1, <1>5, <1>12
<1>14. LastTold(more) = p + 1 /\ LastLoss(more) = a.lost BY <1>12, <1>13 DEF LastTold, LastLoss
<1>15. IsHeard(more, p + 1) /\ \A s : IsHeard(h, s) => IsHeard(more, s) BY <1>5, <1>12, <1>13 DEF IsHeard
<1>16. a.lost \in Nat /\ a.firstLost \in Nat /\ a.lastLost \in Nat BY <1>1 DEF AudioStates
<1>17. LossOk(p + 1, a.lost, a.firstLost, a.lastLost, more)
 <2>1. (p + 1) - LastTold(more) = a.lost - LastLoss(more) BY <1>9, <1>14, <1>16
 <2>2. a.lost = 0 => a.firstLost = 0 /\ \A s \in 1..(p + 1) : IsHeard(more, s) BY <1>8, <1>9, <1>15 DEF LossOk
 <2>3. a.lost > 0 => /\ 1 <= a.firstLost /\ a.firstLost <= a.lastLost /\ a.lastLost <= p + 1
                     /\ \A s \in 1..(p + 1) : IsHeard(more, s) \/ (a.firstLost <= s /\ s <= a.lastLost)
   BY <1>8, <1>9, <1>15, <1>16 DEF LossOk
 <2> QED BY <2>1, <2>2, <2>3 DEF LossOk
<1>18. HeardOk(more)
 <2>1. SUFFICES ASSUME NEW i \in 1..(n + 1)
                PROVE  more[i].sequence - (IF i = 1 THEN 0 ELSE more[i - 1].sequence) - 1
                         = more[i].lost - (IF i = 1 THEN 0 ELSE more[i - 1].lost)
   BY <1>13 DEF HeardOk
 <2>a. i \in 1..n \/ i = n + 1 OBVIOUS
 <2>2. CASE i \in 1..n
  <3>1. more[i] = h[i] /\ (i # 1 => more[i - 1] = h[i - 1]) BY <1>13, <2>2
  <3>2. h[i].sequence - (IF i = 1 THEN 0 ELSE h[i - 1].sequence) - 1
          = h[i].lost - (IF i = 1 THEN 0 ELSE h[i - 1].lost)
    BY <1>5, <2>2 DEF HeardOk
  <3> QED BY <3>1, <3>2
 <2>3. CASE i = n + 1
  <3>1. p - LastTold(h) = a.lost - LastLoss(h) BY <1>8 DEF LossOk
  <3>2. LastTold(h) = (IF i = 1 THEN 0 ELSE h[n].sequence) /\ LastLoss(h) = (IF i = 1 THEN 0 ELSE h[n].lost)
    BY <1>5, <2>3 DEF LastTold, LastLoss
  <3>3. i # 1 => more[i - 1] = h[n] /\ h[n] \in Records BY <1>1, <1>5, <1>13, <2>3
  <3>4. LastTold(h) \in Nat /\ LastLoss(h) \in Nat BY <3>2, <3>3 DEF Records
  <3>5. more[i].sequence = p + 1 /\ more[i].lost = a.lost BY <1>12, <1>13, <2>3
  <3>6. (p + 1) - LastTold(h) - 1 = a.lost - LastLoss(h) BY <1>9, <3>1, <3>4
  <3> QED BY <3>2, <3>3, <3>5, <3>6
 <2> QED BY <2>a, <2>2, <2>3
<1>19. /\ b \in AudioStates /\ b.outbox = rest /\ b.data = a.data /\ b.ended = a.ended /\ b.active = a.active
       /\ b.voices = a.voices /\ b.open = a.open /\ b.discarded = a.discarded /\ b.lost = a.lost
       /\ b.firstLost = a.firstLost /\ b.lastLost = a.lastLost
  BY <1>1, <1>2, <1>10 DEF AudioStates, Told
<1>20. SystemOk(b, more) BY <1>11, <1>13, <1>17, <1>19 DEF SystemOk
<1> QED BY <1>18, <1>19, <1>20

\* ---- The steps of the audio system. ----
AudioInv == SystemOk(audio, heard) /\ RequestedOk(audio.data) /\ HeardOk(heard)

LEMMA AudioBegins == AudioInit => AudioInv
<1>1. SUFFICES ASSUME AudioInit PROVE AudioInv OBVIOUS
<1>2. Silence \in Sounds /\ Silence.generation = 0 /\ ~Silence.held BY DEF Silence, Sounds
<1>3. PICK data : data = [v \in Voices |-> Silence] OBVIOUS
<1>4. data \in [Voices -> Sounds] /\ \A v \in Voices : data[v].generation = 0 /\ ~data[v].held /\ ~Lives(data, v)
  BY <1>2, <1>3 DEF Lives
<1>5. /\ audio = [open |-> TRUE, discarded |-> FALSE, voices |-> <<>>, data |-> data, ended |-> <<>>, active |-> 0,
                  outbox |-> <<>>, lost |-> 0, firstLost |-> 0, lastLost |-> 0]
      /\ heard = <<>>
  BY <1>1, <1>3 DEF AudioInit
<1>6. audio \in AudioStates BY <1>4, <1>5 DEF AudioStates
<1>7. heard \in Seq(Records) /\ Len(heard) = 0 /\ HeardOk(heard) BY <1>5 DEF HeardOk
<1>8. OnceEnded(<<>>) /\ EndsAre(data, <<>>)
 <2>1. \A v \in Voices : \A g \in Nat : ~HasEnd(<<>>, v, g) BY DEF HasEnd
 <2>2. \A v \in Voices : \A g \in Nat : ~(1 <= g /\ g <= data[v].generation) BY <1>4
 <2> QED BY <2>1, <2>2 DEF OnceEnded, EndsAre
<1>9. Counted(data, <<>>, 0)
 <2>1. LivesOf(data) = {} BY <1>4 DEF LivesOf
 <2> QED BY <2>1, FS_EmptySet, NotificationAssumption DEF Counted
<1>10. VoicesOk(data, <<>>, TRUE) /\ RequestedOk(data) BY <1>4 DEF VoicesOk, RequestedOk
<1>11. OutboxOk(<<>>, <<>>) /\ Passed(<<>>, <<>>) = 0 BY DEF OutboxOk, Passed
<1>12. LossOk(0, 0, 0, 0, heard) BY <1>7 DEF LossOk, LastTold, LastLoss
<1>13. SystemOk(audio, heard) BY <1>5, <1>6, <1>7, <1>8, <1>9, <1>10, <1>11, <1>12 DEF SystemOk
<1> QED BY <1>5, <1>7, <1>10, <1>13 DEF AudioInv

LEMMA PlayKeeps ==
  ASSUME AudioInv, NEW v \in Voices, NEW paused \in BOOLEAN, NEW looping \in BOOLEAN, Play(v, paused, looping)
  PROVE  AudioInv'
<1>1. PICK late \in Late(audio) :
        LET a == Maintained(audio, late) IN
        \/ Changed(a)
        \/ /\ Permit(a)
           /\ Changed([a EXCEPT !.voices = Append(@, v), !.active = @ + 1,
                  !.data[v] = [Silence EXCEPT !.generation = 1, !.looping = looping, !.held = TRUE,
                                   !.requested = IF paused THEN "Paused" ELSE "Playing"]])
  BY DEF Play
<1>2. PICK a : a = Maintained(audio, late) OBVIOUS
<1>3. SystemOk(a, heard) /\ RequestedOk(a.data) /\ Onward(audio, a) /\ HeardOk(heard)
  BY <1>2, MaintainedKeeps DEF AudioInv
<1>4. CASE Changed(a) BY <1>3, <1>4 DEF Changed, AudioInv
<1>5. PICK d : d = [Silence EXCEPT !.generation = 1, !.looping = looping, !.held = TRUE,
                        !.requested = IF paused THEN "Paused" ELSE "Playing"]
  OBVIOUS
<1>6. CASE Permit(a) /\ Changed([a EXCEPT !.voices = Append(@, v), !.active = @ + 1, !.data[v] = d])
 <2>1. a \in AudioStates BY <1>3 DEF SystemOk
 <2>2. PICK q : q = Append(a.voices, v) OBVIOUS
 <2>3. PICK box \in Seq(Voices) : box = a.voices BY <2>1 DEF AudioStates
 <2>4. q \in Seq(Voices) /\ Len(q) = Len(box) + 1 /\ q[Len(box) + 1] = v /\ \A i \in 1..Len(box) : q[i] = box[i]
   BY <2>2, <2>3
 <2>5. v \in ToSet(q) /\ ToSet(a.voices) \subseteq ToSet(q) BY <2>3, <2>4 DEF ToSet
 <2>6. d \in Sounds /\ d.generation = 1 /\ d.terminal = "none" /\ d.requested # "Stopped" BY <1>5 DEF Silence, Sounds
 <2>7. a.data[v].generation = 0 /\ a.open /\ ~Lives(a.data, v) BY <1>3 DEF Play, Onward, Lives
 <2>8. a.active + Len(a.ended) < MaxSequence
  <3>1. Len(a.ended) \in Nat /\ a.active \in Nat BY <2>1 DEF AudioStates
  <3> QED BY <1>6, <3>1, NotificationAssumption DEF Permit
 <2>9. PICK b : b = Admitted(a, v, d, q) OBVIOUS
 <2>10. /\ SystemOk(b, heard) /\ b.data[v] = d
        /\ \A w \in Voices : w # v => b.data[w] = a.data[w] /\ (Lives(b.data, w) <=> Lives(a.data, w))
  <3>1. d.generation = a.data[v].generation + 1 BY <2>6, <2>7
  <3>2. q \in Seq(Voices) /\ d \in Sounds /\ d.terminal = "none" /\ SystemOk(a, heard) BY <1>3, <2>4, <2>6
  <3> QED BY <2>5, <2>7, <2>8, <2>9, <3>1, <3>2, AdmittedKeeps
 <2>11. RequestedOk(b.data) BY <1>3, <2>6, <2>10 DEF RequestedOk
 <2>12. audio' = b /\ heard' = heard BY <1>6, <2>1, <2>2, <2>9 DEF Changed, Admitted, SoundSet, AudioStates
 <2> QED BY <1>3, <2>10, <2>11, <2>12 DEF AudioInv
<1> QED BY <1>1, <1>2, <1>4, <1>5, <1>6

LEMMA SnapshotKeeps ==
  ASSUME AudioInv, NEW v \in Voices
  PROVE  /\ SystemOk(Observe(audio, v), heard) /\ RequestedOk(Observe(audio, v).data)
         /\ Onward(audio, Observe(audio, v)) /\ Observe(audio, v).voices = audio.voices
         /\ Changed(Observe(audio, v)) => AudioInv'
<1>1. PICK a : a = Observe(audio, v) OBVIOUS
<1>2. SystemOk(a, heard) /\ RequestedOk(a.data) /\ Onward(audio, a) /\ a.voices = audio.voices
  BY <1>1, ObserveKeeps DEF AudioInv
<1>3. Changed(a) => AudioInv' BY <1>2 DEF Changed, AudioInv
<1> QED BY <1>1, <1>2, <1>3

LEMMA AlterKeeps ==
  ASSUME AudioInv, NEW a, SystemOk(a, heard), RequestedOk(a.data), NEW v \in Voices, NEW d \in Sounds,
         d.generation = a.data[v].generation, d.terminal = a.data[v].terminal, d.held => a.data[v].held,
         d.requested # "Stopped" \/ d.requested = a.data[v].requested, Changed(SoundSet(a, v, d))
  PROVE  AudioInv'
<1>1. PICK b : b = SoundSet(a, v, d) OBVIOUS
<1>2. SystemOk(b, heard) /\ RequestedOk(b.data) BY <1>1, SoundKeeps
<1>3. audio' = b /\ heard' = heard BY <1>1 DEF Changed
<1> QED BY <1>2, <1>3 DEF AudioInv

LEMMA ControlKeeps ==
  ASSUME AudioInv, NEW v \in Voices, NEW yes \in BOOLEAN, Pause(v) \/ ResumeAfter(v, yes) \/ SetLooping(v, yes)
  PROVE  AudioInv'
<1>1. PICK a : a = Observe(audio, v) OBVIOUS
<1>2. SystemOk(a, heard) /\ RequestedOk(a.data) /\ (Changed(a) => AudioInv') /\ a \in AudioStates
  BY <1>1, SnapshotKeeps DEF SystemOk
<1>3. PICK e \in Sounds : e = a.data[v] BY <1>2 DEF AudioStates
<1>4. ASSUME NEW d, \/ d = [e EXCEPT !.waiting = FALSE, !.requested = "Paused"]
                    \/ d = [e EXCEPT !.requested = "Playing", !.waiting = yes]
                    \/ d = [e EXCEPT !.looping = yes],
             Changed(SoundSet(a, v, d))
      PROVE  AudioInv'
 <2>1. /\ d \in Sounds /\ d.generation = e.generation /\ d.terminal = e.terminal /\ d.held = e.held
       /\ d.requested # "Stopped" \/ d.requested = e.requested
   BY <1>3, <1>4 DEF Sounds
 <2> QED BY <1>2, <1>3, <1>4, <2>1, AlterKeeps
<1>5. CASE Changed([Stopped(a, v) EXCEPT !.data[v].requested = "Paused"])
  BY <1>2, <1>3, <1>4, <1>5 DEF Stopped, SoundSet, AudioStates, Sounds
<1>6. CASE Changed([a EXCEPT !.data[v].requested = "Playing", !.data[v].waiting = yes])
  BY <1>2, <1>3, <1>4, <1>6 DEF SoundSet, AudioStates, Sounds
<1>7. CASE Changed([a EXCEPT !.data[v].looping = yes]) BY <1>2, <1>3, <1>4, <1>7 DEF SoundSet, AudioStates, Sounds
<1> QED BY <1>1, <1>2, <1>5, <1>6, <1>7 DEF Pause, ResumeAfter, SetLooping

LEMMA ReleaseKeeps ==
  ASSUME AudioInv, NEW v \in Voices, Release(v) \/ Mix(v)
  PROVE  AudioInv'
<1>1. audio \in AudioStates /\ SystemOk(audio, heard) /\ RequestedOk(audio.data) BY DEF AudioInv, SystemOk
<1>2. PICK d : \/ d = [audio.data[v] EXCEPT !.held = FALSE] /\ Changed([audio EXCEPT !.data[v].held = FALSE])
               \/ d = [audio.data[v] EXCEPT !.waiting = FALSE] /\ Changed([audio EXCEPT !.data[v].waiting = FALSE])
               \/ d = [audio.data[v] EXCEPT !.atEnd = TRUE] /\ Changed([audio EXCEPT !.data[v].atEnd = TRUE])
  BY DEF Release, Mix
<1>3. /\ d \in Sounds /\ d.generation = audio.data[v].generation /\ d.terminal = audio.data[v].terminal
      /\ (d.held => audio.data[v].held) /\ d.requested = audio.data[v].requested
 <2>1. PICK e \in Sounds : e = audio.data[v] BY <1>1 DEF AudioStates
 <2>2. d = [e EXCEPT !.held = FALSE] \/ d = [e EXCEPT !.waiting = FALSE] \/ d = [e EXCEPT !.atEnd = TRUE] BY <1>2, <2>1
 <2>3. d \in Sounds /\ d.generation = e.generation /\ d.terminal = e.terminal /\ d.requested = e.requested
   BY <2>1, <2>2 DEF Sounds
 <2>4. d.held => e.held BY <2>1, <2>2 DEF Sounds
 <2> QED BY <2>1, <2>3, <2>4
<1>4. Changed(SoundSet(audio, v, d)) BY <1>1, <1>2 DEF SoundSet, AudioStates
<1> QED BY <1>1, <1>3, <1>4, AlterKeeps

\* A control that ends the generation: its sound is stopped first.
Halted(a, v) == [Stopped(a, v) EXCEPT !.data[v].requested = "Stopped"]
LEMMA EndedKeeps ==
  ASSUME NEW a, SystemOk(a, heard), RequestedOk(a.data), NEW v \in Voices, NEW reason \in Reasons,
         NEW s, s = Halted(a, v), NEW b, b = Terminal(s, v, reason)
  PROVE  /\ SystemOk(b, heard) /\ RequestedOk(b.data) /\ ~Lives(b.data, v) /\ b.voices = a.voices /\ b.open = a.open
         /\ b.active + Len(b.ended) = a.active + Len(a.ended)
         /\ b.data[v].generation = a.data[v].generation /\ b.data[v].held = a.data[v].held
         /\ s.data[v].generation = a.data[v].generation /\ s.data[v].looping = a.data[v].looping
<1>1. a \in AudioStates BY DEF SystemOk
<1>2. PICK d : d = [a.data[v] EXCEPT !.waiting = FALSE, !.requested = "Stopped"] OBVIOUS
<1>3. /\ d \in Sounds /\ d.generation = a.data[v].generation /\ d.terminal = a.data[v].terminal
      /\ d.held = a.data[v].held /\ d.looping = a.data[v].looping
 <2>1. PICK e \in Sounds : e = a.data[v] BY <1>1 DEF AudioStates
 <2>2. d = [e EXCEPT !.waiting = FALSE, !.requested = "Stopped"] BY <1>2, <2>1
 <2>3. /\ d \in Sounds /\ d.generation = e.generation /\ d.terminal = e.terminal
       /\ d.held = e.held /\ d.looping = e.looping
   BY <2>2 DEF Sounds
 <2> QED BY <2>1, <2>3
<1>4. s = SoundSet(a, v, d) BY <1>1, <1>2 DEF Halted, Stopped, SoundSet, AudioStates, Sounds
<1>5. /\ SystemOk(s, heard) /\ s.voices = a.voices /\ s.open = a.open /\ s.discarded = a.discarded
      /\ s.active = a.active /\ s.ended = a.ended /\ s.data[v] = d
      /\ \A w \in Voices : /\ w # v => s.data[w] = a.data[w]
                           /\ s.data[w].generation = a.data[w].generation
                           /\ Lives(s.data, w) <=> Lives(a.data, w)
  BY <1>3, <1>4, SoundAlone
<1>6. /\ SystemOk(b, heard) /\ Onward(s, b) /\ ~Lives(b.data, v) /\ b.voices = s.voices
      /\ \A w \in Voices : b.data[w].requested = s.data[w].requested /\ (w # v => b.data[w] = s.data[w])
  BY <1>5, TerminalKeeps
<1>7. RequestedOk(b.data)
 <2>1. SUFFICES ASSUME NEW w \in Voices, Lives(b.data, w) PROVE b.data[w].requested # "Stopped" BY DEF RequestedOk
 <2>2. w # v /\ Lives(a.data, w) /\ b.data[w].requested = a.data[w].requested BY <1>5, <1>6, <2>1 DEF Onward
 <2> QED BY <2>2 DEF RequestedOk
<1> QED BY <1>3, <1>5, <1>6, <1>7 DEF Onward

LEMMA StopKeeps ==
  ASSUME AudioInv, NEW v \in Voices, Stop(v)
  PROVE  AudioInv'
<1>1. PICK a : a = Observe(audio, v) OBVIOUS
<1>2. SystemOk(a, heard) /\ RequestedOk(a.data) /\ (Changed(a) => AudioInv') BY <1>1, SnapshotKeeps
<1>3. PICK s : s = Halted(a, v) OBVIOUS
<1>4. CASE Changed(Terminal(s, v, "Stopped"))
 <2>1. PICK b : b = Terminal(s, v, "Stopped") OBVIOUS
 <2>2. SystemOk(b, heard) /\ RequestedOk(b.data) BY <1>2, <1>3, <2>1, EndedKeeps DEF Reasons
 <2> QED BY <1>4, <2>1, <2>2 DEF Changed, AudioInv
<1> QED BY <1>1, <1>2, <1>3, <1>4 DEF Stop, Halted

LEMMA RestartKeeps ==
  ASSUME AudioInv, NEW v \in Voices, Restart(v)
  PROVE  AudioInv'
<1>1. PICK a : a = Observe(audio, v) OBVIOUS
<1>2. /\ SystemOk(a, heard) /\ RequestedOk(a.data) /\ (Changed(a) => AudioInv') /\ Onward(audio, a)
      /\ a.voices = audio.voices
  BY <1>1, SnapshotKeeps
<1>3. PICK s : s = Halted(a, v) OBVIOUS
<1>4. CASE Changed(Terminal(s, v, "Stopped"))
 <2>1. PICK b : b = Terminal(s, v, "Stopped") OBVIOUS
 <2>2. SystemOk(b, heard) /\ RequestedOk(b.data) BY <1>2, <1>3, <2>1, EndedKeeps DEF Reasons
 <2> QED BY <1>4, <2>1, <2>2 DEF Changed, AudioInv
<1>5. CASE Permit(a) /\ Changed(Replaced(s, v))
 <2>1. PICK t : t = Terminal(s, v, "Replaced") OBVIOUS
 <2>2. /\ SystemOk(t, heard) /\ RequestedOk(t.data) /\ ~Lives(t.data, v) /\ t.voices = a.voices /\ t.open = a.open
       /\ t.active + Len(t.ended) = a.active + Len(a.ended)
       /\ t.data[v].generation = a.data[v].generation /\ t.data[v].held = a.data[v].held
       /\ s.data[v].generation = a.data[v].generation /\ s.data[v].looping = a.data[v].looping
  <3>1. "Replaced" \in Reasons BY DEF Reasons
  <3> QED BY <1>2, <1>3, <2>1, <3>1, EndedKeeps
 <2>3. PICK d : d = [Silence EXCEPT !.generation = s.data[v].generation + 1, !.held = TRUE,
                         !.looping = s.data[v].looping, !.requested = "Playing"]
   OBVIOUS
 <2>4. a \in AudioStates /\ t \in AudioStates BY <1>2, <2>2 DEF SystemOk
 <2>5. d \in Sounds /\ d.generation = t.data[v].generation + 1 /\ d.terminal = "none" /\ d.requested = "Playing"
  <3>1. PICK g \in Nat : g = s.data[v].generation BY <2>2, <2>4 DEF AudioStates, Sounds
  <3>2. PICK looping \in BOOLEAN : looping = s.data[v].looping BY <2>2, <2>4 DEF AudioStates, Sounds
  <3>3. d = [requested |-> "Playing", atEnd |-> FALSE, waiting |-> FALSE, looping |-> looping,
             generation |-> g + 1, terminal |-> "none", held |-> TRUE]
    BY <2>3, <3>1, <3>2 DEF Silence
  <3>4. g + 1 \in Nat OBVIOUS
  <3> QED BY <2>2, <3>1, <3>3, <3>4 DEF Sounds
 <2>6. t.open /\ v \in ToSet(t.voices)
  <3>1. audio.open /\ audio.data[v].held BY DEF Restart, Control
  <3>2. a.open /\ a.data[v].held BY <1>2, <3>1 DEF Onward
  <3> QED BY <2>2, <3>2 DEF SystemOk, VoicesOk
 <2>7. t.active + Len(t.ended) < MaxSequence
  <3>1. Len(a.ended) \in Nat /\ a.active \in Nat BY <2>4 DEF AudioStates
  <3>2. a.active < MaxSequence - Len(a.ended) BY <1>5 DEF Permit
  <3> QED BY <2>2, <3>1, <3>2, NotificationAssumption
 <2>8. PICK q \in Seq(Voices) : q = t.voices BY <2>4 DEF AudioStates
 <2>9. PICK b : b = Admitted(t, v, d, q) OBVIOUS
 <2>10. /\ SystemOk(b, heard) /\ b.data[v] = d
        /\ \A w \in Voices : w # v => b.data[w] = t.data[w] /\ (Lives(b.data, w) <=> Lives(t.data, w))
  <3>1. v \in ToSet(q) /\ ToSet(t.voices) \subseteq ToSet(q) BY <2>6, <2>8
  <3> QED BY <2>2, <2>5, <2>6, <2>7, <2>8, <2>9, <3>1, AdmittedKeeps
 <2>11. RequestedOk(b.data) BY <2>2, <2>5, <2>10 DEF RequestedOk
 <2>12. b = Replaced(s, v)
  <3>1. Replaced(s, v) = [t EXCEPT !.active = t.active + 1, !.data[v] = d] BY <2>1, <2>3 DEF Replaced
  <3> QED BY <2>4, <2>8, <2>9, <3>1 DEF Admitted, SoundSet, AudioStates
 <2> QED BY <1>5, <2>10, <2>11, <2>12 DEF Changed, AudioInv
<1> QED BY <1>1, <1>2, <1>3, <1>4, <1>5 DEF Restart, Halted

LEMMA MaintainKeeps ==
  ASSUME AudioInv, Maintain
  PROVE  AudioInv'
<1>1. PICK late \in Late(audio) : Changed(Maintained(audio, late)) BY DEF Maintain
<1>2. PICK a : a = Maintained(audio, late) OBVIOUS
<1>3. SystemOk(a, heard) /\ RequestedOk(a.data) BY <1>2, MaintainedKeeps DEF AudioInv
<1> QED BY <1>1, <1>2, <1>3 DEF Changed, AudioInv

LEMMA CloseKeeps ==
  ASSUME AudioInv, CloseSystem
  PROVE  AudioInv'
<1>1. PICK a : a = FoldLeft(Retired, audio, audio.voices) OBVIOUS
<1>2. /\ SystemOk(a, heard) /\ RequestedOk(a.data) /\ Onward(audio, a)
      /\ \A v \in ToSet(audio.voices) : ~Lives(a.data, v)
  BY <1>1, RetiredKeeps DEF AudioInv
<1>3. PICK b : b = [a EXCEPT !.voices = <<>>, !.open = FALSE] OBVIOUS
<1>4. audio' = b /\ heard' = heard /\ audio.open BY <1>1, <1>3 DEF CloseSystem, Changed
<1>5. a \in AudioStates BY <1>2 DEF SystemOk
<1>6. /\ b \in AudioStates /\ b.voices = <<>> /\ b.open = FALSE /\ b.data = a.data
      /\ b.ended = a.ended /\ b.active = a.active /\ b.discarded = a.discarded /\ b.outbox = a.outbox
      /\ b.lost = a.lost /\ b.firstLost = a.firstLost /\ b.lastLost = a.lastLost
 <2>1. <<>> \in Seq(Voices) /\ FALSE \in BOOLEAN OBVIOUS
 <2> QED BY <1>3, <1>5, <2>1 DEF AudioStates
<1>7. \A v \in Voices : ~Lives(a.data, v) BY <1>2 DEF AudioInv, SystemOk, VoicesOk, Onward
<1>8. VoicesOk(a.data, <<>>, FALSE) BY <1>2, <1>7 DEF SystemOk, VoicesOk
<1>9. SystemOk(b, heard) BY <1>2, <1>6, <1>8 DEF SystemOk
<1> QED BY <1>2, <1>6, <1>9, <1>4 DEF AudioInv

LEMMA DestroyKeeps ==
  ASSUME AudioInv, DestroyAudio
  PROVE  AudioInv'
<1>1. PICK b : b = [audio EXCEPT !.discarded = TRUE, !.outbox = <<>>] OBVIOUS
<1>2. audio' = b /\ heard' = heard /\ ~audio.open BY <1>1 DEF DestroyAudio, Changed
<1>3. SystemOk(audio, heard) /\ audio \in AudioStates BY DEF AudioInv, SystemOk
<1>4. /\ b \in AudioStates /\ b.voices = audio.voices /\ b.open = audio.open /\ b.data = audio.data
      /\ b.ended = audio.ended /\ b.active = audio.active /\ b.discarded = TRUE /\ b.outbox = <<>>
 <2>1. <<>> \in Seq(Nat) /\ TRUE \in BOOLEAN OBVIOUS
 <2> QED BY <1>1, <1>2, <1>3, <2>1 DEF AudioStates
<1>5. OutboxOk(audio.ended, <<>>)
 <2>1. Len(audio.ended) \in Nat BY <1>3 DEF AudioStates
 <2> QED BY <2>1 DEF OutboxOk
<1>6. SystemOk(b, heard) BY <1>2, <1>3, <1>4, <1>5 DEF SystemOk
<1> QED BY <1>2, <1>3, <1>4, <1>6 DEF AudioInv

LEMMA PumpKeeps ==
  ASSUME AudioInv, PumpBegins \/ PumpNotifies \/ PumpEnds
  PROVE  AudioInv'
<1>1. CASE PumpBegins
 <2>1. PICK a : a = FoldLeft(Observe, audio, audio.voices) OBVIOUS
 <2>2. SystemOk(a, heard) /\ RequestedOk(a.data) BY <2>1, ObservedKeeps DEF AudioInv
 <2>3. audio' = a /\ heard' = heard BY <1>1, <2>1 DEF PumpBegins
 <2> QED BY <2>2, <2>3 DEF AudioInv
<1>2. CASE PumpNotifies
 <2>1. ~audio.discarded /\ audio.outbox # <<>> BY <1>2 DEF PumpNotifies, Exhausted
 <2>2. PICK r : r = Record(audio) OBVIOUS
 <2>3. PICK b : b = Told(audio) OBVIOUS
 <2>4. PICK more : more = Append(heard, r) OBVIOUS
 <2>5. SystemOk(b, more) /\ HeardOk(more) /\ b.data = audio.data BY <2>1, <2>2, <2>3, <2>4, ToldKeeps DEF AudioInv
 <2>6. audio' = b /\ heard' = more BY <1>2, <2>2, <2>3, <2>4 DEF PumpNotifies, Record, Told
 <2> QED BY <2>5, <2>6 DEF AudioInv
<1>3. CASE PumpEnds BY <1>3 DEF PumpEnds, AudioInv
<1> QED BY <1>1, <1>2, <1>3

LEMMA AudioStepKeeps == AudioInv /\ [AudioNext]_audioVars => AudioInv'
<1>1. SUFFICES ASSUME AudioInv, [AudioNext]_audioVars PROVE AudioInv' OBVIOUS
<1>2. ASSUME NEW v \in Voices, \E paused, looping \in BOOLEAN : Play(v, paused, looping) PROVE AudioInv'
  BY <1>1, <1>2, PlayKeeps
<1>3. ASSUME NEW v \in Voices, Snapshot(v) PROVE AudioInv' BY <1>1, <1>3, SnapshotKeeps DEF Snapshot
<1>4. ASSUME NEW v \in Voices, \E yes \in BOOLEAN : ResumeAfter(v, yes) \/ SetLooping(v, yes) PROVE AudioInv'
  BY <1>1, <1>4, ControlKeeps
<1>5. CASE UNCHANGED audioVars BY <1>1, <1>5 DEF audioVars, AudioInv
<1> QED BY <1>1, <1>2, <1>3, <1>4, <1>5, ControlKeeps, StopKeeps, RestartKeeps, ReleaseKeeps, MaintainKeeps, CloseKeeps,
   DestroyKeeps, PumpKeeps DEF AudioNext

LEMMA AudioReports == AudioInv => PlaybackIsReported
<1>1. SUFFICES ASSUME AudioInv PROVE PlaybackIsReported OBVIOUS
<1>2. SystemOk(audio, heard) /\ audio \in AudioStates /\ heard \in Seq(Records) BY <1>1 DEF AudioInv, SystemOk
<1>3. PICK ended \in Seq(Ends) : ended = audio.ended BY <1>2 DEF AudioStates
<1>4. DOMAIN ended = 1..Len(ended) /\ Len(ended) \in Nat OBVIOUS
<1>5. LiveVoices = LivesOf(audio.data) /\ \A v \in Voices : v \in LiveVoices <=> Lives(audio.data, v)
  BY DEF LiveVoices, LivesOf, Lives
<1>6. OneOutcomePerGeneration
 <2>1. \A i, j \in DOMAIN ended : ended[i].voice = ended[j].voice
         /\ ended[i].generation = ended[j].generation => i = j
   BY <1>2, <1>3, <1>4 DEF SystemOk, OnceEnded
 <2>2. ASSUME NEW v \in Voices
       PROVE  {ended[i].generation : i \in {k \in DOMAIN ended : ended[k].voice = v}}
                = {g \in 1..audio.data[v].generation : g < audio.data[v].generation \/ v \notin LiveVoices}
  <3>1. \A g \in Nat : HasEnd(ended, v, g) <=> 1 <= g /\ g <= audio.data[v].generation
           /\ (g < audio.data[v].generation \/ ~Lives(audio.data, v))
    BY <1>2, <1>3 DEF SystemOk, EndsAre
  <3>2. \A i \in 1..Len(ended) : ended[i].generation \in Nat
   <4>1. \A i \in 1..Len(ended) : ended[i] \in Ends OBVIOUS
   <4> QED BY <4>1 DEF Ends
  <3>3. audio.data[v].generation \in Nat BY <1>2 DEF AudioStates, Sounds
  <3>4. \A g : g \in {ended[i].generation : i \in {k \in DOMAIN ended : ended[k].voice = v}}
                <=> g \in Nat /\ HasEnd(ended, v, g)
    BY <1>4, <3>2 DEF HasEnd
  <3>5. \A g : g \in {n \in 1..audio.data[v].generation : n < audio.data[v].generation \/ v \notin LiveVoices}
                <=> /\ g \in Nat /\ 1 <= g /\ g <= audio.data[v].generation
                    /\ g < audio.data[v].generation \/ ~Lives(audio.data, v)
    BY <1>5, <3>3
  <3> QED BY <3>1, <3>4, <3>5
 <2>3. audio.active = Cardinality(LiveVoices) /\ Len(audio.ended) + audio.active <= MaxSequence
   BY <1>2, <1>5 DEF SystemOk, Counted
 <2>4. \A v \in LiveVoices : audio.open /\ audio.data[v].requested # "Stopped"
   BY <1>1, <1>2, <1>5 DEF AudioInv, SystemOk, VoicesOk, RequestedOk, LiveVoices
 <2> QED BY <1>3, <2>1, <2>2, <2>3, <2>4 DEF OneOutcomePerGeneration
<1>7. GapsAreReported
 <2> DEFINE n == Len(heard)
            before(i) == IF i = 1 THEN [sequence |-> 0, lost |-> 0] ELSE heard[i - 1]
            last == IF n = 0 THEN [sequence |-> 0, lost |-> 0] ELSE heard[n]
 <2>1. \A i \in 1..n : heard[i].sequence - before(i).sequence - 1 = heard[i].lost - before(i).lost
   BY <1>1 DEF AudioInv, HeardOk
 <2>2. ASSUME ~audio.discarded
       PROVE  /\ Len(audio.ended) - last.sequence = Len(audio.outbox) + audio.lost - last.lost
              /\ audio.lost > 0 =>
                   \A s \in 1..Len(audio.ended) :
                     (\A i \in 1..n : heard[i].sequence # s) /\ s \notin ToSet(audio.outbox)
                       => s \in audio.firstLost..audio.lastLost
  <3>1. PICK outbox \in Seq(Nat) : outbox = audio.outbox BY <1>2 DEF AudioStates
  <3>2. PICK e \in Nat : e = Len(ended) BY <1>4
  <3>3. PICK m \in Nat : m = Len(outbox) OBVIOUS
  <3>4. m <= e /\ \A i \in 1..m : outbox[i] = e - m + i BY <1>2, <1>3, <3>1, <3>2, <3>3 DEF SystemOk, OutboxOk
  <3>5. LossOk(e - m, audio.lost, audio.firstLost, audio.lastLost, heard)
    BY <1>2, <1>3, <2>2, <3>1, <3>2, <3>3 DEF SystemOk, Passed
  <3>6. LastTold(heard) = last.sequence /\ LastLoss(heard) = last.lost BY DEF LastTold, LastLoss
  <3>7. last.sequence \in Nat /\ last.lost \in Nat /\ audio.lost \in Nat
        /\ audio.firstLost \in Nat /\ audio.lastLost \in Nat
   <4>1. n # 0 => heard[n] \in Records BY <1>2
   <4> QED BY <1>2, <4>1 DEF AudioStates, Records
  <3>8. (e - m) - last.sequence = audio.lost - last.lost BY <3>5, <3>6 DEF LossOk
  <3> HIDE DEF last
  <3>9. e - last.sequence = m + audio.lost - last.lost BY <3>7, <3>8
  <3>10. ASSUME audio.lost > 0, NEW s \in 1..e, \A i \in 1..n : heard[i].sequence # s, s \notin ToSet(outbox)
         PROVE  s \in audio.firstLost..audio.lastLost
   <4>1. s <= e - m
    <5>1. SUFFICES ASSUME ~(s <= e - m) PROVE FALSE OBVIOUS
    <5>2. s - (e - m) \in 1..m BY <3>4, <5>1
    <5>3. outbox[s - (e - m)] = s BY <3>4, <5>2
    <5>4. DOMAIN outbox = 1..m BY <3>3
    <5> QED BY <3>10, <5>2, <5>3, <5>4 DEF ToSet
   <4>2. s \in 1..(e - m) /\ ~IsHeard(heard, s) BY <3>4, <3>10, <4>1 DEF IsHeard
   <4> QED BY <3>5, <3>7, <3>10, <4>2 DEF LossOk
  <3> QED BY <1>3, <3>1, <3>2, <3>3, <3>9, <3>10
 <2> QED BY <2>1, <2>2 DEF GapsAreReported
<1> QED BY <1>6, <1>7 DEF PlaybackIsReported

\* Every generation of every voice has exactly one outcome, a number is
\* left for each that is still to come, and what a subscriber is told and
\* told of as lost accounts for all of them: for any voices, any capacity
\* of the outbox and any bound of the numbers.
THEOREM PlaybackIsToldOf == AudioSpec => []PlaybackIsReported
<1>1. AudioInit => AudioInv BY AudioBegins
<1>2. AudioInv /\ [AudioNext]_audioVars => AudioInv' BY AudioStepKeeps
<1>3. AudioInv => PlaybackIsReported BY AudioReports
<1> QED BY <1>1, <1>2, <1>3, PTL DEF AudioSpec

\* A name is kept once: what was without repetitions stays so, and nothing
\* but wanted names is added.
OnceOf(r, S) == r \in Seq(S) /\ IsInjective(r)
LEMMA TakenOnce ==
  ASSUME NEW S, NEW r, NEW x, NEW names, OnceOf(r, S), names \subseteq S
  PROVE  OnceOf(TakenIn(r, x, names), S)
<1>1. CASE x \notin names \/ Contains(r, x) BY <1>1 DEF TakenIn
<1>2. CASE ~(x \notin names \/ Contains(r, x))
 <2>1. TakenIn(r, x, names) = Append(r, x) /\ x \in S BY <1>2 DEF TakenIn
 <2>2. r \in Seq(S) /\ \A i \in 1..Len(r) : r[i] # x BY <1>2 DEF OnceOf, Contains
 <2>3. \A i, j \in 1..Len(r) : r[i] = r[j] => i = j BY DEF OnceOf, IsInjective
 <2>4. Append(r, x) \in Seq(S) /\ DOMAIN Append(r, x) = 1..(Len(r) + 1) BY <2>1, <2>2
 <2>5. ASSUME NEW i \in 1..(Len(r) + 1), NEW j \in 1..(Len(r) + 1), Append(r, x)[i] = Append(r, x)[j] PROVE i = j
   BY <2>2, <2>3, <2>5
 <2> QED BY <2>1, <2>4, <2>5 DEF OnceOf, IsInjective
<1> QED BY <1>1, <1>2

LEMMA KeptOnceKeeps ==
  ASSUME NEW V, NEW S, NEW first, NEW q \in Seq(V), NEW names, OnceOf(first, S), names \subseteq S
  PROVE  OnceOf(KeptOnce(first, q, names), S)
<1>1. PICK f : KeptOnce(first, q, names) = f[Len(q)] /\ InSteps(f, [is |-> "take", names |-> names], first, q)
  BY TakenSteps
<1>a. f[0] = first /\ \A k \in 1..Len(q) : f[k] = TakenIn(f[k - 1], q[k], names) BY <1>1 DEF InSteps, StepBy
<1> DEFINE T == {k \in 0..Len(q) : ~OnceOf(f[k], S)}
<1>2. CASE T = {}
 <2>1. Len(q) \in 0..Len(q) OBVIOUS
 <2> QED BY <1>1, <1>2, <2>1
<1>3. CASE T # {}
 <2>1. PICK k \in T : \A m \in T : k <= m
  <3>1. T \subseteq Nat OBVIOUS
  <3> QED BY <1>3, <3>1, Least
 <2>2. k # 0 BY <1>a, <2>1
 <2>3. k \in 1..Len(q) /\ k - 1 \in 0..Len(q) /\ k - 1 \notin T BY <2>1, <2>2
 <2>4. OnceOf(f[k - 1], S) BY <2>3
 <2>5. OnceOf(f[k], S) BY <1>a, <2>3, <2>4, TakenOnce
 <2> QED BY <2>1, <2>5
<1> QED BY <1>2, <1>3

\* ---- Retained text. ----
Wanted == TextRequests \cup {None}
Stages == {"none", "preparation", "upload"}
Failures == [stage : Stages, revision : Nat, of : Wanted]
Works == {Idle, "queued", "ready", "failed"}
UpdaterStates ==
  [desired : Wanted, desiredRevision : Nat, settledRevision : Nat, active : Wanted, activeRevision : Nat,
   successful : Wanted, current : Wanted, preparation : Works, uploading : Works,
   failure : Failures, lastFailed : BOOLEAN]
Follows(s) == s.activeRevision <= s.desiredRevision /\ (s.activeRevision = s.desiredRevision => s.active = s.desired)
SettlesOn(s) == IF s.lastFailed THEN s.failure.of = s.desired ELSE s.current = s.desired
UpdaterOk(s) ==
  /\ s \in UpdaterStates /\ s.settledRevision <= s.desiredRevision
  /\ s.preparation = Idle \/ s.uploading = Idle
  /\ s.current = s.successful
  /\ Busy(s) => Follows(s)
  /\ ~Pending(s) => SettlesOn(s)

LEMMA NoFailureTyped == NoFailure \in Failures
  BY DEF NoFailure, Failures, Stages, Wanted

LEMMA FailIsOk ==
  ASSUME NEW s \in UpdaterStates, Follows(s), s.current = s.successful, NEW stage \in Stages
  PROVE  UpdaterOk(Fail(s, stage))
<1>1. PICK r : r = SettledBy(s) OBVIOUS
<1>2. r \in Nat /\ r <= s.desiredRevision /\ (r = s.desiredRevision => s.active = s.desired)
  BY <1>1 DEF SettledBy, Follows, UpdaterStates
<1>3. PICK t : t = Fail(s, stage) OBVIOUS
<1>4. t \in UpdaterStates
 <2>1. PICK z : z = [stage |-> stage, revision |-> s.activeRevision, of |-> s.active] OBVIOUS
 <2>2. z \in Failures BY <2>1 DEF UpdaterStates, Failures
 <2>3. t = [s EXCEPT !.failure = z, !.settledRevision = r,
                     !.preparation = Idle, !.uploading = Idle, !.active = None, !.lastFailed = TRUE]
   BY <1>1, <1>3, <2>1 DEF Fail
 <2> QED BY <1>2, <2>2, <2>3 DEF UpdaterStates, Works, Wanted
<1>5. /\ t.settledRevision = r /\ t.desiredRevision = s.desiredRevision /\ t.desired = s.desired
      /\ t.preparation = Idle /\ t.uploading = Idle /\ t.lastFailed /\ t.failure.of = s.active
      /\ t.current = s.current /\ t.successful = s.successful
  BY <1>1, <1>3 DEF Fail, UpdaterStates
<1>6. UpdaterOk(t) BY <1>2, <1>4, <1>5 DEF UpdaterOk, Busy, Pending, SettlesOn
<1> QED BY <1>3, <1>6

LEMMA UploadIsOk ==
  ASSUME NEW s, UpdaterOk(s)
  PROVE  UpdaterOk(AdoptUpload(s))
<1>0. s \in UpdaterStates BY DEF UpdaterOk
<1>1. CASE s.uploading = "ready"
 <2>1. PICK r : r = SettledBy(s) OBVIOUS
 <2>2. Follows(s) /\ s.preparation = Idle BY <1>1 DEF UpdaterOk, Busy, Idle
 <2>3. r \in Nat /\ r <= s.desiredRevision /\ (r = s.desiredRevision => s.active = s.desired)
   BY <1>0, <2>1, <2>2 DEF SettledBy, Follows, UpdaterStates
 <2>4. PICK t : t = AdoptUpload(s) OBVIOUS
 <2>5. t = [s EXCEPT !.uploading = Idle, !.current = s.active, !.settledRevision = r,
                     !.successful = s.active, !.active = None, !.lastFailed = FALSE]
   BY <1>1, <2>1, <2>4 DEF AdoptUpload
 <2>6. t \in UpdaterStates BY <1>0, <2>3, <2>5 DEF UpdaterStates, Works, Wanted
 <2>7. /\ t.settledRevision = r /\ t.desiredRevision = s.desiredRevision /\ t.desired = s.desired
       /\ t.preparation = Idle /\ t.uploading = Idle /\ ~t.lastFailed
       /\ t.current = s.active /\ t.successful = s.active
   BY <1>0, <2>2, <2>5 DEF UpdaterStates
 <2>8. UpdaterOk(t) BY <2>3, <2>6, <2>7 DEF UpdaterOk, Busy, Pending, SettlesOn
 <2> QED BY <2>4, <2>8
<1>2. CASE s.uploading = "failed"
 <2>1. Follows(s) /\ s.current = s.successful BY <1>2 DEF UpdaterOk, Busy, Idle
 <2>2. AdoptUpload(s) = Fail(s, "upload") BY <1>2 DEF AdoptUpload
 <2> QED BY <1>0, <2>1, <2>2, FailIsOk DEF Stages
<1>3. CASE s.uploading \notin {"ready", "failed"} BY <1>3 DEF AdoptUpload
<1> QED BY <1>1, <1>2, <1>3

LEMMA PreparedIsOk ==
  ASSUME NEW s, UpdaterOk(s), NEW admits \in BOOLEAN
  PROVE  UpdaterOk(TakePrepared(s, admits))
<1>0. s \in UpdaterStates BY DEF UpdaterOk
<1>1. CASE s.preparation = "ready" /\ admits
 <2>1. Follows(s) /\ s.uploading = Idle BY <1>1 DEF UpdaterOk, Busy, Idle
 <2>2. PICK t : t = TakePrepared(s, admits) OBVIOUS
 <2>3. t = [s EXCEPT !.preparation = Idle, !.uploading = "queued"] BY <1>1, <2>2 DEF TakePrepared
 <2>4. t \in UpdaterStates BY <1>0, <2>3 DEF UpdaterStates, Works
 <2>5. /\ t.settledRevision = s.settledRevision /\ t.desiredRevision = s.desiredRevision /\ t.desired = s.desired
       /\ t.preparation = Idle /\ t.uploading = "queued" /\ t.active = s.active /\ t.activeRevision = s.activeRevision
       /\ t.current = s.current /\ t.successful = s.successful
   BY <1>0, <2>3 DEF UpdaterStates
 <2>6. UpdaterOk(t) BY <2>1, <2>4, <2>5 DEF UpdaterOk, Busy, Pending, Follows, Idle
 <2> QED BY <2>2, <2>6
<1>2. CASE s.preparation = "ready" /\ ~admits
 <2>1. Follows(s) /\ s.current = s.successful BY <1>2 DEF UpdaterOk, Busy, Idle
 <2>2. TakePrepared(s, admits) = Fail(s, "upload") BY <1>2 DEF TakePrepared
 <2> QED BY <1>0, <2>1, <2>2, FailIsOk DEF Stages
<1>3. CASE s.preparation = "failed"
 <2>1. Follows(s) /\ s.current = s.successful BY <1>3 DEF UpdaterOk, Busy, Idle
 <2>2. TakePrepared(s, admits) = Fail(s, "preparation") BY <1>3 DEF TakePrepared
 <2> QED BY <1>0, <2>1, <2>2, FailIsOk DEF Stages
<1>4. CASE s.preparation \notin {"ready", "failed"} BY <1>4 DEF TakePrepared
<1> QED BY <1>1, <1>2, <1>3, <1>4

LEMMA NewestIsOk ==
  ASSUME NEW s, UpdaterOk(s), NEW admits \in BOOLEAN
  PROVE  UpdaterOk(StartNewest(s, admits))
<1>0. s \in UpdaterStates BY DEF UpdaterOk
<1>1. CASE Busy(s) \/ s.desiredRevision = s.settledRevision BY <1>1 DEF StartNewest
<1>2. CASE ~(Busy(s) \/ s.desiredRevision = s.settledRevision)
 <2>1. PICK t : t = [s EXCEPT !.activeRevision = s.desiredRevision, !.active = s.desired] OBVIOUS
 <2>2. t \in UpdaterStates BY <1>0, <2>1 DEF UpdaterStates
 <2>3. /\ t.settledRevision = s.settledRevision /\ t.desiredRevision = s.desiredRevision /\ t.desired = s.desired
       /\ t.preparation = s.preparation /\ t.uploading = s.uploading /\ t.active = s.desired
       /\ t.activeRevision = s.desiredRevision /\ t.current = s.current /\ t.successful = s.successful
   BY <1>0, <2>1 DEF UpdaterStates
 <2>4. Follows(t) /\ t.current = t.successful BY <1>0, <2>3 DEF Follows, UpdaterOk, UpdaterStates
 <2>5. CASE ~admits
  <3>1. StartNewest(s, admits) = Fail(t, "preparation") BY <1>2, <2>1, <2>5 DEF StartNewest
  <3> QED BY <2>2, <2>4, <3>1, FailIsOk DEF Stages
 <2>6. CASE admits
  <3>1. PICK r : r = [t EXCEPT !.preparation = "queued"] OBVIOUS
  <3>2. r \in UpdaterStates BY <2>2, <3>1 DEF UpdaterStates, Works
  <3>3. /\ r.settledRevision = s.settledRevision /\ r.desiredRevision = s.desiredRevision /\ r.desired = s.desired
        /\ r.preparation = "queued" /\ r.uploading = s.uploading /\ r.active = s.desired
        /\ r.activeRevision = s.desiredRevision /\ r.current = s.current /\ r.successful = s.successful
    BY <2>2, <2>3, <3>1 DEF UpdaterStates
  <3>4. s.uploading = Idle BY <1>2 DEF Busy
  <3>5. UpdaterOk(r) BY <1>0, <3>2, <3>3, <3>4 DEF UpdaterOk, Busy, Pending, Follows, UpdaterStates, Idle
  <3>6. StartNewest(s, admits) = r BY <1>2, <2>1, <2>6, <3>1 DEF StartNewest
  <3> QED BY <3>5, <3>6
 <2> QED BY <2>5, <2>6
<1> QED BY <1>1, <1>2

LEMMA UpdaterBegins == UpdaterInit => UpdaterOk(u)
<1>1. ASSUME UpdaterInit PROVE UpdaterOk(u)
 <2>1. CASE u = Fresh
  <3>1. u \in UpdaterStates BY <2>1 DEF Fresh, NoFailure, UpdaterStates, Failures, Wanted, Works, Stages
  <3>2. u.preparation = Idle /\ u.uploading = Idle /\ u.current = None /\ u.successful = None
        /\ u.settledRevision = 0 /\ u.desiredRevision = 0 /\ ~u.lastFailed /\ u.desired = None
    BY <2>1 DEF Fresh
  <3> QED BY <3>1, <3>2 DEF UpdaterOk, Busy, SettlesOn
 <2>2. ASSUME NEW r \in TextRequests, u = Constructed(r) PROVE UpdaterOk(u)
  <3>1. u = [Fresh EXCEPT !.desired = r, !.desiredRevision = 1, !.settledRevision = 1, !.successful = r, !.current = r]
    BY <2>2 DEF Constructed
  <3>2. u \in UpdaterStates BY <3>1 DEF Fresh, NoFailure, UpdaterStates, Failures, Wanted, Works, Stages
  <3>3. u.preparation = Idle /\ u.uploading = Idle /\ u.current = r /\ u.successful = r
        /\ u.settledRevision = 1 /\ u.desiredRevision = 1 /\ ~u.lastFailed /\ u.desired = r
    BY <3>1 DEF Fresh
  <3> QED BY <3>2, <3>3 DEF UpdaterOk, Busy, SettlesOn
 <2> QED BY <1>1, <2>1, <2>2 DEF UpdaterInit
<1> QED BY <1>1

LEMMA RequestIsOk ==
  ASSUME UpdaterOk(u), NEW r \in TextRequests, Request(r)
  PROVE  UpdaterOk(u')
<1>0. u \in UpdaterStates BY DEF UpdaterOk
<1>1. PICK t : t = [u EXCEPT !.desired = r, !.desiredRevision = @ + 1, !.failure = NoFailure] OBVIOUS
<1>2. t \in UpdaterStates
 <2>1. r \in Wanted /\ NoFailure \in Failures /\ u.desiredRevision + 1 \in Nat
   BY <1>0, NoFailureTyped DEF Wanted, UpdaterStates
 <2>2. t = [u EXCEPT !.desired = r, !.desiredRevision = u.desiredRevision + 1, !.failure = NoFailure] BY <1>1
 <2> QED BY <1>0, <2>1, <2>2 DEF UpdaterStates
<1>3. /\ t.settledRevision = u.settledRevision /\ t.desiredRevision = u.desiredRevision + 1 /\ t.desired = r
      /\ t.preparation = u.preparation /\ t.uploading = u.uploading /\ t.active = u.active
      /\ t.activeRevision = u.activeRevision /\ t.current = u.current /\ t.successful = u.successful
  BY <1>0, <1>1 DEF UpdaterStates
<1>4. CASE ~Busy(u) /\ u.successful = r
 <2>1. u' = [t EXCEPT !.settledRevision = t.desiredRevision, !.lastFailed = FALSE] BY <1>1, <1>4 DEF Request
 <2>2. u' \in UpdaterStates BY <1>2, <2>1 DEF UpdaterStates
 <2>3. /\ u'.settledRevision = t.desiredRevision /\ u'.desiredRevision = t.desiredRevision /\ u'.desired = r
       /\ u'.preparation = u.preparation /\ u'.uploading = u.uploading
       /\ u'.current = u.current /\ u'.successful = u.successful /\ ~u'.lastFailed
   BY <1>2, <1>3, <2>1 DEF UpdaterStates
 <2>4. t.desiredRevision \in Nat BY <1>2 DEF UpdaterStates
 <2> QED BY <1>4, <2>2, <2>3, <2>4 DEF UpdaterOk, Busy, SettlesOn
<1>5. CASE ~(~Busy(u) /\ u.successful = r)
 <2>1. u' = t BY <1>1, <1>5 DEF Request
 <2>2. u.settledRevision < t.desiredRevision /\ (Busy(u) => u.activeRevision < t.desiredRevision)
   BY <1>0, <1>3 DEF UpdaterOk, Follows, UpdaterStates
 <2>3. u.activeRevision \in Nat /\ u.settledRevision \in Nat /\ t.desiredRevision \in Nat
   BY <1>0, <1>2 DEF UpdaterStates
 <2>4. UpdaterOk(t) BY <1>2, <1>3, <2>2, <2>3 DEF UpdaterOk, Busy, Pending, Follows
 <2> QED BY <2>1, <2>4
<1> QED BY <1>4, <1>5

LEMMA UpdaterStepKeeps == UpdaterOk(u) /\ [UpdaterNext]_u => UpdaterOk(u')
<1>1. SUFFICES ASSUME UpdaterOk(u), [UpdaterNext]_u PROVE UpdaterOk(u') OBVIOUS
<1>0. u \in UpdaterStates BY <1>1 DEF UpdaterOk
<1>2. CASE Retry
 <2>1. u' = [u EXCEPT !.desiredRevision = @ + 1, !.failure = NoFailure, !.lastFailed = FALSE] BY <1>2 DEF Retry
 <2>2. u' \in UpdaterStates
  <3>1. u' = [u EXCEPT !.desiredRevision = u.desiredRevision + 1, !.failure = NoFailure, !.lastFailed = FALSE] BY <2>1
  <3>2. NoFailure \in Failures /\ u.desiredRevision + 1 \in Nat BY <1>0, NoFailureTyped DEF UpdaterStates
  <3> QED BY <1>0, <3>1, <3>2 DEF UpdaterStates
 <2>3. /\ u'.settledRevision = u.settledRevision /\ u'.desiredRevision = u.desiredRevision + 1
       /\ u'.preparation = u.preparation /\ u'.uploading = u.uploading
       /\ u'.current = u.current /\ u'.successful = u.successful
   BY <1>0, <2>1 DEF UpdaterStates
 <2>4. u.settledRevision < u'.desiredRevision /\ ~Busy(u)
   BY <1>0, <1>1, <1>2, <2>3 DEF Retry, UpdaterOk, Pending, UpdaterStates
 <2>5. u.settledRevision \in Nat /\ u'.desiredRevision \in Nat BY <1>0, <2>2 DEF UpdaterStates
 <2> QED BY <1>1, <2>2, <2>3, <2>4, <2>5 DEF UpdaterOk, Busy, Pending
<1>3. CASE Adopt
 <2>1. PICK upload, prepare \in BOOLEAN : u' = StartNewest(TakePrepared(AdoptUpload(u), upload), prepare)
   BY <1>3 DEF Adopt
 <2>2. UpdaterOk(AdoptUpload(u)) BY <1>1, UploadIsOk
 <2>3. UpdaterOk(TakePrepared(AdoptUpload(u), upload)) BY <2>2, PreparedIsOk
 <2> QED BY <2>1, <2>3, NewestIsOk
<1>4. CASE Complete
 <2>1. PICK outcome \in {"ready", "failed"} :
         \/ u.preparation = "queued" /\ u' = [u EXCEPT !.preparation = outcome]
         \/ u.uploading = "queued" /\ u' = [u EXCEPT !.uploading = outcome]
   BY <1>4 DEF Complete
 <2>2. u' \in UpdaterStates BY <1>0, <2>1 DEF UpdaterStates, Works
 <2>3. /\ u'.settledRevision = u.settledRevision /\ u'.desiredRevision = u.desiredRevision /\ u'.desired = u.desired
       /\ u'.active = u.active /\ u'.activeRevision = u.activeRevision
       /\ u'.current = u.current /\ u'.successful = u.successful
   BY <1>0, <2>1 DEF UpdaterStates
 <2>4. /\ u.preparation = "queued" \/ u.uploading = "queued"
       /\ (u.preparation = Idle <=> u'.preparation = Idle) /\ (u.uploading = Idle <=> u'.uploading = Idle)
   BY <1>0, <2>1 DEF UpdaterStates, Idle
 <2> QED BY <1>1, <2>2, <2>3, <2>4 DEF UpdaterOk, Busy, Pending, Follows, Idle
<1>5. CASE \E r \in TextRequests : Request(r) BY <1>1, <1>5, RequestIsOk
<1>6. CASE UNCHANGED u BY <1>1, <1>6
<1> QED BY <1>1, <1>2, <1>3, <1>4, <1>5, <1>6 DEF UpdaterNext

\* ---- Fonts. ----
FontOk(f) == Last(f.chain) = Embedded /\ IsInjective(f.chain)
FontsOk ==
  /\ \A r \in DOMAIN fonts.fonts : fonts.fonts[r].reference = r /\ FontOk(fonts.fonts[r])
  /\ FontOk(fonts.default) /\ ChoiceComesBack

LEMMA FontEnds ==
  ASSUME NEW c, c.fallbacks \in Seq(References), Embedded \notin Loaded(c), NEW r \in Loaded(c) \cup {Embedded}
  PROVE  FontOf(c, r).reference = r /\ FontOk(FontOf(c, r))
<1>1. FontOf(c, r).reference = r BY DEF FontOf
<1>2. CASE r = Embedded
 <2>1. FontOf(c, r).chain = <<Embedded>> BY <1>2 DEF FontOf
 <2> QED BY <1>1, <2>1 DEF FontOk, Last, IsInjective
<1>3. CASE r # Embedded
 <2>1. PICK kept : kept = KeptOnce(<<r>>, c.fallbacks, Loaded(c)) OBVIOUS
 <2>2. OnceOf(<<r>>, Loaded(c)) BY <1>3 DEF OnceOf, IsInjective
 <2>3. OnceOf(kept, Loaded(c)) BY <2>1, <2>2, KeptOnceKeeps
 <2>4. FontOf(c, r).chain = Append(kept, Embedded) BY <1>3, <2>1 DEF FontOf
 <2>5. /\ Append(kept, Embedded)[Len(kept) + 1] = Embedded /\ Len(Append(kept, Embedded)) = Len(kept) + 1
       /\ DOMAIN Append(kept, Embedded) = 1..(Len(kept) + 1) /\ Len(kept) \in Nat
       /\ \A i \in 1..Len(kept) : Append(kept, Embedded)[i] = kept[i] /\ kept[i] # Embedded
   BY <2>3 DEF OnceOf
 <2>6. \A i, j \in 1..Len(kept) : kept[i] = kept[j] => i = j BY <2>3 DEF OnceOf, IsInjective
 <2>7. ASSUME NEW i \in 1..(Len(kept) + 1), NEW j \in 1..(Len(kept) + 1),
              Append(kept, Embedded)[i] = Append(kept, Embedded)[j]
       PROVE  i = j
   BY <2>5, <2>6, <2>7
 <2> QED BY <1>1, <2>4, <2>5, <2>7 DEF FontOk, Last, IsInjective
<1> QED BY <1>2, <1>3

LEMMA CatalogueIsOk ==
  ASSUME NEW c, c.fallbacks \in Seq(References), Embedded \notin Loaded(c), NEW made, made = Catalogue(c)
  PROVE  /\ \A r \in DOMAIN made.fonts : made.fonts[r].reference = r /\ FontOk(made.fonts[r])
         /\ FontOk(made.default)
<1> DEFINE names == Loaded(c) \cup {Embedded}
<1>1. made.fonts = [r \in names |-> FontOf(c, r)] BY DEF Catalogue
<1>2. PICK d \in names : made.default = FontOf(c, d)
 <2>1. made.default = FontOf(c, IF c.default \in names THEN c.default ELSE Embedded) BY DEF Catalogue
 <2> QED BY <2>1
<1>3. \A r \in names : FontOf(c, r).reference = r /\ FontOk(FontOf(c, r)) BY FontEnds
<1> QED BY <1>1, <1>2, <1>3

LEMMA FontsBegin == FontsInit => FontsOk
<1>1. ASSUME FontsInit PROVE FontsOk
 <2>1. NoConfiguration.fallbacks \in Seq(References) /\ Loaded(NoConfiguration) = {}
   BY DEF NoConfiguration, Loaded, ToSet
 <2>2. /\ \A r \in DOMAIN fonts.fonts : fonts.fonts[r].reference = r /\ FontOk(fonts.fonts[r])
       /\ FontOk(fonts.default)
   BY <1>1, <2>1, CatalogueIsOk DEF FontsInit
 <2>3. chosen.able = {} /\ chosen.font = chosen.default /\ chosen.font = fonts.default BY <1>1 DEF FontsInit
 <2> QED BY <2>2, <2>3 DEF FontsOk, ChoiceComesBack, FontOk
<1> QED BY <1>1

LEMMA FontsStepKeeps == FontsOk /\ [FontsNext]_fontVars => FontsOk'
<1>1. SUFFICES ASSUME FontsOk, [FontsNext]_fontVars PROVE FontsOk' OBVIOUS
<1>2. CASE Configure
 <2>1. PICK c \in Configurations : Accepted(c) /\ fonts' = Catalogue(c) BY <1>2 DEF Configure
 <2>2. Embedded \notin Loaded(c)
  <3>1. ASSUME Embedded \in Loaded(c) PROVE FALSE
   <4>1. PICK i \in DOMAIN c.families : c.families[i].reference = Embedded BY <3>1 DEF Loaded, ToSet
   <4>2. Embedded \in Named(c) BY <4>1 DEF Named
   <4> QED BY <2>1, <4>2 DEF Accepted
  <3> QED BY <3>1
 <2>3. /\ \A r \in DOMAIN fonts'.fonts : fonts'.fonts[r].reference = r /\ FontOk(fonts'.fonts[r])
       /\ FontOk(fonts'.default)
   BY <2>1, <2>2, FallbackAssumption, CatalogueIsOk
 <2>4. chosen' = chosen BY <1>2 DEF Configure
 <2> QED BY <1>1, <2>3, <2>4 DEF FontsOk, ChoiceComesBack, FontOk
<1>3. CASE Choose
 <2>1. PICK g \in Groups, saved \in References \cup {Embedded, ""} : \E f \in Restored(g, saved) :
          chosen' = [group |-> g, saved |-> saved, font |-> f, able |-> Candidates(g), default |-> fonts.default]
   BY <1>3 DEF Choose
 <2>2. PICK f \in Restored(g, saved) :
          chosen' = [group |-> g, saved |-> saved, font |-> f, able |-> Candidates(g), default |-> fonts.default]
   BY <2>1
 <2>3. chosen'.saved = saved /\ chosen'.font = f /\ chosen'.able = Candidates(g) /\ chosen'.default = fonts.default
   BY <2>2
 <2>4. fonts' = fonts BY <1>3 DEF Choose
 <2>5. Candidates(g) \subseteq DOMAIN fonts.fonts BY DEF Candidates
 <2>6. CASE Candidates(g) = {}
  <3>1. f = fonts.default BY <2>2, <2>6 DEF Restored
  <3> QED BY <1>1, <2>3, <2>4, <2>6, <3>1 DEF FontsOk, ChoiceComesBack, FontOk
 <2>7. CASE saved \in Candidates(g)
  <3>1. f = fonts.fonts[saved] BY <2>2, <2>7 DEF Restored
  <3>2. f.reference = saved /\ FontOk(f) BY <1>1, <2>5, <2>7, <3>1 DEF FontsOk
  <3> QED BY <1>1, <2>3, <2>4, <2>7, <3>2 DEF FontsOk, ChoiceComesBack, FontOk
 <2>8. CASE Candidates(g) # {} /\ saved \notin Candidates(g)
  <3>1. PICK r \in Candidates(g) : f = fonts.fonts[r] BY <2>2, <2>8 DEF Restored
  <3>2. f.reference \in Candidates(g) /\ FontOk(f) BY <1>1, <2>5, <3>1 DEF FontsOk
  <3> QED BY <3>2, <1>1, <2>3, <2>4, <2>5, <2>8, <3>1 DEF FontsOk, ChoiceComesBack, FontOk
 <2> QED BY <2>6, <2>7, <2>8
<1>4. CASE UNCHANGED fontVars BY <1>1, <1>4 DEF fontVars, FontsOk, ChoiceComesBack
<1> QED BY <1>1, <1>2, <1>3, <1>4 DEF FontsNext

\* Once nothing is pending the newest text is shown or its own failure is
\* reported, and a saved choice comes back while its group still offers
\* it: for any texts, results, catalogues and fallbacks.
THEOREM NewestTextWins ==
    UpdaterInit /\ FontsInit /\ [][UpdaterNext]_u /\ [][FontsNext]_fontVars => []NewestWins
<1>1. UpdaterInit /\ FontsInit => UpdaterOk(u) /\ FontsOk BY UpdaterBegins, FontsBegin
<1>2. (UpdaterOk(u) /\ FontsOk) /\ ([UpdaterNext]_u /\ [FontsNext]_fontVars) => (UpdaterOk(u) /\ FontsOk)'
  BY UpdaterStepKeeps, FontsStepKeeps
<1>3. UpdaterOk(u) /\ FontsOk => NewestWins BY DEF UpdaterOk, FontsOk, NewestWins, NewestTextSettles, SettlesOn
<1> QED BY <1>1, <1>2, <1>3, PTL
====================
