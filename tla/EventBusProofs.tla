---- MODULE EventBusProofs ----
\* Proofs about EventBus, for any listeners and threads and any nesting of
\* publications.
\*
\* The inductive invariant says what may lie under what on a thread's
\* stack, that a listener's count is the number of its callbacks on all
\* the stacks, who owns each delivery ticket (the publisher that offers
\* it, a place in the target's line, the work that runs) and what has
\* become of it, and that the channel holds each active listener once.
EXTENDS EventBus, Integers, SequenceTheorems, FiniteSetTheorems, TLAPS

USE DEF busVars, gateVars, targetVars

--------------------
\* The inductive invariant.

\* The channel holds each active listener once, and nothing when closed.
ChannelBooks ==
  /\ \A i, j \in DOMAIN channel : channel[i] = channel[j] => i = j
  /\ count = Len(channel) /\ active = Registered
  /\ closed => channel = <<>>

Height(t) == Len(stack[t])

\* Only publications, callbacks and sinks have anything on top of them, and
\* an immediate callback lies on its publication.
NestedAt(t, h) ==
  /\ h < Height(t) => Frame(t, h).at \in {"deliver", "call", "sink"}
  /\ Frame(t, h).at = "call" /\ Frame(t, h).ticket = 0
        => h > 1 /\ Frame(t, h - 1).at = "deliver"

Nested == \A t \in Threads : \A h \in 1 .. Height(t) : NestedAt(t, h)

\* A thread waits for a listener that is gone and that it is not inside of.
WaitsRight(t) ==
  Within(t, "wait") => Top(t).listener \notin active \cup fresh \cup Invoked(t)

\* posting is held by the thread that offers the listener's target a work.
PostsRight(t, l) ==
  posting[l] = t => Within(t, "post") /\ ticket[Top(t).ticket].listener = l

\* A listener's count is that of its callbacks on all the stacks.
CallsCounted(l) ==
  IsFiniteSet(Invocations(l)) /\ running[l] = Cardinality(Invocations(l))

\* What a wait has returned for is gone for good.
Quiet(l) == Invocations(l) = {} /\ l \notin active \cup fresh

\* The publisher's hold on a ticket, and that of the work while it runs.
Holds(t, k) == ~Idle(t) /\ Top(t).at \in {"offer", "post", "release"} /\ Top(t).ticket = k
Works(t, k) == Within(t, "work") /\ Top(t).ticket = k

Settled(k) ==
  /\ ticket[k].settled \in {0, 1}
  /\ ticket[k].work # "entered" =>
        (ticket[k].settled = 1 <=> ticket[k].work = "gone" /\ ~ticket[k].local)

Hands(t, k) ==
  /\ Holds(t, k) =>
        ticket[k].local /\ (Top(t).at = "release" <=> ticket[k].work # "unposted")
  /\ Works(t, k) => ticket[k].work = "entered" /\ ticket[k].settled = 0

OneHand(k) ==
  \A t, u \in Threads : (Holds(t, k) /\ Holds(u, k)) \/ (Works(t, k) /\ Works(u, k)) => t = u

\* A line holds tickets of its listener that wait there, each once.
InLine(l) ==
  /\ \A i \in 1 .. Len(line[l]) :
        ticket[line[l][i]].work = "queued" /\ ticket[line[l][i]].listener = l
  /\ \A i, j \in 1 .. Len(line[l]) : line[l][i] = line[l][j] => i = j

Waits == \A t \in Threads : WaitsRight(t)
Posters == \A t \in Threads : \A l \in Listeners : PostsRight(t, l)
CallBooks == \A l \in Listeners : CallsCounted(l)
AllQuiet == \A l \in released : Quiet(l)
Lines == \A l \in Listeners : InLine(l)
TicketBooks ==
  \A k \in 1 .. Len(ticket) :
      Settled(k) /\ OneHand(k) /\ \A t \in Threads : Hands(t, k)

IInv ==
  /\ TypeOK /\ ChannelBooks /\ Nested /\ Waits /\ Posters
  /\ CallBooks /\ AllQuiet /\ Lines /\ TicketBooks

--------------------
\* Stacks.

\* u is s with f on top.
Pushed(u, s, f, S) ==
  /\ u \in Seq(S) /\ Len(u) = Len(s) + 1 /\ u[1] = f
  /\ \A h \in 1 .. Len(s) : u[Len(u) + 1 - h] = s[Len(s) + 1 - h]

\* u is s without its top.
Popped(u, s, S) ==
  /\ u \in Seq(S) /\ Len(u) = Len(s) - 1 /\ Len(s) >= 1
  /\ \A h \in 1 .. Len(u) : u[Len(u) + 1 - h] = s[Len(s) + 1 - h]

LEMMA Pushing ==
  ASSUME NEW S, NEW s \in Seq(S), NEW f \in S
  PROVE  Pushed(<<f>> \o s, s, f, S)
<1> DEFINE u == <<f>> \o s
<1>1. <<f>> \in Seq(S) /\ Len(<<f>>) = 1 /\ <<f>>[1] = f OBVIOUS
<1>2. /\ u \in Seq(S) /\ Len(u) = 1 + Len(s)
      /\ \A i \in 1 .. 1 + Len(s) : u[i] = IF i <= 1 THEN <<f>>[i] ELSE s[i - 1]
  BY <1>1, ConcatProperties, Zenon
<1>3. Len(s) \in Nat OBVIOUS
<1> HIDE DEF u
<1>4. Pushed(u, s, f, S) BY <1>1, <1>2, <1>3 DEF Pushed
<1> QED BY <1>4 DEF u

LEMMA Popping ==
  ASSUME NEW S, NEW s \in Seq(S), s # <<>>
  PROVE  Popped(Tail(s), s, S)
<1>1. /\ Tail(s) \in Seq(S) /\ Len(Tail(s)) = Len(s) - 1
      /\ \A i \in 1 .. Len(Tail(s)) : Tail(s)[i] = s[i + 1]
  BY HeadTailProperties
<1>2. Len(s) \in Nat /\ Len(s) >= 1 BY EmptySeq
<1> QED BY <1>1, <1>2 DEF Popped

LEMMA TopOf ==
  ASSUME NEW S, NEW s \in Seq(S)
  PROVE  /\ Len(s) \in Nat /\ (s = <<>> <=> Len(s) = 0)
         /\ s # <<>> => Head(s) = s[1] /\ s[1] \in S /\ Len(s) >= 1
<1>1. Len(s) \in Nat /\ (s # <<>> => Len(s) \in Nat \ {0}) /\ Len(<<>>) = 0 BY EmptySeq
<1>2. s # <<>> => Head(s) = s[1] /\ s[1] \in S BY <1>1, HeadTailProperties, ElementOfSeq
<1> QED BY <1>1, <1>2

\* A step of t keeps the lowest n of its frames and puts m on top of them.
Moves(t, n, m) ==
  /\ stack' \in [Threads -> Seq(Frames')]
  /\ \A u \in Threads \ {t} : stack'[u] = stack[u]
  /\ n \in Nat /\ m \in Nat /\ n <= Height(t)
  /\ Len(stack'[t]) = n + m
  /\ \A h \in 1 .. n : Frame(t, h)' = Frame(t, h)

\* The frame at height h afterwards.
Puts(t, h, f) == stack'[t][Len(stack'[t]) + 1 - h] = f

\* The stack of t becomes s.
Sets(t, s) == stack' = [stack EXCEPT ![t] = s]

\* s has the lowest n frames of t.
Keeps(s, t, n) == \A h \in 1 .. n : s[Len(s) + 1 - h] = stack[t][Len(stack[t]) + 1 - h]

LEMMA Moving ==
  ASSUME TypeOK, NEW t \in Threads, Frames \subseteq Frames',
         NEW n \in Nat, NEW m \in Nat, n <= Height(t),
         NEW s \in Seq(Frames'), Sets(t, s), Len(s) = n + m, Keeps(s, t, n)
  PROVE  Moves(t, n, m) /\ stack'[t] = s
<1>1. stack \in [Threads -> Seq(Frames)] /\ stack'[t] = s BY DEF TypeOK, Sets
<1>2. ASSUME NEW u \in Threads PROVE stack'[u] \in Seq(Frames')
 <2>1. CASE u = t BY <1>1, <2>1
 <2>2. CASE u # t
  <3>1. stack[u] \in Seq(Frames) /\ stack'[u] = stack[u] BY <1>1, <2>2 DEF Sets
  <3> QED BY <3>1, SeqMonotonic
 <2> QED BY <2>1, <2>2
<1>3. stack' \in [Threads -> Seq(Frames')] BY <1>1, <1>2 DEF Sets
<1>4. \A h \in 1 .. n : Frame(t, h)' = Frame(t, h) BY <1>1 DEF Frame, Keeps
<1>5. \A u \in Threads \ {t} : stack'[u] = stack[u] BY <1>1 DEF Sets
<1> QED BY <1>1, <1>3, <1>4, <1>5 DEF Moves

LEMMA StackTypes ==
  ASSUME TypeOK, NEW t \in Threads
  PROVE  /\ stack[t] \in Seq(Frames) /\ Height(t) \in Nat
         /\ Idle(t) <=> Height(t) = 0
         /\ ~Idle(t) => Top(t) = Frame(t, Height(t)) /\ Top(t) \in Frames /\ Height(t) >= 1
<1>1. stack[t] \in Seq(Frames) BY DEF TypeOK
<1>2. /\ Len(stack[t]) \in Nat /\ (stack[t] = <<>> <=> Len(stack[t]) = 0)
      /\ stack[t] # <<>> => /\ Head(stack[t]) = stack[t][1] /\ stack[t][1] \in Frames
                            /\ Len(stack[t]) >= 1
  BY <1>1, TopOf
<1> QED BY <1>1, <1>2 DEF Height, Idle, Top, Frame

LEMMA Entering ==
  ASSUME TypeOK, NEW t \in Threads, Frames \subseteq Frames', NEW f \in Frames', Enter(t, f)
  PROVE  Moves(t, Height(t), 1) /\ Puts(t, Height(t) + 1, f)
<1>1. stack[t] \in Seq(Frames) /\ Height(t) \in Nat BY StackTypes
<1>2. stack[t] \in Seq(Frames') BY <1>1, SeqMonotonic
<1>3. PICK s : s = <<f>> \o stack[t] OBVIOUS
<1>4. Pushed(s, stack[t], f, Frames') BY <1>2, <1>3, Pushing
<1>5. Moves(t, Height(t), 1) /\ stack'[t] = s
 <2>1. Sets(t, s) BY <1>3 DEF Sets, Enter
 <2>2. /\ s \in Seq(Frames') /\ Len(s) = Height(t) + 1
       /\ Keeps(s, t, Height(t))
   BY <1>4 DEF Pushed, Keeps, Height
 <2> QED BY <1>1, <2>1, <2>2, Moving
<1> QED BY <1>1, <1>4, <1>5 DEF Pushed, Puts, Height

LEMMA Leaving ==
  ASSUME TypeOK, NEW t \in Threads, Frames \subseteq Frames', ~Idle(t), Leave(t)
  PROVE  Moves(t, Height(t) - 1, 0)
<1>1. stack[t] \in Seq(Frames) /\ Height(t) \in Nat /\ Height(t) >= 1 /\ stack[t] # <<>> BY StackTypes DEF Idle
<1>2. stack[t] \in Seq(Frames') BY <1>1, SeqMonotonic
<1>3. PICK s : s = Tail(stack[t]) OBVIOUS
<1>4. Popped(s, stack[t], Frames') BY <1>1, <1>2, <1>3, Popping
<1>5. Sets(t, s) BY <1>3 DEF Sets, Leave
<1>6. /\ s \in Seq(Frames') /\ Len(s) = Height(t) - 1 + 0 /\ Height(t) - 1 \in Nat
      /\ Keeps(s, t, Height(t) - 1)
  BY <1>1, <1>4 DEF Popped, Keeps, Height
<1> QED BY <1>1, <1>5, <1>6, Moving

LEMMA LeavingTwo ==
  ASSUME TypeOK, NEW t \in Threads, Frames \subseteq Frames', Height(t) >= 2,
         stack' = [stack EXCEPT ![t] = Tail(Tail(@))]
  PROVE  Moves(t, Height(t) - 2, 0)
<1>1. stack[t] \in Seq(Frames) /\ Height(t) \in Nat /\ stack[t] # <<>> BY StackTypes DEF Idle
<1>2. stack[t] \in Seq(Frames') BY <1>1, SeqMonotonic
<1>3. PICK r, s : r = Tail(stack[t]) /\ s = Tail(r) OBVIOUS
<1>4. Popped(r, stack[t], Frames') BY <1>1, <1>2, <1>3, Popping
<1>5. Len(r) >= 1 /\ r # <<>> /\ r \in Seq(Frames') /\ Len(<<>>) = 0 BY <1>1, <1>4, EmptySeq DEF Popped, Height
<1>6. Popped(s, r, Frames') BY <1>3, <1>5, Popping
<1>7. Sets(t, s) BY <1>3 DEF Sets
<1>8. s \in Seq(Frames') /\ Len(s) = Height(t) - 2 + 0 /\ Height(t) - 2 \in Nat BY <1>1, <1>4, <1>6 DEF Popped, Height
<1>9. Keeps(s, t, Height(t) - 2)
 <2> SUFFICES ASSUME NEW h \in 1 .. Height(t) - 2
     PROVE s[Len(s) + 1 - h] = stack[t][Len(stack[t]) + 1 - h]
   BY DEF Keeps
 <2>1. h \in 1 .. Len(r) /\ h \in 1 .. Len(s) BY <1>1, <1>4, <1>8 DEF Popped, Height
 <2> QED BY <2>1, <1>4, <1>6 DEF Popped
<1> QED BY <1>1, <1>7, <1>8, <1>9, Moving

LEMMA Becoming ==
  ASSUME TypeOK, NEW t \in Threads, Frames \subseteq Frames', NEW f \in Frames', ~Idle(t),
         Become(t, f)
  PROVE  Moves(t, Height(t) - 1, 1) /\ Puts(t, Height(t), f)
<1>1. stack[t] \in Seq(Frames) /\ Height(t) \in Nat /\ Height(t) >= 1 /\ stack[t] # <<>> BY StackTypes DEF Idle
<1>2. stack[t] \in Seq(Frames') BY <1>1, SeqMonotonic
<1>3. PICK r, s : r = Tail(stack[t]) /\ s = <<f>> \o r OBVIOUS
<1>4. Popped(r, stack[t], Frames') BY <1>1, <1>2, <1>3, Popping
<1>5. r \in Seq(Frames') BY <1>4 DEF Popped
<1>6. Pushed(s, r, f, Frames') BY <1>3, <1>5, Pushing
<1>7. Sets(t, s) BY <1>3 DEF Sets, Become
<1>8. s \in Seq(Frames') /\ Len(s) = Height(t) - 1 + 1 /\ Height(t) - 1 \in Nat /\ s[1] = f
  BY <1>1, <1>4, <1>6 DEF Popped, Pushed, Height
<1>9. Keeps(s, t, Height(t) - 1)
 <2> SUFFICES ASSUME NEW h \in 1 .. Height(t) - 1
     PROVE s[Len(s) + 1 - h] = stack[t][Len(stack[t]) + 1 - h]
   BY DEF Keeps
 <2>1. h \in 1 .. Len(r) BY <1>1, <1>4 DEF Popped, Height
 <2> QED BY <2>1, <1>4, <1>6 DEF Popped, Pushed
<1>10. Moves(t, Height(t) - 1, 1) /\ stack'[t] = s
 <2>1. PICK n \in Nat : n = Height(t) - 1 BY <1>1
 <2>2. n <= Height(t) /\ s \in Seq(Frames') /\ Len(s) = n + 1 /\ Keeps(s, t, n) BY <1>1, <1>8, <1>9, <2>1
 <2>3. Moves(t, n, 1) /\ stack'[t] = s BY <1>7, <2>2, Moving
 <2> QED BY <2>1, <2>3
<1>11. Len(s) + 1 - Height(t) = 1 BY <1>1, <1>8
<1> QED BY <1>8, <1>10, <1>11 DEF Puts

LEMMA Covering ==
  ASSUME TypeOK, NEW t \in Threads, Frames \subseteq Frames',
         NEW f \in Frames', NEW g \in Frames', ~Idle(t),
         stack' = [stack EXCEPT ![t] = <<f, g>> \o Tail(@)]
  PROVE  /\ Moves(t, Height(t) - 1, 2)
         /\ Puts(t, Height(t), g) /\ Puts(t, Height(t) + 1, f)
<1>1. stack[t] \in Seq(Frames) /\ Height(t) \in Nat /\ Height(t) >= 1 /\ stack[t] # <<>> BY StackTypes DEF Idle
<1>2. stack[t] \in Seq(Frames') BY <1>1, SeqMonotonic
<1>3. PICK r, s : r = Tail(stack[t]) /\ s = <<f, g>> \o r OBVIOUS
<1>4. Popped(r, stack[t], Frames') BY <1>1, <1>2, <1>3, Popping
<1>5. r \in Seq(Frames') /\ Len(r) \in Nat /\ Len(r) = Height(t) - 1 BY <1>1, <1>4 DEF Popped, Height
<1>6. /\ <<f, g>> \in Seq(Frames') /\ Len(<<f, g>>) = 2
      /\ <<f, g>>[1] = f /\ <<f, g>>[2] = g
  OBVIOUS
<1>7. /\ s \in Seq(Frames') /\ Len(s) = 2 + Len(r)
      /\ \A i \in 1 .. 2 + Len(r) : s[i] = IF i <= 2 THEN <<f, g>>[i] ELSE r[i - 2]
  BY <1>3, <1>5, <1>6, ConcatProperties, Zenon
<1>8. Sets(t, s) BY <1>3 DEF Sets
<1>9. Len(s) = Height(t) - 1 + 2 /\ Height(t) - 1 \in Nat /\ s[1] = f /\ s[2] = g BY <1>1, <1>5, <1>6, <1>7
<1>10. Keeps(s, t, Height(t) - 1)
 <2> SUFFICES ASSUME NEW h \in 1 .. Height(t) - 1
     PROVE s[Len(s) + 1 - h] = stack[t][Len(stack[t]) + 1 - h]
   BY DEF Keeps
 <2>1. h \in 1 .. Len(r) /\ Len(s) + 1 - h \in 3 .. 2 + Len(r)
       /\ Len(s) + 1 - h - 2 = Len(r) + 1 - h
   BY <1>5, <1>7
 <2>2. s[Len(s) + 1 - h] = r[Len(r) + 1 - h] BY <1>5, <1>7, <2>1
 <2> QED BY <2>1, <2>2, <1>4 DEF Popped
<1>11. Moves(t, Height(t) - 1, 2) /\ stack'[t] = s
 <2>1. PICK n \in Nat : n = Height(t) - 1 BY <1>1
 <2>2. n <= Height(t) /\ s \in Seq(Frames') /\ Len(s) = n + 2 /\ Keeps(s, t, n) BY <1>1, <1>7, <1>9, <1>10, <2>1
 <2>3. Moves(t, n, 2) /\ stack'[t] = s BY <1>8, <2>2, Moving
 <2> QED BY <2>1, <2>3
<1>12. Len(s) + 1 - Height(t) = 2 /\ Len(s) + 1 - (Height(t) + 1) = 1 BY <1>1, <1>9
<1> QED BY <1>9, <1>11, <1>12 DEF Puts

--------------------
\* Frames and tickets.

Ats == {"deliver", "offer", "post", "release", "work", "call", "sink", "wait"}

LEMMA FrameFields ==
  ASSUME NEW f \in Frames
  PROVE  /\ f.at \in Ats
         /\ f.at = "deliver" => f.todo \in Seq(Listeners) /\ f.notify \in BOOLEAN
         /\ f.at \in {"offer", "post", "release", "work"} => f.ticket \in DOMAIN ticket
         /\ f.at = "call" => f.listener \in Listeners /\ f.ticket \in DOMAIN ticket \cup {0}
         /\ f.at \in {"sink", "wait"} => f.listener \in Listeners
  BY DEF Frames, Ats

LEMMA FrameKinds ==
  ASSUME DOMAIN ticket \subseteq DOMAIN ticket'
  PROVE  /\ Frames \subseteq Frames'
         /\ \A s \in Seq(Listeners), b \in BOOLEAN : Delivering(s, b) \in Frames'
         /\ \A k \in DOMAIN ticket' :
               /\ \A at \in {"offer", "post", "release"} : Offering(at, k) \in Frames'
               /\ Work(k) \in Frames'
               /\ \A l \in Listeners : Callback(l, k) \in Frames'
         /\ \A l \in Listeners :
               Callback(l, 0) \in Frames' /\ Sink(l) \in Frames' /\ Waiting(l) \in Frames'
<1>1. Frames \subseteq Frames' BY DEF Frames
<1>2. \A s \in Seq(Listeners), b \in BOOLEAN : Delivering(s, b) \in Frames' BY DEF Frames, Delivering
<1>3. ASSUME NEW k \in DOMAIN ticket'
      PROVE  /\ \A at \in {"offer", "post", "release"} : Offering(at, k) \in Frames'
             /\ Work(k) \in Frames'
             /\ \A l \in Listeners : Callback(l, k) \in Frames'
  BY DEF Frames, Offering, Work, Callback
<1>4. ASSUME NEW l \in Listeners PROVE Callback(l, 0) \in Frames' /\ Sink(l) \in Frames' /\ Waiting(l) \in Frames'
  BY DEF Frames, Callback, Sink, Waiting
<1> QED BY <1>1, <1>2, <1>3, <1>4

LEMMA TicketTypes ==
  ASSUME TypeOK
  PROVE  /\ DOMAIN ticket = 1 .. Len(ticket) /\ Len(ticket) \in Nat
         /\ \A k \in 1 .. Len(ticket) :
               /\ ticket[k] \in Tickets
               /\ ticket[k].listener \in Listeners /\ ticket[k].listener \in Queued
               /\ ticket[k].local \in BOOLEAN
               /\ ticket[k].settled \in Nat
               /\ ticket[k].work \in {"unposted", "queued", "entered", "gone"}
<1>1. ticket \in Seq(Tickets) /\ Queued \subseteq Listeners BY EventBusAssumption DEF TypeOK
<1>2. DOMAIN ticket = 1 .. Len(ticket) /\ Len(ticket) \in Nat BY <1>1, LenProperties
<1>3. \A k \in 1 .. Len(ticket) : ticket[k] \in Tickets BY <1>1, ElementOfSeq
<1> QED BY <1>1, <1>2, <1>3 DEF Tickets

\* The ticket at the top of a stack and the listener it is for.
LEMMA TopTicket ==
  ASSUME TypeOK, NEW t \in Threads, ~Idle(t),
         Top(t).at \in {"offer", "post", "release", "work"}
  PROVE  /\ Top(t).ticket \in 1 .. Len(ticket)
         /\ ticket[Top(t).ticket].listener \in Listeners
<1>1. Top(t) \in Frames BY StackTypes
<1>2. Top(t).ticket \in DOMAIN ticket BY <1>1, FrameFields
<1> QED BY <1>2, TicketTypes

LEMMA AtTypes ==
  ASSUME TypeOK, NEW t \in Threads, HasNext(t)
  PROVE  At(t) \in Listeners /\ Tail(Top(t).todo) \in Seq(Listeners) /\ Top(t).notify \in BOOLEAN
<1>1. Top(t) \in Frames /\ Top(t).at = "deliver" /\ Top(t).todo # <<>> BY StackTypes DEF HasNext, Within
<1>2. Top(t).todo \in Seq(Listeners) /\ Top(t).notify \in BOOLEAN BY <1>1, FrameFields
<1>3. Head(Top(t).todo) \in Listeners /\ Tail(Top(t).todo) \in Seq(Listeners) BY <1>1, <1>2, HeadTailProperties
<1> QED BY <1>2, <1>3 DEF At

LEMMA LineTypes ==
  ASSUME TypeOK, NEW l \in Listeners
  PROVE  /\ line[l] \in Seq(1 .. Len(ticket)) /\ Len(line[l]) \in Nat
         /\ \A i \in 1 .. Len(line[l]) : line[l][i] \in 1 .. Len(ticket)
         /\ line[l] # <<>> =>
               /\ Head(line[l]) = line[l][1] /\ Head(line[l]) \in 1 .. Len(ticket)
               /\ Tail(line[l]) \in Seq(1 .. Len(ticket))
               /\ Len(line[l]) >= 1 /\ Len(Tail(line[l])) = Len(line[l]) - 1
               /\ \A i \in 1 .. Len(line[l]) - 1 : Tail(line[l])[i] = line[l][i + 1]
<1>1. line[l] \in Seq(1 .. Len(ticket)) BY TicketTypes DEF TypeOK
<1>2. Len(line[l]) \in Nat /\ \A i \in 1 .. Len(line[l]) : line[l][i] \in 1 .. Len(ticket)
  BY <1>1, LenProperties, ElementOfSeq
<1>3. line[l] # <<>> => Len(line[l]) >= 1 /\ Head(line[l]) = line[l][1] BY <1>1, TopOf
<1>4. line[l] # <<>> => /\ Tail(line[l]) \in Seq(1 .. Len(ticket))
                        /\ Len(Tail(line[l])) = Len(line[l]) - 1
                        /\ \A i \in 1 .. Len(Tail(line[l])) : Tail(line[l])[i] = line[l][i + 1]
  BY <1>1, HeadTailProperties
<1> QED BY <1>1, <1>2, <1>3, <1>4

\* A step that changes one field of one ticket, or appends a ticket.
KeepsTickets ==
  /\ ticket' \in Seq(Tickets) /\ Len(ticket') = Len(ticket)
  /\ \A k \in 1 .. Len(ticket) : ticket'[k].listener = ticket[k].listener

Sames(k) == \A j \in 1 .. Len(ticket) : j # k => ticket'[j] = ticket[j]

\* The ticket k gets a new record, and nothing else happens to tickets.
Becomes(k, work, local, settled) ==
  /\ KeepsTickets /\ Sames(k)
  /\ ticket'[k].work = work /\ ticket'[k].local = local /\ ticket'[k].settled = settled

NewTicket(k, work, local, settled) ==
  [listener |-> ticket[k].listener, local |-> local, settled |-> settled, work |-> work]

\* The record of k becomes r.
Stores(k, r) == ticket' = [ticket EXCEPT ![k] = r]

LEMMA TicketSet ==
  ASSUME TypeOK, NEW k \in 1 .. Len(ticket), NEW r,
         NEW work \in {"unposted", "queued", "entered", "gone"},
         NEW local \in BOOLEAN, NEW settled \in Nat,
         r = NewTicket(k, work, local, settled),
         Stores(k, r)
  PROVE  Becomes(k, work, local, settled)
<1>1. r \in Tickets BY TicketTypes DEF Tickets, NewTicket
<1>2. ticket \in Seq(Tickets) BY DEF TypeOK
<1>3. /\ ticket' \in Seq(Tickets) /\ Len(ticket') = Len(ticket)
      /\ \A j \in 1 .. Len(ticket) : ticket'[j] = IF j = k THEN r ELSE ticket[j]
  BY <1>1, <1>2, ExceptSeq DEF Stores
<1> QED BY <1>3 DEF Becomes, KeepsTickets, Sames, NewTicket

\* A ticket is a record of its four fields.
LEMMA TicketFields ==
  ASSUME TypeOK, NEW k \in 1 .. Len(ticket)
  PROVE  \E a, b, c, d :
            /\ ticket[k] = [listener |-> a, local |-> b, settled |-> c, work |-> d]
            /\ ticket[k].listener = a /\ ticket[k].local = b
            /\ ticket[k].settled = c /\ ticket[k].work = d
<1>1. ticket[k] \in Tickets BY TicketTypes
<1> QED BY <1>1 DEF Tickets

LEMMA WorkSet ==
  ASSUME TypeOK, NEW k \in 1 .. Len(ticket),
         NEW work \in {"unposted", "queued", "entered", "gone"},
         ticket' = [ticket EXCEPT ![k].work = work]
  PROVE  Becomes(k, work, ticket[k].local, ticket[k].settled)
<1>1. PICK r : r = [ticket[k] EXCEPT !.work = work] OBVIOUS
<1>2. Stores(k, r) BY <1>1 DEF Stores
<1>3. r = NewTicket(k, work, ticket[k].local, ticket[k].settled)
 <2>1. PICK a, b, c, d :
             /\ ticket[k] = [listener |-> a, local |-> b, settled |-> c, work |-> d]
             /\ ticket[k].listener = a /\ ticket[k].local = b
             /\ ticket[k].settled = c /\ ticket[k].work = d
   BY TicketFields
 <2> QED BY <1>1, <2>1 DEF NewTicket
<1>4. ticket[k].local \in BOOLEAN /\ ticket[k].settled \in Nat BY TicketTypes
<1>5. PICK b \in BOOLEAN, n \in Nat : b = ticket[k].local /\ n = ticket[k].settled BY <1>4
<1>6. r = NewTicket(k, work, b, n) BY <1>3, <1>5
<1>7. Becomes(k, work, b, n) BY <1>2, <1>6, TicketSet
<1> QED BY <1>5, <1>7

LEMMA SettledSet ==
  ASSUME TypeOK, NEW k \in 1 .. Len(ticket),
         ticket' = [ticket EXCEPT ![k].settled = @ + 1]
  PROVE  Becomes(k, ticket[k].work, ticket[k].local, ticket[k].settled + 1)
<1>1. PICK r : r = [ticket[k] EXCEPT !.settled = ticket[k].settled + 1] OBVIOUS
<1>2. Stores(k, r) BY <1>1 DEF Stores
<1>3. r = NewTicket(k, ticket[k].work, ticket[k].local, ticket[k].settled + 1)
 <2>1. PICK a, b, c, d :
             /\ ticket[k] = [listener |-> a, local |-> b, settled |-> c, work |-> d]
             /\ ticket[k].listener = a /\ ticket[k].local = b
             /\ ticket[k].settled = c /\ ticket[k].work = d
   BY TicketFields
 <2> QED BY <1>1, <2>1 DEF NewTicket
<1>4. /\ ticket[k].local \in BOOLEAN /\ ticket[k].settled + 1 \in Nat
      /\ ticket[k].work \in {"unposted", "queued", "entered", "gone"}
  BY TicketTypes
<1>5. PICK b \in BOOLEAN, n \in Nat, w \in {"unposted", "queued", "entered", "gone"} :
          b = ticket[k].local /\ n = ticket[k].settled + 1 /\ w = ticket[k].work
  BY <1>4
<1>6. r = NewTicket(k, w, b, n) BY <1>3, <1>5
<1>7. Becomes(k, w, b, n) BY <1>2, <1>6, TicketSet
<1> QED BY <1>5, <1>7

LEMMA ReleaseSet ==
  ASSUME TypeOK, NEW t \in Threads, ReleaseTicket(t)
  PROVE  /\ Top(t).ticket \in 1 .. Len(ticket)
         /\ Becomes(Top(t).ticket, ticket[Top(t).ticket].work, FALSE,
                    IF ticket[Top(t).ticket].work = "gone" THEN ticket[Top(t).ticket].settled + 1
                    ELSE ticket[Top(t).ticket].settled)
<1>1. PICK k \in 1 .. Len(ticket) : k = Top(t).ticket BY TopTicket DEF ReleaseTicket, Within
<1>2. PICK n : n = IF ticket[k].work = "gone" THEN ticket[k].settled + 1 ELSE ticket[k].settled OBVIOUS
<1>3. ticket' = [ticket EXCEPT ![k].local = FALSE, ![k].settled = n] BY <1>1, <1>2 DEF ReleaseTicket, LastOwner
<1>4. PICK r : r = [ticket[k] EXCEPT !.local = FALSE, !.settled = n] OBVIOUS
<1>5. Stores(k, r) BY <1>3, <1>4, TicketTypes DEF Stores
<1>6. r = NewTicket(k, ticket[k].work, FALSE, n)
 <2>1. PICK a, b, c, d :
             /\ ticket[k] = [listener |-> a, local |-> b, settled |-> c, work |-> d]
             /\ ticket[k].listener = a /\ ticket[k].local = b
             /\ ticket[k].settled = c /\ ticket[k].work = d
   BY TicketFields
 <2> QED BY <1>4, <2>1 DEF NewTicket
<1>7. n \in Nat /\ ticket[k].work \in {"unposted", "queued", "entered", "gone"} BY <1>2, TicketTypes
<1>8. Becomes(k, ticket[k].work, FALSE, n) BY <1>5, <1>6, <1>7, TicketSet
<1> QED BY <1>1, <1>2, <1>8

LEMMA DropSet ==
  ASSUME TypeOK, NEW t \in Threads, NEW l \in Listeners, DropWork(t, l)
  PROVE  /\ Head(line[l]) \in 1 .. Len(ticket)
         /\ Becomes(Head(line[l]), "gone", ticket[Head(line[l])].local,
                    IF ~ticket[Head(line[l])].local THEN ticket[Head(line[l])].settled + 1
                    ELSE ticket[Head(line[l])].settled)
<1>1. PICK k \in 1 .. Len(ticket) : k = Head(line[l]) BY LineTypes DEF DropWork
<1>2. PICK n : n = IF ~ticket[k].local THEN ticket[k].settled + 1 ELSE ticket[k].settled OBVIOUS
<1>3. ticket' = [ticket EXCEPT ![k].work = "gone", ![k].settled = n] BY <1>1, <1>2 DEF DropWork
<1>4. PICK r : r = [ticket[k] EXCEPT !.work = "gone", !.settled = n] OBVIOUS
<1>5. Stores(k, r) BY <1>3, <1>4, TicketTypes DEF Stores
<1>6. r = NewTicket(k, "gone", ticket[k].local, n)
 <2>1. PICK a, b, c, d :
             /\ ticket[k] = [listener |-> a, local |-> b, settled |-> c, work |-> d]
             /\ ticket[k].listener = a /\ ticket[k].local = b
             /\ ticket[k].settled = c /\ ticket[k].work = d
   BY TicketFields
 <2> QED BY <1>4, <2>1 DEF NewTicket
<1>7. n \in Nat /\ ticket[k].local \in BOOLEAN BY <1>2, TicketTypes
<1>8. Becomes(k, "gone", ticket[k].local, n) BY <1>5, <1>6, <1>7, TicketSet
<1> QED BY <1>1, <1>2, <1>8

\* Tickets only ever grow in number.
Grows == ticket' \in Seq(Tickets) /\ DOMAIN ticket \subseteq DOMAIN ticket'

LEMMA BecomesGrows ==
  ASSUME TypeOK, NEW k, NEW w, NEW b, NEW n, Becomes(k, w, b, n)
  PROVE  Grows /\ DOMAIN ticket' = DOMAIN ticket
<1>1. ticket' \in Seq(Tickets) /\ Len(ticket') = Len(ticket) /\ ticket \in Seq(Tickets)
  BY DEF Becomes, KeepsTickets, TypeOK
<1>2. DOMAIN ticket' = 1 .. Len(ticket') /\ DOMAIN ticket = 1 .. Len(ticket) BY <1>1, LenProperties
<1> QED BY <1>1, <1>2 DEF Grows

LEMMA PrepareAppends ==
  ASSUME TypeOK, NEW t \in Threads, NEW at \in {"offer", "release"}, Prepare(t, at)
  PROVE  /\ ticket' \in Seq(Tickets) /\ Len(ticket') = Len(ticket) + 1
         /\ \A j \in 1 .. Len(ticket) : ticket'[j] = ticket[j]
         /\ ticket'[Len(ticket) + 1] =
               [listener |-> At(t), local |-> TRUE, settled |-> 0,
                work |-> IF at = "offer" THEN "unposted" ELSE "gone"]
         /\ DOMAIN ticket' = 1 .. Len(ticket) + 1
         /\ Grows
<1>1. PICK r : r = [listener |-> At(t), local |-> TRUE, settled |-> 0,
                    work |-> IF at = "offer" THEN "unposted" ELSE "gone"]
  OBVIOUS
<1>2. r \in Tickets BY <1>1 DEF Prepare, Tickets
<1>3. ticket' = Append(ticket, r) /\ ticket \in Seq(Tickets) BY <1>1 DEF Prepare, TypeOK
<1>4. /\ ticket' \in Seq(Tickets) /\ Len(ticket') = Len(ticket) + 1
      /\ \A j \in 1 .. Len(ticket) : ticket'[j] = ticket[j]
      /\ ticket'[Len(ticket) + 1] = r
  BY <1>2, <1>3, AppendProperties
<1>5. /\ DOMAIN ticket' = 1 .. Len(ticket') /\ DOMAIN ticket = 1 .. Len(ticket)
      /\ Len(ticket) \in Nat
  BY <1>3, <1>4, LenProperties
<1>6. DOMAIN ticket' = 1 .. Len(ticket) + 1 /\ Grows BY <1>4, <1>5 DEF Grows
<1> QED BY <1>1, <1>4, <1>6

--------------------
\* What each action does to its thread's stack.

Quits(t) == Published(t) \/ WaitReturns(t) \/ CallReturns(t) \/ SinkReturns(t)

LEMMA QuitMoves ==
  ASSUME TypeOK, NEW t \in Threads, Quits(t)
  PROVE  ~Idle(t) /\ Moves(t, Height(t) - 1, 0) /\ ticket' = ticket
<1>1. ticket' = ticket /\ ~Idle(t) /\ Leave(t) BY DEF Quits, Published, WaitReturns, CallReturns, SinkReturns, Within
<1>2. Frames \subseteq Frames' BY <1>1, FrameKinds
<1> QED BY <1>1, <1>2, Leaving

LEMMA PublishMoves ==
  ASSUME TypeOK, NEW t \in Threads, NEW b \in BOOLEAN, Publish(t, b)
  PROVE  Moves(t, Height(t), 1) /\ Puts(t, Height(t) + 1, Delivering(channel, b))
<1>1. ticket' = ticket /\ Enter(t, Delivering(channel, b)) BY DEF Publish
<1>2. channel \in Seq(Listeners)
 <2>1. channel \in Seq(Listeners \ fresh) /\ Listeners \ fresh \subseteq Listeners BY DEF TypeOK
 <2> QED BY <2>1, SeqMonotonic
<1>3. Frames \subseteq Frames' /\ Delivering(channel, b) \in Frames' BY <1>1, <1>2, FrameKinds
<1> QED BY <1>1, <1>3, Entering

LEMMA WaitMoves ==
  ASSUME TypeOK, NEW t \in Threads, NEW l \in Listeners, WaitCall(t, l)
  PROVE  Moves(t, Height(t), 1) /\ Puts(t, Height(t) + 1, Waiting(l))
<1>1. ticket' = ticket /\ Enter(t, Waiting(l)) BY DEF WaitCall
<1>2. Frames \subseteq Frames' /\ Waiting(l) \in Frames' BY <1>1, FrameKinds
<1> QED BY <1>1, <1>2, Entering

LEMMA RunMoves ==
  ASSUME TypeOK, NEW t \in Threads, NEW l \in Listeners, RunWork(t, l)
  PROVE  /\ Head(line[l]) \in 1 .. Len(ticket)
         /\ Becomes(Head(line[l]), "entered", ticket[Head(line[l])].local,
                    ticket[Head(line[l])].settled)
         /\ Moves(t, Height(t), 1) /\ Puts(t, Height(t) + 1, Work(Head(line[l])))
<1>1. PICK k \in 1 .. Len(ticket) : k = Head(line[l]) BY LineTypes DEF RunWork
<1>2. ticket' = [ticket EXCEPT ![k].work = "entered"] /\ Enter(t, Work(k)) BY <1>1 DEF RunWork
<1>3. Becomes(k, "entered", ticket[k].local, ticket[k].settled) BY <1>2, WorkSet
<1>4. DOMAIN ticket' = DOMAIN ticket /\ k \in DOMAIN ticket BY <1>3, BecomesGrows, TicketTypes
<1>5. Frames \subseteq Frames' /\ Work(k) \in Frames' BY <1>4, FrameKinds
<1>6. Moves(t, Height(t), 1) /\ Puts(t, Height(t) + 1, Work(k)) BY <1>2, <1>5, Entering
<1> QED BY <1>1, <1>3, <1>6

LEMMA DropMoves ==
  ASSUME TypeOK, NEW t \in Threads, NEW l \in Listeners, DropWork(t, l)
  PROVE  \/ stack' = stack
         \/ Moves(t, Height(t), 1) /\ Puts(t, Height(t) + 1, Sink(l))
<1>1. stack' = stack \/ Enter(t, Sink(l)) BY DEF DropWork
<1>2. DOMAIN ticket' = DOMAIN ticket BY DropSet, BecomesGrows
<1>3. Frames \subseteq Frames' /\ Sink(l) \in Frames' BY <1>2, FrameKinds
<1> QED BY <1>1, <1>3, Entering

LEMMA SkipMoves ==
  ASSUME TypeOK, NEW t \in Threads, Skip(t)
  PROVE  ~Idle(t) /\ Moves(t, Height(t) - 1, 1) /\ Puts(t, Height(t), Past(t))
<1>1. ticket' = ticket /\ ~Idle(t) /\ HasNext(t) /\ Become(t, Past(t)) BY DEF Skip, HasNext, Within
<1>2. Frames \subseteq Frames' /\ Past(t) \in Frames' BY <1>1, AtTypes, FrameKinds DEF Past
<1> QED BY <1>1, <1>2, Becoming

LEMMA LockMoves ==
  ASSUME TypeOK, NEW t \in Threads, LockPosting(t)
  PROVE  /\ ~Idle(t) /\ Moves(t, Height(t) - 1, 1)
         /\ Puts(t, Height(t), Offering("post", Top(t).ticket))
<1>1. /\ ticket' = ticket /\ ~Idle(t) /\ Top(t).at = "offer"
      /\ Become(t, Offering("post", Top(t).ticket))
  BY DEF LockPosting, Within
<1>2. Top(t).ticket \in DOMAIN ticket BY <1>1, TopTicket, TicketTypes
<1>3. Frames \subseteq Frames' /\ Offering("post", Top(t).ticket) \in Frames' BY <1>1, <1>2, FrameKinds
<1> QED BY <1>1, <1>3, Becoming

LEMMA PostMoves ==
  ASSUME TypeOK, NEW t \in Threads, TargetAccepts(t) \/ TargetRejects(t)
  PROVE  /\ ~Idle(t) /\ Moves(t, Height(t) - 1, 1)
         /\ Puts(t, Height(t), Offering("release", Top(t).ticket))
         /\ Top(t).ticket \in 1 .. Len(ticket)
         /\ Becomes(Top(t).ticket, IF TargetAccepts(t) THEN "queued" ELSE "gone",
                    ticket[Top(t).ticket].local, ticket[Top(t).ticket].settled)
<1>1. /\ ~Idle(t) /\ Top(t).at = "post"
      /\ Become(t, Offering("release", Top(t).ticket))
  BY DEF TargetAccepts, TargetRejects, Within
<1>2. PICK k \in 1 .. Len(ticket) : k = Top(t).ticket BY <1>1, TopTicket
<1>3. Becomes(k, IF TargetAccepts(t) THEN "queued" ELSE "gone", ticket[k].local, ticket[k].settled)
 <2>1. CASE TargetAccepts(t)
  <3>1. ticket' = [ticket EXCEPT ![k].work = "queued"] BY <1>2, <2>1 DEF TargetAccepts
  <3>2. Becomes(k, "queued", ticket[k].local, ticket[k].settled) BY <3>1, WorkSet
  <3> QED BY <2>1, <3>2
 <2>2. CASE ~TargetAccepts(t)
  <3>1. ticket' = [ticket EXCEPT ![k].work = "gone"] BY <1>2, <2>2 DEF TargetRejects
  <3>2. Becomes(k, "gone", ticket[k].local, ticket[k].settled) BY <3>1, WorkSet
  <3> QED BY <2>2, <3>2
 <2> QED BY <2>1, <2>2
<1>4. DOMAIN ticket' = DOMAIN ticket /\ k \in DOMAIN ticket BY <1>3, BecomesGrows, TicketTypes
<1>5. Frames \subseteq Frames' /\ Offering("release", k) \in Frames' BY <1>4, FrameKinds
<1> QED BY <1>1, <1>2, <1>3, <1>5, Becoming

LEMMA ReleaseMoves ==
  ASSUME TypeOK, NEW t \in Threads, ReleaseTicket(t)
  PROVE  /\ ~Idle(t)
         /\ \/ Moves(t, Height(t) - 1, 0)
            \/ /\ Moves(t, Height(t) - 1, 1)
               /\ \E l \in Listeners : Puts(t, Height(t), Sink(l))
<1>1. ~Idle(t) /\ Top(t).at = "release" BY DEF ReleaseTicket, Within
<1>2. PICK l \in Listeners : l = ticket[Top(t).ticket].listener BY <1>1, TopTicket
<1>3. Become(t, Sink(l)) \/ Leave(t) BY <1>2 DEF ReleaseTicket
<1>4. DOMAIN ticket' = DOMAIN ticket BY ReleaseSet, BecomesGrows
<1>5. Frames \subseteq Frames' /\ Sink(l) \in Frames' BY <1>4, FrameKinds
<1> QED BY <1>1, <1>3, <1>5, Becoming, Leaving

LEMMA WorkMoves ==
  ASSUME TypeOK, NEW t \in Threads, WorkCalls(t) \/ WorkDiscards(t)
  PROVE  /\ ~Idle(t) /\ Top(t).ticket \in 1 .. Len(ticket)
         /\ Becomes(Top(t).ticket, ticket[Top(t).ticket].work, ticket[Top(t).ticket].local,
                    ticket[Top(t).ticket].settled + 1)
         /\ WorkCalls(t) =>
               /\ Moves(t, Height(t) - 1, 1)
               /\ Puts(t, Height(t),
                       Callback(ticket[Top(t).ticket].listener, Top(t).ticket))
         /\ WorkDiscards(t) => Moves(t, Height(t) - 1, 0)
<1>1. ~Idle(t) /\ Top(t).at = "work" BY DEF WorkCalls, WorkDiscards, Within
<1>2. PICK k \in 1 .. Len(ticket) : k = Top(t).ticket /\ ticket[k].listener \in Listeners BY <1>1, TopTicket
<1>3. ticket' = [ticket EXCEPT ![k].settled = @ + 1] BY <1>2 DEF WorkCalls, WorkDiscards
<1>4. Becomes(k, ticket[k].work, ticket[k].local, ticket[k].settled + 1) BY <1>3, SettledSet
<1>5. DOMAIN ticket' = DOMAIN ticket /\ k \in DOMAIN ticket BY <1>4, BecomesGrows, TicketTypes
<1>6. Frames \subseteq Frames' /\ Callback(ticket[k].listener, k) \in Frames' BY <1>2, <1>5, FrameKinds
<1>7. WorkCalls(t) => Become(t, Callback(ticket[k].listener, k)) BY <1>2 DEF WorkCalls
<1>8. WorkDiscards(t) => Leave(t) BY DEF WorkDiscards
<1> QED BY <1>1, <1>2, <1>4, <1>6, <1>7, <1>8, Becoming, Leaving

LEMMA CallMoves ==
  ASSUME TypeOK, NEW t \in Threads, CallNow(t)
  PROVE  /\ ~Idle(t) /\ Moves(t, Height(t) - 1, 2)
         /\ Puts(t, Height(t), Past(t)) /\ Puts(t, Height(t) + 1, Callback(At(t), 0))
<1>1. /\ ticket' = ticket /\ ~Idle(t) /\ HasNext(t)
      /\ stack' = [stack EXCEPT ![t] = <<Callback(At(t), 0), Past(t)>> \o Tail(@)]
  BY DEF CallNow, HasNext, Within
<1>2. Frames \subseteq Frames' /\ Past(t) \in Frames' /\ Callback(At(t), 0) \in Frames'
  BY <1>1, AtTypes, FrameKinds DEF Past
<1> QED BY <1>1, <1>2, Covering

LEMMA PrepareMoves ==
  ASSUME TypeOK, NEW t \in Threads, NEW at \in {"offer", "release"}, Prepare(t, at)
  PROVE  /\ ~Idle(t) /\ Moves(t, Height(t) - 1, 2)
         /\ Puts(t, Height(t), Past(t))
         /\ Puts(t, Height(t) + 1, Offering(at, Len(ticket) + 1))
<1>1. /\ ~Idle(t) /\ HasNext(t)
      /\ stack' = [stack EXCEPT ![t] = <<Offering(at, Len(ticket) + 1), Past(t)>> \o Tail(@)]
  BY DEF Prepare, HasNext, Within
<1>2. DOMAIN ticket \subseteq DOMAIN ticket' /\ Len(ticket) + 1 \in DOMAIN ticket'
 <2>1. DOMAIN ticket' = 1 .. Len(ticket) + 1 /\ DOMAIN ticket \subseteq DOMAIN ticket' BY PrepareAppends DEF Grows
 <2> QED BY <2>1, TicketTypes
<1>3. /\ Frames \subseteq Frames' /\ Past(t) \in Frames'
      /\ Offering(at, Len(ticket) + 1) \in Frames'
  BY <1>1, <1>2, AtTypes, FrameKinds DEF Past
<1> QED BY <1>1, <1>3, Covering

LEMMA ThrowMoves ==
  ASSUME TypeOK, Nested, NEW t \in Threads, CallThrows(t)
  PROVE  /\ ~Idle(t)
         /\ \/ Moves(t, Height(t) - 1, 0)
            \/ /\ Moves(t, Height(t) - 1, 1)
               /\ \E l \in Listeners : Puts(t, Height(t), Sink(l))
            \/ /\ Moves(t, Height(t) - 2, 0) /\ Height(t) >= 2
               /\ Frame(t, Height(t) - 1).at = "deliver"
<1>1. /\ ~Idle(t) /\ Top(t).at = "call" /\ ticket' = ticket /\ Unwind(t)
      /\ Top(t) = Frame(t, Height(t)) /\ Top(t) \in Frames /\ Height(t) \in Nat /\ Height(t) >= 1
  BY StackTypes DEF CallThrows, Within
<1>2. PICK l \in Listeners : l = Top(t).listener BY <1>1, FrameFields
<1>3. Frames \subseteq Frames' /\ Sink(l) \in Frames' BY <1>1, FrameKinds
<1>4. CASE Top(t).ticket # 0 BY <1>1, <1>2, <1>3, <1>4, Becoming DEF Unwind
<1>5. CASE Top(t).ticket = 0
 <2>1. Height(t) >= 2 /\ Frame(t, Height(t) - 1).at = "deliver" BY <1>1, <1>5 DEF Nested, NestedAt
 <2>2. Leave(t) \/ stack' = [stack EXCEPT ![t] = Tail(Tail(@))] BY <1>1, <1>5 DEF Unwind
 <2> QED BY <1>1, <1>3, <2>1, <2>2, Leaving, LeavingTwo
<1> QED BY <1>4, <1>5

--------------------
\* Every variable stays in its range.

\* TypeOK without the stacks and the tickets.
BusTypes ==
  /\ fresh \subseteq Listeners /\ active \subseteq Listeners \ fresh
  /\ channel \in Seq(Listeners \ fresh)
  /\ closed \in BOOLEAN /\ count \in Nat
  /\ running \in [Listeners -> Nat]
  /\ posting \in [Listeners -> Threads \cup {Nobody}]
  /\ publications \in Nat /\ released \subseteq Listeners

TicketStackTypes ==
  /\ ticket \in Seq(Tickets)
  /\ line \in [Listeners -> Seq(DOMAIN ticket)]
  /\ stack \in [Threads -> Seq(Frames)]

LEMMA TypesAre == TypeOK <=> BusTypes /\ TicketStackTypes
  BY DEF TypeOK, BusTypes, TicketStackTypes

\* What the target's line and the tickets do to their types.
LEMMA LinesTyped ==
  ASSUME TypeOK, Grows, line' = line
  PROVE  line' \in [Listeners -> Seq(DOMAIN ticket')]
<1>1. line \in [Listeners -> Seq(DOMAIN ticket)] /\ DOMAIN ticket \subseteq DOMAIN ticket' BY DEF TypeOK, Grows
<1>2. \A l \in Listeners : line[l] \in Seq(DOMAIN ticket') BY <1>1, SeqMonotonic
<1> QED BY <1>1, <1>2

LEMMA StacksTyped ==
  ASSUME TypeOK, DOMAIN ticket \subseteq DOMAIN ticket', stack' = stack
  PROVE  stack' \in [Threads -> Seq(Frames')]
<1>1. stack \in [Threads -> Seq(Frames)] /\ Frames \subseteq Frames' BY FrameKinds DEF TypeOK
<1>2. \A t \in Threads : stack[t] \in Seq(Frames') BY <1>1, SeqMonotonic
<1> QED BY <1>1, <1>2

\* The channel without l.
LEMMA WithoutIs ==
  ASSUME TypeOK, ChannelBooks, NEW l \in Registered
  PROVE  \E i \in 1 .. Len(channel) :
            /\ channel[i] = l
            /\ Without(l) \in Seq(Listeners \ fresh)
            /\ Len(Without(l)) = Len(channel) - 1
            /\ \A j \in 1 .. Len(channel) - 1 :
                  Without(l)[j] = channel[IF j < i THEN j ELSE j + 1]
<1>1. /\ channel \in Seq(Listeners \ fresh) /\ DOMAIN channel = 1 .. Len(channel)
      /\ Len(channel) \in Nat
  BY LenProperties DEF TypeOK
<1>2. PICK i : i = CHOOSE j \in DOMAIN channel : channel[j] = l OBVIOUS
<1>3. i \in 1 .. Len(channel) /\ channel[i] = l BY <1>1, <1>2 DEF Registered
<1>4. PICK e : e = [j \in 1 .. Len(channel) - 1 |-> channel[IF j < i THEN j ELSE j + 1]] OBVIOUS
<1>5. Without(l) = e BY <1>2, <1>4 DEF Without
<1>6. Len(channel) - 1 \in Nat BY <1>1, <1>3
<1>7. \A j \in 1 .. Len(channel) - 1 :
         e[j] = channel[IF j < i THEN j ELSE j + 1] /\ e[j] \in Listeners \ fresh
  BY <1>1, <1>3, <1>4, ElementOfSeq
<1>8. e \in Seq(Listeners \ fresh) /\ Len(e) = Len(channel) - 1
 <2>1. e \in [1 .. Len(channel) - 1 -> Listeners \ fresh] BY <1>4, <1>7
 <2> QED BY <1>6, <2>1, SeqDef
<1> QED BY <1>3, <1>5, <1>7, <1>8

--------------------
\* The callbacks under way.

IsCall(f, l) == f.at = "call" /\ f.listener = l
After(t, h) == stack'[t][Len(stack'[t]) + 1 - h]

LEMMA InvocationsAre ==
  ASSUME TypeOK, NEW l
  PROVE  \A p : p \in Invocations(l) <=>
            \E t \in Threads : \E h \in 1 .. Height(t) : p = <<t, h>> /\ IsCall(Frame(t, h), l)
<1>1. \A t \in Threads : DOMAIN stack[t] = 1 .. Height(t)
 <2> SUFFICES ASSUME NEW t \in Threads PROVE DOMAIN stack[t] = 1 .. Height(t) OBVIOUS
 <2>1. stack[t] \in Seq(Frames) BY StackTypes
 <2> QED BY <2>1, LenProperties DEF Height
<1>2. ASSUME NEW p \in Invocations(l)
      PROVE  \E t \in Threads : \E h \in 1 .. Height(t) : p = <<t, h>> /\ IsCall(Frame(t, h), l)
  BY <1>1, <1>2 DEF Invocations, IsCall
<1>3. ASSUME NEW t \in Threads, NEW h \in 1 .. Height(t), IsCall(Frame(t, h), l) PROVE <<t, h>> \in Invocations(l)
 <2>1. h \in {i \in DOMAIN stack[t] : Frame(t, i).at = "call" /\ Frame(t, i).listener = l} BY <1>1, <1>3 DEF IsCall
 <2>2. PICK S : S = {<<t, i>> : i \in {j \in DOMAIN stack[t] :
                                     Frame(t, j).at = "call" /\ Frame(t, j).listener = l}}
   OBVIOUS
 <2>3. <<t, h>> \in S BY <2>1, <2>2
 <2>4. S \subseteq Invocations(l) BY <2>2 DEF Invocations
 <2> QED BY <2>3, <2>4
<1> QED BY <1>2, <1>3

\* The invocations that a step of t ends and begins.
Ended(t, n, l) == {<<t, h>> : h \in {i \in n + 1 .. Height(t) : IsCall(Frame(t, i), l)}}
Begun(t, n, m, l) == {<<t, h>> : h \in {i \in n + 1 .. n + m : IsCall(After(t, i), l)}}

LEMMA InvocationsMove ==
  ASSUME TypeOK, NEW t \in Threads, NEW n, NEW m, Moves(t, n, m), NEW l
  PROVE  /\ Invocations(l)' = (Invocations(l) \ Ended(t, n, l)) \cup Begun(t, n, m, l)
         /\ Ended(t, n, l) \subseteq Invocations(l)
<1>1. /\ stack' \in [Threads -> Seq(Frames')]
      /\ \A u \in Threads \ {t} : stack'[u] = stack[u]
      /\ n \in Nat /\ m \in Nat /\ n <= Height(t) /\ Len(stack'[t]) = n + m
      /\ \A h \in 1 .. n : Frame(t, h)' = Frame(t, h)
  BY DEF Moves
<1>2. \A u \in Threads : DOMAIN stack'[u] = 1 .. Len(stack'[u])
 <2> SUFFICES ASSUME NEW u \in Threads PROVE DOMAIN stack'[u] = 1 .. Len(stack'[u]) OBVIOUS
 <2>1. stack'[u] \in Seq(Frames') BY <1>1
 <2> QED BY <2>1, LenProperties
<1>3. \A p : p \in Invocations(l)' <=>
         \E u \in Threads : \E h \in 1 .. Len(stack'[u]) : p = <<u, h>> /\ IsCall(After(u, h), l)
  BY <1>2 DEF Invocations, IsCall, Frame, After
<1>4. \A u \in Threads \ {t} : /\ Len(stack'[u]) = Height(u)
                               /\ \A h \in 1 .. Height(u) : After(u, h) = Frame(u, h)
  BY <1>1 DEF Height, After, Frame
<1>5. \A h \in 1 .. n : After(t, h) = Frame(t, h) BY <1>1 DEF After, Frame
<1>6. Height(t) \in Nat BY StackTypes
<1>7. Ended(t, n, l) \subseteq Invocations(l) BY <1>1, <1>6, InvocationsAre DEF Ended
<1>8. ASSUME NEW p \in Invocations(l)' PROVE p \in (Invocations(l) \ Ended(t, n, l)) \cup Begun(t, n, m, l)
 <2>0. PICK u \in Threads :
          \E h \in 1 .. Len(stack'[u]) : p = <<u, h>> /\ IsCall(After(u, h), l)
   BY <1>3, <1>8
 <2>1. PICK h \in 1 .. Len(stack'[u]) : p = <<u, h>> /\ IsCall(After(u, h), l) BY <2>0
 <2>2. CASE u # t
  <3>1. p \in Invocations(l) BY <1>4, <2>1, <2>2, InvocationsAre
  <3>2. p \notin Ended(t, n, l) BY <2>1, <2>2 DEF Ended
  <3> QED BY <3>1, <3>2
 <2>3. CASE u = t /\ h <= n
  <3>1. h \in 1 .. n /\ h \in 1 .. Height(t) BY <1>1, <1>6, <2>1, <2>3
  <3>2. p \in Invocations(l) BY <1>5, <2>1, <2>3, <3>1, InvocationsAre
  <3>3. p \notin Ended(t, n, l) BY <1>1, <1>6, <2>1, <3>1 DEF Ended
  <3> QED BY <3>2, <3>3
 <2>4. CASE u = t /\ h > n
  <3>1. h \in n + 1 .. n + m BY <1>1, <2>1, <2>4
  <3> QED BY <2>1, <2>4, <3>1 DEF Begun
 <2>5. h \in Nat BY <1>1, <1>6, <2>1, <1>4
 <2> QED BY <1>1, <2>2, <2>3, <2>4, <2>5
<1>9. ASSUME NEW p \in (Invocations(l) \ Ended(t, n, l)) \cup Begun(t, n, m, l) PROVE p \in Invocations(l)'
 <2>1. CASE p \in Begun(t, n, m, l)
  <3>1. PICK h \in n + 1 .. n + m : p = <<t, h>> /\ IsCall(After(t, h), l) BY <2>1 DEF Begun
  <3>2. h \in 1 .. Len(stack'[t]) BY <1>1
  <3> QED BY <1>3, <3>1, <3>2
 <2>2. CASE p \in Invocations(l) \ Ended(t, n, l)
  <3>0. PICK u \in Threads : \E h \in 1 .. Height(u) : p = <<u, h>> /\ IsCall(Frame(u, h), l) BY <2>2, InvocationsAre
  <3>1. PICK h \in 1 .. Height(u) : p = <<u, h>> /\ IsCall(Frame(u, h), l) BY <3>0
  <3>2. CASE u # t BY <1>3, <1>4, <3>1, <3>2
  <3>3. CASE u = t
   <4>1. ~(h \in n + 1 .. Height(t)) BY <2>2, <3>1, <3>3 DEF Ended
   <4>2. h \in 1 .. n /\ h \in 1 .. Len(stack'[t]) BY <1>1, <1>6, <3>1, <3>3, <4>1
   <4>3. IsCall(After(t, h), l) BY <1>5, <3>1, <3>3, <4>2
   <4> QED BY <1>3, <3>1, <3>3, <4>2, <4>3
  <3> QED BY <3>2, <3>3
 <2> QED BY <1>9, <2>1, <2>2
<1> QED BY <1>7, <1>8, <1>9

\* A step that ends no callback and begins none.
Calm(t, n, m) ==
  /\ \A h \in n + 1 .. Height(t) : Frame(t, h).at # "call"
  /\ \A h \in n + 1 .. n + m : After(t, h).at # "call"

LEMMA CalmKeeps ==
  ASSUME TypeOK, NEW t \in Threads, NEW n, NEW m, Moves(t, n, m), Calm(t, n, m), NEW l
  PROVE  Invocations(l)' = Invocations(l)
<1>1. Ended(t, n, l) = {} /\ Begun(t, n, m, l) = {} BY DEF Calm, Ended, Begun, IsCall
<1> QED BY <1>1, InvocationsMove

LEMMA StillKeeps ==
  ASSUME stack' = stack, NEW l
  PROVE  Invocations(l)' = Invocations(l)
  BY DEF Invocations, Frame

\* The steps that neither begin nor end a callback.
LEMMA CalmPush ==
  ASSUME TypeOK, NEW t \in Threads, NEW f, Moves(t, Height(t), 1), Puts(t, Height(t) + 1, f),
         f.at # "call", NEW l
  PROVE  Invocations(l)' = Invocations(l)
<1>1. PICK n \in Nat : n = Height(t) BY StackTypes
<1>2. Calm(t, n, 1) BY <1>1 DEF Calm, Puts, After
<1> QED BY <1>1, <1>2, CalmKeeps

LEMMA CalmSwap ==
  ASSUME TypeOK, NEW t \in Threads, NEW f, ~Idle(t), Moves(t, Height(t) - 1, 1),
         Puts(t, Height(t), f), f.at # "call", Top(t).at # "call", NEW l
  PROVE  Invocations(l)' = Invocations(l)
<1>1. PICK n \in Nat : n = Height(t) - 1 /\ Height(t) = n + 1 BY StackTypes
<1>2. Frame(t, n + 1) = Top(t) BY <1>1, StackTypes
<1>3. Calm(t, n, 1) BY <1>1, <1>2 DEF Calm, Puts, After
<1> QED BY <1>1, <1>3, CalmKeeps

LEMMA CalmPop ==
  ASSUME TypeOK, NEW t \in Threads, ~Idle(t), Moves(t, Height(t) - 1, 0),
         Top(t).at # "call", NEW l
  PROVE  Invocations(l)' = Invocations(l)
<1>1. PICK n \in Nat : n = Height(t) - 1 /\ Height(t) = n + 1 BY StackTypes
<1>2. Frame(t, n + 1) = Top(t) BY <1>1, StackTypes
<1>3. Calm(t, n, 0) BY <1>1, <1>2 DEF Calm
<1> QED BY <1>1, <1>3, CalmKeeps

LEMMA CalmCover ==
  ASSUME TypeOK, NEW t \in Threads, NEW f, NEW g, ~Idle(t), Moves(t, Height(t) - 1, 2),
         Puts(t, Height(t), g), Puts(t, Height(t) + 1, f),
         f.at # "call", g.at # "call", Top(t).at # "call", NEW l
  PROVE  Invocations(l)' = Invocations(l)
<1>1. PICK n \in Nat : n = Height(t) - 1 /\ Height(t) = n + 1 BY StackTypes
<1>2. Frame(t, n + 1) = Top(t) BY <1>1, StackTypes
<1>3. After(t, n + 1) = g /\ After(t, n + 2) = f BY <1>1 DEF Puts, After
<1>4. Calm(t, n, 2) BY <1>1, <1>2, <1>3 DEF Calm
<1> QED BY <1>1, <1>4, CalmKeeps

SameCalls == running' = running /\ \A l \in Listeners : Invocations(l)' = Invocations(l)

CalmUse(t) ==
  \/ Close(t)
  \/ \E b \in BOOLEAN : Publish(t, b)
  \/ \E l \in Listeners : Register(t, l) \/ Unregister(t, l) \/ WaitCall(t, l)

CalmGoOn(t) ==
  \/ Published(t) \/ Skip(t) \/ Prepared(t) \/ PreparationFails(t)
  \/ LockPosting(t) \/ TargetAccepts(t) \/ TargetRejects(t) \/ ReleaseTicket(t)
  \/ WorkDiscards(t) \/ SinkReturns(t) \/ WaitReturns(t)

LEMMA CalmUses ==
  ASSUME TypeOK, NEW t \in Threads, CalmUse(t)
  PROVE  SameCalls
<1>1. CASE Close(t) \/ \E l \in Listeners : Register(t, l) \/ Unregister(t, l)
 <2>1. stack' = stack /\ running' = running BY <1>1 DEF Close, Register, Unregister
 <2> QED BY <2>1, StillKeeps DEF SameCalls
<1>2. ASSUME NEW b \in BOOLEAN, Publish(t, b) PROVE SameCalls
 <2>1. Delivering(channel, b).at # "call" BY DEF Delivering
 <2>2. running' = running BY <1>2 DEF Publish
 <2> QED BY <1>2, <2>1, <2>2, PublishMoves, CalmPush DEF SameCalls
<1>3. ASSUME NEW l \in Listeners, WaitCall(t, l) PROVE SameCalls
 <2>1. Waiting(l).at # "call" BY DEF Waiting
 <2>2. running' = running BY <1>3 DEF WaitCall
 <2> QED BY <1>3, <2>1, <2>2, WaitMoves, CalmPush DEF SameCalls
<1> QED BY <1>1, <1>2, <1>3 DEF CalmUse

LEMMA CalmGoings ==
  ASSUME TypeOK, NEW t \in Threads, CalmGoOn(t)
  PROVE  SameCalls
<1>1. CASE Published(t) \/ SinkReturns(t) \/ WaitReturns(t)
 <2>1. Top(t).at # "call" /\ running' = running /\ Quits(t)
   BY <1>1 DEF Quits, Published, SinkReturns, WaitReturns, Within
 <2> QED BY <2>1, QuitMoves, CalmPop DEF SameCalls
<1>2. CASE Skip(t)
 <2>1. Top(t).at # "call" /\ running' = running /\ Past(t).at # "call"
   BY <1>2 DEF Skip, HasNext, Within, Past, Delivering
 <2> QED BY <1>2, <2>1, SkipMoves, CalmSwap DEF SameCalls
<1>3. ASSUME NEW at \in {"offer", "release"}, Prepare(t, at) PROVE SameCalls
 <2>1. /\ Top(t).at # "call" /\ running' = running /\ Past(t).at # "call"
       /\ Offering(at, Len(ticket) + 1).at # "call"
   BY <1>3 DEF Prepare, HasNext, Within, Past, Delivering, Offering
 <2> QED BY <1>3, <2>1, PrepareMoves, CalmCover DEF SameCalls
<1>4. CASE LockPosting(t)
 <2>1. /\ Top(t).at # "call" /\ running' = running
       /\ Offering("post", Top(t).ticket).at # "call"
   BY <1>4 DEF LockPosting, Within, Offering
 <2> QED BY <1>4, <2>1, LockMoves, CalmSwap DEF SameCalls
<1>5. CASE TargetAccepts(t) \/ TargetRejects(t)
 <2>1. /\ Top(t).at # "call" /\ running' = running
       /\ Offering("release", Top(t).ticket).at # "call"
   BY <1>5 DEF TargetAccepts, TargetRejects, Within, Offering
 <2> QED BY <1>5, <2>1, PostMoves, CalmSwap DEF SameCalls
<1>6. CASE ReleaseTicket(t)
 <2>1. Top(t).at # "call" /\ running' = running /\ \A l \in Listeners : Sink(l).at # "call"
   BY <1>6 DEF ReleaseTicket, Within, Sink
 <2>2. CASE Moves(t, Height(t) - 1, 0) BY <1>6, <2>1, <2>2, ReleaseMoves, CalmPop DEF SameCalls
 <2>3. ASSUME NEW l \in Listeners, Puts(t, Height(t), Sink(l)), Moves(t, Height(t) - 1, 1)
       PROVE SameCalls
   BY <1>6, <2>1, <2>3, ReleaseMoves, CalmSwap DEF SameCalls
 <2> QED BY <1>6, <2>2, <2>3, ReleaseMoves
<1>7. CASE WorkDiscards(t)
 <2>1. Top(t).at # "call" /\ running' = running BY <1>7 DEF WorkDiscards, Within
 <2> QED BY <1>7, <2>1, WorkMoves, CalmPop DEF SameCalls
<1> QED BY <1>1, <1>2, <1>3, <1>4, <1>5, <1>6, <1>7 DEF CalmGoOn, Prepared, PreparationFails

LEMMA CalmServes ==
  ASSUME TypeOK, NEW t \in Threads, NEW l \in Listeners, RunWork(t, l) \/ DropWork(t, l)
  PROVE  SameCalls
<1>1. Work(Head(line[l])).at # "call" /\ Sink(l).at # "call" /\ running' = running BY DEF Work, Sink, RunWork, DropWork
<1>2. CASE RunWork(t, l) BY <1>1, <1>2, RunMoves, CalmPush DEF SameCalls
<1>3. CASE DropWork(t, l) BY <1>1, <1>3, DropMoves, StillKeeps, CalmPush DEF SameCalls
<1> QED BY <1>2, <1>3

\* The invocations of l gain or lose p, those of the others stay.
Gains(l, p) ==
  /\ running' = [running EXCEPT ![l] = @ + 1]
  /\ p \notin Invocations(l) /\ Invocations(l)' = Invocations(l) \cup {p}
  /\ \A m \in Listeners \ {l} : Invocations(m)' = Invocations(m)

Loses(l, p) ==
  /\ running' = [running EXCEPT ![l] = @ - 1]
  /\ p \in Invocations(l) /\ Invocations(l)' = Invocations(l) \ {p}
  /\ \A m \in Listeners \ {l} : Invocations(m)' = Invocations(m)

LEMMA CallNowGains ==
  ASSUME TypeOK, NEW t \in Threads, CallNow(t)
  PROVE  \E p : Gains(At(t), p)
<1>1. PICK l \in Listeners : l = At(t) BY AtTypes DEF CallNow
<1>2. PICK n \in Nat : n = Height(t) - 1 /\ Height(t) = n + 1 BY StackTypes, CallMoves
<1>3. /\ Moves(t, n, 2) /\ After(t, n + 1).at = "deliver"
      /\ After(t, n + 2) = Callback(l, 0)
 <2>1. /\ Moves(t, Height(t) - 1, 2)
       /\ Puts(t, Height(t), Past(t)) /\ Puts(t, Height(t) + 1, Callback(At(t), 0))
   BY CallMoves
 <2>2. Moves(t, n, 2) /\ After(t, n + 1) = Past(t) /\ After(t, n + 2) = Callback(l, 0)
   BY <1>1, <1>2, <2>1 DEF Puts, After
 <2> QED BY <2>2 DEF Past, Delivering
<1>4. Frame(t, n + 1).at = "deliver" BY <1>2, StackTypes DEF CallNow, HasNext, Within
<1>5. \A m : Ended(t, n, m) = {} BY <1>2, <1>4 DEF Ended, IsCall
<1>6. Begun(t, n, 2, l) = {<<t, n + 2>>} /\ \A m \in Listeners \ {l} : Begun(t, n, 2, m) = {}
  BY <1>3 DEF Begun, IsCall, Callback
<1>7. <<t, n + 2>> \notin Invocations(l)
 <2>1. \A h \in 1 .. Height(t) : h # n + 2 BY <1>2
 <2> QED BY <2>1, InvocationsAre
<1>8. Invocations(l)' = Invocations(l) \cup {<<t, n + 2>>} BY <1>3, <1>5, <1>6, InvocationsMove
<1>9. ASSUME NEW m \in Listeners \ {l} PROVE Invocations(m)' = Invocations(m)
 <2>1. Ended(t, n, m) = {} /\ Begun(t, n, 2, m) = {} BY <1>5, <1>6
 <2> QED BY <1>3, <2>1, InvocationsMove
<1>10. running' = [running EXCEPT ![l] = @ + 1] BY <1>1 DEF CallNow
<1>11. Gains(l, <<t, n + 2>>) BY <1>7, <1>8, <1>9, <1>10 DEF Gains
<1> QED BY <1>1, <1>11

LEMMA WorkCallsGains ==
  ASSUME TypeOK, NEW t \in Threads, WorkCalls(t)
  PROVE  \E p : Gains(ticket[Top(t).ticket].listener, p)
<1>1. PICK l \in Listeners : l = ticket[Top(t).ticket].listener BY TopTicket DEF WorkCalls, Within
<1>2. PICK n \in Nat : n = Height(t) - 1 /\ Height(t) = n + 1 BY StackTypes, WorkMoves
<1>3. Moves(t, n, 1) /\ After(t, n + 1) = Callback(l, Top(t).ticket) BY <1>1, <1>2, WorkMoves DEF Puts, After
<1>4. Frame(t, n + 1).at = "work" BY <1>2, StackTypes DEF WorkCalls, Within
<1>5. \A m : Ended(t, n, m) = {} BY <1>2, <1>4 DEF Ended, IsCall
<1>6. Begun(t, n, 1, l) = {<<t, n + 1>>} /\ \A m \in Listeners \ {l} : Begun(t, n, 1, m) = {}
  BY <1>3 DEF Begun, IsCall, Callback
<1>7. <<t, n + 1>> \notin Invocations(l) BY <1>2, <1>4, InvocationsAre DEF IsCall
<1>8. Invocations(l)' = Invocations(l) \cup {<<t, n + 1>>} BY <1>3, <1>5, <1>6, InvocationsMove
<1>9. ASSUME NEW m \in Listeners \ {l} PROVE Invocations(m)' = Invocations(m)
 <2>1. Ended(t, n, m) = {} /\ Begun(t, n, 1, m) = {} BY <1>5, <1>6
 <2> QED BY <1>3, <2>1, InvocationsMove
<1>10. running' = [running EXCEPT ![l] = @ + 1] BY <1>1 DEF WorkCalls
<1>11. Gains(l, <<t, n + 1>>) BY <1>7, <1>8, <1>9, <1>10 DEF Gains
<1> QED BY <1>1, <1>11

LEMMA CallEndLoses ==
  ASSUME TypeOK, Nested, NEW t \in Threads, CallReturns(t) \/ CallThrows(t)
  PROVE  Top(t).listener \in Listeners /\ \E p : Loses(Top(t).listener, p)
<1>1. ~Idle(t) /\ Top(t).at = "call" BY DEF CallReturns, CallThrows, Within
<1>2. PICK l \in Listeners : l = Top(t).listener BY <1>1, StackTypes, FrameFields
<1>3. PICK h \in Nat : h = Height(t) /\ h >= 1 BY <1>1, StackTypes
<1>4. IsCall(Frame(t, h), l) /\ \A m : IsCall(Frame(t, h), m) => m = l BY <1>1, <1>2, <1>3, StackTypes DEF IsCall
<1>5. running' = [running EXCEPT ![l] = @ - 1] BY <1>2 DEF CallReturns, CallThrows
<1>6. <<t, h>> \in Invocations(l) /\ \A m \in Listeners \ {l} : <<t, h>> \notin Invocations(m)
  BY <1>3, <1>4, InvocationsAre
<1>7. \/ Moves(t, h - 1, 0)
      \/ Moves(t, h - 1, 1) /\ \E m \in Listeners : After(t, h) = Sink(m)
      \/ Moves(t, h - 2, 0) /\ h >= 2 /\ Frame(t, h - 1).at = "deliver"
 <2>1. CASE CallReturns(t) BY <1>3, <2>1, QuitMoves DEF Quits
 <2>2. CASE CallThrows(t) BY <1>3, <2>2, ThrowMoves DEF Puts, After
 <2> QED BY <2>1, <2>2
<1>8. ASSUME NEW m \in Listeners PROVE Invocations(m)' = Invocations(m) \ {<<t, h>>}
 <2>1. CASE \/ Moves(t, h - 1, 0)
            \/ Moves(t, h - 1, 1) /\ \E q \in Listeners : After(t, h) = Sink(q)
  <3>1. PICK n \in Nat : n = h - 1 BY <1>3
  <3>2. PICK k \in {0, 1} : Moves(t, n, k) /\ (k = 1 => \E q \in Listeners : After(t, h) = Sink(q)) BY <2>1, <3>1
  <3>3. Begun(t, n, k, m) = {} BY <1>3, <3>1, <3>2 DEF Begun, IsCall, Sink
  <3>4. Ended(t, n, m) \subseteq {<<t, h>>} /\ (m = l => Ended(t, n, m) = {<<t, h>>}) BY <1>3, <1>4, <3>1 DEF Ended
  <3>5. Invocations(m)' = Invocations(m) \ Ended(t, n, m) BY <3>2, <3>3, InvocationsMove
  <3> QED BY <1>6, <3>4, <3>5
 <2>2. CASE Moves(t, h - 2, 0) /\ h >= 2 /\ Frame(t, h - 1).at = "deliver"
  <3>1. PICK n \in Nat : n = h - 2 /\ h = n + 2 /\ h - 1 = n + 1 BY <1>3, <2>2
  <3>2. Begun(t, n, 0, m) = {} BY <3>1 DEF Begun
  <3>3. Ended(t, n, m) \subseteq {<<t, h>>} /\ (m = l => Ended(t, n, m) = {<<t, h>>})
   <4>1. \A i \in n + 1 .. Height(t) : i = n + 1 \/ i = h BY <1>3, <3>1
   <4>2. ~IsCall(Frame(t, n + 1), m) BY <2>2, <3>1 DEF IsCall
   <4>3. h \in n + 1 .. Height(t) BY <1>3, <3>1
   <4> QED BY <1>4, <4>1, <4>2, <4>3 DEF Ended
  <3>4. Invocations(m)' = Invocations(m) \ Ended(t, n, m) BY <2>2, <3>1, <3>2, InvocationsMove
  <3> QED BY <1>6, <3>3, <3>4
 <2> QED BY <1>7, <2>1, <2>2
<1>9. Loses(l, <<t, h>>) BY <1>5, <1>6, <1>8 DEF Loses
<1> QED BY <1>2, <1>9

\* The counts follow.
LEMMA GainCounts ==
  ASSUME TypeOK, CallBooks, NEW l \in Listeners, NEW p, Gains(l, p)
  PROVE  CallBooks' /\ running' \in [Listeners -> Nat]
<1>1. running \in [Listeners -> Nat] BY DEF TypeOK
<1>2. ASSUME NEW m \in Listeners PROVE CallsCounted(m)' /\ running'[m] \in Nat
 <2>1. CASE m = l
  <3>1. /\ IsFiniteSet(Invocations(l) \cup {p})
        /\ Cardinality(Invocations(l) \cup {p}) = Cardinality(Invocations(l)) + 1
    BY FS_AddElement DEF CallBooks, CallsCounted, Gains
  <3> QED BY <1>1, <2>1, <3>1 DEF CallBooks, CallsCounted, Gains
 <2>2. CASE m # l BY <1>1, <2>2 DEF CallBooks, CallsCounted, Gains
 <2> QED BY <2>1, <2>2
<1>3. running' \in [Listeners -> Nat] BY <1>1, <1>2 DEF Gains
<1> QED BY <1>2, <1>3 DEF CallBooks

LEMMA LossCounts ==
  ASSUME TypeOK, CallBooks, NEW l \in Listeners, NEW p, Loses(l, p)
  PROVE  CallBooks' /\ running' \in [Listeners -> Nat]
<1>1. running \in [Listeners -> Nat] BY DEF TypeOK
<1>2. ASSUME NEW m \in Listeners PROVE CallsCounted(m)' /\ running'[m] \in Nat
 <2>1. CASE m = l
  <3>1. /\ IsFiniteSet(Invocations(l) \ {p})
        /\ Cardinality(Invocations(l) \ {p}) = Cardinality(Invocations(l)) - 1
    BY FS_RemoveElement DEF CallBooks, CallsCounted, Loses
  <3>2. Cardinality(Invocations(l) \ {p}) \in Nat BY <3>1, FS_CardinalityType
  <3> QED BY <1>1, <2>1, <3>1, <3>2 DEF CallBooks, CallsCounted, Loses
 <2>2. CASE m # l BY <1>1, <2>2 DEF CallBooks, CallsCounted, Loses
 <2> QED BY <2>1, <2>2
<1>3. running' \in [Listeners -> Nat] BY <1>1, <1>2 DEF Loses
<1> QED BY <1>2, <1>3 DEF CallBooks

LEMMA SameCounts ==
  ASSUME TypeOK, CallBooks, SameCalls
  PROVE  CallBooks' /\ running' \in [Listeners -> Nat]
<1>1. running \in [Listeners -> Nat] BY DEF TypeOK
<1> QED BY <1>1 DEF CallBooks, CallsCounted, SameCalls

LEMMA Steps ==
  ASSUME Next
  PROVE  \E t \in Threads :
            \/ CalmUse(t) \/ CalmGoOn(t) \/ CallNow(t) \/ WorkCalls(t)
            \/ CallReturns(t) \/ CallThrows(t)
            \/ \E l \in Listeners : RunWork(t, l) \/ DropWork(t, l)
<1>1. CASE \E t \in Threads : Use(t) BY <1>1 DEF Use, CalmUse
<1>2. CASE \E t \in Threads : GoOn(t) BY <1>2 DEF GoOn, CalmGoOn
<1>3. CASE \E l \in Queued : Serve(l) BY <1>3, EventBusAssumption DEF Serve
<1> QED BY <1>1, <1>2, <1>3 DEF Next

LEMMA CallsStep ==
  ASSUME TypeOK, Nested, CallBooks, Next
  PROVE  /\ CallBooks' /\ running' \in [Listeners -> Nat]
         /\ \A l \in Listeners : l \notin active /\ Invocations(l) = {} => Invocations(l)' = {}
<1>0. PICK t \in Threads :
              \/ CalmUse(t) \/ CalmGoOn(t) \/ CallNow(t) \/ WorkCalls(t)
              \/ CallReturns(t) \/ CallThrows(t)
              \/ \E l \in Listeners : RunWork(t, l) \/ DropWork(t, l)
  BY Steps
<1>1. CASE CalmUse(t) \/ CalmGoOn(t) \/ \E l \in Listeners : RunWork(t, l) \/ DropWork(t, l)
 <2>1. SameCalls BY <1>1, CalmUses, CalmGoings, CalmServes
 <2> QED BY <2>1, SameCounts DEF SameCalls
<1>2. CASE CallNow(t)
 <2>1. PICK l \in Listeners : l = At(t) /\ l \in active BY <1>2, AtTypes DEF CallNow, GateOpen
 <2>2. PICK p : Gains(l, p) BY <1>2, <2>1, CallNowGains
 <2> QED BY <2>1, <2>2, GainCounts DEF Gains
<1>3. CASE WorkCalls(t)
 <2>1. PICK l \in Listeners : l = ticket[Top(t).ticket].listener /\ l \in active
   BY <1>3, TopTicket DEF WorkCalls, Within, GateOpen
 <2>2. PICK p : Gains(l, p) BY <1>3, <2>1, WorkCallsGains
 <2> QED BY <2>1, <2>2, GainCounts DEF Gains
<1>4. CASE CallReturns(t) \/ CallThrows(t)
 <2>1. PICK l \in Listeners : \E p : Loses(l, p) BY <1>4, CallEndLoses
 <2>2. PICK p : Loses(l, p) BY <2>1
 <2> QED BY <2>2, LossCounts DEF Loses
<1> QED BY <1>0, <1>1, <1>2, <1>3, <1>4

--------------------
\* The registry.

GatesClose == active' \cup fresh' \subseteq active \cup fresh

RegistryTypes ==
  /\ fresh \subseteq Listeners /\ active \subseteq Listeners \ fresh
  /\ channel \in Seq(Listeners \ fresh)
  /\ closed \in BOOLEAN /\ count \in Nat

LEMMA ChannelTypes ==
  ASSUME TypeOK
  PROVE  /\ channel \in Seq(Listeners \ fresh) /\ Len(channel) \in Nat
         /\ DOMAIN channel = 1 .. Len(channel)
         /\ \A i \in 1 .. Len(channel) : channel[i] \in Listeners \ fresh
<1>1. channel \in Seq(Listeners \ fresh) BY DEF TypeOK
<1> QED BY <1>1, LenProperties, ElementOfSeq

LEMMA RegisterBooks ==
  ASSUME TypeOK, ChannelBooks, NEW t \in Threads, NEW l \in Listeners, Register(t, l)
  PROVE  ChannelBooks' /\ RegistryTypes' /\ GatesClose
<1>1. /\ ~closed /\ l \in fresh /\ fresh' = fresh \ {l} /\ channel' = Append(channel, l)
      /\ count' = count + 1 /\ active' = active \cup {l} /\ closed' = closed
  BY DEF Register
<1>2. channel \in Seq(Listeners \ fresh')
 <2>1. Listeners \ fresh \subseteq Listeners \ fresh' BY <1>1
 <2> QED BY <2>1, ChannelTypes, SeqMonotonic
<1>3. l \in Listeners \ fresh' BY <1>1
<1>4. /\ channel' \in Seq(Listeners \ fresh') /\ Len(channel') = Len(channel) + 1
      /\ \A i \in 1 .. Len(channel) : channel'[i] = channel[i]
      /\ channel'[Len(channel) + 1] = l
  BY <1>1, <1>2, <1>3, AppendProperties
<1>5. DOMAIN channel' = 1 .. Len(channel) + 1 BY <1>4, LenProperties
<1>6. RegistryTypes' BY <1>1, <1>4 DEF RegistryTypes, TypeOK
<1>7. \A i \in 1 .. Len(channel) : channel'[i] # l BY <1>1, <1>4, ChannelTypes
<1>8. \A i, j \in DOMAIN channel' : channel'[i] = channel'[j] => i = j
  BY <1>4, <1>5, <1>7, ChannelTypes DEF ChannelBooks
<1>9. Registered' = Registered \cup {l}
 <2>1. \A x : x \in Registered' <=> \E i \in 1 .. Len(channel) + 1 : x = channel'[i] BY <1>5 DEF Registered
 <2>2. \A x : x \in Registered <=> \E i \in 1 .. Len(channel) : x = channel[i] BY ChannelTypes DEF Registered
 <2>3. \A i : i \in 1 .. Len(channel) + 1 <=> i \in 1 .. Len(channel) \/ i = Len(channel) + 1 BY ChannelTypes
 <2> QED BY <1>4, <2>1, <2>2, <2>3
<1>10. GatesClose BY <1>1 DEF GatesClose
<1> QED BY <1>1, <1>4, <1>6, <1>8, <1>9, <1>10 DEF ChannelBooks

LEMMA UnregisterBooks ==
  ASSUME TypeOK, ChannelBooks, NEW t \in Threads, NEW l \in Listeners, Unregister(t, l)
  PROVE  ChannelBooks' /\ RegistryTypes' /\ GatesClose
<1>1. /\ l \in Registered /\ active' = active \ {l} /\ channel' = Without(l)
      /\ count' = count - 1 /\ fresh' = fresh /\ closed' = closed
  BY DEF Unregister, ChannelBooks
<1>2. PICK n \in Nat : n = Len(channel) BY ChannelTypes
<1>3. PICK k \in 1 .. n :
              /\ channel[k] = l
              /\ channel' \in Seq(Listeners \ fresh) /\ Len(channel') = n - 1
              /\ \A j \in 1 .. n - 1 : channel'[j] = channel[IF j < k THEN j ELSE j + 1]
  BY <1>1, <1>2, WithoutIs
<1>4. DOMAIN channel' = 1 .. n - 1 BY <1>3, LenProperties
<1>5. RegistryTypes' BY <1>1, <1>2, <1>3 DEF RegistryTypes, TypeOK, ChannelBooks
<1>6. \A i, j \in 1 .. n : channel[i] = channel[j] => i = j BY <1>2, ChannelTypes DEF ChannelBooks
<1>7. ASSUME NEW i \in 1 .. n - 1, NEW j \in 1 .. n - 1, channel'[i] = channel'[j]
      PROVE i = j
 <2>1. PICK a \in 1 .. n, b \in 1 .. n :
           /\ a = IF i < k THEN i ELSE i + 1
           /\ b = IF j < k THEN j ELSE j + 1
   BY <1>2
 <2>2. channel[a] = channel[b] BY <1>3, <1>7, <2>1
 <2>3. a = b BY <1>6, <2>2
 <2> QED BY <2>1, <2>3
<1>8. Registered' = Registered \ {l}
 <2>1. \A x : x \in Registered' <=> \E j \in 1 .. n - 1 : x = channel'[j] BY <1>4 DEF Registered
 <2>2. \A x : x \in Registered <=> \E i \in 1 .. n : x = channel[i] BY <1>2, ChannelTypes DEF Registered
 <2>3. ASSUME NEW x \in Registered' PROVE x \in Registered \ {l}
  <3>1. PICK j \in 1 .. n - 1 : x = channel'[j] BY <2>1, <2>3
  <3>2. PICK a \in 1 .. n : a = IF j < k THEN j ELSE j + 1 BY <1>2
  <3>3. x = channel[a] /\ a # k BY <1>3, <3>1, <3>2
  <3> QED BY <1>3, <1>6, <2>2, <3>3
 <2>4. ASSUME NEW x \in Registered \ {l} PROVE x \in Registered'
  <3>1. PICK i \in 1 .. n : x = channel[i] BY <2>2, <2>4
  <3>2. i # k BY <1>3, <2>4, <3>1
  <3>3. PICK j \in 1 .. n - 1 : i = IF j < k THEN j ELSE j + 1
   <4>1. CASE i < k
    <5>1. i \in 1 .. n - 1 BY <1>2, <4>1
    <5> QED BY <4>1, <5>1
   <4>2. CASE i > k
    <5>1. i - 1 \in 1 .. n - 1 /\ ~(i - 1 < k) /\ i = (i - 1) + 1 BY <1>2, <4>2
    <5> QED BY <5>1
   <4> QED BY <3>2, <4>1, <4>2
  <3> QED BY <1>3, <2>1, <3>1, <3>3
 <2> QED BY <2>3, <2>4
<1>9. GatesClose BY <1>1 DEF GatesClose
<1>10. closed' => channel' = <<>>
 <2>1. ~closed
  <3> SUFFICES ASSUME closed PROVE FALSE OBVIOUS
  <3>1. n = 0 BY <1>2, EmptySeq DEF ChannelBooks
  <3> QED BY <3>1
 <2> QED BY <1>1, <2>1
<1> QED BY <1>1, <1>2, <1>3, <1>4, <1>5, <1>7, <1>8, <1>9, <1>10 DEF ChannelBooks

LEMMA CloseBooks ==
  ASSUME TypeOK, ChannelBooks, NEW t \in Threads, Close(t)
  PROVE  ChannelBooks' /\ RegistryTypes' /\ GatesClose
<1>1. /\ closed' = TRUE /\ count' = 0 /\ active' = active \ Registered
      /\ channel' = <<>> /\ fresh' = fresh
  BY DEF Close
<1>2. <<>> \in Seq(Listeners \ fresh) /\ Len(<<>>) = 0 BY EmptySeq
<1>3. DOMAIN channel' = {} BY <1>1
<1>4. Registered' = {} /\ active' = {} BY <1>1, <1>3 DEF Registered, ChannelBooks
<1>5. RegistryTypes' BY <1>1, <1>2, <1>4 DEF RegistryTypes, TypeOK
<1>6. GatesClose BY <1>1 DEF GatesClose
<1> QED BY <1>1, <1>2, <1>3, <1>4, <1>5, <1>6 DEF ChannelBooks

LEMMA OtherBooks ==
  ASSUME TypeOK, ChannelBooks, UNCHANGED <<fresh, channel, closed, count, active>>
  PROVE  ChannelBooks' /\ RegistryTypes' /\ GatesClose
  BY DEF ChannelBooks, Registered, RegistryTypes, GatesClose, TypeOK

LEMMA RegistryStep ==
  ASSUME TypeOK, ChannelBooks, Next
  PROVE  ChannelBooks' /\ RegistryTypes' /\ GatesClose
<1>0. PICK t \in Threads :
              \/ CalmUse(t) \/ CalmGoOn(t) \/ CallNow(t) \/ WorkCalls(t)
              \/ CallReturns(t) \/ CallThrows(t)
              \/ \E l \in Listeners : RunWork(t, l) \/ DropWork(t, l)
  BY Steps
<1>1. CASE Close(t) BY <1>1, CloseBooks
<1>2. CASE \E l \in Listeners : Register(t, l) BY <1>2, RegisterBooks
<1>3. CASE \E l \in Listeners : Unregister(t, l) BY <1>3, UnregisterBooks
<1>4. CASE \/ \E b \in BOOLEAN : Publish(t, b)
           \/ \E l \in Listeners : WaitCall(t, l) \/ RunWork(t, l) \/ DropWork(t, l)
 <2>1. UNCHANGED <<fresh, channel, closed, count, active>> BY <1>4 DEF Publish, WaitCall, RunWork, DropWork
 <2> QED BY <2>1, OtherBooks
<1>5. CASE CalmGoOn(t)
 <2>1. UNCHANGED <<fresh, channel, closed, count, active>>
   BY <1>5 DEF CalmGoOn, Published, Skip, Prepared, PreparationFails, Prepare, LockPosting, TargetAccepts,
     TargetRejects, ReleaseTicket, WorkDiscards, SinkReturns, WaitReturns
 <2> QED BY <2>1, OtherBooks
<1>6. CASE CallNow(t) \/ WorkCalls(t) \/ CallReturns(t) \/ CallThrows(t)
 <2>1. UNCHANGED <<fresh, channel, closed, count, active>> BY <1>6 DEF CallNow, WorkCalls, CallReturns, CallThrows
 <2> QED BY <2>1, OtherBooks
<1> QED BY <1>0, <1>1, <1>2, <1>3, <1>4, <1>5, <1>6 DEF CalmUse

--------------------
\* What lies on what.

PlainAts == {"deliver", "call", "sink"}

\* The frames a step puts on the n-th are a publication with one on it, or one.
Fits(t, n, m) ==
  \A h \in n + 1 .. n + m :
      /\ h < n + m => After(t, h).at = "deliver"
      /\ After(t, h).at = "call" /\ After(t, h).ticket = 0 => h > n + 1

LEMMA NestedKept ==
  ASSUME TypeOK, Nested, NEW t \in Threads, NEW n, NEW m, Moves(t, n, m), Fits(t, n, m),
         m > 0 /\ n > 0 => Frame(t, n).at \in PlainAts
  PROVE  Nested'
<1>1. /\ n \in Nat /\ m \in Nat /\ Height(t) \in Nat /\ n <= Height(t)
      /\ Len(stack'[t]) = n + m
      /\ \A u \in Threads \ {t} : stack'[u] = stack[u]
      /\ \A h \in 1 .. n : After(t, h) = Frame(t, h)
  BY StackTypes DEF Moves, Frame, After
<1>2. ASSUME NEW u \in Threads, NEW h \in 1 .. Len(stack'[u])
      PROVE  /\ h < Len(stack'[u]) => After(u, h).at \in PlainAts
             /\ After(u, h).at = "call" /\ After(u, h).ticket = 0
                   => h > 1 /\ After(u, h - 1).at = "deliver"
 <2>1. CASE u # t
  <3>1. stack'[u] = stack[u] /\ Len(stack'[u]) = Height(u) BY <1>1, <2>1 DEF Height
  <3>2. After(u, h) = Frame(u, h) /\ After(u, h - 1) = Frame(u, h - 1) /\ h \in 1 .. Height(u) BY <3>1 DEF After, Frame
  <3> QED BY <3>1, <3>2 DEF Nested, NestedAt, PlainAts
 <2>2. CASE u = t /\ h <= n
  <3>1. h \in 1 .. n /\ h \in 1 .. Height(t) BY <1>1, <2>2
  <3>2. After(t, h) = Frame(t, h) /\ (h > 1 => After(t, h - 1) = Frame(t, h - 1)) BY <1>1, <3>1
  <3>3. NestedAt(t, h) BY <3>1 DEF Nested
  <3>4. h < Height(t) => Frame(t, h).at \in PlainAts BY <3>3 DEF NestedAt, PlainAts
  <3>5. h < n + m => Frame(t, h).at \in PlainAts
   <4>1. CASE h < n BY <1>1, <3>1, <3>4, <4>1
   <4>2. CASE h = n BY <1>1, <3>1, <4>2
   <4> QED BY <1>1, <3>1, <4>1, <4>2
  <3> QED BY <1>1, <2>2, <3>2, <3>3, <3>5 DEF NestedAt
 <2>3. CASE u = t /\ h > n
  <3>1. h \in n + 1 .. n + m BY <1>1, <2>3
  <3>2. After(t, h).at = "call" /\ After(t, h).ticket = 0 => h > n + 1 BY <3>1 DEF Fits
  <3>3. h > n + 1 => h - 1 \in n + 1 .. n + m /\ h - 1 < n + m BY <1>1, <3>1
  <3>4. h > n + 1 => After(t, h - 1).at = "deliver" BY <3>3 DEF Fits
  <3>5. h < n + m => After(t, h).at = "deliver" BY <3>1 DEF Fits
  <3> QED BY <1>1, <2>3, <3>1, <3>2, <3>4, <3>5 DEF PlainAts
 <2> QED BY <1>1, <2>1, <2>2, <2>3
<1>3. ASSUME NEW u \in Threads, NEW h \in 1 .. Height(u)' PROVE NestedAt(u, h)'
 <2>1. h \in 1 .. Len(stack'[u]) BY DEF Height
 <2> QED BY <1>2, <2>1 DEF NestedAt, Height, Frame, After, PlainAts
<1> QED BY <1>3 DEF Nested

\* What is on top afterwards.
TopNow(t, f) == stack'[t] # <<>> /\ Head(stack'[t]) = f
Plain(t) == stack'[t] = <<>> \/ Head(stack'[t]).at \in PlainAts
OthersStay(t) == \A u \in Threads \ {t} : stack'[u] = stack[u]

LEMMA AfterTop ==
  ASSUME NEW t \in Threads, NEW n, NEW m, Moves(t, n, m)
  PROVE  /\ OthersStay(t)
         /\ n + m = 0 => stack'[t] = <<>>
         /\ n + m > 0 => TopNow(t, After(t, n + m))
<1>1. /\ stack'[t] \in Seq(Frames') /\ Len(stack'[t]) = n + m /\ n \in Nat /\ m \in Nat
      /\ OthersStay(t)
  BY DEF Moves, OthersStay
<1>2. stack'[t] = <<>> <=> Len(stack'[t]) = 0 BY <1>1, TopOf
<1>3. stack'[t] # <<>> => Head(stack'[t]) = stack'[t][1] BY <1>1, TopOf
<1>4. Len(stack'[t]) + 1 - (n + m) = 1 BY <1>1
<1> QED BY <1>1, <1>2, <1>3, <1>4 DEF TopNow, After

LEMMA TopPut ==
  ASSUME NEW t \in Threads, NEW n, NEW m, Moves(t, n, m), n + m > 0, NEW f, After(t, n + m) = f
  PROVE  OthersStay(t) /\ TopNow(t, f)
  BY AfterTop

LEMMA TopBelow ==
  ASSUME TypeOK, Nested, NEW t \in Threads, NEW n, Moves(t, n, 0), n < Height(t)
  PROVE  OthersStay(t) /\ Plain(t) /\ Nested'
<1>1. n \in Nat /\ Height(t) \in Nat BY StackTypes DEF Moves
<1>2. n > 0 => Frame(t, n).at \in PlainAts BY <1>1 DEF Nested, NestedAt, PlainAts
<1>3. n > 0 => After(t, n) = Frame(t, n) BY <1>1 DEF Moves, After, Frame
<1>4. n + 0 = n BY <1>1
<1>5. OthersStay(t) /\ Plain(t) BY <1>1, <1>2, <1>3, <1>4, AfterTop DEF Plain, TopNow
<1>6. Fits(t, n, 0) BY <1>1 DEF Fits
<1> QED BY <1>5, <1>6, NestedKept

\* A frame on top of user code; in the place of the top; two frames in its place.
LEMMA PushNests ==
  ASSUME TypeOK, Nested, NEW t \in Threads, NEW f, InUserCode(t),
         Moves(t, Height(t), 1), Puts(t, Height(t) + 1, f), f.at # "call"
  PROVE  OthersStay(t) /\ TopNow(t, f) /\ Nested'
<1>1. PICK n \in Nat : n = Height(t) BY StackTypes
<1>2. After(t, n + 1) = f /\ Moves(t, n, 1) BY <1>1 DEF Puts, After
<1>3. Fits(t, n, 1) BY <1>1, <1>2 DEF Fits
<1>4. n > 0 => Frame(t, n).at \in PlainAts BY <1>1, StackTypes DEF InUserCode, Within, PlainAts
<1> QED BY <1>1, <1>2, <1>3, <1>4, NestedKept, TopPut

LEMMA SwapNests ==
  ASSUME TypeOK, Nested, NEW t \in Threads, NEW f, ~Idle(t),
         Moves(t, Height(t) - 1, 1), Puts(t, Height(t), f), f.at = "call" => f.ticket # 0
  PROVE  OthersStay(t) /\ TopNow(t, f) /\ Nested'
<1>1. PICK n \in Nat : n = Height(t) - 1 /\ Height(t) = n + 1 BY StackTypes
<1>2. After(t, n + 1) = f /\ Moves(t, n, 1) BY <1>1 DEF Puts, After
<1>3. Fits(t, n, 1) BY <1>1, <1>2 DEF Fits
<1>4. n > 0 => Frame(t, n).at \in PlainAts
 <2>1. n > 0 => n \in 1 .. Height(t) /\ n < Height(t) BY <1>1
 <2> QED BY <2>1 DEF Nested, NestedAt, PlainAts
<1> QED BY <1>1, <1>2, <1>3, <1>4, NestedKept, TopPut

LEMMA CoverNests ==
  ASSUME TypeOK, Nested, NEW t \in Threads, NEW f, NEW g, ~Idle(t),
         Moves(t, Height(t) - 1, 2), Puts(t, Height(t), g), Puts(t, Height(t) + 1, f),
         g.at = "deliver"
  PROVE  OthersStay(t) /\ TopNow(t, f) /\ Nested'
<1>1. PICK n \in Nat : n = Height(t) - 1 /\ Height(t) = n + 1 BY StackTypes
<1>2. After(t, n + 1) = g /\ After(t, n + 2) = f /\ Moves(t, n, 2) BY <1>1 DEF Puts, After
<1>3. Fits(t, n, 2)
 <2> SUFFICES ASSUME NEW h \in n + 1 .. n + 2
     PROVE  /\ h < n + 2 => After(t, h).at = "deliver"
            /\ After(t, h).at = "call" /\ After(t, h).ticket = 0 => h > n + 1
   BY DEF Fits
 <2>1. h = n + 1 \/ h = n + 2 BY <1>1
 <2> QED BY <1>1, <1>2, <2>1
<1>4. n > 0 => Frame(t, n).at \in PlainAts
 <2>1. n > 0 => n \in 1 .. Height(t) /\ n < Height(t) BY <1>1
 <2> QED BY <2>1 DEF Nested, NestedAt, PlainAts
<1> QED BY <1>1, <1>2, <1>3, <1>4, NestedKept, TopPut

\* The kinds of the frames.
LEMMA KindsAre ==
  ASSUME NEW x, NEW y
  PROVE  /\ Delivering(x, y).at = "deliver" /\ Sink(x).at = "sink" /\ Waiting(x).at = "wait"
         /\ Offering(x, y).at = x /\ Offering(x, y).ticket = y
         /\ Work(x).at = "work" /\ Work(x).ticket = x
         /\ Callback(x, y).at = "call" /\ Callback(x, y).ticket = y
  BY DEF Delivering, Sink, Waiting, Offering, Work, Callback

LEMMA PastKind == ASSUME NEW t PROVE Past(t).at = "deliver"
  BY DEF Past, Delivering

\* What is on top of its stack when a thread has taken a step.
LEMMA StillTops ==
  ASSUME Nested, NEW t \in Threads, InUserCode(t), stack' = stack
  PROVE  OthersStay(t) /\ Plain(t) /\ Nested'
<1>1. OthersStay(t) BY DEF OthersStay
<1>2. Plain(t) BY DEF Plain, InUserCode, Idle, Within, Top, PlainAts
<1>3. Nested' BY DEF Nested, NestedAt, Height, Frame
<1> QED BY <1>1, <1>2, <1>3

LEMMA UseTops ==
  ASSUME TypeOK, Nested, NEW t \in Threads, CalmUse(t)
  PROVE  /\ Nested' /\ OthersStay(t) /\ InUserCode(t)
         /\ Plain(t) \/ \E l \in Listeners : WaitCall(t, l) /\ TopNow(t, Waiting(l))
<1>0. InUserCode(t) BY DEF CalmUse, Close, Register, Unregister, Publish, WaitCall
<1>1. CASE Close(t) \/ \E l \in Listeners : Register(t, l) \/ Unregister(t, l)
 <2>1. stack' = stack BY <1>1 DEF Close, Register, Unregister
 <2> QED BY <1>0, <2>1, StillTops
<1>2. CASE \E b \in BOOLEAN : Publish(t, b)
 <2>1. PICK b \in BOOLEAN : Publish(t, b) BY <1>2
 <2>2a. PICK f : f = Delivering(channel, b) OBVIOUS
 <2>2. f = Delivering(channel, b) /\ f.at = "deliver" BY <2>2a, KindsAre, PastKind
 <2>3. OthersStay(t) /\ TopNow(t, f) /\ Nested' BY <1>0, <2>1, <2>2, PublishMoves, PushNests
 <2> QED BY <1>0, <2>2, <2>3 DEF Plain, TopNow, PlainAts
<1>3. CASE \E l \in Listeners : WaitCall(t, l)
 <2>1. PICK l \in Listeners : WaitCall(t, l) BY <1>3
 <2>2a. PICK f : f = Waiting(l) OBVIOUS
 <2>2. f = Waiting(l) /\ f.at = "wait" BY <2>2a, KindsAre, PastKind
 <2>3. OthersStay(t) /\ TopNow(t, f) /\ Nested' BY <1>0, <2>1, <2>2, WaitMoves, PushNests
 <2> QED BY <1>0, <2>1, <2>2, <2>3
<1> QED BY <1>1, <1>2, <1>3 DEF CalmUse

\* The steps after which the thread holds no ticket and waits for nothing.
Frees(t) ==
  \/ Quits(t) \/ Skip(t) \/ ReleaseTicket(t) \/ WorkDiscards(t)
  \/ CallNow(t) \/ WorkCalls(t) \/ CallThrows(t)

LEMMA FreeTops ==
  ASSUME TypeOK, Nested, NEW t \in Threads, Frees(t)
  PROVE  Nested' /\ OthersStay(t) /\ Plain(t)
<1>0. Height(t) \in Nat /\ Height(t) - 1 < Height(t) /\ Height(t) - 2 < Height(t) BY StackTypes
<1>1. ASSUME NEW n, n < Height(t), Moves(t, n, 0) PROVE Nested' /\ OthersStay(t) /\ Plain(t) BY <1>1, TopBelow
<1>2. ASSUME NEW f, ~Idle(t), Moves(t, Height(t) - 1, 1), Puts(t, Height(t), f),
             f.at \in PlainAts, f.at = "call" => f.ticket # 0
      PROVE Nested' /\ OthersStay(t) /\ Plain(t)
 <2>1. OthersStay(t) /\ TopNow(t, f) /\ Nested' BY <1>2, SwapNests
 <2> QED BY <1>2, <2>1 DEF Plain, TopNow
<1>3. ASSUME NEW l, ~Idle(t), Moves(t, Height(t) - 1, 1), Puts(t, Height(t), Sink(l))
      PROVE Nested' /\ OthersStay(t) /\ Plain(t)
 <2>1a. PICK f : f = Sink(l) OBVIOUS
 <2>1. f = Sink(l) /\ f.at = "sink" BY <2>1a, KindsAre, PastKind
 <2> QED BY <1>2, <1>3, <2>1 DEF PlainAts
<1>4. CASE Quits(t) \/ WorkDiscards(t)
 <2>1. Moves(t, Height(t) - 1, 0) BY <1>4, QuitMoves, WorkMoves
 <2> QED BY <1>0, <1>1, <2>1
<1>5. CASE Skip(t)
 <2>1a. PICK f : f = Past(t) OBVIOUS
 <2>1. f = Past(t) /\ f.at = "deliver" BY <2>1a, KindsAre, PastKind
 <2>2. ~Idle(t) /\ Moves(t, Height(t) - 1, 1) /\ Puts(t, Height(t), f) BY <1>5, <2>1, SkipMoves
 <2> QED BY <1>2, <2>1, <2>2 DEF PlainAts
<1>6. CASE ReleaseTicket(t) BY <1>0, <1>1, <1>3, <1>6, ReleaseMoves
<1>7. CASE CallNow(t)
 <2>1a. PICK f, g : f = Callback(At(t), 0) /\ g = Past(t) OBVIOUS
 <2>1. f = Callback(At(t), 0) /\ g = Past(t) /\ f.at = "call" /\ g.at = "deliver" BY <2>1a, KindsAre, PastKind
 <2>2. /\ ~Idle(t) /\ Moves(t, Height(t) - 1, 2)
       /\ Puts(t, Height(t), g) /\ Puts(t, Height(t) + 1, f)
   BY <1>7, <2>1, CallMoves
 <2>3. OthersStay(t) /\ TopNow(t, f) /\ Nested' BY <2>1, <2>2, CoverNests
 <2> QED BY <2>1, <2>3 DEF Plain, TopNow, PlainAts
<1>8. CASE WorkCalls(t)
 <2>1. PICK k \in 1 .. Len(ticket) : k = Top(t).ticket BY <1>8, WorkMoves
 <2>2a. PICK f : f = Callback(ticket[k].listener, k) OBVIOUS
 <2>2. f = Callback(ticket[k].listener, k) /\ f.at = "call" /\ f.ticket = k BY <2>2a, KindsAre, PastKind
 <2>3. ~Idle(t) /\ Moves(t, Height(t) - 1, 1) /\ Puts(t, Height(t), f) BY <1>8, <2>1, <2>2, WorkMoves
 <2>4. k # 0 BY <2>1, TicketTypes
 <2> QED BY <1>2, <2>2, <2>3, <2>4 DEF PlainAts
<1>9. CASE CallThrows(t) BY <1>0, <1>1, <1>3, <1>9, ThrowMoves
<1> QED BY <1>4, <1>5, <1>6, <1>7, <1>8, <1>9 DEF Frees

LEMMA LockTops ==
  ASSUME TypeOK, Nested, NEW t \in Threads, LockPosting(t)
  PROVE  Nested' /\ OthersStay(t) /\ TopNow(t, Offering("post", Top(t).ticket))
<1>1a. PICK f : f = Offering("post", Top(t).ticket) OBVIOUS
<1>1. f = Offering("post", Top(t).ticket) /\ f.at = "post" BY <1>1a, KindsAre, PastKind
<1>2. ~Idle(t) /\ Moves(t, Height(t) - 1, 1) /\ Puts(t, Height(t), f) BY <1>1, LockMoves
<1> QED BY <1>1, <1>2, SwapNests

LEMMA PostTops ==
  ASSUME TypeOK, Nested, NEW t \in Threads, TargetAccepts(t) \/ TargetRejects(t)
  PROVE  Nested' /\ OthersStay(t) /\ TopNow(t, Offering("release", Top(t).ticket))
<1>1a. PICK f : f = Offering("release", Top(t).ticket) OBVIOUS
<1>1. f = Offering("release", Top(t).ticket) /\ f.at = "release" BY <1>1a, KindsAre, PastKind
<1>2. ~Idle(t) /\ Moves(t, Height(t) - 1, 1) /\ Puts(t, Height(t), f) BY <1>1, PostMoves
<1> QED BY <1>1, <1>2, SwapNests

LEMMA PrepareTops ==
  ASSUME TypeOK, Nested, NEW t \in Threads, NEW at \in {"offer", "release"}, Prepare(t, at)
  PROVE  Nested' /\ OthersStay(t) /\ TopNow(t, Offering(at, Len(ticket) + 1))
<1>1a. PICK f, g : f = Offering(at, Len(ticket) + 1) /\ g = Past(t) OBVIOUS
<1>1. f = Offering(at, Len(ticket) + 1) /\ g = Past(t) /\ f.at = at /\ g.at = "deliver" BY <1>1a, KindsAre, PastKind
<1>2. /\ ~Idle(t) /\ Moves(t, Height(t) - 1, 2)
      /\ Puts(t, Height(t), g) /\ Puts(t, Height(t) + 1, f)
  BY <1>1, PrepareMoves
<1> QED BY <1>1, <1>2, CoverNests

LEMMA RunTops ==
  ASSUME TypeOK, Nested, NEW t \in Threads, NEW l \in Listeners, RunWork(t, l)
  PROVE  Nested' /\ OthersStay(t) /\ TopNow(t, Work(Head(line[l])))
<1>1a. PICK f : f = Work(Head(line[l])) OBVIOUS
<1>1. f = Work(Head(line[l])) /\ f.at = "work" BY <1>1a, KindsAre, PastKind
<1>2. InUserCode(t) BY DEF RunWork, InUserCode
<1> QED BY <1>1, <1>2, RunMoves, PushNests

LEMMA DropTops ==
  ASSUME TypeOK, Nested, NEW t \in Threads, NEW l \in Listeners, DropWork(t, l)
  PROVE  Nested' /\ OthersStay(t) /\ Plain(t)
<1>1a. PICK f : f = Sink(l) OBVIOUS
<1>1. f = Sink(l) /\ f.at = "sink" BY <1>1a, KindsAre, PastKind
<1>2. InUserCode(t) BY DEF DropWork, InUserCode
<1>3. CASE stack' = stack BY <1>2, <1>3, StillTops
<1>4. CASE Moves(t, Height(t), 1) /\ Puts(t, Height(t) + 1, Sink(l))
 <2>1. OthersStay(t) /\ TopNow(t, f) /\ Nested' BY <1>1, <1>2, <1>4, PushNests
 <2> QED BY <1>1, <2>1 DEF Plain, TopNow, PlainAts
<1> QED BY <1>3, <1>4, DropMoves

--------------------
\* What a wait has returned for, who waits, and who posts.

\* The other threads see nothing of a step; t sees what is on top.
LEMMA OthersSee ==
  ASSUME NEW t \in Threads, OthersStay(t), NEW u \in Threads \ {t}
  PROVE  /\ Idle(u)' = Idle(u) /\ Top(u)' = Top(u) /\ Invoked(u)' = Invoked(u)
         /\ \A at : Within(u, at)' <=> Within(u, at)
         /\ \A k : (Holds(u, k)' <=> Holds(u, k)) /\ (Works(u, k)' <=> Works(u, k))
<1>1. stack'[u] = stack[u] BY DEF OthersStay
<1> QED BY <1>1 DEF Idle, Top, Within, Invoked, Holds, Works

LEMMA PlainSees ==
  ASSUME NEW t \in Threads, Plain(t)
  PROVE  /\ ~Within(t, "wait")' /\ ~Within(t, "post")'
         /\ \A k : ~Holds(t, k)' /\ ~Works(t, k)'
  BY DEF Plain, PlainAts, Within, Holds, Works, Idle, Top

LEMMA TopSees ==
  ASSUME NEW t \in Threads, NEW f, TopNow(t, f)
  PROVE  /\ ~Idle(t)' /\ Top(t)' = f
         /\ \A at : Within(t, at)' <=> f.at = at
         /\ \A k : Holds(t, k)' <=> f.at \in {"offer", "post", "release"} /\ f.ticket = k
         /\ \A k : Works(t, k)' <=> f.at = "work" /\ f.ticket = k
  BY DEF TopNow, Within, Holds, Works, Idle, Top

\* Every step, by what it leaves on top of its thread's stack.
Waiter(t) == \E l \in Listeners : WaitCall(t, l) /\ TopNow(t, Waiting(l))
Holder(t) ==
  \/ LockPosting(t) /\ TopNow(t, Offering("post", Top(t).ticket))
  \/ (TargetAccepts(t) \/ TargetRejects(t)) /\ TopNow(t, Offering("release", Top(t).ticket))
  \/ \E at \in {"offer", "release"} :
        Prepare(t, at) /\ TopNow(t, Offering(at, Len(ticket) + 1))
  \/ \E l \in Listeners : RunWork(t, l) /\ TopNow(t, Work(Head(line[l])))
Freed(t) ==
  /\ Plain(t)
  /\ \/ CalmUse(t) \/ Frees(t)
     \/ \E l \in Listeners : DropWork(t, l)

LEMMA StepKinds ==
  ASSUME TypeOK, Nested, Next
  PROVE  Nested' /\ \E t \in Threads : OthersStay(t) /\ (Waiter(t) \/ Holder(t) \/ Freed(t))
<1>0. PICK t \in Threads :
              \/ CalmUse(t) \/ CalmGoOn(t) \/ CallNow(t) \/ WorkCalls(t)
              \/ CallReturns(t) \/ CallThrows(t)
              \/ \E l \in Listeners : RunWork(t, l) \/ DropWork(t, l)
  BY Steps
<1>1. CASE CalmUse(t) BY <1>1, UseTops DEF Waiter, Freed
<1>2. CASE LockPosting(t) BY <1>2, LockTops DEF Holder
<1>3. CASE TargetAccepts(t) \/ TargetRejects(t) BY <1>3, PostTops DEF Holder
<1>4. CASE Prepared(t) \/ PreparationFails(t)
 <2>1. PICK at \in {"offer", "release"} : Prepare(t, at) BY <1>4 DEF Prepared, PreparationFails
 <2> QED BY <2>1, PrepareTops DEF Holder
<1>5. CASE Frees(t) BY <1>5, FreeTops DEF Freed
<1>6. CASE \E l \in Listeners : RunWork(t, l) BY <1>6, RunTops DEF Holder
<1>7. CASE \E l \in Listeners : DropWork(t, l) BY <1>7, DropTops DEF Freed
<1> QED BY <1>0, <1>1, <1>2, <1>3, <1>4, <1>5, <1>6, <1>7 DEF CalmGoOn, Frees, Quits

\* The listener of a wait that begins.
LEMMA WaitInvoked ==
  ASSUME TypeOK, NEW t \in Threads, NEW l \in Listeners, WaitCall(t, l)
  PROVE  l \notin Invoked(t)'
<1>1. PICK n \in Nat : n = Height(t) BY StackTypes
<1>2. PICK f : f = Waiting(l) OBVIOUS
<1>2a. f.at = "wait" BY <1>2, KindsAre
<1>3. Moves(t, n, 1) /\ Puts(t, n + 1, f) BY <1>1, <1>2, WaitMoves
<1>4. /\ stack'[t] \in Seq(Frames') /\ Len(stack'[t]) = n + 1 /\ stack'[t][1] = f
      /\ \A h \in 1 .. n : After(t, h) = Frame(t, h)
  BY <1>3 DEF Moves, Puts, Frame, After
<1>5. DOMAIN stack'[t] = 1 .. n + 1 BY <1>4, LenProperties
<1>6. DOMAIN stack[t] = 1 .. n BY <1>1, StackTypes, LenProperties DEF Height
<1>7. ASSUME NEW i \in 1 .. n + 1, stack'[t][i].at = "call", stack'[t][i].listener = l PROVE FALSE
 <2>1. i # 1 BY <1>2a, <1>4, <1>7
 <2>2. PICK h \in 1 .. n : h = n + 2 - i /\ n + 1 + 1 - h = i /\ n + 1 - h = i - 1 /\ i - 1 \in 1 .. n BY <2>1
 <2>3. stack'[t][i] = stack[t][i - 1] BY <1>1, <1>4, <2>2 DEF After, Frame, Height
 <2>4. l \in Invoked(t) BY <1>6, <1>7, <2>2, <2>3 DEF Invoked
 <2> QED BY <2>4 DEF WaitCall, MayWait
<1> QED BY <1>5, <1>7 DEF Invoked

LEMMA WaitsStep ==
  ASSUME TypeOK, Waits, NEW t \in Threads, OthersStay(t), Waiter(t) \/ Holder(t) \/ Freed(t),
         GatesClose
  PROVE  Waits'
<1>1. ASSUME NEW u \in Threads \ {t} PROVE WaitsRight(u)'
 <2>1. /\ Within(u, "wait")' <=> Within(u, "wait")
       /\ Top(u)' = Top(u) /\ Invoked(u)' = Invoked(u)
   BY <1>1, OthersSee
 <2>2. WaitsRight(u) BY DEF Waits
 <2> QED BY <2>1, <2>2 DEF WaitsRight, GatesClose
<1>2. CASE Waiter(t)
 <2>1. PICK l \in Listeners : WaitCall(t, l) /\ TopNow(t, Waiting(l)) BY <1>2 DEF Waiter
 <2>2. Top(t)' = Waiting(l) BY <2>1, TopSees
 <2>3. l \notin active' \cup fresh' BY <2>1 DEF WaitCall, MayWait, GatesClose
 <2>4. Top(t)'.listener = l BY <2>2 DEF Waiting
 <2>5. WaitsRight(t)' BY <2>1, <2>3, <2>4, WaitInvoked DEF WaitsRight
 <2> QED BY <1>1, <2>5 DEF Waits
<1>3. CASE Holder(t) \/ Freed(t)
 <2>1. ~Within(t, "wait")'
  <3>1. CASE Freed(t) BY <3>1, PlainSees DEF Freed
  <3>2. CASE Holder(t)
   <4>1. PICK f : TopNow(t, f) /\ f.at # "wait"
    <5>1. \A x, y : Offering("post", y).at # "wait" /\ Offering("release", y).at # "wait"
             /\ Offering("offer", y).at # "wait" /\ Work(x).at # "wait"
      BY KindsAre
    <5> QED BY <3>2, <5>1 DEF Holder
   <4> QED BY <4>1, TopSees
  <3> QED BY <1>3, <3>1, <3>2
 <2> QED BY <1>1, <2>1 DEF Waits, WaitsRight
<1> QED BY <1>2, <1>3

LEMMA QuietStep ==
  ASSUME IInv, Next, CallBooks', GatesClose,
         \A l \in Listeners : l \notin active /\ Invocations(l) = {} => Invocations(l)' = {}
  PROVE  AllQuiet' /\ released' \subseteq Listeners
<1>0. TypeOK /\ Waits /\ CallBooks /\ AllQuiet /\ released \subseteq Listeners BY DEF IInv, TypeOK
<1>1. ASSUME NEW l \in Listeners, Quiet(l) PROVE Quiet(l)' BY <1>1 DEF Quiet, GatesClose
<1>2. released' = released \/ \E t \in Threads : WaitReturns(t)
 <2>1. PICK t \in Threads :
             \/ CalmUse(t) \/ CalmGoOn(t) \/ CallNow(t) \/ WorkCalls(t)
             \/ CallReturns(t) \/ CallThrows(t)
             \/ \E l \in Listeners : RunWork(t, l) \/ DropWork(t, l)
   BY Steps
 <2>2. CASE CalmUse(t) \/ \E l \in Listeners : RunWork(t, l) \/ DropWork(t, l)
   BY <2>2 DEF CalmUse, Close, Register, Unregister, Publish, WaitCall, RunWork, DropWork
 <2>3. CASE CalmGoOn(t)
   BY <2>3 DEF CalmGoOn, Published, Skip, Prepared, PreparationFails, Prepare, LockPosting, TargetAccepts,
     TargetRejects, ReleaseTicket, WorkDiscards, SinkReturns
 <2>4. CASE CallNow(t) \/ WorkCalls(t) \/ CallReturns(t) \/ CallThrows(t)
   BY <2>4 DEF CallNow, WorkCalls, CallReturns, CallThrows
 <2> QED BY <2>1, <2>2, <2>3, <2>4
<1>3. CASE released' = released
 <2>1. \A l \in released : Quiet(l)' BY <1>0, <1>1 DEF AllQuiet
 <2> QED BY <1>0, <1>3, <2>1 DEF AllQuiet
<1>4. CASE \E t \in Threads : WaitReturns(t)
 <2>1. PICK t \in Threads : WaitReturns(t) BY <1>4
 <2>2. PICK l \in Listeners : l = Top(t).listener
  <3>1. Top(t) \in Frames /\ Top(t).at = "wait" BY <1>0, <2>1, StackTypes DEF WaitReturns, Within
  <3> QED BY <3>1, FrameFields
 <2>3. released' = released \cup {l} /\ running[l] = 0 /\ l \notin active \cup fresh
   BY <1>0, <2>1, <2>2 DEF WaitReturns, Waits, WaitsRight
 <2>4. Invocations(l) = {}
  <3>1. IsFiniteSet(Invocations(l)) /\ Cardinality(Invocations(l)) = 0 BY <1>0, <2>3 DEF CallBooks, CallsCounted
  <3> QED BY <3>1, FS_EmptySet
 <2>5. Quiet(l) BY <2>3, <2>4 DEF Quiet
 <2>6. \A m \in released \cup {l} : Quiet(m)' BY <1>0, <1>1, <2>5 DEF AllQuiet
 <2> QED BY <1>0, <2>3, <2>6 DEF AllQuiet
<1> QED BY <1>2, <1>3, <1>4

--------------------
\* Posting.

\* A ticket keeps its listener.
ListenersKept == \A k \in 1 .. Len(ticket) : ticket'[k].listener = ticket[k].listener

LEMMA PostsKept ==
  ASSUME TypeOK, Posters, NEW t \in Threads, OthersStay(t), ListenersKept,
         NEW u \in Threads \ {t}, NEW l \in Listeners, posting'[l] = u => posting[l] = u
  PROVE  PostsRight(u, l)'
<1>1. PostsRight(u, l) BY DEF Posters
<1>2. Top(u)' = Top(u) /\ (Within(u, "post")' <=> Within(u, "post")) BY OthersSee
<1> SUFFICES ASSUME posting'[l] = u
  PROVE  Within(u, "post")' /\ ticket'[Top(u)'.ticket].listener = l
  BY DEF PostsRight
<1>3. Within(u, "post") /\ ticket[Top(u).ticket].listener = l BY <1>1 DEF PostsRight
<1>4. Top(u).ticket \in 1 .. Len(ticket) BY <1>3, TopTicket DEF Within
<1> QED BY <1>2, <1>3, <1>4 DEF ListenersKept

LEMMA PostsAlone ==
  ASSUME TypeOK, Posters, NEW t \in Threads, OthersStay(t), ListenersKept,
         posting' = posting, ~Within(t, "post")
  PROVE  Posters'
<1>1. ASSUME NEW u \in Threads, NEW l \in Listeners PROVE PostsRight(u, l)'
 <2>1. CASE u # t BY <2>1, PostsKept
 <2>2. CASE u = t
  <3>1. posting[l] # t BY DEF Posters, PostsRight
  <3> QED BY <2>2, <3>1 DEF PostsRight
 <2> QED BY <2>1, <2>2
<1> QED BY <1>1 DEF Posters

LEMMA SameListeners ==
  ASSUME TypeOK
  PROVE  /\ ticket' = ticket => ListenersKept
         /\ \A k, w, b, n : Becomes(k, w, b, n) => ListenersKept
         /\ \A t \in Threads, at \in {"offer", "release"} : Prepare(t, at) => ListenersKept
<1>1. ASSUME NEW t \in Threads, NEW at \in {"offer", "release"}, Prepare(t, at) PROVE ListenersKept
  BY <1>1, PrepareAppends DEF ListenersKept
<1> QED BY <1>1 DEF ListenersKept, Becomes, KeepsTickets

LEMMA FreedListeners ==
  ASSUME TypeOK, NEW t \in Threads, Freed(t)
  PROVE  ListenersKept /\ posting' = posting /\ ~Within(t, "post")
<1>1. CASE CalmUse(t)
 <2>1. ticket' = ticket /\ posting' = posting /\ InUserCode(t)
   BY <1>1 DEF CalmUse, Close, Register, Unregister, Publish, WaitCall
 <2> QED BY <2>1, SameListeners DEF InUserCode, Idle, Within
<1>2. CASE Quits(t) \/ Skip(t) \/ CallNow(t) \/ CallThrows(t)
 <2>1. ticket' = ticket /\ posting' = posting /\ ~Within(t, "post")
   BY <1>2 DEF Quits, Published, WaitReturns, CallReturns, SinkReturns, Skip, CallNow, CallThrows, HasNext, Within
 <2> QED BY <2>1, SameListeners
<1>3. CASE ReleaseTicket(t)
 <2>1. posting' = posting /\ ~Within(t, "post") BY <1>3 DEF ReleaseTicket, Within
 <2> QED BY <1>3, <2>1, ReleaseSet, SameListeners
<1>4. CASE WorkCalls(t) \/ WorkDiscards(t)
 <2>1. posting' = posting /\ ~Within(t, "post") BY <1>4 DEF WorkCalls, WorkDiscards, Within
 <2> QED BY <1>4, <2>1, WorkMoves, SameListeners
<1>5. CASE \E l \in Listeners : DropWork(t, l)
 <2>1. PICK l \in Listeners : DropWork(t, l) BY <1>5
 <2>2. posting' = posting /\ ~Within(t, "post") BY <2>1 DEF DropWork, Within
 <2> QED BY <2>1, <2>2, DropSet, SameListeners
<1> QED BY <1>1, <1>2, <1>3, <1>4, <1>5 DEF Freed, Frees

LEMMA LockPosts ==
  ASSUME TypeOK, Posters, NEW t \in Threads, OthersStay(t), LockPosting(t),
         TopNow(t, Offering("post", Top(t).ticket))
  PROVE  Posters' /\ posting' \in [Listeners -> Threads \cup {Nobody}]
<1>1. PICK k \in 1 .. Len(ticket) : k = Top(t).ticket /\ ticket[k].listener \in Listeners
  BY TopTicket DEF LockPosting, Within
<1>2. PICK l \in Listeners : l = ticket[k].listener BY <1>1
<1>3. /\ posting' = [posting EXCEPT ![l] = t] /\ ticket' = ticket /\ ~Within(t, "post")
      /\ posting \in [Listeners -> Threads \cup {Nobody}]
  BY <1>1, <1>2 DEF LockPosting, Within, TypeOK
<1>4. PICK f : f = Offering("post", k) OBVIOUS
<1>5. f.at = "post" /\ f.ticket = k /\ TopNow(t, f) BY <1>1, <1>4, KindsAre
<1>6. Within(t, "post")' /\ Top(t)' = f BY <1>5, TopSees
<1>7. ListenersKept BY <1>3, SameListeners
<1>8. ASSUME NEW u \in Threads, NEW m \in Listeners PROVE PostsRight(u, m)'
 <2>1. CASE u # t
  <3>1. posting'[m] = u => posting[m] = u BY <1>3, <2>1
  <3> QED BY <1>7, <2>1, <3>1, PostsKept
 <2>2. CASE u = t
  <3>1. posting[m] # t BY <1>3 DEF Posters, PostsRight
  <3>2. posting'[m] = t => m = l BY <1>3, <3>1
  <3> QED BY <1>2, <1>3, <1>5, <1>6, <2>2, <3>2 DEF PostsRight
 <2> QED BY <2>1, <2>2
<1> QED BY <1>3, <1>8 DEF Posters

LEMMA TargetPosts ==
  ASSUME TypeOK, Posters, NEW t \in Threads, OthersStay(t), TargetAccepts(t) \/ TargetRejects(t)
  PROVE  Posters' /\ posting' \in [Listeners -> Threads \cup {Nobody}]
<1>1. PICK k \in 1 .. Len(ticket) : k = Top(t).ticket /\ ticket[k].listener \in Listeners
  BY TopTicket DEF TargetAccepts, TargetRejects, Within
<1>2. PICK l \in Listeners : l = ticket[k].listener BY <1>1
<1>3. /\ posting' = [posting EXCEPT ![l] = Nobody] /\ Nobody \notin Threads
      /\ posting \in [Listeners -> Threads \cup {Nobody}]
  BY <1>1, <1>2, EventBusAssumption DEF TargetAccepts, TargetRejects, TypeOK
<1>4. ListenersKept BY PostMoves, SameListeners
<1>5. ASSUME NEW u \in Threads, NEW m \in Listeners PROVE PostsRight(u, m)'
 <2>1. CASE u # t
  <3>1. posting'[m] = u => posting[m] = u BY <1>3, <2>1
  <3> QED BY <1>4, <2>1, <3>1, PostsKept
 <2>2. CASE u = t
  <3>1. posting[m] = t => m = l BY <1>1, <1>2 DEF Posters, PostsRight
  <3>2. posting'[m] # t BY <1>3, <3>1
  <3> QED BY <2>2, <3>2 DEF PostsRight
 <2> QED BY <2>1, <2>2
<1> QED BY <1>3, <1>5 DEF Posters

LEMMA PostersStep ==
  ASSUME TypeOK, Posters, NEW t \in Threads, OthersStay(t), Waiter(t) \/ Holder(t) \/ Freed(t)
  PROVE  Posters' /\ posting' \in [Listeners -> Threads \cup {Nobody}]
<1>0. posting \in [Listeners -> Threads \cup {Nobody}] BY DEF TypeOK
<1>1. CASE Waiter(t)
 <2>1. ticket' = ticket /\ posting' = posting /\ InUserCode(t) BY <1>1 DEF Waiter, WaitCall
 <2>2. ~Within(t, "post") BY <2>1 DEF InUserCode, Idle, Within
 <2> QED BY <1>0, <2>1, <2>2, SameListeners, PostsAlone
<1>2. CASE Freed(t) BY <1>0, <1>2, FreedListeners, PostsAlone
<1>3. CASE LockPosting(t) /\ TopNow(t, Offering("post", Top(t).ticket)) BY <1>3, LockPosts
<1>4. CASE TargetAccepts(t) \/ TargetRejects(t) BY <1>4, TargetPosts
<1>5. CASE \E at \in {"offer", "release"} : Prepare(t, at)
 <2>1. posting' = posting /\ ~Within(t, "post") BY <1>5 DEF Prepare, HasNext, Within
 <2> QED BY <1>0, <1>5, <2>1, SameListeners, PostsAlone
<1>6. CASE \E l \in Listeners : RunWork(t, l)
 <2>1. posting' = posting /\ ~Within(t, "post") /\ ListenersKept
  <3>1. PICK l \in Listeners : RunWork(t, l) BY <1>6
  <3>2. posting' = posting /\ ~Within(t, "post") BY <3>1 DEF RunWork, Within
  <3> QED BY <3>1, <3>2, RunMoves, SameListeners
 <2> QED BY <1>0, <2>1, PostsAlone
<1> QED BY <1>1, <1>2, <1>3, <1>4, <1>5, <1>6 DEF Holder

--------------------
\* The tickets and the lines.

Good(k) == Settled(k) /\ OneHand(k) /\ \A t \in Threads : Hands(t, k)

LEMMA BooksAre == TicketBooks <=> \A k \in 1 .. Len(ticket) : Good(k)
  BY DEF TicketBooks, Good

\* Nobody else comes to hold or to work on k; and t does neither.
Sole(t, k) ==
  \A u \in Threads \ {t} : (Holds(t, k)' => ~Holds(u, k)) /\ (Works(t, k)' => ~Works(u, k))
EmptyHanded(t) == \A k : ~Holds(t, k)' /\ ~Works(t, k)'

\* The step does not change what the hands of the others on k rely on.
OthersKeep(t, k) ==
  \A u \in Threads \ {t} :
      /\ Holds(u, k) => /\ ticket'[k].local = ticket[k].local
                        /\ ticket'[k].work = "unposted" <=> ticket[k].work = "unposted"
      /\ Works(u, k) => /\ ticket'[k].work = ticket[k].work
                        /\ ticket'[k].settled = ticket[k].settled

LEMMA GoodStep ==
  ASSUME NEW t \in Threads, OthersStay(t), NEW k, Good(k),
         Sole(t, k), OthersKeep(t, k), Settled(k)', Hands(t, k)'
  PROVE  Good(k)'
<1>1. ASSUME NEW u \in Threads \ {t} PROVE Hands(u, k)'
 <2>1. Top(u)' = Top(u) /\ (Holds(u, k)' <=> Holds(u, k)) /\ (Works(u, k)' <=> Works(u, k)) BY OthersSee
 <2>2. Hands(u, k) BY DEF Good
 <2>3. CASE Holds(u, k)
  <3>1. /\ ticket'[k].local = ticket[k].local
        /\ ticket'[k].work = "unposted" <=> ticket[k].work = "unposted"
    BY <2>3 DEF OthersKeep
  <3>2. ~Works(u, k) BY <2>3 DEF Holds, Works, Within
  <3> QED BY <2>1, <2>2, <2>3, <3>1, <3>2 DEF Hands
 <2>4. CASE ~Holds(u, k) BY <2>1, <2>2, <2>4 DEF Hands, OthersKeep
 <2> QED BY <2>3, <2>4
<1>2. ASSUME NEW u \in Threads, NEW v \in Threads,
             (Holds(u, k)' /\ Holds(v, k)') \/ (Works(u, k)' /\ Works(v, k)')
      PROVE u = v
 <2>1. \A w \in Threads \ {t} : (Holds(w, k)' <=> Holds(w, k)) /\ (Works(w, k)' <=> Works(w, k)) BY OthersSee
 <2>2. CASE u = t \/ v = t BY <1>2, <2>1, <2>2 DEF Sole
 <2>3. CASE u # t /\ v # t
  <3>1. (Holds(u, k) /\ Holds(v, k)) \/ (Works(u, k) /\ Works(v, k)) BY <1>2, <2>1, <2>3
  <3> QED BY <3>1 DEF Good, OneHand
 <2> QED BY <2>2, <2>3
<1>3. OneHand(k)' BY <1>2 DEF OneHand
<1> QED BY <1>1, <1>3 DEF Good

\* A ticket the step leaves alone.
LEMMA GoodStays ==
  ASSUME NEW t \in Threads, OthersStay(t), NEW k, Good(k), ticket'[k] = ticket[k],
         ~Holds(t, k)', ~Works(t, k)'
  PROVE  Good(k)'
<1>1. Settled(k)' BY DEF Good, Settled
<1>2. Hands(t, k)' BY DEF Hands
<1>3. Sole(t, k) /\ OthersKeep(t, k) BY DEF Sole, OthersKeep
<1> QED BY <1>1, <1>2, <1>3, GoodStep

\* A ticket that t has in hand can be in nobody else's.
LEMMA HandAlone ==
  ASSUME NEW t \in Threads, NEW k, Good(k)
  PROVE  \A u \in Threads \ {t} :
            (Holds(t, k) => ~Holds(u, k)) /\ (Works(t, k) => ~Works(u, k))
  BY DEF Good, OneHand

LEMMA GoodSame ==
  ASSUME TypeOK, TicketBooks, NEW t \in Threads, OthersStay(t), ticket' = ticket, EmptyHanded(t)
  PROVE  TicketBooks'
<1>1. ASSUME NEW k \in 1 .. Len(ticket) PROVE Good(k)'
 <2>1. Good(k) BY BooksAre
 <2> QED BY <2>1, GoodStays DEF EmptyHanded
<1> QED BY <1>1 DEF TicketBooks, Good

\* One ticket changes, in whatever way, and t has no other in hand.
LEMMA GoodOne ==
  ASSUME TypeOK, TicketBooks, NEW t \in Threads, OthersStay(t),
         NEW k \in 1 .. Len(ticket), NEW w, NEW b, NEW n, Becomes(k, w, b, n),
         \A j : j # k => ~Holds(t, j)' /\ ~Works(t, j)',
         Sole(t, k), OthersKeep(t, k), Settled(k)', Hands(t, k)'
  PROVE  TicketBooks'
<1>0. Len(ticket') = Len(ticket) BY DEF Becomes, KeepsTickets
<1>1. ASSUME NEW j \in 1 .. Len(ticket) PROVE Good(j)'
 <2>1. Good(j) BY BooksAre
 <2>2. CASE j = k BY <2>1, <2>2, GoodStep
 <2>3. CASE j # k
  <3>1. ticket'[j] = ticket[j] BY <2>3 DEF Becomes, Sames
  <3> QED BY <2>1, <2>3, <3>1, GoodStays
 <2> QED BY <2>2, <2>3
<1> QED BY <1>0, <1>1 DEF TicketBooks, Good

\* What waits in the line of l still does.
LineSafe(l) ==
  \A k \in 1 .. Len(ticket) :
      ticket[k].work = "queued" /\ ticket[k].listener = l => ticket'[k].work = "queued"

LEMMA LineStays ==
  ASSUME TypeOK, NEW l \in Listeners, InLine(l), line'[l] = line[l], LineSafe(l), ListenersKept
  PROVE  InLine(l)'
<1>1. \A i \in 1 .. Len(line[l]) : line[l][i] \in 1 .. Len(ticket) BY LineTypes
<1> QED BY <1>1 DEF InLine, LineSafe, ListenersKept

LEMMA LinesSame ==
  ASSUME TypeOK, Lines, line' = line, ListenersKept, \A l \in Listeners : LineSafe(l)
  PROVE  Lines'
<1>1. ASSUME NEW l \in Listeners PROVE InLine(l)' BY LineStays DEF Lines
<1> QED BY <1>1 DEF Lines

LEMMA SafeLines ==
  ASSUME TypeOK, NEW k \in 1 .. Len(ticket), NEW w, NEW b, NEW n, Becomes(k, w, b, n),
         NEW l, w = ticket[k].work \/ ticket[k].work # "queued" \/ ticket[k].listener # l
  PROVE  LineSafe(l)
  BY DEF LineSafe, Becomes, Sames

LEMMA LineIs ==
  ASSUME NEW l, NEW e, NEW m, line'[l] = e, Len(e) = m,
         \A i \in 1 .. m : ticket'[e[i]].work = "queued" /\ ticket'[e[i]].listener = l,
         \A i, j \in 1 .. m : e[i] = e[j] => i = j
  PROVE  InLine(l)'
  BY DEF InLine

\* The first of the line of l leaves it and waits no longer.
LEMMA LineServed ==
  ASSUME TypeOK, Lines, NEW l \in Listeners, line[l] # <<>>,
         line' = [line EXCEPT ![l] = Tail(@)],
         NEW k, k = Head(line[l]), NEW w, NEW b, NEW n, Becomes(k, w, b, n)
  PROVE  /\ Lines' /\ line' \in [Listeners -> Seq(DOMAIN ticket')]
         /\ k \in 1 .. Len(ticket) /\ ticket[k].work = "queued" /\ ticket[k].listener = l
<1>1a. PICK s : s = line[l] OBVIOUS
<1>1b. PICK m \in Nat : m = Len(s) BY <1>1a, LineTypes
<1>1. s = line[l] /\ m = Len(s) /\ m >= 1 BY <1>1a, <1>1b, LineTypes
<1>2. /\ k = s[1] /\ k \in 1 .. Len(ticket) /\ Len(Tail(s)) = m - 1
      /\ \A i \in 1 .. m : s[i] \in 1 .. Len(ticket)
      /\ Tail(s) \in Seq(1 .. Len(ticket))
      /\ \A i \in 1 .. m - 1 : Tail(s)[i] = s[i + 1]
  BY <1>1, LineTypes
<1>3. /\ \A i \in 1 .. m : ticket[s[i]].work = "queued" /\ ticket[s[i]].listener = l
      /\ \A i, j \in 1 .. m : s[i] = s[j] => i = j
  BY <1>1 DEF Lines, InLine
<1>4. ticket[k].work = "queued" /\ ticket[k].listener = l BY <1>1, <1>2, <1>3
<1>5. line'[l] = Tail(s) /\ \A j \in Listeners \ {l} : line'[j] = line[j] BY <1>1 DEF TypeOK
<1>6. ListenersKept BY SameListeners
<1>7. InLine(l)'
 <2>1. ASSUME NEW i \in 1 .. m - 1
       PROVE /\ ticket'[Tail(s)[i]].work = "queued"
             /\ ticket'[Tail(s)[i]].listener = l
  <3>1. i + 1 \in 1 .. m /\ i + 1 # 1 /\ 1 \in 1 .. m BY <1>1
  <3>2. PICK j \in 1 .. Len(ticket) : j = s[i + 1] BY <1>2, <3>1
  <3>3. j # k BY <1>2, <1>3, <3>1, <3>2
  <3>4. ticket'[j] = ticket[j] BY <3>3 DEF Becomes, Sames
  <3>5. ticket[j].work = "queued" /\ ticket[j].listener = l BY <1>3, <3>1, <3>2
  <3> QED BY <1>2, <3>2, <3>4, <3>5
 <2>2. ASSUME NEW i \in 1 .. m - 1, NEW j \in 1 .. m - 1, Tail(s)[i] = Tail(s)[j]
       PROVE i = j
  <3>1. i + 1 \in 1 .. m /\ j + 1 \in 1 .. m /\ s[i + 1] = s[j + 1] BY <1>1, <1>2, <2>2
  <3>2. i + 1 = j + 1 BY <1>3, <3>1
  <3> QED BY <3>2
 <2>3. PICK e : e = Tail(s) OBVIOUS
 <2> QED BY <1>2, <1>5, <2>1, <2>2, <2>3, LineIs
<1>8. ASSUME NEW j \in Listeners \ {l} PROVE InLine(j)'
 <2>1. LineSafe(j) BY <1>2, <1>4, SafeLines
 <2> QED BY <1>5, <1>6, <2>1, LineStays DEF Lines
<1>9. line' \in [Listeners -> Seq(DOMAIN ticket')]
 <2>1. DOMAIN ticket' = DOMAIN ticket /\ DOMAIN ticket = 1 .. Len(ticket) BY BecomesGrows, TicketTypes
 <2> QED BY <1>2, <2>1 DEF TypeOK
<1> QED BY <1>2, <1>4, <1>7, <1>8, <1>9 DEF Lines

\* The ticket k comes last in the line of l.
LEMMA LineJoined ==
  ASSUME TypeOK, Lines, NEW l \in Listeners, NEW k \in 1 .. Len(ticket),
         line' = [line EXCEPT ![l] = Append(@, k)],
         NEW b, NEW n, Becomes(k, "queued", b, n),
         ticket[k].work # "queued", ticket[k].listener = l
  PROVE  Lines' /\ line' \in [Listeners -> Seq(DOMAIN ticket')]
<1>1a. PICK s : s = line[l] OBVIOUS
<1>1b. PICK m \in Nat : m = Len(s) BY <1>1a, LineTypes
<1>1. s = line[l] /\ m = Len(s) BY <1>1a, <1>1b
<1>2. s \in Seq(1 .. Len(ticket)) /\ \A i \in 1 .. m : s[i] \in 1 .. Len(ticket) BY <1>1, LineTypes
<1>3. PICK e : e = Append(s, k) OBVIOUS
<1>4a. PICK len \in Nat : len = m + 1 /\ \A i \in 1 .. len : i \in 1 .. m \/ i = len BY <1>1
<1>4. /\ e \in Seq(1 .. Len(ticket)) /\ Len(e) = len /\ e[len] = k
      /\ \A i \in 1 .. m : e[i] = s[i]
  BY <1>1, <1>2, <1>3, <1>4a, AppendProperties
<1>5. line'[l] = e /\ \A j \in Listeners \ {l} : line'[j] = line[j] BY <1>1, <1>3 DEF TypeOK
<1>6. ListenersKept BY SameListeners
<1>7. /\ \A i \in 1 .. m : ticket[s[i]].work = "queued" /\ ticket[s[i]].listener = l
      /\ \A i, j \in 1 .. m : s[i] = s[j] => i = j
  BY <1>1 DEF Lines, InLine
<1>8. \A i \in 1 .. m : s[i] # k BY <1>7
<1>9. \A i \in 1 .. len : ticket'[e[i]].work = "queued" /\ ticket'[e[i]].listener = l
 <2>1. ASSUME NEW i \in 1 .. m
       PROVE ticket'[e[i]].work = "queued" /\ ticket'[e[i]].listener = l
  <3>1. PICK j \in 1 .. Len(ticket) : j = s[i] BY <1>2
  <3>2. ticket'[j] = ticket[j] BY <1>8, <3>1 DEF Becomes, Sames
  <3> QED BY <1>4, <1>7, <3>1, <3>2
 <2>2. ticket'[k].work = "queued" /\ ticket'[k].listener = l BY <1>6 DEF Becomes, ListenersKept
 <2> QED BY <1>4, <1>4a, <2>1, <2>2
<1>10. \A i, j \in 1 .. len : e[i] = e[j] => i = j BY <1>4, <1>4a, <1>7, <1>8
<1>11. InLine(l)' BY <1>4, <1>5, <1>9, <1>10, LineIs
<1>12. ASSUME NEW j \in Listeners \ {l} PROVE InLine(j)'
 <2>1. LineSafe(j) BY SafeLines
 <2> QED BY <1>5, <1>6, <2>1, LineStays DEF Lines
<1>13. line' \in [Listeners -> Seq(DOMAIN ticket')]
 <2>1. DOMAIN ticket' = DOMAIN ticket /\ DOMAIN ticket = 1 .. Len(ticket) BY BecomesGrows, TicketTypes
 <2> QED BY <1>4, <1>5, <2>1 DEF TypeOK
<1> QED BY <1>11, <1>12, <1>13 DEF Lines

--------------------
\* The steps that change a ticket.

\* What the thread that has the ticket k in its hand knows of it.
LEMMA InHand ==
  ASSUME TypeOK, TicketBooks, NEW t \in Threads, NEW at, Within(t, at),
         NEW k \in 1 .. Len(ticket), k = Top(t).ticket
  PROVE  /\ Good(k) /\ ticket[k].settled \in {0, 1}
         /\ ticket[k].work # "entered" =>
               (ticket[k].settled = 1 <=> ticket[k].work = "gone" /\ ~ticket[k].local)
         /\ at \in {"offer", "post", "release"} =>
               /\ Holds(t, k) /\ ticket[k].local
               /\ at = "release" <=> ticket[k].work # "unposted"
               /\ \A u \in Threads \ {t} : ~Holds(u, k)
         /\ at = "work" =>
               /\ Works(t, k) /\ ticket[k].work = "entered" /\ ticket[k].settled = 0
               /\ \A u \in Threads \ {t} : ~Works(u, k)
<1>1. Good(k) BY BooksAre
<1>2. Settled(k) /\ Hands(t, k) /\ Top(t).at = at /\ ~Idle(t) BY <1>1 DEF Good, Within
<1>3. at \in {"offer", "post", "release"} => Holds(t, k) BY <1>2 DEF Holds
<1>4. at = "work" => Works(t, k) BY DEF Works
<1>5. \A u \in Threads \ {t} : (Holds(t, k) => ~Holds(u, k)) /\ (Works(t, k) => ~Works(u, k)) BY <1>1, HandAlone
<1> QED BY <1>1, <1>2, <1>3, <1>4, <1>5 DEF Settled, Hands

LEMMA LockGood ==
  ASSUME TypeOK, TicketBooks, Lines, NEW t \in Threads, OthersStay(t), LockPosting(t),
         TopNow(t, Offering("post", Top(t).ticket))
  PROVE  TicketBooks' /\ Lines' /\ line' \in [Listeners -> Seq(DOMAIN ticket')]
<1>1. PICK k \in 1 .. Len(ticket) : k = Top(t).ticket BY TopTicket DEF LockPosting, Within
<1>2. ticket' = ticket /\ Within(t, "offer") BY DEF LockPosting
<1>3. /\ Good(k) /\ Holds(t, k) /\ ticket[k].local /\ ticket[k].work = "unposted"
      /\ \A u \in Threads \ {t} : ~Holds(u, k)
  BY <1>1, <1>2, InHand
<1>4. PICK f : f = Offering("post", k) OBVIOUS
<1>5. f.at = "post" /\ f.ticket = k /\ TopNow(t, f) BY <1>1, <1>4, KindsAre
<1>6. /\ Top(t)' = f
      /\ \A j : (Holds(t, j)' <=> j = k) /\ ~Works(t, j)'
  BY <1>5, TopSees
<1>7. ASSUME NEW j \in 1 .. Len(ticket) PROVE Good(j)'
 <2>1. Good(j) BY BooksAre
 <2>2. CASE j # k BY <1>2, <1>6, <2>1, <2>2, GoodStays
 <2>3. CASE j = k
  <3>1. Settled(k)' BY <1>2, <1>3 DEF Good, Settled
  <3>2. Hands(t, k)' BY <1>2, <1>3, <1>5, <1>6 DEF Hands
  <3>3. Sole(t, k) /\ OthersKeep(t, k) BY <1>2, <1>3, <1>6 DEF Sole, OthersKeep
  <3> QED BY <1>3, <2>3, <3>1, <3>2, <3>3, GoodStep
 <2> QED BY <2>2, <2>3
<1>8. TicketBooks' BY <1>2, <1>7 DEF TicketBooks, Good
<1>9. line' = line BY DEF LockPosting
<1>10. Lines' BY <1>2, <1>9 DEF Lines, InLine
<1> QED BY <1>2, <1>8, <1>9, <1>10 DEF TypeOK

LEMMA PostGood ==
  ASSUME TypeOK, TicketBooks, Lines, NEW t \in Threads, OthersStay(t),
         TargetAccepts(t) \/ TargetRejects(t),
         TopNow(t, Offering("release", Top(t).ticket))
  PROVE  TicketBooks' /\ Lines' /\ line' \in [Listeners -> Seq(DOMAIN ticket')]
<1>1. PICK k \in 1 .. Len(ticket) : k = Top(t).ticket BY PostMoves
<1>2. PICK w : w = IF TargetAccepts(t) THEN "queued" ELSE "gone" OBVIOUS
<1>3. PICK b, n : b = ticket[k].local /\ n = ticket[k].settled OBVIOUS
<1>4. Becomes(k, w, b, n) BY <1>1, <1>2, <1>3, PostMoves
<1>5. Within(t, "post") BY DEF TargetAccepts, TargetRejects
<1>6. /\ Good(k) /\ Holds(t, k) /\ ticket[k].local /\ ticket[k].work = "unposted"
      /\ ticket[k].settled = 0
      /\ \A u \in Threads \ {t} : ~Holds(u, k)
  BY <1>1, <1>5, InHand
<1>7. PICK f : f = Offering("release", k) OBVIOUS
<1>8. f.at = "release" /\ f.ticket = k /\ TopNow(t, f) BY <1>1, <1>7, KindsAre
<1>9. /\ Top(t)' = f
      /\ \A j : (Holds(t, j)' <=> j = k) /\ ~Works(t, j)'
  BY <1>8, TopSees
<1>10. /\ ticket'[k].work = w /\ ticket'[k].local = TRUE /\ ticket'[k].settled = 0
       /\ w \in {"queued", "gone"}
  BY <1>2, <1>3, <1>4, <1>6 DEF Becomes
<1>11. \A u \in Threads \ {t} : ~Works(u, k) BY <1>6 DEF Good, Hands
<1>12. Settled(k)' /\ Hands(t, k)' /\ Sole(t, k) /\ OthersKeep(t, k)
 <2>1. Settled(k)' BY <1>10 DEF Settled
 <2>2. Hands(t, k)' BY <1>8, <1>9, <1>10 DEF Hands
 <2>3. Sole(t, k) /\ OthersKeep(t, k) BY <1>6, <1>9, <1>11 DEF Sole, OthersKeep
 <2> QED BY <2>1, <2>2, <2>3
<1>13. TicketBooks' BY <1>4, <1>9, <1>12, GoodOne
<1>14. CASE TargetAccepts(t)
 <2>1. PICK l \in Listeners : l = ticket[k].listener BY TicketTypes
 <2>2. line' = [line EXCEPT ![l] = Append(@, k)] BY <1>1, <1>14, <2>1 DEF TargetAccepts
 <2>3. Becomes(k, "queued", b, n) BY <1>2, <1>4, <1>14
 <2>4. Lines' /\ line' \in [Listeners -> Seq(DOMAIN ticket')] BY <1>6, <2>1, <2>2, <2>3, LineJoined
 <2> QED BY <1>13, <2>4
<1>15. CASE TargetRejects(t) /\ ~TargetAccepts(t)
 <2>1. line' = line BY <1>15 DEF TargetRejects
 <2>2. ASSUME NEW l \in Listeners PROVE LineSafe(l) BY <1>4, <1>6, SafeLines
 <2>3. ListenersKept /\ Grows BY <1>4, SameListeners, BecomesGrows
 <2> QED BY <1>13, <2>1, <2>2, <2>3, LinesSame, LinesTyped
<1> QED BY <1>14, <1>15

LEMMA ReleaseGood ==
  ASSUME TypeOK, TicketBooks, Lines, NEW t \in Threads, OthersStay(t), ReleaseTicket(t), Plain(t)
  PROVE  TicketBooks' /\ Lines' /\ line' \in [Listeners -> Seq(DOMAIN ticket')]
<1>1. PICK k \in 1 .. Len(ticket) : k = Top(t).ticket BY ReleaseSet
<1>2. PICK w, n : /\ w = ticket[k].work
                  /\ n = IF ticket[k].work = "gone" THEN ticket[k].settled + 1 ELSE ticket[k].settled
  OBVIOUS
<1>3. Becomes(k, w, FALSE, n) BY <1>1, <1>2, ReleaseSet
<1>4. Within(t, "release") /\ line' = line BY DEF ReleaseTicket
<1>5. /\ Good(k) /\ Holds(t, k) /\ ticket[k].local /\ ticket[k].work # "unposted"
      /\ ticket[k].settled \in {0, 1}
      /\ ticket[k].work # "entered" => ticket[k].settled = 0
      /\ \A u \in Threads \ {t} : ~Holds(u, k)
  BY <1>1, <1>4, InHand
<1>6. ticket'[k].work = ticket[k].work /\ ticket'[k].local = FALSE /\ ticket'[k].settled = n BY <1>2, <1>3 DEF Becomes
<1>7. \A j : ~Holds(t, j)' /\ ~Works(t, j)' BY PlainSees
<1>8. Settled(k)'
 <2>1. CASE ticket[k].work = "gone" BY <1>2, <1>5, <1>6, <2>1 DEF Settled
 <2>2. CASE ticket[k].work # "gone" BY <1>2, <1>5, <1>6, <2>2 DEF Settled
 <2> QED BY <2>1, <2>2
<1>9. \A u \in Threads \ {t} : Works(u, k) => ticket'[k].settled = ticket[k].settled BY <1>2, <1>5, <1>6 DEF Good, Hands
<1>10. Hands(t, k)' /\ Sole(t, k) /\ OthersKeep(t, k) BY <1>5, <1>6, <1>7, <1>9 DEF Hands, Sole, OthersKeep
<1>11. TicketBooks' BY <1>3, <1>7, <1>8, <1>10, GoodOne
<1>12. ASSUME NEW l \in Listeners PROVE LineSafe(l) BY <1>2, <1>3, SafeLines
<1>13. ListenersKept /\ Grows BY <1>3, SameListeners, BecomesGrows
<1> QED BY <1>4, <1>11, <1>12, <1>13, LinesSame, LinesTyped

LEMMA WorkGood ==
  ASSUME TypeOK, TicketBooks, Lines, NEW t \in Threads, OthersStay(t),
         WorkCalls(t) \/ WorkDiscards(t), Plain(t)
  PROVE  TicketBooks' /\ Lines' /\ line' \in [Listeners -> Seq(DOMAIN ticket')]
<1>1. PICK k \in 1 .. Len(ticket) : k = Top(t).ticket BY WorkMoves
<1>2. PICK w, b, n : w = ticket[k].work /\ b = ticket[k].local /\ n = ticket[k].settled + 1 OBVIOUS
<1>3. Becomes(k, w, b, n) BY <1>1, <1>2, WorkMoves
<1>4. Within(t, "work") /\ line' = line BY DEF WorkCalls, WorkDiscards
<1>5. /\ Good(k) /\ ticket[k].work = "entered" /\ ticket[k].settled = 0
      /\ \A u \in Threads \ {t} : ~Works(u, k)
  BY <1>1, <1>4, InHand
<1>6. /\ ticket'[k].work = ticket[k].work /\ ticket'[k].local = ticket[k].local
      /\ ticket'[k].settled = 1
  BY <1>2, <1>3, <1>5 DEF Becomes
<1>7. \A j : ~Holds(t, j)' /\ ~Works(t, j)' BY PlainSees
<1>8. Settled(k)' BY <1>5, <1>6 DEF Settled
<1>9. Hands(t, k)' /\ Sole(t, k) /\ OthersKeep(t, k) BY <1>5, <1>6, <1>7 DEF Hands, Sole, OthersKeep
<1>10. TicketBooks' BY <1>3, <1>7, <1>8, <1>9, GoodOne
<1>11. ASSUME NEW l \in Listeners PROVE LineSafe(l) BY <1>2, <1>3, SafeLines
<1>12. ListenersKept /\ Grows BY <1>3, SameListeners, BecomesGrows
<1> QED BY <1>4, <1>10, <1>11, <1>12, LinesSame, LinesTyped

LEMMA DropGood ==
  ASSUME TypeOK, TicketBooks, Lines, NEW t \in Threads, OthersStay(t), NEW l \in Listeners,
         DropWork(t, l), Plain(t)
  PROVE  TicketBooks' /\ Lines' /\ line' \in [Listeners -> Seq(DOMAIN ticket')]
<1>1. PICK k : k = Head(line[l]) OBVIOUS
<1>2. PICK b, n : /\ b = ticket[k].local
                  /\ n = IF ~ticket[k].local THEN ticket[k].settled + 1 ELSE ticket[k].settled
  OBVIOUS
<1>3. Becomes(k, "gone", b, n) BY <1>1, <1>2, DropSet
<1>4. line[l] # <<>> /\ line' = [line EXCEPT ![l] = Tail(@)] BY DEF DropWork
<1>5. /\ Lines' /\ line' \in [Listeners -> Seq(DOMAIN ticket')]
      /\ k \in 1 .. Len(ticket) /\ ticket[k].work = "queued" /\ ticket[k].listener = l
  BY <1>1, <1>3, <1>4, LineServed
<1>6. /\ ticket'[k].work = "gone" /\ ticket'[k].local = ticket[k].local
      /\ ticket'[k].settled = n /\ ticket[k].local \in BOOLEAN
  BY <1>2, <1>3, <1>5, TicketTypes DEF Becomes
<1>7. \A j : ~Holds(t, j)' /\ ~Works(t, j)' BY PlainSees
<1>8. Good(k) BY <1>5, BooksAre
<1>9. ticket[k].settled = 0 /\ \A u \in Threads \ {t} : ~Works(u, k) BY <1>5, <1>8 DEF Good, Settled, Hands
<1>10. Settled(k)' BY <1>2, <1>6, <1>9 DEF Settled
<1>11. Hands(t, k)' /\ Sole(t, k) /\ OthersKeep(t, k) BY <1>5, <1>6, <1>7, <1>9 DEF Hands, Sole, OthersKeep
<1>12. TicketBooks' BY <1>3, <1>5, <1>7, <1>10, <1>11, GoodOne
<1> QED BY <1>5, <1>12

LEMMA RunGood ==
  ASSUME TypeOK, TicketBooks, Lines, NEW t \in Threads, OthersStay(t), NEW l \in Listeners,
         RunWork(t, l), TopNow(t, Work(Head(line[l])))
  PROVE  TicketBooks' /\ Lines' /\ line' \in [Listeners -> Seq(DOMAIN ticket')]
<1>1. PICK k : k = Head(line[l]) OBVIOUS
<1>2. PICK b, n : b = ticket[k].local /\ n = ticket[k].settled OBVIOUS
<1>3. Becomes(k, "entered", b, n) BY <1>1, <1>2, RunMoves
<1>4. line[l] # <<>> /\ line' = [line EXCEPT ![l] = Tail(@)] BY DEF RunWork
<1>5. /\ Lines' /\ line' \in [Listeners -> Seq(DOMAIN ticket')]
      /\ k \in 1 .. Len(ticket) /\ ticket[k].work = "queued" /\ ticket[k].listener = l
  BY <1>1, <1>3, <1>4, LineServed
<1>6. /\ ticket'[k].work = "entered" /\ ticket'[k].local = ticket[k].local
      /\ ticket'[k].settled = ticket[k].settled
  BY <1>2, <1>3 DEF Becomes
<1>7. PICK f : f = Work(k) OBVIOUS
<1>8. f.at = "work" /\ f.ticket = k /\ TopNow(t, f) BY <1>1, <1>7, KindsAre
<1>9. \A j : ~Holds(t, j)' /\ (Works(t, j)' <=> j = k) BY <1>8, TopSees
<1>10. Good(k) BY <1>5, BooksAre
<1>11. ticket[k].settled = 0 /\ \A u \in Threads : ~Works(u, k) BY <1>5, <1>10 DEF Good, Settled, Hands
<1>12. Settled(k)' /\ Hands(t, k)' BY <1>6, <1>9, <1>11 DEF Settled, Hands
<1>13. Sole(t, k) /\ OthersKeep(t, k) BY <1>5, <1>6, <1>9, <1>11 DEF Sole, OthersKeep
<1>14. TicketBooks' BY <1>3, <1>5, <1>9, <1>12, <1>13, GoodOne
<1> QED BY <1>5, <1>14

LEMMA PrepareGood ==
  ASSUME TypeOK, TicketBooks, Lines, NEW t \in Threads, OthersStay(t),
         NEW at \in {"offer", "release"}, Prepare(t, at),
         TopNow(t, Offering(at, Len(ticket) + 1))
  PROVE  TicketBooks' /\ Lines' /\ line' \in [Listeners -> Seq(DOMAIN ticket')]
<1>1. PICK k \in Nat : k = Len(ticket) + 1 BY TicketTypes
<1>2. /\ Len(ticket') = k /\ \A j \in 1 .. Len(ticket) : ticket'[j] = ticket[j]
      /\ ticket'[k].local = TRUE /\ ticket'[k].settled = 0
      /\ ticket'[k].work = IF at = "offer" THEN "unposted" ELSE "gone"
      /\ Grows
 <2>1. PICK r : r = [listener |-> At(t), local |-> TRUE, settled |-> 0,
                     work |-> IF at = "offer" THEN "unposted" ELSE "gone"]
   OBVIOUS
 <2>2. /\ Len(ticket') = k /\ \A j \in 1 .. Len(ticket) : ticket'[j] = ticket[j]
       /\ ticket'[k] = r /\ Grows
   BY <1>1, <2>1, PrepareAppends
 <2>3. /\ r.local = TRUE /\ r.settled = 0
       /\ r.work = IF at = "offer" THEN "unposted" ELSE "gone"
   BY <2>1
 <2> QED BY <2>2, <2>3
<1>3. PICK f : f = Offering(at, k) OBVIOUS
<1>4. f.at = at /\ f.ticket = k /\ TopNow(t, f) BY <1>1, <1>3, KindsAre
<1>5. /\ Top(t)' = f
      /\ \A j : (Holds(t, j)' <=> j = k) /\ ~Works(t, j)'
  BY <1>4, TopSees
<1>6. ASSUME NEW u \in Threads PROVE ~Holds(u, k) /\ ~Works(u, k)
 <2> SUFFICES ASSUME Holds(u, k) \/ Works(u, k) PROVE FALSE OBVIOUS
 <2>1. ~Idle(u) /\ Top(u).at \in {"offer", "post", "release", "work"} /\ Top(u).ticket = k BY DEF Holds, Works, Within
 <2>2. k \in 1 .. Len(ticket) BY <2>1, TopTicket
 <2> QED BY <1>1, <2>2, TicketTypes
<1>7. Good(k)'
 <2>1. Settled(k)' BY <1>2 DEF Settled
 <2>2. Hands(t, k)' BY <1>2, <1>4, <1>5 DEF Hands
 <2>3. ASSUME NEW u \in Threads \ {t} PROVE ~Holds(u, k)' /\ ~Works(u, k)' BY <1>6, OthersSee
 <2>4. OneHand(k)' BY <1>5, <2>3 DEF OneHand
 <2>5. \A u \in Threads : Hands(u, k)' BY <2>2, <2>3 DEF Hands
 <2> QED BY <2>1, <2>4, <2>5 DEF Good
<1>8. ASSUME NEW j \in 1 .. Len(ticket) PROVE Good(j)'
 <2>1. j # k BY <1>1, TicketTypes
 <2>2. Good(j) BY BooksAre
 <2> QED BY <1>2, <1>5, <2>1, <2>2, GoodStays
<1>9. TicketBooks'
 <2>1. \A j \in 1 .. Len(ticket') : j \in 1 .. Len(ticket) \/ j = k BY <1>1, <1>2, TicketTypes
 <2> QED BY <1>7, <1>8, <2>1 DEF TicketBooks, Good
<1>10. line' = line BY DEF Prepare
<1>11. \A l \in Listeners : LineSafe(l) BY <1>2 DEF LineSafe
<1>12. ListenersKept BY <1>2 DEF ListenersKept
<1> QED BY <1>2, <1>9, <1>10, <1>11, <1>12, LinesSame, LinesTyped

\* The steps that leave the tickets and the lines alone.
LEMMA SameGood ==
  ASSUME TypeOK, TicketBooks, Lines, NEW t \in Threads, OthersStay(t),
         ticket' = ticket, line' = line, EmptyHanded(t)
  PROVE  TicketBooks' /\ Lines' /\ line' \in [Listeners -> Seq(DOMAIN ticket')]
<1>1. TicketBooks' BY GoodSame
<1>2. Lines' BY DEF Lines, InLine
<1> QED BY <1>1, <1>2 DEF TypeOK

LEMMA TicketsStep ==
  ASSUME TypeOK, TicketBooks, Lines, NEW t \in Threads, OthersStay(t),
         Waiter(t) \/ Holder(t) \/ Freed(t)
  PROVE  TicketBooks' /\ Lines' /\ line' \in [Listeners -> Seq(DOMAIN ticket')]
<1>1. CASE Waiter(t)
 <2>1. PICK l \in Listeners : WaitCall(t, l) /\ TopNow(t, Waiting(l)) BY <1>1 DEF Waiter
 <2>2. PICK f : f = Waiting(l) OBVIOUS
 <2>3. f.at = "wait" /\ TopNow(t, f) BY <2>1, <2>2, KindsAre
 <2>4. EmptyHanded(t) BY <2>3, TopSees DEF EmptyHanded
 <2>5. ticket' = ticket /\ line' = line BY <2>1 DEF WaitCall
 <2> QED BY <2>4, <2>5, SameGood
<1>2. CASE Holder(t) BY <1>2, LockGood, PostGood, PrepareGood, RunGood DEF Holder
<1>3. CASE Freed(t)
 <2>1. Plain(t) /\ EmptyHanded(t) BY <1>3, PlainSees DEF Freed, EmptyHanded
 <2>2. CASE CalmUse(t) \/ Quits(t) \/ Skip(t) \/ CallNow(t) \/ CallThrows(t)
  <3>1. ticket' = ticket /\ line' = line
    BY <2>2 DEF CalmUse, Close, Register, Unregister, Publish, WaitCall, Quits, Published, WaitReturns, CallReturns,
      SinkReturns, Skip, CallNow, CallThrows
  <3> QED BY <2>1, <3>1, SameGood
 <2>3. CASE ReleaseTicket(t) BY <2>1, <2>3, ReleaseGood
 <2>4. CASE WorkCalls(t) \/ WorkDiscards(t) BY <2>1, <2>4, WorkGood
 <2>5. CASE \E l \in Listeners : DropWork(t, l) BY <2>1, <2>5, DropGood
 <2> QED BY <1>3, <2>2, <2>3, <2>4, <2>5 DEF Freed, Frees
<1> QED BY <1>1, <1>2, <1>3

--------------------
\* Every variable stays in its range.

LEMMA StacksStep ==
  ASSUME TypeOK, Nested, Next
  PROVE  stack' \in [Threads -> Seq(Frames')]
<1>0. PICK t \in Threads :
              \/ CalmUse(t) \/ CalmGoOn(t) \/ CallNow(t) \/ WorkCalls(t)
              \/ CallReturns(t) \/ CallThrows(t)
              \/ \E l \in Listeners : RunWork(t, l) \/ DropWork(t, l)
  BY Steps
<1>1. CASE Close(t) \/ \E l \in Listeners : Register(t, l) \/ Unregister(t, l)
 <2>1. stack' = stack /\ ticket' = ticket BY <1>1 DEF Close, Register, Unregister
 <2> QED BY <2>1, StacksTyped
<1>2. CASE \E b \in BOOLEAN : Publish(t, b) BY <1>2, PublishMoves DEF Moves
<1>3. CASE \E l \in Listeners : WaitCall(t, l) BY <1>3, WaitMoves DEF Moves
<1>4. CASE Quits(t) BY <1>4, QuitMoves DEF Moves
<1>5. CASE Skip(t) \/ LockPosting(t) \/ TargetAccepts(t) \/ TargetRejects(t)
  BY <1>5, SkipMoves, LockMoves, PostMoves DEF Moves
<1>6. CASE ReleaseTicket(t) \/ WorkCalls(t) \/ WorkDiscards(t) BY <1>6, ReleaseMoves, WorkMoves DEF Moves
<1>7. CASE Prepared(t) \/ PreparationFails(t)
 <2>1. PICK at \in {"offer", "release"} : Prepare(t, at) BY <1>7 DEF Prepared, PreparationFails
 <2> QED BY <2>1, PrepareMoves DEF Moves
<1>8. CASE CallNow(t) \/ CallThrows(t) BY <1>8, CallMoves, ThrowMoves DEF Moves
<1>9. CASE \E l \in Listeners : RunWork(t, l) BY <1>9, RunMoves DEF Moves
<1>10. CASE \E l \in Listeners : DropWork(t, l)
 <2>1. PICK l \in Listeners : DropWork(t, l) BY <1>10
 <2>2. CASE stack' = stack
  <3>1. DOMAIN ticket \subseteq DOMAIN ticket' BY <2>1, DropSet, BecomesGrows
  <3> QED BY <2>2, <3>1, StacksTyped
 <2>3. CASE stack' # stack BY <2>1, <2>3, DropMoves DEF Moves
 <2> QED BY <2>2, <2>3
<1> QED BY <1>0, <1>1, <1>2, <1>3, <1>4, <1>5, <1>6, <1>7, <1>8, <1>9, <1>10 DEF CalmUse, CalmGoOn, Quits

LEMMA TicketTypesStep ==
  ASSUME TypeOK, NEW t \in Threads, Waiter(t) \/ Holder(t) \/ Freed(t)
  PROVE  ticket' \in Seq(Tickets) /\ publications' \in Nat
<1>0. ticket \in Seq(Tickets) /\ publications \in Nat BY DEF TypeOK
<1>1. CASE Waiter(t) \/ CalmUse(t) \/ Quits(t) \/ Skip(t) \/ CallNow(t) \/ CallThrows(t)
           \/ LockPosting(t)
 <2>1. ticket' = ticket /\ publications' \in {publications, publications + 1}
   BY <1>1 DEF Waiter, CalmUse, Close, Register, Unregister, Publish, WaitCall, Quits, Published, WaitReturns,
     CallReturns, SinkReturns, Skip, CallNow, CallThrows, LockPosting
 <2> QED BY <1>0, <2>1
<1>2. CASE TargetAccepts(t) \/ TargetRejects(t) \/ ReleaseTicket(t) \/ WorkCalls(t)
           \/ WorkDiscards(t)
 <2>1. publications' = publications BY <1>2 DEF TargetAccepts, TargetRejects, ReleaseTicket, WorkCalls, WorkDiscards
 <2>2. Grows BY <1>2, PostMoves, ReleaseSet, WorkMoves, BecomesGrows
 <2> QED BY <1>0, <2>1, <2>2 DEF Grows
<1>3. CASE \E at \in {"offer", "release"} : Prepare(t, at)
 <2>1. publications' = publications BY <1>3 DEF Prepare
 <2> QED BY <1>0, <1>3, <2>1, PrepareAppends
<1>4. CASE \E l \in Listeners : RunWork(t, l) \/ DropWork(t, l)
 <2>1. publications' = publications BY <1>4 DEF RunWork, DropWork
 <2>2. Grows BY <1>4, RunMoves, DropSet, BecomesGrows
 <2> QED BY <1>0, <2>1, <2>2 DEF Grows
<1> QED BY <1>1, <1>2, <1>3, <1>4 DEF Holder, Freed, Frees

--------------------
\* The invariant.

LEMMA InitInv == Init => IInv
<1> SUFFICES ASSUME Init PROVE IInv OBVIOUS
<1> USE DEF Init
<1>1. \A S : <<>> \in Seq(S) BY EmptySeq
<1>2. TypeOK BY <1>1, EventBusAssumption DEF TypeOK
<1>3. ChannelBooks BY DEF ChannelBooks, Registered
<1>4. \A t \in Threads : Idle(t) /\ Height(t) = 0 /\ DOMAIN stack[t] = {} BY EmptySeq DEF Idle, Height
<1>5. Nested /\ Waits /\ Posters BY <1>4, EventBusAssumption DEF Nested, Waits, WaitsRight, Posters, PostsRight, Within
<1>6. ASSUME NEW l \in Listeners PROVE CallsCounted(l)
 <2>1. Invocations(l) = {} BY <1>4 DEF Invocations
 <2> QED BY <2>1, FS_EmptySet DEF CallsCounted
<1>7. CallBooks /\ AllQuiet BY <1>6 DEF CallBooks, AllQuiet
<1>8. Lines /\ TicketBooks BY DEF Lines, InLine, TicketBooks
<1> QED BY <1>2, <1>3, <1>5, <1>7, <1>8 DEF IInv

LEMMA NextInv == IInv /\ [Next]_vars => IInv'
<1> SUFFICES ASSUME IInv, [Next]_vars PROVE IInv' OBVIOUS
<1>1. CASE Next
 <2>0. /\ TypeOK /\ ChannelBooks /\ Nested /\ Waits /\ Posters
       /\ CallBooks /\ AllQuiet /\ Lines /\ TicketBooks
   BY DEF IInv
 <2>1. PICK t \in Threads : Nested' /\ OthersStay(t) /\ (Waiter(t) \/ Holder(t) \/ Freed(t)) BY <1>1, <2>0, StepKinds
 <2>2. ChannelBooks' /\ RegistryTypes' /\ GatesClose BY <1>1, <2>0, RegistryStep
 <2>3. /\ CallBooks' /\ running' \in [Listeners -> Nat]
       /\ \A l \in Listeners : l \notin active /\ Invocations(l) = {} => Invocations(l)' = {}
   BY <1>1, <2>0, CallsStep
 <2>4. AllQuiet' /\ released' \subseteq Listeners BY <1>1, <2>2, <2>3, QuietStep
 <2>5. Waits' BY <2>0, <2>1, <2>2, WaitsStep
 <2>6. Posters' /\ posting' \in [Listeners -> Threads \cup {Nobody}] BY <2>0, <2>1, PostersStep
 <2>7. TicketBooks' /\ Lines' /\ line' \in [Listeners -> Seq(DOMAIN ticket')] BY <2>0, <2>1, TicketsStep
 <2>8. ticket' \in Seq(Tickets) /\ publications' \in Nat BY <2>0, <2>1, TicketTypesStep
 <2>9. stack' \in [Threads -> Seq(Frames')] BY <1>1, <2>0, StacksStep
 <2>10. TypeOK' BY <2>2, <2>3, <2>4, <2>6, <2>7, <2>8, <2>9 DEF TypeOK, RegistryTypes
 <2> QED BY <2>1, <2>2, <2>3, <2>4, <2>5, <2>6, <2>7, <2>10 DEF IInv
<1>2. CASE UNCHANGED vars
 <2> USE <1>2 DEF vars
 <2>1. TypeOK' /\ ChannelBooks' BY DEF IInv, TypeOK, ChannelBooks, Registered, Frames, Tickets
 <2>2. Nested' /\ Waits' /\ Posters'
   BY DEF IInv, Nested, NestedAt, Height, Frame, Waits, WaitsRight, Posters, PostsRight, Within, Idle, Top, Invoked
 <2>3. \A l : Invocations(l)' = Invocations(l) BY DEF Invocations, Frame
 <2>4. CallBooks' /\ AllQuiet' BY <2>3 DEF IInv, CallBooks, CallsCounted, AllQuiet, Quiet
 <2>5. Lines' /\ TicketBooks'
   BY DEF IInv, Lines, InLine, TicketBooks, Settled, OneHand, Hands, Holds, Works, Within, Idle, Top
 <2> QED BY <2>1, <2>2, <2>4, <2>5 DEF IInv
<1> QED BY <1>1, <1>2

THEOREM Invariant == Spec => []IInv
  BY InitInv, NextInv, PTL DEF Spec

--------------------
\* What is required of the bus.

\* Every variable stays in its range: what a thread is inside of and what a
\* target has accepted refer to tickets that exist, and the channel holds
\* no listener that is yet to be registered.
THEOREM TypeCorrect == Spec => []TypeOK
  BY Invariant, PTL DEF IInv

\* Once a wait for a listener has returned, its callback is not running on
\* any thread and will not run again, however many publications, tickets
\* and nested invocations were under way when it was removed.
THEOREM WaitIsFinal == Spec => []NoCallAfterWait
<1>1. IInv => NoCallAfterWait BY DEF IInv, AllQuiet, Quiet, NoCallAfterWait
<1> QED BY <1>1, Invariant, PTL

\* The bus's books agree: closing leaves no gate open, the registry's count
\* is the length of the channel, the open gates are those of the registered
\* listeners, a listener's count is that of its invocations on all stacks,
\* and every ticket is settled exactly once.
THEOREM BooksAlwaysAgree == Spec => []BooksAgree
<1>1. IInv => BooksAgree
 <2> SUFFICES ASSUME IInv PROVE BooksAgree OBVIOUS
 <2>1. TypeOK /\ count = Len(channel) /\ active = Registered BY DEF IInv, ChannelBooks
 <2>2. closed => active = {}
  <3>1. closed => DOMAIN channel = {} BY DEF IInv, ChannelBooks
  <3> QED BY <2>1, <3>1 DEF Registered
 <2>3. RunningExact BY DEF IInv, CallBooks, CallsCounted, RunningExact
 <2>4. TicketSettledOnce BY <2>1, TicketTypes DEF IInv, TicketBooks, Settled, TicketSettledOnce
 <2> QED BY <2>1, <2>2, <2>3, <2>4 DEF BooksAgree
<1> QED BY <1>1, Invariant, PTL

\* No thread waits for a callback it is itself inside of, and none runs a
\* callback or an error sink while it holds a listener's posting lock.
THEOREM NeverInItsOwnWay == Spec => []NoSelfDeadlock
<1>1. IInv => NoSelfDeadlock
 <2> SUFFICES ASSUME IInv, NEW t \in Threads
     PROVE  /\ Within(t, "wait") => Top(t).listener \notin Invoked(t)
            /\ InUserCode(t) => \A l \in Listeners : posting[l] # t
   BY DEF NoSelfDeadlock
 <2>1. Within(t, "wait") => Top(t).listener \notin Invoked(t) BY DEF IInv, Waits, WaitsRight
 <2>2. \A l \in Listeners : posting[l] = t => Within(t, "post") BY DEF IInv, Posters, PostsRight
 <2>3. InUserCode(t) => ~Within(t, "post") BY DEF InUserCode, Within, Idle
 <2> QED BY <2>1, <2>2, <2>3
<1> QED BY <1>1, Invariant, PTL
====================
