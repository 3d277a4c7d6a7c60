---- MODULE ProcessProofs ----
\* What all parts of a process use: memory, for any owners that do not
\* overlap, any lengths, requests and callers, and the objects in it, for
\* any number of slots and builders.  The locked bookkeeping of blocks and
\* the phases of a slot have an inductive invariant each.  Logs, for any
\* number of callers, logs and records, and what the parts' invariants say
\* of the process as a whole.
EXTENDS MCServices, ServiceProofs, SequenceTheorems, FiniteSetTheorems, TLAPS

\* ---- Blocks of memory. ----
Block == [owner : Owners, head : Nat \ {0}, align : {1, 2, 4, 8}, length : Nat \ {0}]
AlignedBlocks == {b \in Block : b.align = AlignmentOf(b.head)}
Positive == Nat \ {0}
Calls == {NoCall} \cup [at : {"asking"}, count : Positive, alignment : Nat]
                  \cup [at : {"allocated"}, count : Positive, alignment : Nat, fresh : AlignedBlocks]
                  \cup [at : {"constructing"}, next : Nat, left : Positive]
BlockTypes == void \in BOOLEAN /\ request \in [Requesters -> Calls]

\* Two spans share no address.
SpansApart(a, b) == a.head + a.length <= b.head \/ b.head + b.length <= a.head
IsWithin(a, b) == b.head <= a.head /\ a.head + a.length <= b.head + b.length
Split(sect, o) == \E s \in sect : s.owner = o.owner

\* Owners, and the sections that tile each owner that is split.
Owned(reg) ==
  /\ reg \subseteq AlignedBlocks
  /\ \A o \in reg : o.head = Base[o.owner] /\ o.length \in Lengths
  /\ \A o, p \in reg : o.owner = p.owner => o = p
Tiled(sect, reg) ==
  /\ sect \subseteq AlignedBlocks
  /\ \A s \in sect : \E o \in reg : o.owner = s.owner /\ s # o /\ IsWithin(s, o)
  /\ \A o \in reg : Split(sect, o) => \A x \in Span(o) : \E s \in sect : s.owner = o.owner /\ x \in Span(s)
  /\ \A s, t \in sect : s # t => s.owner # t.owner \/ SpansApart(s, t)
FreeWell(spare, sect, reg) ==
  /\ \A b \in spare : b \in sect \/ (b \in reg /\ ~Split(sect, b))
  /\ \A a, b \in spare : ~Contiguous(a, b)
LentIs(out, spare, reg) ==
  \A x : x \in out <=> (\E o \in reg : x \in Span(o)) /\ ~\E b \in spare : x \in Span(b)
Queued(old, going, spare, reg) ==
  /\ old \cup going = reg \cap spare /\ old \cap going = {}

\* What callers hold: objects, those that die, and slots yet to construct.
Todo(w) == w.next .. (w.next + w.left - 1)
Building(calls, c) == calls[c].at = "constructing"
Users(bytes, calls, out, alive, ending) ==
  /\ bytes => alive = {} /\ ending = {} /\ \A c \in Requesters : ~Building(calls, c)
  /\ alive \cup ending \subseteq out /\ alive \cap ending = {}
  /\ \A c \in Requesters : Building(calls, c) =>
        Todo(calls[c]) \subseteq out /\ Todo(calls[c]) \cap (alive \cup ending) = {}
  /\ \A c, d \in Requesters : c # d /\ Building(calls, c) /\ Building(calls, d) => Todo(calls[c]) \cap Todo(calls[d]) = {}
Fresh(calls, reg) ==
  /\ \A c \in Requesters : calls[c].at = "allocated" =>
        LET b == calls[c].fresh IN
        /\ b.head = Base[b.owner] /\ b.length \in Lengths /\ calls[c].count <= b.length
        /\ \A o \in reg : o.owner # b.owner
  /\ \A c, d \in Requesters : c # d /\ calls[c].at = "allocated" /\ calls[d].at = "allocated" =>
        calls[c].fresh.owner # calls[d].fresh.owner

BlocksInv ==
  /\ BlockTypes /\ Owned(registry) /\ Tiled(sections, registry) /\ FreeWell(pool, sections, registry)
  /\ LentIs(lent, pool, registry) /\ Queued(stale, release, pool, registry)
  /\ Users(void, request, lent, slots, dying) /\ Fresh(request, registry)

--------------------
\* Addresses and alignment.

LEMMA SpanOf ==
  ASSUME NEW b \in Block
  PROVE  /\ b.head \in Nat \ {0} /\ b.length \in Nat \ {0} /\ b.owner \in Owners /\ b.head \in Span(b)
         /\ \A x : x \in Span(b) <=> x \in Int /\ b.head <= x /\ x < b.head + b.length
<1>1. b.head \in Nat \ {0} /\ b.length \in Nat \ {0} /\ b.owner \in Owners BY DEF Block
<1> QED BY <1>1 DEF Span

LEMMA ApartShareNothing ==
  ASSUME NEW a \in Block, NEW b \in Block
  PROVE  SpansApart(a, b) <=> Span(a) \cap Span(b) = {}
<1>1. /\ a.head \in Nat \ {0} /\ a.length \in Nat \ {0} /\ b.head \in Nat \ {0} /\ b.length \in Nat \ {0}
      /\ \A x : x \in Span(a) <=> x \in Int /\ a.head <= x /\ x < a.head + a.length
      /\ \A x : x \in Span(b) <=> x \in Int /\ b.head <= x /\ x < b.head + b.length
  BY SpanOf
<1>2. CASE SpansApart(a, b) BY <1>1, <1>2 DEF SpansApart
<1>3. CASE ~SpansApart(a, b)
 <2>1. CASE a.head <= b.head
  <3>1. b.head \in Span(a) /\ b.head \in Span(b) BY <1>1, <1>3, <2>1 DEF SpansApart
  <3> QED BY <1>3, <3>1
 <2>2. CASE ~(a.head <= b.head)
  <3>1. a.head \in Span(a) /\ a.head \in Span(b) BY <1>1, <1>3, <2>2 DEF SpansApart
  <3> QED BY <1>3, <3>1
 <2> QED BY <2>1, <2>2
<1> QED BY <1>2, <1>3

LEMMA WithinIsPart ==
  ASSUME NEW a \in Block, NEW b \in Block, IsWithin(a, b)
  PROVE  Span(a) \subseteq Span(b)
<1>1. /\ a.head \in Nat \ {0} /\ a.length \in Nat \ {0} /\ b.head \in Nat \ {0} /\ b.length \in Nat \ {0}
      /\ \A x : x \in Span(a) <=> x \in Int /\ a.head <= x /\ x < a.head + a.length
      /\ \A x : x \in Span(b) <=> x \in Int /\ b.head <= x /\ x < b.head + b.length
  BY SpanOf
<1> QED BY <1>1 DEF IsWithin

LEMMA AlignmentIsKnown ==
  ASSUME NEW n \in Nat \ {0}
  PROVE  AlignmentOf(n) \in {1, 2, 4, 8}
<1>1. \E a \in {1, 2, 4, 8} : n % a = 0 /\ (a = 8 \/ n % (2 * a) # 0)
 <2>1. n % 1 = 0 OBVIOUS
 <2>2. CASE n % 2 # 0 BY <2>1, <2>2
 <2>3. CASE n % 2 = 0 /\ n % 4 # 0 BY <2>3
 <2>4. CASE n % 4 = 0 /\ n % 8 # 0 BY <2>4
 <2>5. CASE n % 8 = 0 BY <2>5
 <2>6. n % 2 = 0 \/ n % 4 # 0 OBVIOUS
 <2> QED BY <2>2, <2>3, <2>4, <2>5, <2>6
<1> QED BY <1>1 DEF AlignmentOf

LEMMA SliceOf ==
  ASSUME NEW b \in AlignedBlocks, NEW offset \in Nat, NEW length \in Nat \ {0}
  PROVE  /\ Slice(b, offset, length) \in AlignedBlocks
         /\ Slice(b, offset, length).owner = b.owner
         /\ Slice(b, offset, length).head = b.head + offset
         /\ Slice(b, offset, length).length = length
<1>1. PICK s : s = Slice(b, offset, length) OBVIOUS
<1>2. b \in Block /\ b.head \in Nat \ {0} /\ b.align = AlignmentOf(b.head) BY DEF AlignedBlocks, Block
<1>3. PICK h \in Nat \ {0} : h = b.head + offset BY <1>2
<1>4. PICK a \in {1, 2, 4, 8} : a = AlignmentOf(h) BY AlignmentIsKnown
<1>5. s = [b EXCEPT !.head = h, !.length = length, !.align = IF offset = 0 THEN b.align ELSE a]
  BY <1>1, <1>3, <1>4 DEF Slice
<1>6. offset = 0 => h = b.head BY <1>2, <1>3
<1>7. s \in Block /\ s.owner = b.owner /\ s.head = h /\ s.length = length /\ s.align = IF offset = 0 THEN b.align ELSE a
  BY <1>2, <1>5 DEF Block
<1>8. s.align = AlignmentOf(s.head) BY <1>2, <1>4, <1>6, <1>7
<1> QED BY <1>1, <1>3, <1>7, <1>8 DEF AlignedBlocks

LEMMA WholeSlice ==
  ASSUME NEW b \in AlignedBlocks
  PROVE  Slice(b, 0, b.length) = b
<1>1. b \in Block /\ b.head + 0 = b.head BY DEF AlignedBlocks, Block
<1> QED BY <1>1 DEF Slice, Block

LEMMA PointIsWithin ==
  ASSUME NEW b \in AlignedBlocks, NEW count \in Nat \ {0}, count <= b.length
  PROVE  SplitPoint(b, count) \in Nat \ {0} /\ count <= SplitPoint(b, count) /\ SplitPoint(b, count) <= b.length
<1>1. b.head \in Nat \ {0} /\ b.length \in Nat \ {0} /\ b.align \in {1, 2, 4, 8} BY DEF AlignedBlocks, Block
<1>2. PICK padding, n : /\ padding = [boundary \in {1, 2, 4, 8} |-> (boundary - ((b.head + count) % boundary)) % boundary]
                        /\ n = b.head + count
  OBVIOUS
<1>3. \A boundary \in {1, 2, 4, 8} : padding[boundary] \in Nat
 <2>1. n \in Nat BY <1>1, <1>2
 <2>2. /\ padding[1] = (1 - (n % 1)) % 1 /\ padding[2] = (2 - (n % 2)) % 2
       /\ padding[4] = (4 - (n % 4)) % 4 /\ padding[8] = (8 - (n % 8)) % 8
   BY <1>2
 <2>3. (1 - (n % 1)) % 1 \in Nat /\ (2 - (n % 2)) % 2 \in Nat /\ (4 - (n % 4)) % 4 \in Nat /\ (8 - (n % 8)) % 8 \in Nat
   BY <2>1
 <2> QED BY <2>2, <2>3
<1>4. PICK wide \in {1, 2, 4, 8}, narrow \in {1, 2, 4, 8} : /\ wide = IF b.align > 4 THEN b.align ELSE 4
                                                            /\ narrow = IF b.align < 2 THEN b.align ELSE 2
  BY <1>1
<1>5. SplitPoint(b, count) = IF ~void THEN count
                             ELSE IF padding[wide] < b.length - count THEN count + padding[wide]
                             ELSE IF padding[2] < b.length - count THEN count + padding[2]
                             ELSE IF padding[narrow] < b.length - count THEN count + padding[narrow]
                             ELSE b.length
  BY <1>2, <1>4 DEF SplitPoint
<1>6. padding[wide] \in Nat /\ padding[2] \in Nat /\ padding[narrow] \in Nat BY <1>3
<1>7. \A p \in Nat : p < b.length - count => count + p \in Nat \ {0} /\ count <= count + p /\ count + p <= b.length
  BY <1>1
<1>8. count \in Nat \ {0} /\ b.length \in Nat \ {0} /\ count <= count /\ b.length <= b.length BY <1>1
<1> QED BY <1>5, <1>6, <1>7, <1>8
--------------------
\* Owners and the sections that tile them.

\* What lies in one piece: a section, or an owner that is not split.
Leaf(b, sect, reg) == b \in sect \/ (b \in reg /\ ~Split(sect, b))

LEMMA OwnersApart ==
  ASSUME NEW reg, Owned(reg), NEW o \in reg, NEW p \in reg, o # p
  PROVE  o.owner # p.owner /\ SpansApart(o, p)
<1>1. o.owner # p.owner /\ o.owner \in Owners /\ p.owner \in Owners BY DEF Owned, AlignedBlocks, Block
<1>2. o.head = Base[o.owner] /\ p.head = Base[p.owner] /\ o.length \in Lengths /\ p.length \in Lengths BY DEF Owned
<1> QED BY <1>1, <1>2, ApartAssumption DEF SpansApart

LEMMA LeafOf ==
  ASSUME NEW reg, NEW sect, Owned(reg), Tiled(sect, reg), NEW b, Leaf(b, sect, reg)
  PROVE  b \in AlignedBlocks /\ b \in Block /\ \E o \in reg : o.owner = b.owner /\ IsWithin(b, o)
<1>1. \A o \in reg : o \in AlignedBlocks /\ o \in Block BY DEF Owned, AlignedBlocks
<1>2. CASE b \in sect BY <1>2 DEF Tiled, AlignedBlocks
<1>3. CASE b \in reg
 <2>1. b.head \in Nat /\ b.length \in Nat BY <1>1, <1>3 DEF Block
 <2>2. IsWithin(b, b) BY <2>1 DEF IsWithin
 <2> QED BY <1>1, <1>3, <2>2
<1> QED BY <1>2, <1>3 DEF Leaf

LEMMA LeavesApart ==
  ASSUME NEW reg, NEW sect, Owned(reg), Tiled(sect, reg), NEW a, NEW b, Leaf(a, sect, reg), Leaf(b, sect, reg), a # b
  PROVE  SpansApart(a, b)
<1>1. a \in Block /\ b \in Block BY LeafOf
<1>2. PICK o \in reg : o.owner = a.owner /\ IsWithin(a, o) BY LeafOf
<1>3. PICK p \in reg : p.owner = b.owner /\ IsWithin(b, p) BY LeafOf
<1>4. CASE o # p
 <2>1. SpansApart(o, p) /\ o \in Block /\ p \in Block BY <1>4, OwnersApart DEF Owned, AlignedBlocks
 <2>2. Span(o) \cap Span(p) = {} /\ Span(a) \subseteq Span(o) /\ Span(b) \subseteq Span(p)
   BY <1>1, <1>2, <1>3, <2>1, ApartShareNothing, WithinIsPart
 <2>3. Span(a) \cap Span(b) = {} BY <2>2
 <2> QED BY <1>1, <2>3, ApartShareNothing
<1>5. CASE o = p
 <2>1. a.owner = b.owner BY <1>2, <1>3, <1>5
 <2>2. CASE a \in sect /\ b \in sect BY <2>1, <2>2 DEF Tiled
 <2>3. CASE a \notin sect
  <3>1. a \in reg /\ ~Split(sect, a) BY <2>3 DEF Leaf
  <3>2. b \notin sect BY <2>1, <3>1 DEF Split
  <3> QED BY <2>1, <3>1, <3>2 DEF Leaf, Owned
 <2>4. CASE b \notin sect
  <3>1. b \in reg /\ ~Split(sect, b) BY <2>4 DEF Leaf
  <3>2. a \notin sect BY <2>1, <3>1 DEF Split
  <3> QED BY <2>1, <3>1, <3>2 DEF Leaf, Owned
 <2> QED BY <2>2, <2>3, <2>4
<1> QED BY <1>4, <1>5

\* The sections of an owner replaced by others that cover the same.
Covered(set, x) == \E b \in set : x \in Span(b)

LEMMA Retiled ==
  ASSUME NEW reg, NEW sect, Owned(reg), Tiled(sect, reg), NEW o \in reg,
         NEW gone, gone \subseteq sect, NEW newer, newer \subseteq AlignedBlocks,
         \A n \in newer : n.owner = o.owner /\ n # o /\ IsWithin(n, o),
         \A m, n \in newer : m # n => SpansApart(m, n),
         \A s \in gone : s.owner = o.owner,
         \/ Split(sect, o) /\ \A x : Covered(newer, x) <=> Covered(gone, x)
         \/ ~Split(sect, o) /\ \A x : Covered(newer, x) <=> x \in Span(o)
  PROVE  Tiled((sect \ gone) \cup newer, reg)
<1>1. PICK new : new = (sect \ gone) \cup newer OBVIOUS
<1>2. new \subseteq AlignedBlocks BY <1>1 DEF Tiled
<1>3. \A s \in new : \E p \in reg : p.owner = s.owner /\ s # p /\ IsWithin(s, p) BY <1>1 DEF Tiled
<1>4. ASSUME NEW p \in reg, Split(new, p), NEW x \in Span(p) PROVE \E s \in new : s.owner = p.owner /\ x \in Span(s)
 <2>1. CASE p = o
  <3>1. CASE Split(sect, o)
   <4>1. PICK s \in sect : s.owner = o.owner /\ x \in Span(s) BY <1>4, <2>1, <3>1 DEF Tiled
   <4>2. CASE s \in gone
    <5>1. Covered(newer, x) BY <3>1, <4>1, <4>2 DEF Covered
    <5> QED BY <1>1, <2>1, <5>1 DEF Covered
   <4>3. CASE s \notin gone BY <1>1, <2>1, <4>1, <4>3
   <4> QED BY <4>2, <4>3
  <3>2. CASE ~Split(sect, o)
   <4>1. Covered(newer, x) BY <1>4, <2>1, <3>2
   <4> QED BY <1>1, <2>1, <4>1 DEF Covered
  <3> QED BY <3>1, <3>2
 <2>2. CASE p # o
  <3>1. p.owner # o.owner BY <2>2 DEF Owned
  <3>2. \A s \in new : s.owner = p.owner => s \in sect BY <1>1, <3>1
  <3>3. Split(sect, p) BY <1>4, <3>2 DEF Split
  <3>4. PICK s \in sect : s.owner = p.owner /\ x \in Span(s) BY <1>4, <3>3 DEF Tiled
  <3> QED BY <1>1, <3>1, <3>4
 <2> QED BY <2>1, <2>2
<1>5. ASSUME NEW s \in sect \ gone, NEW n \in newer, s.owner = n.owner PROVE SpansApart(s, n) /\ SpansApart(n, s)
 <2>1. Split(sect, o) BY <1>5 DEF Split
 <2>2. s \in Block /\ n \in Block BY DEF Tiled, AlignedBlocks
 <2>3. Span(s) \cap Span(n) = {}
  <3>1. SUFFICES ASSUME NEW x \in Span(s), x \in Span(n) PROVE FALSE OBVIOUS
  <3>2. Covered(gone, x) BY <2>1, <3>1 DEF Covered
  <3>3. PICK t \in gone : x \in Span(t) BY <3>2 DEF Covered
  <3>4. t # s /\ t \in sect /\ s \in sect BY <3>3
  <3>5. Leaf(t, sect, reg) /\ Leaf(s, sect, reg) BY <3>4 DEF Leaf
  <3>6. SpansApart(t, s) /\ t \in Block BY <3>4, <3>5, LeavesApart, LeafOf
  <3> QED BY <2>2, <3>1, <3>3, <3>6, ApartShareNothing
 <2>4. Span(n) \cap Span(s) = {} BY <2>3
 <2> QED BY <2>2, <2>3, <2>4, ApartShareNothing
<1>6. ASSUME NEW s \in new, NEW t \in new, s # t, s.owner = t.owner PROVE SpansApart(s, t)
 <2>1. CASE s \in newer /\ t \in newer BY <1>6, <2>1
 <2>2. CASE s \notin newer /\ t \in newer BY <1>1, <1>5, <1>6, <2>2
 <2>3. CASE s \in newer /\ t \notin newer BY <1>1, <1>5, <1>6, <2>3
 <2>4. CASE s \notin newer /\ t \notin newer BY <1>1, <1>6, <2>4 DEF Tiled
 <2> QED BY <2>1, <2>2, <2>3, <2>4
<1> QED BY <1>1, <1>2, <1>3, <1>4, <1>6 DEF Tiled

LEMMA Untiled ==
  ASSUME NEW reg, NEW sect, Owned(reg), Tiled(sect, reg), NEW o \in reg,
         NEW less, \A s : s \in less <=> s \in sect /\ s.owner # o.owner
  PROVE  Tiled(less, reg)
<1>1. less \subseteq sect OBVIOUS
<1>2. ASSUME NEW p \in reg, Split(less, p), NEW x \in Span(p) PROVE \E s \in less : s.owner = p.owner /\ x \in Span(s)
 <2>1. p.owner # o.owner /\ Split(sect, p) BY <1>2 DEF Split
 <2>2. PICK s \in sect : s.owner = p.owner /\ x \in Span(s) BY <1>2, <2>1 DEF Tiled
 <2> QED BY <2>1, <2>2
<1>3. /\ less \subseteq AlignedBlocks
      /\ \A s \in less : \E p \in reg : p.owner = s.owner /\ s # p /\ IsWithin(s, p)
      /\ \A s, t \in less : s # t => s.owner # t.owner \/ SpansApart(s, t)
  BY <1>1 DEF Tiled
<1> QED BY <1>2, <1>3 DEF Tiled
--------------------
\* A block leaves the pool.

PartsOf(b, point, sect) ==
  IF point < b.length THEN {Slice(b, 0, point), Slice(b, point, b.length - point)}
  ELSE IF b \in sect THEN {Slice(b, 0, point)} ELSE {}
SectionsLeft(b, point, sect) == (sect \ {b}) \cup PartsOf(b, point, sect)
FreeLeft(b, point, sect, spare) == (spare \ {b}) \cup (PartsOf(b, point, sect) \ {Slice(b, 0, point)})
BlockBooks(sect, reg, spare, out, old, going) ==
  Owned(reg) /\ Tiled(sect, reg) /\ FreeWell(spare, sect, reg) /\ LentIs(out, spare, reg) /\ Queued(old, going, spare, reg)

LEMMA SectionIsNoOwner ==
  ASSUME NEW reg, NEW sect, Owned(reg), Tiled(sect, reg), NEW s \in sect
  PROVE  s \notin reg
  BY DEF Owned, Tiled

LEMMA TakenWhole ==
  ASSUME NEW sect, NEW reg, NEW spare, NEW out, NEW old, NEW going, BlockBooks(sect, reg, spare, out, old, going), NEW b \in spare
  PROVE  BlockBooks(sect, reg, spare \ {b}, out \cup Span(b), old \ {b}, going \ {b})
<1>1. Owned(reg) /\ Tiled(sect, reg) /\ FreeWell(spare, sect, reg) /\ LentIs(out, spare, reg) /\ Queued(old, going, spare, reg)
  BY DEF BlockBooks
<1>2. \A f \in spare : Leaf(f, sect, reg) /\ f \in Block
 <2>1. \A f \in spare : Leaf(f, sect, reg) BY <1>1 DEF FreeWell, Leaf
 <2> QED BY <1>1, <2>1, LeafOf
<1>3. \A f \in spare \ {b} : Span(f) \cap Span(b) = {} BY <1>1, <1>2, LeavesApart, ApartShareNothing
<1>4. \A x \in Span(b) : \E o \in reg : x \in Span(o) BY <1>1, <1>2, LeafOf, WithinIsPart DEF Owned, AlignedBlocks
<1>5. LentIs(out \cup Span(b), spare \ {b}, reg)
 <2>1. SUFFICES ASSUME NEW x
                PROVE  x \in out \cup Span(b) <=> (\E o \in reg : x \in Span(o)) /\ ~\E f \in spare \ {b} : x \in Span(f)
   BY DEF LentIs
 <2>2. x \in out <=> (\E o \in reg : x \in Span(o)) /\ ~\E f \in spare : x \in Span(f) BY <1>1 DEF LentIs
 <2>3. CASE x \in Span(b) BY <1>3, <1>4, <2>3
 <2>4. CASE x \notin Span(b) BY <2>2, <2>4
 <2> QED BY <2>3, <2>4
<1>6. FreeWell(spare \ {b}, sect, reg) BY <1>1 DEF FreeWell
<1>7. Queued(old \ {b}, going \ {b}, spare \ {b}, reg) BY <1>1 DEF Queued
<1> QED BY <1>1, <1>5, <1>6, <1>7 DEF BlockBooks

LEMMA TakenFront ==
  ASSUME NEW sect, NEW reg, NEW spare, NEW out, NEW old, NEW going, BlockBooks(sect, reg, spare, out, old, going), NEW b \in spare,
         NEW head \in AlignedBlocks, NEW tail \in AlignedBlocks, head.owner = b.owner, tail.owner = b.owner,
         head.head = b.head, head.length + tail.length = b.length, tail.head = b.head + head.length
  PROVE  BlockBooks((sect \ {b}) \cup {head, tail}, reg, (spare \ {b}) \cup {tail}, out \cup Span(head), old \ {b}, going \ {b})
<1>1. Owned(reg) /\ Tiled(sect, reg) /\ FreeWell(spare, sect, reg) /\ LentIs(out, spare, reg) /\ Queued(old, going, spare, reg)
  BY DEF BlockBooks
<1>2. \A f \in spare : Leaf(f, sect, reg) /\ f \in Block /\ f \in AlignedBlocks
 <2>1. \A f \in spare : Leaf(f, sect, reg) BY <1>1 DEF FreeWell, Leaf
 <2> QED BY <1>1, <2>1, LeafOf
<1>3. head \in Block /\ tail \in Block /\ b \in Block BY <1>2 DEF AlignedBlocks
<1>4. /\ head.head \in Nat \ {0} /\ head.length \in Nat \ {0} /\ tail.head \in Nat \ {0} /\ tail.length \in Nat \ {0}
      /\ b.head \in Nat \ {0} /\ b.length \in Nat \ {0}
  BY <1>3, SpanOf
<1>5. \A x : /\ x \in Span(b) <=> x \in Int /\ b.head <= x /\ x < b.head + b.length
             /\ x \in Span(head) <=> x \in Int /\ b.head <= x /\ x < tail.head
             /\ x \in Span(tail) <=> x \in Int /\ tail.head <= x /\ x < b.head + b.length
 <2>1. /\ \A x : x \in Span(b) <=> x \in Int /\ b.head <= x /\ x < b.head + b.length
       /\ \A x : x \in Span(head) <=> x \in Int /\ head.head <= x /\ x < head.head + head.length
       /\ \A x : x \in Span(tail) <=> x \in Int /\ tail.head <= x /\ x < tail.head + tail.length
   BY <1>3, SpanOf
 <2>2. head.head + head.length = tail.head /\ tail.head + tail.length = b.head + b.length BY <1>4
 <2> QED BY <2>1, <2>2
<1>6. b.head < tail.head /\ tail.head < b.head + b.length BY <1>4
<1>7. \A x : /\ x \in Span(b) <=> x \in Span(head) \/ x \in Span(tail)
             /\ ~(x \in Span(head) /\ x \in Span(tail))
 <2>1. SUFFICES ASSUME NEW x PROVE (x \in Span(b) <=> x \in Span(head) \/ x \in Span(tail)) /\ ~(x \in Span(head) /\ x \in Span(tail))
   OBVIOUS
 <2>2. CASE x \in Int BY <1>4, <1>5, <1>6, <2>2
 <2>3. CASE x \notin Int BY <1>5, <2>3
 <2> QED BY <2>2, <2>3
<1>8. PICK o \in reg : /\ o.owner = b.owner /\ IsWithin(b, o) /\ o \in Block
                       /\ (b \in sect /\ Split(sect, o)) \/ (b \notin sect /\ ~Split(sect, o) /\ o = b)
 <2>1. PICK o \in reg : o.owner = b.owner /\ IsWithin(b, o) BY <1>1, <1>2, LeafOf
 <2>2. o \in Block BY <1>1 DEF Owned, AlignedBlocks
 <2>3. CASE b \in sect BY <2>1, <2>2, <2>3 DEF Split
 <2>4. CASE b \notin sect
  <3>1. b \in reg /\ ~Split(sect, b) BY <1>2, <2>4 DEF Leaf
  <3>2. o = b BY <1>1, <2>1, <3>1 DEF Owned
  <3> QED BY <2>1, <2>2, <2>4, <3>1, <3>2
 <2> QED BY <2>3, <2>4
<1>9. /\ IsWithin(head, o) /\ IsWithin(tail, o) /\ head # o /\ tail # o
      /\ SpansApart(head, tail) /\ SpansApart(tail, head) /\ head # tail
 <2>1. o.head \in Nat /\ o.length \in Nat /\ o.head <= b.head /\ b.head + b.length <= o.head + o.length
   BY <1>8 DEF IsWithin, Block
 <2>2. head.length < o.length /\ tail.length < o.length BY <1>4, <2>1
 <2>3. IsWithin(head, o) /\ IsWithin(tail, o) BY <1>4, <2>1 DEF IsWithin
 <2>4. SpansApart(head, tail) /\ SpansApart(tail, head) BY <1>4 DEF SpansApart
 <2>5. head # tail BY <1>4
 <2>6. head # o /\ tail # o
  <3>1. \A n \in Nat : ~(n < n) OBVIOUS
  <3> QED BY <2>1, <2>2, <3>1
 <2> QED BY <2>3, <2>4, <2>5, <2>6
<1>10. PICK next : next = (sect \ {b}) \cup {head, tail} OBVIOUS
<1>11. Tiled(next, reg)
 <2>1. PICK gone : gone = sect \cap {b} OBVIOUS
 <2>2. PICK newer : newer = {head, tail} OBVIOUS
 <2>3. next = (sect \ gone) \cup newer /\ gone \subseteq sect /\ newer \subseteq AlignedBlocks BY <1>10, <2>1, <2>2
 <2>4. /\ \A n \in newer : n.owner = o.owner /\ n # o /\ IsWithin(n, o)
       /\ \A m, n \in newer : m # n => SpansApart(m, n)
       /\ \A s \in gone : s.owner = o.owner
   BY <1>8, <1>9, <2>1, <2>2
 <2>5. \A x : Covered(newer, x) <=> x \in Span(b) BY <1>7, <2>2 DEF Covered
 <2>6. b \in sect => \A x : Covered(gone, x) <=> x \in Span(b) BY <2>1 DEF Covered
 <2>7. \/ Split(sect, o) /\ \A x : Covered(newer, x) <=> Covered(gone, x)
       \/ ~Split(sect, o) /\ \A x : Covered(newer, x) <=> x \in Span(o)
   BY <1>8, <2>5, <2>6
 <2>8. Tiled((sect \ gone) \cup newer, reg) BY <1>1, <2>3, <2>4, <2>7, Retiled
 <2> QED BY <2>3, <2>8
<1>12. PICK rest : rest = (spare \ {b}) \cup {tail} OBVIOUS
<1>13. FreeWell(rest, next, reg)
 <2>1. ASSUME NEW f \in rest PROVE f \in next \/ (f \in reg /\ ~Split(next, f))
  <3>1. CASE f = tail BY <1>10, <3>1
  <3>2. CASE f # tail /\ f \in sect BY <1>10, <1>12, <3>2
  <3>3. CASE f # tail /\ f \notin sect
   <4>1. f \in spare /\ f # b /\ f \in reg /\ ~Split(sect, f) BY <1>1, <1>12, <3>3 DEF FreeWell
   <4>2. f.owner # b.owner
    <5>1. CASE b \in sect BY <4>1, <5>1 DEF Split
    <5>2. CASE b \notin sect BY <1>1, <1>8, <4>1, <5>2 DEF Owned
    <5> QED BY <5>1, <5>2
   <4>3. ~Split(next, f) BY <1>10, <4>1, <4>2 DEF Split
   <4> QED BY <4>1, <4>3
  <3> QED BY <3>1, <3>2, <3>3
 <2>2. ASSUME NEW f \in rest, NEW g \in rest, Contiguous(f, g) PROVE FALSE
  <3>1. f.owner = g.owner /\ f.head + f.length = g.head BY <2>2 DEF Contiguous
  <3>2. CASE f = tail /\ g = tail BY <1>4, <3>1, <3>2
  <3>3. CASE f # tail /\ g # tail BY <1>1, <1>12, <2>2, <3>3 DEF FreeWell
  <3>4. CASE f = tail /\ g # tail
   <4>1. g \in spare /\ b.owner = g.owner /\ b.head + b.length = g.head BY <1>4, <1>12, <3>1, <3>4
   <4> QED BY <1>1, <4>1 DEF FreeWell, Contiguous
  <3>5. CASE f # tail /\ g = tail
   <4>1. f \in spare /\ f # b BY <1>12, <3>5
   <4>2. SpansApart(f, b) /\ f.head \in Nat /\ f.length \in Nat \ {0} BY <1>1, <1>2, <4>1, LeavesApart, SpanOf
   <4> QED BY <1>4, <1>6, <3>1, <3>5, <4>2 DEF SpansApart
  <3> QED BY <3>2, <3>3, <3>4, <3>5
 <2> QED BY <2>1, <2>2 DEF FreeWell
<1>14. LentIs(out \cup Span(head), rest, reg)
 <2>1. SUFFICES ASSUME NEW x
                PROVE  x \in out \cup Span(head) <=> (\E p \in reg : x \in Span(p)) /\ ~\E f \in rest : x \in Span(f)
   BY DEF LentIs
 <2>2. x \in out <=> (\E p \in reg : x \in Span(p)) /\ ~\E f \in spare : x \in Span(f) BY <1>1 DEF LentIs
 <2>3. CASE x \in Span(b)
  <3>1. x \in Span(o) BY <1>3, <1>8, <2>3, WithinIsPart
  <3>2. \A f \in spare : f # b => x \notin Span(f) BY <1>1, <1>2, <2>3, LeavesApart, ApartShareNothing
  <3>3. x \notin out BY <2>2, <2>3
  <3>4. (\E f \in rest : x \in Span(f)) <=> x \in Span(tail) BY <1>12, <3>2
  <3> QED BY <1>7, <2>3, <3>1, <3>3, <3>4
 <2>4. CASE x \notin Span(b)
  <3>1. x \notin Span(head) /\ x \notin Span(tail) BY <1>7, <2>4
  <3>2. (\E f \in rest : x \in Span(f)) <=> \E f \in spare : x \in Span(f) BY <1>12, <2>4, <3>1
  <3> QED BY <2>2, <3>1, <3>2
 <2> QED BY <2>3, <2>4
<1>15. Queued(old \ {b}, going \ {b}, rest, reg)
 <2>1. tail \notin reg BY <1>1, <1>10, <1>11, SectionIsNoOwner
 <2> QED BY <1>1, <1>12, <2>1 DEF Queued
<1> QED BY <1>1, <1>10, <1>11, <1>12, <1>13, <1>14, <1>15 DEF BlockBooks

LEMMA Taken ==
  ASSUME NEW sect, NEW reg, NEW spare, NEW out, NEW old, NEW going, BlockBooks(sect, reg, spare, out, old, going), NEW b \in spare,
         NEW point \in Nat \ {0}, point <= b.length
  PROVE  /\ BlockBooks(SectionsLeft(b, point, sect), reg, FreeLeft(b, point, sect, spare), out \cup Span(Slice(b, 0, point)), old \ {b}, going \ {b})
         /\ Slice(b, 0, point) \in Block /\ Slice(b, 0, point).head = b.head /\ Slice(b, 0, point).length = point
         /\ \A x \in Span(Slice(b, 0, point)) : x \notin out
<1>1. b \in AlignedBlocks /\ b \in Block
 <2>1. Leaf(b, sect, reg) BY DEF BlockBooks, FreeWell, Leaf
 <2> QED BY <2>1, LeafOf DEF BlockBooks
<1>2. b.head \in Nat \ {0} /\ b.length \in Nat \ {0} BY <1>1, SpanOf
<1>3. PICK head : head = Slice(b, 0, point) OBVIOUS
<1>4. head \in AlignedBlocks /\ head.owner = b.owner /\ head.head = b.head + 0 /\ head.length = point
  BY <1>1, <1>3, SliceOf
<1>5. head \in Block /\ head.head = b.head BY <1>2, <1>4 DEF AlignedBlocks
<1>6. Span(head) \subseteq Span(b)
 <2>1. IsWithin(head, b) BY <1>2, <1>4, <1>5 DEF IsWithin
 <2> QED BY <1>1, <1>5, <2>1, WithinIsPart
<1>7. \A x \in Span(head) : x \notin out BY <1>6 DEF BlockBooks, LentIs
<1>8. CASE point = b.length
 <2>1. head = b BY <1>1, <1>3, <1>8, WholeSlice
 <2>2. ~(point < b.length) BY <1>2, <1>8
 <2>3. SectionsLeft(b, point, sect) = sect /\ FreeLeft(b, point, sect, spare) = spare \ {b}
   BY <1>3, <2>1, <2>2 DEF SectionsLeft, FreeLeft, PartsOf
 <2>4. BlockBooks(sect, reg, spare \ {b}, out \cup Span(b), old \ {b}, going \ {b}) BY TakenWhole
 <2> QED BY <1>3, <1>4, <1>5, <1>7, <2>1, <2>3, <2>4
<1>9. CASE point < b.length
 <2>1. PICK tail : tail = Slice(b, point, b.length - point) OBVIOUS
 <2>2. b.length - point \in Nat \ {0} BY <1>2, <1>9
 <2>3. tail \in AlignedBlocks /\ tail.owner = b.owner /\ tail.head = b.head + point /\ tail.length = b.length - point
   BY <1>1, <2>1, <2>2, SliceOf
 <2>4. head.length + tail.length = b.length /\ tail.head = b.head + head.length /\ head # tail BY <1>2, <1>4, <1>5, <2>3
 <2>5. SectionsLeft(b, point, sect) = (sect \ {b}) \cup {head, tail} BY <1>3, <1>9, <2>1 DEF SectionsLeft, PartsOf
 <2>6. FreeLeft(b, point, sect, spare) = (spare \ {b}) \cup {tail} BY <1>3, <1>9, <2>1, <2>4 DEF FreeLeft, PartsOf
 <2>7. BlockBooks((sect \ {b}) \cup {head, tail}, reg, (spare \ {b}) \cup {tail}, out \cup Span(head), old \ {b}, going \ {b})
   BY <1>4, <1>5, <2>3, <2>4, TakenFront
 <2> QED BY <1>3, <1>4, <1>5, <1>7, <2>5, <2>6, <2>7
<1> QED BY <1>2, <1>8, <1>9

\* An owner that is allocated.
LEMMA Added ==
  ASSUME NEW sect, NEW reg, NEW spare, NEW out, NEW old, NEW going, BlockBooks(sect, reg, spare, out, old, going),
         NEW b \in AlignedBlocks, b.head = Base[b.owner], b.length \in Lengths, \A o \in reg : o.owner # b.owner
  PROVE  /\ BlockBooks(sect, reg \cup {b}, spare \cup {b}, out, old \cup {b}, going) /\ b \notin spare /\ b \notin sect /\ b \notin going
<1>1. Owned(reg) /\ Tiled(sect, reg) /\ FreeWell(spare, sect, reg) /\ LentIs(out, spare, reg) /\ Queued(old, going, spare, reg)
  BY DEF BlockBooks
<1>2. b \notin reg /\ ~Split(sect, b) /\ b \notin sect BY <1>1 DEF Tiled, Split
<1>3. b \notin spare /\ \A f \in spare : f.owner # b.owner
 <2>1. \A f \in spare : Leaf(f, sect, reg) BY <1>1 DEF FreeWell, Leaf
 <2>2. \A f \in spare : \E o \in reg : o.owner = f.owner BY <1>1, <2>1, LeafOf
 <2> QED BY <2>2
<1>4. b \in Block /\ b.head \in Nat \ {0} /\ b.length \in Nat \ {0} BY DEF AlignedBlocks, Block
<1>5. PICK more : more = reg \cup {b} OBVIOUS
<1>6. Owned(more) BY <1>1, <1>5 DEF Owned
<1>7. Tiled(sect, more) BY <1>1, <1>2, <1>5 DEF Tiled
<1>8. FreeWell(spare \cup {b}, sect, more)
 <2>1. \A f \in spare \cup {b} : f \in sect \/ (f \in more /\ ~Split(sect, f)) BY <1>1, <1>2, <1>5 DEF FreeWell
 <2>2. ASSUME NEW f \in spare \cup {b}, NEW g \in spare \cup {b}, Contiguous(f, g) PROVE FALSE
  <3>1. CASE f \in spare /\ g \in spare BY <1>1, <2>2, <3>1 DEF FreeWell
  <3>2. CASE f = b /\ g = b BY <1>4, <2>2, <3>2 DEF Contiguous
  <3>3. f.owner = g.owner BY <2>2 DEF Contiguous
  <3> QED BY <1>3, <3>1, <3>2, <3>3
 <2> QED BY <2>1, <2>2 DEF FreeWell
<1>9. LentIs(out, spare \cup {b}, more)
 <2>1. SUFFICES ASSUME NEW x
                PROVE  x \in out <=> (\E o \in more : x \in Span(o)) /\ ~\E f \in spare \cup {b} : x \in Span(f)
   BY DEF LentIs
 <2>2. x \in out <=> (\E o \in reg : x \in Span(o)) /\ ~\E f \in spare : x \in Span(f) BY <1>1 DEF LentIs
 <2>3. CASE x \in Span(b)
  <3>1. \A o \in reg : SpansApart(o, b) /\ o \in Block BY <1>2, <1>5, <1>6, OwnersApart DEF Owned, AlignedBlocks
  <3>2. \A o \in reg : x \notin Span(o) BY <1>4, <2>3, <3>1, ApartShareNothing
  <3> QED BY <2>2, <2>3, <3>2
 <2>4. CASE x \notin Span(b) BY <1>5, <2>2, <2>4
 <2> QED BY <2>3, <2>4
<1>10. Queued(old \cup {b}, going, spare \cup {b}, more) /\ b \notin going BY <1>1, <1>2, <1>3, <1>5 DEF Queued
<1> QED BY <1>2, <1>3, <1>5, <1>6, <1>7, <1>8, <1>9, <1>10 DEF BlockBooks
--------------------
\* A part of a block goes back.

LEMMA PartIsWithin ==
  ASSUME NEW a \in Block, NEW b \in Block, Span(a) \subseteq Span(b)
  PROVE  IsWithin(a, b)
<1>1. /\ a.head \in Nat \ {0} /\ a.length \in Nat \ {0} /\ b.head \in Nat \ {0} /\ b.length \in Nat \ {0}
      /\ \A x : x \in Span(a) <=> x \in Int /\ a.head <= x /\ x < a.head + a.length
      /\ \A x : x \in Span(b) <=> x \in Int /\ b.head <= x /\ x < b.head + b.length
  BY SpanOf
<1>2. PICK last \in Int : last = a.head + a.length - 1 BY <1>1
<1>3. a.head \in Span(a) /\ last \in Span(a) BY <1>1, <1>2
<1>4. a.head \in Span(b) /\ last \in Span(b) BY <1>3
<1>5. b.head <= a.head /\ last < b.head + b.length BY <1>1, <1>4
<1> QED BY <1>1, <1>2, <1>5 DEF IsWithin

\* What a returned part is joined with.
JoinedWell(j, piece, offset, count, original) ==
  /\ j.left = {b \in pool \cap sections : offset = 0 /\ Contiguous(b, piece)}
  /\ j.right = {b \in pool \cap sections : offset + count = original.length /\ Contiguous(piece, b)}
  /\ j.block \in AlignedBlocks /\ j.block.owner = piece.owner
  /\ \A x : x \in Span(j.block) <=> Covered(j.left, x) \/ x \in Span(piece) \/ Covered(j.right, x)
  /\ \A g : Contiguous(j.block, g) => (j.right = {} /\ Contiguous(piece, g)) \/ \E r \in j.right : Contiguous(r, g)
  /\ \A g : Contiguous(g, j.block) => (j.left = {} /\ Contiguous(g, piece)) \/ \E l \in j.left : Contiguous(g, l)

LEMMA JoinedOf ==
  ASSUME Owned(registry), Tiled(sections, registry), FreeWell(pool, sections, registry),
         NEW piece \in AlignedBlocks, NEW offset, NEW count, NEW original
  PROVE  JoinedWell(Joined(piece, offset, count, original), piece, offset, count, original)
<1>0. PICK j : j = Joined(piece, offset, count, original) OBVIOUS
<1>1. PICK left, right : /\ left = {b \in pool \cap sections : offset = 0 /\ Contiguous(b, piece)}
                         /\ right = {b \in pool \cap sections : offset + count = original.length /\ Contiguous(piece, b)}
  OBVIOUS
<1>2. PICK lb, rb : lb = (CHOOSE b \in left : TRUE) /\ rb = (CHOOSE b \in right : TRUE) OBVIOUS
<1>3. (left # {} => lb \in left) /\ (right # {} => rb \in right) BY <1>2
<1>4. PICK ll, rl, first : /\ ll = (IF left = {} THEN 0 ELSE lb.length) /\ rl = (IF right = {} THEN 0 ELSE rb.length)
                           /\ first = (IF left = {} THEN piece ELSE lb)
  OBVIOUS
<1>5. PICK block : block = [first EXCEPT !.length = ll + piece.length + rl] OBVIOUS
<1>6. j = [left |-> left, right |-> right, block |-> block] BY <1>0, <1>1, <1>2, <1>4, <1>5 DEF Joined
<1>7. j.left = left /\ j.right = right /\ j.block = block BY <1>6
<1>8. \A b \in sections : b \in Block /\ b \in AlignedBlocks /\ Leaf(b, sections, registry)
  BY DEF Tiled, AlignedBlocks, Leaf
<1>9. piece \in Block /\ piece.head \in Nat \ {0} /\ piece.length \in Nat \ {0} BY SpanOf DEF AlignedBlocks
<1>10. \A b \in left : /\ b \in AlignedBlocks /\ b \in Block /\ b.owner = piece.owner /\ b.head \in Nat \ {0} /\ b.length \in Nat \ {0}
                       /\ b.head + b.length = piece.head /\ Leaf(b, sections, registry)
  BY <1>1, <1>8, SpanOf DEF Contiguous
<1>11. \A b \in right : /\ b \in AlignedBlocks /\ b \in Block /\ b.owner = piece.owner /\ b.head \in Nat \ {0} /\ b.length \in Nat \ {0}
                        /\ piece.head + piece.length = b.head /\ Leaf(b, sections, registry)
  BY <1>1, <1>8, SpanOf DEF Contiguous
<1>12. left # {} => left = {lb}
 <2>1. SUFFICES ASSUME NEW b \in left, b # lb, left # {} PROVE FALSE BY <1>3
 <2>2. lb \in left BY <1>3, <2>1
 <2>3. SpansApart(b, lb) BY <1>10, <2>1, <2>2, LeavesApart
 <2> QED BY <1>9, <1>10, <2>1, <2>2, <2>3 DEF SpansApart
<1>13. right # {} => right = {rb}
 <2>1. SUFFICES ASSUME NEW b \in right, b # rb, right # {} PROVE FALSE BY <1>3
 <2>2. rb \in right BY <1>3, <2>1
 <2>3. SpansApart(b, rb) BY <1>11, <2>1, <2>2, LeavesApart
 <2> QED BY <1>9, <1>11, <2>1, <2>2, <2>3 DEF SpansApart
<1>14. /\ ll \in Nat /\ rl \in Nat /\ first \in AlignedBlocks /\ first \in Block /\ first.owner = piece.owner /\ first.head + ll = piece.head
       /\ left # {} => lb.length = ll /\ lb.head = first.head
       /\ right # {} => rb.length = rl
       /\ left = {} => ll = 0
       /\ right = {} => rl = 0
  BY <1>3, <1>4, <1>9, <1>10, <1>11
<1>15. PICK n \in Nat \ {0} : n = ll + piece.length + rl BY <1>9, <1>14
<1>16. block = [first EXCEPT !.length = n] BY <1>5, <1>15
<1>17. first.head \in Nat \ {0} BY <1>14, SpanOf
<1>18. /\ block \in Block /\ block.owner = piece.owner /\ block.head = first.head /\ block.length = n /\ block.align = first.align
  BY <1>14, <1>16 DEF Block
<1>19. block \in AlignedBlocks BY <1>14, <1>18 DEF AlignedBlocks
<1>20. block.head + n = piece.head + piece.length + rl BY <1>9, <1>14, <1>15, <1>17, <1>18
<1>21. ASSUME NEW x PROVE x \in Span(block) <=> Covered(left, x) \/ x \in Span(piece) \/ Covered(right, x)
 <2>1. x \in Span(block) <=> x \in Int /\ first.head <= x /\ x < piece.head + piece.length + rl BY <1>18, <1>20, SpanOf
 <2>2. x \in Span(piece) <=> x \in Int /\ piece.head <= x /\ x < piece.head + piece.length BY <1>9, SpanOf
 <2>3. Covered(left, x) <=> x \in Int /\ first.head <= x /\ x < piece.head
  <3>1. CASE left = {}
   <4>1. first.head = piece.head BY <1>14, <1>17, <3>1
   <4>2. ~(x \in Int /\ first.head <= x /\ x < piece.head) BY <1>9, <4>1
   <4> QED BY <3>1, <4>2 DEF Covered
  <3>2. CASE left # {}
   <4>1. Covered(left, x) <=> x \in Span(lb) BY <1>12, <3>2 DEF Covered
   <4>2. lb \in Block /\ lb.head = first.head /\ lb.head + lb.length = piece.head BY <1>3, <1>10, <1>14, <3>2
   <4> QED BY <4>1, <4>2, SpanOf
  <3> QED BY <3>1, <3>2
 <2>4. Covered(right, x) <=> x \in Int /\ piece.head + piece.length <= x /\ x < piece.head + piece.length + rl
  <3>1. CASE right = {}
   <4>1. ~(x \in Int /\ piece.head + piece.length <= x /\ x < piece.head + piece.length + rl) BY <1>9, <1>14, <3>1
   <4> QED BY <3>1, <4>1 DEF Covered
  <3>2. CASE right # {}
   <4>1. Covered(right, x) <=> x \in Span(rb) BY <1>13, <3>2 DEF Covered
   <4>2. rb \in Block /\ rb.head = piece.head + piece.length /\ rb.head + rb.length = piece.head + piece.length + rl
     BY <1>3, <1>11, <1>14, <3>2
   <4> QED BY <4>1, <4>2, SpanOf
  <3> QED BY <3>1, <3>2
 <2>5. first.head <= piece.head BY <1>14, <1>17
 <2>6. CASE x \in Int
  <3>1. PICK f \in Nat, p \in Nat, n1 \in Nat, n2 \in Nat : f = first.head /\ p = piece.head /\ n1 = piece.head + piece.length /\ n2 = n1 + rl
    BY <1>9, <1>14, <1>17
  <3>2. f <= p /\ p <= n1 /\ n1 <= n2 BY <1>9, <1>14, <2>5, <3>1
  <3>3. /\ x \in Span(block) <=> f <= x /\ x < n2
        /\ x \in Span(piece) <=> p <= x /\ x < n1
        /\ Covered(left, x) <=> f <= x /\ x < p
        /\ Covered(right, x) <=> n1 <= x /\ x < n2
    BY <2>1, <2>2, <2>3, <2>4, <2>6, <3>1
  <3>4. f <= x /\ x < n2 <=> (f <= x /\ x < p) \/ (p <= x /\ x < n1) \/ (n1 <= x /\ x < n2) BY <2>6, <3>2
  <3> QED BY <3>3, <3>4
 <2>7. CASE x \notin Int BY <2>1, <2>2, <2>3, <2>4, <2>7
 <2> QED BY <2>6, <2>7
<1>22. ASSUME NEW g, Contiguous(block, g) PROVE (right = {} /\ Contiguous(piece, g)) \/ \E r \in right : Contiguous(r, g)
 <2>1. g.owner = piece.owner /\ piece.head + piece.length + rl = g.head BY <1>18, <1>20, <1>22 DEF Contiguous
 <2>2. CASE right = {}
  <3>1. piece.head + piece.length = g.head BY <1>9, <1>14, <2>1, <2>2
  <3> QED BY <2>1, <2>2, <3>1 DEF Contiguous
 <2>3. CASE right # {}
  <3>1. rb \in right /\ rb.owner = g.owner /\ rb.head + rb.length = g.head BY <1>3, <1>9, <1>11, <1>14, <2>1, <2>3
  <3> QED BY <3>1 DEF Contiguous
 <2> QED BY <2>2, <2>3
<1>23. ASSUME NEW g, Contiguous(g, block) PROVE (left = {} /\ Contiguous(g, piece)) \/ \E l \in left : Contiguous(g, l)
 <2>1. g.owner = piece.owner /\ g.head + g.length = first.head BY <1>18, <1>23 DEF Contiguous
 <2>2. CASE left = {}
  <3>1. first.head = piece.head BY <1>4, <2>2
  <3> QED BY <2>1, <2>2, <3>1 DEF Contiguous
 <2>3. CASE left # {}
  <3>1. lb \in left /\ lb.owner = g.owner /\ g.head + g.length = lb.head BY <1>3, <1>10, <1>14, <2>1, <2>3
  <3> QED BY <3>1 DEF Contiguous
 <2> QED BY <2>2, <2>3
<1> QED BY <1>0, <1>1, <1>7, <1>18, <1>19, <1>21, <1>22, <1>23 DEF JoinedWell

\* What stays of a block of which a part goes back.
Remains(original, offset, count) ==
  {r \in {Slice(original, 0, offset), Slice(original, offset + count, original.length - offset - count)} : r.length > 0}

LEMMA RemainsOf ==
  ASSUME NEW original \in AlignedBlocks, NEW offset \in Nat, NEW count \in Nat \ {0}, offset + count <= original.length
  PROVE  /\ Slice(original, offset, count) \in AlignedBlocks /\ Slice(original, offset, count).owner = original.owner
         /\ Slice(original, offset, count).head = original.head + offset /\ Slice(original, offset, count).length = count
         /\ IsWithin(Slice(original, offset, count), original)
         /\ Remains(original, offset, count) \subseteq AlignedBlocks
         /\ \A r \in Remains(original, offset, count) :
              /\ r.owner = original.owner /\ r # original /\ IsWithin(r, original) /\ r.length < original.length
              /\ SpansApart(r, Slice(original, offset, count))
         /\ \A r, s \in Remains(original, offset, count) : r # s => SpansApart(r, s)
         /\ \A x : Covered(Remains(original, offset, count), x) <=> x \in Span(original) /\ x \notin Span(Slice(original, offset, count))
<1>1. PICK piece : piece = Slice(original, offset, count) OBVIOUS
<1>2. PICK after \in Nat, from \in Nat : from = offset + count /\ after = original.length - offset - count
  BY DEF AlignedBlocks, Block
<1>3. PICK front, back : front = Slice(original, 0, offset) /\ back = Slice(original, from, after) OBVIOUS
<1>4. original \in Block /\ original.head \in Nat \ {0} /\ original.length \in Nat \ {0} BY SpanOf DEF AlignedBlocks
<1>5. front.length = offset /\ back.length = after BY <1>3, <1>4 DEF Slice, Block
<1>6. piece \in AlignedBlocks /\ piece \in Block /\ piece.owner = original.owner /\ piece.head = original.head + offset /\ piece.length = count
  BY <1>1, SliceOf DEF AlignedBlocks
<1>7. offset # 0 => front \in AlignedBlocks /\ front \in Block /\ front.owner = original.owner /\ front.head = original.head
 <2>1. offset # 0 => front \in AlignedBlocks /\ front.owner = original.owner /\ front.head = original.head + 0
   BY <1>3, SliceOf
 <2> QED BY <1>4, <2>1 DEF AlignedBlocks
<1>8. after # 0 => back \in AlignedBlocks /\ back \in Block /\ back.owner = original.owner /\ back.head = original.head + from
  BY <1>3, SliceOf DEF AlignedBlocks
<1>9. PICK rest : rest = Remains(original, offset, count) OBVIOUS
<1>10. \A r : r \in rest <=> (r = front /\ offset # 0) \/ (r = back /\ after # 0) BY <1>2, <1>3, <1>5, <1>9 DEF Remains
<1>11. PICK h \in Nat \ {0}, n \in Nat \ {0} : h = original.head /\ n = original.length BY <1>4
<1>12. offset + count + after = n /\ from = offset + count BY <1>2, <1>11
<1>13. IsWithin(piece, original) BY <1>6, <1>11, <1>12 DEF IsWithin
<1>14. ASSUME NEW r \in rest
       PROVE  r \in AlignedBlocks /\ r.owner = original.owner /\ IsWithin(r, original) /\ r.length < original.length /\ SpansApart(r, piece)
 <2>1. CASE r = front /\ offset # 0 BY <1>5, <1>6, <1>7, <1>11, <1>12, <2>1 DEF IsWithin, SpansApart
 <2>2. CASE r = back /\ after # 0 BY <1>5, <1>6, <1>8, <1>11, <1>12, <2>2 DEF IsWithin, SpansApart
 <2> QED BY <1>10, <1>14, <2>1, <2>2
<1>15. \A r \in rest : r # original
 <2>1. \A k \in Nat : ~(k < k) OBVIOUS
 <2> QED BY <1>4, <1>14, <2>1
<1>16. ASSUME NEW r \in rest, NEW s \in rest, r # s PROVE SpansApart(r, s)
 <2>1. offset # 0 /\ after # 0 /\ ((r = front /\ s = back) \/ (r = back /\ s = front)) BY <1>10, <1>16
 <2> QED BY <1>5, <1>7, <1>8, <1>11, <1>12, <2>1 DEF SpansApart
<1>17. ASSUME NEW x PROVE Covered(rest, x) <=> x \in Span(original) /\ x \notin Span(piece)
 <2>1. Covered(rest, x) <=> (offset # 0 /\ x \in Span(front)) \/ (after # 0 /\ x \in Span(back)) BY <1>10 DEF Covered
 <2>2. x \in Span(original) <=> x \in Int /\ h <= x /\ x < h + n BY <1>4, <1>11, SpanOf
 <2>3. x \in Span(piece) <=> x \in Int /\ h + offset <= x /\ x < h + offset + count BY <1>6, <1>11, SpanOf
 <2>4. offset # 0 => (x \in Span(front) <=> x \in Int /\ h <= x /\ x < h + offset) BY <1>5, <1>7, <1>11, SpanOf
 <2>5. after # 0 => (x \in Span(back) <=> x \in Int /\ h + from <= x /\ x < h + from + after)
   BY <1>5, <1>8, <1>11, SpanOf
 <2>6. CASE x \in Int BY <1>11, <1>12, <2>1, <2>2, <2>3, <2>4, <2>5, <2>6
 <2>7. CASE x \notin Int BY <2>1, <2>2, <2>4, <2>5, <2>7
 <2> QED BY <2>6, <2>7
<1> QED BY <1>1, <1>6, <1>9, <1>13, <1>14, <1>15, <1>16, <1>17

LEMMA Restored ==
  ASSUME BlockBooks(sections, registry, pool, lent, stale, release), NEW original, NEW offset \in Nat, NEW count \in Nat,
         Returnable(original, offset, count), Return(original, offset, count)
  PROVE  /\ BlockBooks(sections', registry', pool', lent', stale', release')
         /\ original \in Block /\ lent' = lent \ ((original.head + offset) .. (original.head + offset + count - 1))
<1>1. /\ Owned(registry) /\ Tiled(sections, registry) /\ FreeWell(pool, sections, registry)
      /\ LentIs(lent, pool, registry) /\ Queued(stale, release, pool, registry)
  BY DEF BlockBooks
<1>2. count > 0 /\ offset + count <= original.length /\ original \notin pool BY DEF Returnable
<1>3. Leaf(original, sections, registry) BY DEF Returnable, Leaf, Split
<1>4. original \in AlignedBlocks /\ original \in Block BY <1>1, <1>3, LeafOf
<1>5. PICK piece, j, rest : piece = Slice(original, offset, count) /\ j = Joined(piece, offset, count, original) /\ rest = Remains(original, offset, count)
  OBVIOUS
<1>6. count \in Nat \ {0} BY <1>2
<1>7. /\ piece \in AlignedBlocks /\ piece.owner = original.owner /\ piece.head = original.head + offset /\ piece.length = count
      /\ IsWithin(piece, original) /\ rest \subseteq AlignedBlocks
      /\ \A r \in rest : /\ r.owner = original.owner /\ r # original /\ IsWithin(r, original) /\ r.length < original.length
                         /\ SpansApart(r, piece)
      /\ \A r, s \in rest : r # s => SpansApart(r, s)
      /\ \A x : Covered(rest, x) <=> x \in Span(original) /\ x \notin Span(piece)
  BY <1>2, <1>4, <1>5, <1>6, RemainsOf
<1>8. /\ j.left = {b \in pool \cap sections : offset = 0 /\ Contiguous(b, piece)}
      /\ j.right = {b \in pool \cap sections : offset + count = original.length /\ Contiguous(piece, b)}
      /\ j.block \in AlignedBlocks /\ j.block.owner = piece.owner
      /\ \A x : x \in Span(j.block) <=> Covered(j.left, x) \/ x \in Span(piece) \/ Covered(j.right, x)
      /\ \A g : Contiguous(j.block, g) => (j.right = {} /\ Contiguous(piece, g)) \/ \E r \in j.right : Contiguous(r, g)
      /\ \A g : Contiguous(g, j.block) => (j.left = {} /\ Contiguous(g, piece)) \/ \E l \in j.left : Contiguous(g, l)
 <2>1. JoinedWell(j, piece, offset, count, original) BY <1>1, <1>5, <1>7, JoinedOf
 <2> QED BY <2>1 DEF JoinedWell
<1>9. PICK left, right, block : left = j.left /\ right = j.right /\ block = j.block OBVIOUS
<1>10. /\ sections' = (sections \ ({original} \cup left \cup right)) \cup rest \cup (IF block \in registry THEN {} ELSE {block})
       /\ pool' = (pool \ (left \cup right)) \cup {block}
       /\ block \in registry => stale' = stale \cup {block} /\ release' = release \ {block}
       /\ block \notin registry => UNCHANGED <<stale, release>>
       /\ lent' = lent \ Span(piece) /\ registry' = registry
  BY <1>5, <1>9 DEF Return, Remains
<1>11. left \subseteq pool \cap sections /\ right \subseteq pool \cap sections /\ \A b \in left \cup right : b.owner = original.owner
  BY <1>7, <1>8, <1>9 DEF Contiguous
<1>12. PICK o \in registry : /\ o.owner = original.owner /\ IsWithin(original, o) /\ o \in Block
                             /\ (original \in sections /\ Split(sections, o)) \/ (original \notin sections /\ ~Split(sections, o) /\ o = original)
 <2>1. PICK o \in registry : o.owner = original.owner /\ IsWithin(original, o) BY <1>1, <1>3, LeafOf
 <2>2. o \in Block BY <1>1 DEF Owned, AlignedBlocks
 <2>3. CASE original \in sections BY <2>1, <2>2, <2>3 DEF Split
 <2>4. CASE original \notin sections
  <3>1. original \in registry /\ ~Split(sections, original) BY <1>3, <2>4 DEF Leaf
  <3>2. o = original BY <1>1, <2>1, <3>1 DEF Owned
  <3> QED BY <2>1, <2>2, <2>4, <3>1, <3>2
 <2> QED BY <2>3, <2>4
<1>13. original \notin sections => left = {} /\ right = {} BY <1>11, <1>12 DEF Split
<1>14. piece \in Block /\ block \in Block /\ block \in AlignedBlocks /\ rest \subseteq Block /\ block.owner = original.owner
  BY <1>7, <1>8, <1>9 DEF AlignedBlocks
<1>15. Span(piece) \subseteq Span(original) /\ Span(original) \subseteq Span(o)
  BY <1>4, <1>7, <1>12, <1>14, WithinIsPart
<1>16. \A b \in left \cup right : Leaf(b, sections, registry) /\ b \in Block /\ b # original /\ Span(b) \cap Span(original) = {}
 <2>1. \A b \in left \cup right : Leaf(b, sections, registry) /\ b # original BY <1>2, <1>11 DEF Leaf
 <2> QED BY <1>1, <1>3, <1>4, <2>1, LeafOf, LeavesApart, ApartShareNothing
<1>17. \A x : x \in Span(block) <=> Covered(left, x) \/ x \in Span(piece) \/ Covered(right, x) BY <1>8, <1>9
<1>18. \A r \in rest : Span(r) \subseteq Span(original) /\ Span(r) \cap Span(block) = {}
 <2>1. SUFFICES ASSUME NEW r \in rest, NEW x \in Span(r) PROVE x \in Span(original) /\ x \notin Span(block) OBVIOUS
 <2>2. Covered(rest, x) BY <2>1 DEF Covered
 <2>3. x \in Span(original) /\ x \notin Span(piece) BY <1>7, <2>2
 <2>4. ~Covered(left, x) /\ ~Covered(right, x) BY <1>16, <2>3 DEF Covered
 <2> QED BY <1>17, <2>3, <2>4
\* The free blocks keep apart, whatever becomes of the owner.
<1>19. \A f \in pool : Leaf(f, sections, registry) /\ f \in Block
 <2>1. \A f \in pool : Leaf(f, sections, registry) BY <1>1 DEF FreeWell, Leaf
 <2> QED BY <1>1, <2>1, LeafOf
<1>20. \A f \in pool : f \notin sections => f.owner # original.owner /\ f \in registry /\ ~Split(sections, f)
 <2>1. SUFFICES ASSUME NEW f \in pool, f \notin sections PROVE f.owner # original.owner /\ f \in registry /\ ~Split(sections, f)
   OBVIOUS
 <2>2. f \in registry /\ ~Split(sections, f) BY <1>19, <2>1 DEF Leaf
 <2>3. f.owner # original.owner
  <3>1. CASE original \in sections BY <2>2, <3>1 DEF Split
  <3>2. CASE original \notin sections BY <1>1, <1>2, <1>12, <2>2, <3>2 DEF Owned
  <3> QED BY <3>1, <3>2
 <2> QED BY <2>2, <2>3
<1>21. ASSUME NEW g \in pool, Contiguous(block, g) PROVE FALSE
 <2>1. ~\E r \in right : Contiguous(r, g) BY <1>1, <1>11 DEF FreeWell
 <2>2. right = {} /\ Contiguous(piece, g) BY <1>8, <1>9, <1>21, <2>1
 <2>3. g.owner = original.owner /\ original.head + offset + count = g.head BY <1>7, <2>2 DEF Contiguous
 <2>4. g \in sections BY <1>20, <2>3
 <2>5. offset + count # original.length BY <1>8, <1>9, <2>2, <2>4
 <2>6. SpansApart(g, original) BY <1>1, <1>2, <1>3, <1>19, LeavesApart
 <2>7. original.head \in Nat /\ original.length \in Nat \ {0} /\ g.head \in Nat /\ g.length \in Nat \ {0}
   BY <1>4, <1>19, SpanOf
 <2> QED BY <1>2, <2>3, <2>5, <2>6, <2>7 DEF SpansApart
<1>22. ASSUME NEW g \in pool, Contiguous(g, block) PROVE FALSE
 <2>1. ~\E l \in left : Contiguous(g, l) BY <1>1, <1>11 DEF FreeWell
 <2>2. left = {} /\ Contiguous(g, piece) BY <1>8, <1>9, <1>22, <2>1
 <2>3. g.owner = original.owner /\ g.head + g.length = original.head + offset BY <1>7, <2>2 DEF Contiguous
 <2>4. g \in sections BY <1>20, <2>3
 <2>5. offset # 0 BY <1>8, <1>9, <2>2, <2>4
 <2>6. SpansApart(g, original) BY <1>1, <1>2, <1>3, <1>19, LeavesApart
 <2>7. original.head \in Nat /\ original.length \in Nat \ {0} /\ g.head \in Nat /\ g.length \in Nat \ {0}
   BY <1>4, <1>19, SpanOf
 <2> QED BY <1>2, <2>3, <2>5, <2>6, <2>7 DEF SpansApart
<1>23. \A f, g \in pool' : ~Contiguous(f, g)
 <2>1. ~Contiguous(block, block) BY <1>14, SpanOf DEF Contiguous
 <2> QED BY <1>1, <1>10, <1>21, <1>22, <2>1 DEF FreeWell
\* Of the memory exactly the part is free now.
<1>24. LentIs(lent', pool', registry')
 <2>1. SUFFICES ASSUME NEW x
                PROVE  x \in lent' <=> (\E p \in registry : x \in Span(p)) /\ ~\E f \in pool' : x \in Span(f)
   BY <1>10 DEF LentIs
 <2>2. x \in lent <=> (\E p \in registry : x \in Span(p)) /\ ~\E f \in pool : x \in Span(f) BY <1>1 DEF LentIs
 <2>3. (\E f \in pool' : x \in Span(f)) <=> (\E f \in pool : x \in Span(f)) \/ x \in Span(piece)
  <3>1. (\E f \in pool' : x \in Span(f)) <=> (\E f \in pool \ (left \cup right) : x \in Span(f)) \/ x \in Span(block)
    BY <1>10
  <3>2. (\E f \in pool : x \in Span(f)) <=> (\E f \in pool \ (left \cup right) : x \in Span(f)) \/ Covered(left, x) \/ Covered(right, x)
    BY <1>11 DEF Covered
  <3> QED BY <1>17, <3>1, <3>2
 <2> QED BY <1>10, <2>2, <2>3
<1>25. lent' = lent \ ((original.head + offset) .. (original.head + offset + count - 1)) BY <1>7, <1>10 DEF Span
<1>26. \A b \in left \cup right : b \notin registry BY <1>1, <1>11, SectionIsNoOwner
<1>27. CASE block \notin registry
 <2>1. PICK gone, newer : gone = (sections \cap {original}) \cup left \cup right /\ newer = rest \cup {block} OBVIOUS
 <2>2. sections' = (sections \ gone) \cup newer BY <1>10, <1>11, <1>27, <2>1
 <2>3. gone \subseteq sections /\ newer \subseteq AlignedBlocks /\ \A s \in gone : s.owner = o.owner
   BY <1>7, <1>11, <1>12, <1>14, <2>1
 <2>4. \A x : x \in Span(block) => x \in Span(o)
  <3>1. SUFFICES ASSUME NEW x \in Span(block) PROVE x \in Span(o) OBVIOUS
  <3>2. CASE x \in Span(piece) BY <1>15, <3>2
  <3>3. CASE Covered(left, x) \/ Covered(right, x)
   <4>1. PICK b \in left \cup right : x \in Span(b) BY <3>3 DEF Covered
   <4>2. PICK p \in registry : p.owner = b.owner /\ IsWithin(b, p) BY <1>1, <1>16, <4>1, LeafOf
   <4>3. p = o BY <1>1, <1>11, <1>12, <4>1, <4>2 DEF Owned
   <4> QED BY <1>12, <1>16, <4>1, <4>2, <4>3, WithinIsPart
  <3> QED BY <1>17, <3>1, <3>2, <3>3
 <2>5. ASSUME NEW n \in newer PROVE n.owner = o.owner /\ n # o /\ IsWithin(n, o)
  <3>1. CASE n = block BY <1>12, <1>14, <1>27, <2>4, <3>1, PartIsWithin
  <3>2. CASE n \in rest
   <4>1. Span(n) \subseteq Span(o) /\ n \in Block BY <1>14, <1>15, <1>18, <3>2
   <4>2. n.length < original.length /\ n.length \in Nat /\ original.length \in Nat /\ o.length \in Nat /\ original.length <= o.length
    <5>1. o.head \in Nat /\ o.length \in Nat /\ original.head \in Nat /\ original.length \in Nat /\ n.length \in Nat
      BY <1>4, <1>12, <4>1, SpanOf
    <5> QED BY <1>7, <1>12, <3>2, <5>1 DEF IsWithin
   <4>3. n.length < o.length BY <4>2
   <4>4. n # o
    <5>1. \A k \in Nat : ~(k < k) OBVIOUS
    <5> QED BY <4>2, <4>3, <5>1
   <4> QED BY <1>7, <1>12, <3>2, <4>1, <4>4, PartIsWithin
  <3> QED BY <2>1, <2>5, <3>1, <3>2
 <2>6. \A m, n \in newer : m # n => SpansApart(m, n)
  <3>1. \A r \in rest : SpansApart(r, block) /\ SpansApart(block, r) BY <1>14, <1>18, ApartShareNothing
  <3> QED BY <1>7, <2>1, <3>1
 <2>7. \/ Split(sections, o) /\ \A x : Covered(newer, x) <=> Covered(gone, x)
       \/ ~Split(sections, o) /\ \A x : Covered(newer, x) <=> x \in Span(o)
  <3>1. \A x : Covered(newer, x) <=> Covered(rest, x) \/ x \in Span(block) BY <2>1 DEF Covered
  <3>2. \A x : Covered(newer, x) <=> x \in Span(original) \/ Covered(left, x) \/ Covered(right, x)
    BY <1>7, <1>15, <1>17, <3>1
  <3>3. CASE original \in sections
   <4>1. \A x : Covered(gone, x) <=> x \in Span(original) \/ Covered(left, x) \/ Covered(right, x)
     BY <2>1, <3>3 DEF Covered
   <4> QED BY <1>12, <3>2, <3>3, <4>1
  <3>4. CASE original \notin sections
   <4>1. \A x : ~Covered(left, x) /\ ~Covered(right, x) BY <1>13, <3>4 DEF Covered
   <4> QED BY <1>12, <3>2, <3>4, <4>1
  <3> QED BY <3>3, <3>4
 <2>8. Tiled((sections \ gone) \cup newer, registry) BY <1>1, <2>3, <2>5, <2>6, <2>7, Retiled
 <2>9. ASSUME NEW f \in pool' PROVE f \in sections' \/ (f \in registry /\ ~Split(sections', f))
  <3>1. CASE f = block BY <2>1, <2>2, <3>1
  <3>2. CASE f # block /\ f \in sections BY <1>2, <1>10, <1>27, <2>9, <3>2
  <3>3. CASE f # block /\ f \notin sections
   <4>1. f \in registry /\ f.owner # original.owner /\ ~Split(sections, f) BY <1>10, <1>20, <2>9, <3>3
   <4>2. ~Split(sections', f) BY <1>12, <2>2, <2>5, <4>1 DEF Split
   <4> QED BY <4>1, <4>2
  <3> QED BY <3>1, <3>2, <3>3
 <2>10. FreeWell(pool', sections', registry') BY <1>10, <1>23, <2>9 DEF FreeWell
 <2>11. Queued(stale', release', pool', registry') BY <1>1, <1>10, <1>26, <1>27 DEF Queued
 <2>12. Tiled(sections', registry') /\ Owned(registry') BY <1>1, <1>10, <2>2, <2>8
 <2> QED BY <1>4, <1>24, <1>25, <2>10, <2>11, <2>12 DEF BlockBooks
<1>28. CASE block \in registry
 <2>1. block = o BY <1>1, <1>12, <1>14, <1>28 DEF Owned
 <2>2. rest = {}
  <3>1. SUFFICES ASSUME NEW r \in rest PROVE FALSE OBVIOUS
  <3>2. r.head \in Span(r) BY <1>14, <3>1, SpanOf
  <3> QED BY <1>15, <1>18, <2>1, <3>1, <3>2
 <2>3. ASSUME NEW s PROVE s \in sections' <=> s \in sections /\ s.owner # o.owner
  <3>1. s \in sections' <=> s \in sections /\ s # original /\ s \notin left \cup right BY <1>10, <1>28, <2>2
  <3>2. ASSUME s \in sections, s.owner # o.owner PROVE s # original /\ s \notin left \cup right BY <1>11, <1>12, <3>2
  <3>3. ASSUME s \in sections, s.owner = o.owner, s # original, s \notin left \cup right PROVE FALSE
   <4>1. Leaf(s, sections, registry) /\ s \in Block
    <5>1. Leaf(s, sections, registry) BY <3>3 DEF Leaf
    <5> QED BY <1>1, <5>1, LeafOf
   <4>2. PICK p \in registry : p.owner = s.owner /\ IsWithin(s, p) BY <1>1, <4>1, LeafOf
   <4>3. p = o BY <1>1, <3>3, <4>2 DEF Owned
   <4>4. s.head \in Span(s) /\ s.head \in Span(block) BY <1>12, <2>1, <4>1, <4>2, <4>3, SpanOf, WithinIsPart
   <4>5. s.head \notin Span(original) BY <1>1, <1>3, <1>4, <3>3, <4>1, <4>4, LeavesApart, ApartShareNothing
   <4>6. \A b \in left \cup right : s.head \notin Span(b)
     BY <1>1, <1>16, <3>3, <4>1, <4>4, LeavesApart, ApartShareNothing
   <4>7. ~Covered(left, s.head) /\ ~Covered(right, s.head) BY <4>6 DEF Covered
   <4> QED BY <1>15, <1>17, <4>4, <4>5, <4>7
  <3> QED BY <3>1, <3>2, <3>3
 <2>4. Tiled(sections', registry) BY <1>1, <2>3, Untiled
 <2>5. ASSUME NEW f \in pool' PROVE f \in sections' \/ (f \in registry /\ ~Split(sections', f))
  <3>1. CASE f = block BY <1>28, <2>1, <2>3, <3>1 DEF Split
  <3>2. CASE f # block /\ f \in sections BY <1>2, <1>10, <2>5, <3>2
  <3>3. CASE f # block /\ f \notin sections
   <4>1. f \in registry /\ ~Split(sections, f) BY <1>10, <1>20, <2>5, <3>3
   <4>2. ~Split(sections', f) BY <2>3, <4>1 DEF Split
   <4> QED BY <4>1, <4>2
  <3> QED BY <3>1, <3>2, <3>3
 <2>6. FreeWell(pool', sections', registry') BY <1>10, <1>23, <2>5 DEF FreeWell
 <2>7. Queued(stale', release', pool', registry') BY <1>1, <1>10, <1>26, <1>28 DEF Queued
 <2> QED BY <1>1, <1>4, <1>10, <1>24, <1>25, <2>4, <2>6, <2>7 DEF BlockBooks
<1> QED BY <1>27, <1>28
--------------------
\* What callers hold.

SetCall(new, calls, c, w) ==
  new \in [Requesters -> Calls] /\ new[c] = w /\ \A d \in Requesters : d # c => new[d] = calls[d]

LEMMA CallOf ==
  ASSUME BlockTypes, NEW c \in Requesters
  PROVE  /\ request[c].at \in {"asking", "allocated"} => request[c].count \in Positive /\ request[c].alignment \in Nat
         /\ request[c].at = "allocated" => request[c].fresh \in AlignedBlocks
         /\ request[c].at = "constructing" => request[c].next \in Nat /\ request[c].left \in Positive
<1>1. request[c] \in Calls BY DEF BlockTypes
<1> QED BY <1>1 DEF Calls, NoCall

LEMMA CallIsSet ==
  ASSUME BlockTypes, NEW c \in Requesters, NEW w \in Calls, request' = [request EXCEPT ![c] = w]
  PROVE  SetCall(request', request, c, w)
  BY DEF BlockTypes, SetCall

LEMMA UsersKept ==
  ASSUME NEW calls, NEW out, NEW alive, NEW ending, Users(void, calls, out, alive, ending), NEW c \in Requesters, NEW w \in Calls, NEW new,
         SetCall(new, calls, c, w), w.at # "constructing"
  PROVE  Users(void, new, out, alive, ending)
<1>1. ~Building(new, c) /\ \A d \in Requesters : d # c => new[d] = calls[d] BY DEF SetCall, Building
<1>2. \A d \in Requesters : Building(new, d) => d # c /\ Building(calls, d) /\ Todo(new[d]) = Todo(calls[d])
  BY <1>1 DEF Building
<1> QED BY <1>1, <1>2 DEF Users

LEMMA UsersGot ==
  ASSUME NEW calls, NEW out, NEW alive, NEW ending, Users(void, calls, out, alive, ending), NEW c \in Requesters, NEW w \in Calls, NEW new,
         SetCall(new, calls, c, w), NEW range, \A x \in range : x \notin out, Todo(w) \subseteq range, ~void
  PROVE  Users(void, new, out \cup range, alive, ending)
<1>1. new[c] = w /\ \A d \in Requesters : d # c => new[d] = calls[d] BY DEF SetCall
<1>2. \A d \in Requesters : d # c /\ Building(new, d) => Building(calls, d) /\ Todo(new[d]) = Todo(calls[d])
  BY <1>1 DEF Building
<1>3. \A d \in Requesters : d # c /\ Building(new, d) => Todo(new[d]) \subseteq out /\ Todo(new[d]) \cap (alive \cup ending) = {}
  BY <1>2 DEF Users
<1>4. alive \cup ending \subseteq out /\ alive \cap ending = {} BY DEF Users
<1>5. Todo(new[c]) \subseteq range BY <1>1
<1>6. ASSUME NEW d \in Requesters, Building(new, d)
      PROVE  Todo(new[d]) \subseteq out \cup range /\ Todo(new[d]) \cap (alive \cup ending) = {}
 <2>1. CASE d = c BY <1>4, <1>5, <2>1
 <2>2. CASE d # c BY <1>3, <1>6, <2>2
 <2> QED BY <2>1, <2>2
<1>7. ASSUME NEW d \in Requesters, NEW e \in Requesters, d # e, Building(new, d), Building(new, e)
      PROVE  Todo(new[d]) \cap Todo(new[e]) = {}
 <2>1. CASE d = c BY <1>3, <1>5, <1>7, <2>1
 <2>2. CASE e = c BY <1>3, <1>5, <1>7, <2>2
 <2>3. CASE d # c /\ e # c
  <3>1. Todo(calls[d]) \cap Todo(calls[e]) = {} BY <1>2, <1>7, <2>3 DEF Users
  <3> QED BY <1>2, <1>7, <2>3, <3>1
 <2> QED BY <2>1, <2>2, <2>3
<1> QED BY <1>4, <1>6, <1>7 DEF Users

LEMMA UsersGrow ==
  ASSUME NEW calls, NEW out, NEW alive, NEW ending, Users(void, calls, out, alive, ending), NEW more, out \subseteq more
  PROVE  Users(void, calls, more, alive, ending)
<1>1. \A c \in Requesters : Building(calls, c) => Todo(calls[c]) \subseteq more BY DEF Users
<1> QED BY <1>1 DEF Users

LEMMA FreshKept ==
  ASSUME NEW calls, NEW reg, Fresh(calls, reg), NEW c \in Requesters, NEW w \in Calls, NEW new,
         SetCall(new, calls, c, w), w.at # "allocated"
  PROVE  Fresh(new, reg)
<1>1. new[c].at # "allocated" /\ \A d \in Requesters : d # c => new[d] = calls[d] BY DEF SetCall
<1>2. \A d \in Requesters : new[d].at = "allocated" => d # c /\ calls[d].at = "allocated" /\ new[d] = calls[d] BY <1>1
<1> QED BY <1>2 DEF Fresh

LEMMA FreshMore ==
  ASSUME NEW calls, NEW reg, Fresh(calls, reg), NEW b, \A c \in Requesters : calls[c].at = "allocated" => calls[c].fresh.owner # b.owner
  PROVE  Fresh(calls, reg \cup {b})
  BY DEF Fresh
--------------------
\* Every operation keeps the invariant.

LEMMA RangeReturned ==
  ASSUME BlockBooks(sections, registry, pool, lent, stale, release), NEW address, NEW count \in Nat, ReturnRange(address, count)
  PROVE  /\ BlockBooks(sections', registry', pool', lent', stale', release')
         /\ lent' = lent \ (address .. (address + count - 1)) /\ count > 0
<1>1. PICK b \in At(address) : Returnable(b, address - b.head, count) /\ Return(b, address - b.head, count)
  BY DEF ReturnRange
<1>2. b \in sections \cup registry /\ address \in Span(b) BY DEF At
<1>3. b \in Block BY <1>2 DEF BlockBooks, Owned, Tiled, AlignedBlocks
<1>4. address \in Int /\ b.head <= address /\ b.head \in Nat BY <1>2, <1>3, SpanOf
<1>5. PICK offset \in Nat : offset = address - b.head BY <1>4
<1>6. BlockBooks(sections', registry', pool', lent', stale', release') /\ lent' = lent \ ((b.head + offset) .. (b.head + offset + count - 1))
  BY <1>1, <1>5, Restored
<1>7. b.head + offset = address BY <1>4, <1>5
<1> QED BY <1>1, <1>6, <1>7 DEF Returnable

LEMMA Asked ==
  ASSUME BlocksInv, NEW c \in Requesters, NEW count \in 1..MaxCount, NEW alignment \in Alignments, Ask(c, count, alignment)
  PROVE  BlocksInv'
<1>1. PICK w \in Calls : w.at = "asking" /\ request' = [request EXCEPT ![c] = w]
 <2>1. count \in Positive /\ alignment \in Nat BY CountAssumption DEF Positive, Alignments
 <2>2. [at |-> "asking", count |-> count, alignment |-> alignment] \in Calls BY <2>1 DEF Calls
 <2> QED BY <2>2 DEF Ask
<1>2. SetCall(request', request, c, w) BY <1>1, CallIsSet DEF BlocksInv
<1>3. Users(void, request', lent, slots, dying) /\ Fresh(request', registry)
  BY <1>1, <1>2, UsersKept, FreshKept DEF BlocksInv
<1> QED BY <1>2, <1>3 DEF BlocksInv, BlockTypes, Ask, SetCall

LEMMA GotIt ==
  ASSUME BlockTypes, NEW c \in Requesters, request[c].at \in {"asking", "allocated"}, NEW head \in Nat, NEW length,
         Got(c, head, length)
  PROVE  \E w \in Calls : /\ SetCall(request', request, c, w) /\ w.at # "allocated"
                          /\ w.at = "constructing" => ~void /\ w.next = head /\ w.left = request[c].count
<1>1. request[c].count \in Positive BY CallOf
<1>2. CASE void
 <2>1. NoCall \in Calls /\ NoCall.at = "idle" BY DEF Calls, NoCall
 <2>2. request' = [request EXCEPT ![c] = NoCall] BY <1>2 DEF Got
 <2> QED BY <2>1, <2>2, CallIsSet
<1>3. CASE ~void
 <2>1. PICK w : w = [at |-> "constructing", next |-> head, left |-> request[c].count] OBVIOUS
 <2>2. w \in Calls /\ w.at = "constructing" /\ w.next = head /\ w.left = request[c].count BY <1>1, <2>1 DEF Calls
 <2>3. request' = [request EXCEPT ![c] = w] BY <1>3, <2>1 DEF Got
 <2> QED BY <1>3, <2>2, <2>3, CallIsSet
<1> QED BY <1>2, <1>3

LEMMA Served ==
  ASSUME BlocksInv, NEW c \in Requesters, Serve(c)
  PROVE  BlocksInv'
<1>1. PICK b \in Fitting(request[c].count, request[c].alignment) : CheckedOut(b, request[c].count, FALSE) /\ Got(c, b.head, request[c].count)
  BY DEF Serve
<1>2. request[c].at \in {"asking", "allocated"} /\ request[c].count \in Positive BY CallOf DEF Serve, BlocksInv
<1>3. PICK count \in Positive : count = request[c].count BY <1>2
<1>4. b \in pool /\ count <= b.length
 <2>1. b \in pool /\ b.length >= count BY <1>3 DEF Fitting
 <2>2. Leaf(b, sections, registry) BY <2>1 DEF BlocksInv, FreeWell, Leaf
 <2>3. b \in Block BY <2>2, LeafOf DEF BlocksInv
 <2> QED BY <2>1, <2>3 DEF Block, Positive
<1>5. b \in AlignedBlocks /\ b \in Block /\ b.head \in Nat /\ b.length \in Nat
 <2>1. Leaf(b, sections, registry) BY <1>4 DEF BlocksInv, FreeWell, Leaf
 <2> QED BY <2>1, LeafOf DEF BlocksInv, Block
<1>6. PICK point \in Nat \ {0} : point = SplitPoint(b, count) /\ count <= point /\ point <= b.length
  BY <1>4, <1>5, PointIsWithin DEF Positive
<1>7. PICK head : head = Slice(b, 0, point) OBVIOUS
<1>8. BlockBooks(sections, registry, pool, lent, stale, release) BY DEF BlocksInv, BlockBooks
<1>9. /\ BlockBooks(SectionsLeft(b, point, sections), registry, FreeLeft(b, point, sections, pool), lent \cup Span(head), stale \ {b}, release \ {b})
      /\ head \in Block /\ head.head = b.head /\ head.length = point /\ \A x \in Span(head) : x \notin lent
 <2>1. b \in pool /\ point <= b.length /\ point \in Nat \ {0} BY <1>4, <1>6
 <2>2. /\ BlockBooks(SectionsLeft(b, point, sections), registry, FreeLeft(b, point, sections, pool), lent \cup Span(Slice(b, 0, point)),
               stale \ {b}, release \ {b})
       /\ Slice(b, 0, point) \in Block /\ Slice(b, 0, point).head = b.head /\ Slice(b, 0, point).length = point
       /\ \A x \in Span(Slice(b, 0, point)) : x \notin lent
   BY <1>8, <2>1, Taken
 <2> QED BY <1>7, <2>2
<1>10. /\ sections' = SectionsLeft(b, point, sections) /\ registry' = registry /\ pool' = FreeLeft(b, point, sections, pool)
       /\ lent' = lent \cup Span(head) /\ stale' = stale \ {b} /\ release' = release \ {b}
  BY <1>1, <1>3, <1>6, <1>7 DEF CheckedOut, SectionsLeft, FreeLeft, PartsOf
<1>11. PICK w \in Calls : /\ SetCall(request', request, c, w) /\ w.at # "allocated"
                          /\ w.at = "constructing" => ~void /\ w.next = b.head /\ w.left = count
  BY <1>1, <1>2, <1>3, <1>5, GotIt DEF BlocksInv
<1>12. Users(void, request', lent', slots, dying)
 <2>1. CASE w.at = "constructing"
  <3>1. Todo(w) = b.head .. (b.head + count - 1) BY <1>11, <2>1 DEF Todo
  <3>2. Todo(w) \subseteq Span(head) BY <1>5, <1>6, <1>9, <3>1 DEF Span, Positive
  <3> QED BY <1>9, <1>10, <1>11, <2>1, <3>2, UsersGot DEF BlocksInv
 <2>2. CASE w.at # "constructing"
  <3>1. Users(void, request', lent, slots, dying) BY <1>11, <2>2, UsersKept DEF BlocksInv
  <3> QED BY <1>10, <3>1, UsersGrow
 <2> QED BY <2>1, <2>2
<1>13. Fresh(request', registry') BY <1>10, <1>11, FreshKept DEF BlocksInv
<1>14. void' = void /\ slots' = slots /\ dying' = dying BY DEF Serve
<1>15. BlockTypes' BY <1>11, <1>14 DEF BlocksInv, BlockTypes, SetCall
<1> QED BY <1>9, <1>10, <1>12, <1>13, <1>14, <1>15 DEF BlocksInv, BlockBooks

LEMMA WholeOwnerOf ==
  ASSUME NEW o \in Owners, NEW length \in Lengths
  PROVE  /\ WholeOwner(o, length) \in AlignedBlocks /\ WholeOwner(o, length).owner = o
         /\ WholeOwner(o, length).head = Base[o] /\ WholeOwner(o, length).length = length
<1>1. Base[o] \in Nat \ {0} /\ length \in Nat \ {0} BY BaseAssumption, LengthAssumption
<1>2. AlignmentOf(Base[o]) \in {1, 2, 4, 8} BY <1>1, AlignmentIsKnown
<1> QED BY <1>1, <1>2 DEF WholeOwner, AlignedBlocks, Block

LEMMA Allocated ==
  ASSUME BlocksInv, NEW c \in Requesters, NEW o \in Owners, NEW length \in Lengths, Allocate(c, o, length)
  PROVE  BlocksInv'
<1>1. PICK b : b = WholeOwner(o, length) OBVIOUS
<1>2. b \in AlignedBlocks /\ b.owner = o /\ b.head = Base[o] /\ b.length = length BY <1>1, WholeOwnerOf
<1>3. request[c].count \in Positive /\ request[c].alignment \in Nat BY CallOf DEF BlocksInv, Allocate
<1>4. PICK w : w = [at |-> "allocated", count |-> request[c].count, alignment |-> request[c].alignment, fresh |-> b]
  OBVIOUS
<1>5. w \in Calls /\ w.at = "allocated" /\ w.fresh = b /\ w.count = request[c].count BY <1>2, <1>3, <1>4 DEF Calls
<1>6. request' = [request EXCEPT ![c] = w] BY <1>1, <1>4 DEF Allocate
<1>7. SetCall(request', request, c, w) BY <1>5, <1>6, CallIsSet DEF BlocksInv
<1>8. Users(void, request', lent, slots, dying) BY <1>5, <1>7, UsersKept DEF BlocksInv
<1>9. request'[c] = w /\ \A d \in Requesters : d # c => request'[d] = request[d] BY <1>7 DEF SetCall
<1>10. /\ \A p \in registry : p.owner # o
       /\ \A d \in Requesters : d # c /\ request'[d].at = "allocated" => request'[d].fresh.owner # o
  BY <1>9 DEF Allocate, InUse
<1>11. w.count <= b.length
 <2>1. length >= request[c].count BY DEF Allocate
 <2>2. length \in Nat BY LengthAssumption
 <2> QED BY <1>2, <1>3, <1>5, <2>1, <2>2 DEF Positive
<1>12. Fresh(request', registry)
 <2>1. ASSUME NEW d \in Requesters, request'[d].at = "allocated"
       PROVE  LET f == request'[d].fresh IN
              /\ f.head = Base[f.owner] /\ f.length \in Lengths /\ request'[d].count <= f.length
              /\ \A p \in registry : p.owner # f.owner
  <3>1. CASE d = c BY <1>2, <1>5, <1>9, <1>10, <1>11, <3>1
  <3>2. CASE d # c BY <1>9, <2>1, <3>2 DEF BlocksInv, Fresh
  <3> QED BY <3>1, <3>2
 <2>2. ASSUME NEW d \in Requesters, NEW e \in Requesters, d # e, request'[d].at = "allocated", request'[e].at = "allocated"
       PROVE  request'[d].fresh.owner # request'[e].fresh.owner
  <3>1. CASE d = c BY <1>2, <1>5, <1>9, <1>10, <2>2, <3>1
  <3>2. CASE e = c BY <1>2, <1>5, <1>9, <1>10, <2>2, <3>2
  <3>3. CASE d # c /\ e # c BY <1>9, <2>2, <3>3 DEF BlocksInv, Fresh
  <3> QED BY <3>1, <3>2, <3>3
 <2> QED BY <2>1, <2>2 DEF Fresh
<1> QED BY <1>7, <1>8, <1>12 DEF BlocksInv, BlockTypes, Allocate, SetCall

LEMMA ServedFresh ==
  ASSUME BlocksInv, NEW c \in Requesters, ServeFresh(c)
  PROVE  BlocksInv'
<1>1. PICK b : b = request[c].fresh OBVIOUS
<1>2. PICK count : count = request[c].count OBVIOUS
<1>3. request[c].at = "allocated" /\ CheckedOut(b, count, TRUE) /\ Got(c, b.head, count) BY <1>1, <1>2 DEF ServeFresh
<1>4. count \in Positive /\ b \in AlignedBlocks BY <1>1, <1>2, <1>3, CallOf DEF BlocksInv
<1>5. /\ b.head = Base[b.owner] /\ b.length \in Lengths /\ count <= b.length /\ \A o \in registry : o.owner # b.owner
      /\ \A d \in Requesters : d # c /\ request[d].at = "allocated" => request[d].fresh.owner # b.owner
  BY <1>1, <1>2, <1>3 DEF BlocksInv, Fresh
<1>6. b \in Block /\ b.head \in Nat /\ b.length \in Nat BY <1>4 DEF AlignedBlocks, Block
<1>7. PICK point \in Nat \ {0} : point = SplitPoint(b, count) /\ count <= point /\ point <= b.length
  BY <1>4, <1>5, PointIsWithin DEF Positive
<1>8. PICK head : head = Slice(b, 0, point) OBVIOUS
<1>9. BlockBooks(sections, registry, pool, lent, stale, release) BY DEF BlocksInv, BlockBooks
<1>10. PICK reg, spare, old : reg = registry \cup {b} /\ spare = pool \cup {b} /\ old = stale \cup {b} OBVIOUS
<1>11. BlockBooks(sections, reg, spare, lent, old, release) /\ b \notin pool /\ b \notin sections
  BY <1>4, <1>5, <1>9, <1>10, Added
<1>12. /\ BlockBooks(SectionsLeft(b, point, sections), reg, FreeLeft(b, point, sections, spare), lent \cup Span(head), old \ {b}, release \ {b})
       /\ head \in Block /\ head.head = b.head /\ head.length = point /\ \A x \in Span(head) : x \notin lent
 <2>1. b \in spare /\ point <= b.length /\ point \in Nat \ {0} BY <1>7, <1>10
 <2>2. /\ BlockBooks(SectionsLeft(b, point, sections), reg, FreeLeft(b, point, sections, spare), lent \cup Span(Slice(b, 0, point)),
                old \ {b}, release \ {b})
       /\ Slice(b, 0, point) \in Block /\ Slice(b, 0, point).head = b.head /\ Slice(b, 0, point).length = point
       /\ \A x \in Span(Slice(b, 0, point)) : x \notin lent
   BY <1>11, <2>1, Taken
 <2> QED BY <1>8, <2>2
<1>13. FreeLeft(b, point, sections, spare) = FreeLeft(b, point, sections, pool) /\ old \ {b} = stale \ {b}
  BY <1>10 DEF FreeLeft
<1>14. /\ sections' = SectionsLeft(b, point, sections) /\ registry' = reg /\ pool' = FreeLeft(b, point, sections, pool)
       /\ lent' = lent \cup Span(head) /\ stale' = stale \ {b} /\ release' = release \ {b}
  BY <1>3, <1>7, <1>8, <1>10 DEF CheckedOut, SectionsLeft, FreeLeft, PartsOf
<1>15. PICK w \in Calls : /\ SetCall(request', request, c, w) /\ w.at # "allocated"
                          /\ w.at = "constructing" => ~void /\ w.next = b.head /\ w.left = count
  BY <1>2, <1>3, <1>6, GotIt DEF BlocksInv
<1>16. Users(void, request', lent', slots, dying)
 <2>1. CASE w.at = "constructing"
  <3>1. Todo(w) = b.head .. (b.head + count - 1) BY <1>15, <2>1 DEF Todo
  <3>2. Todo(w) \subseteq Span(head) BY <1>4, <1>6, <1>7, <1>12, <3>1 DEF Span, Positive
  <3> QED BY <1>12, <1>14, <1>15, <2>1, <3>2, UsersGot DEF BlocksInv
 <2>2. CASE w.at # "constructing"
  <3>1. Users(void, request', lent, slots, dying) BY <1>15, <2>2, UsersKept DEF BlocksInv
  <3> QED BY <1>14, <3>1, UsersGrow
 <2> QED BY <2>1, <2>2
<1>17. Fresh(request', registry')
 <2>1. Fresh(request', registry) BY <1>15, FreshKept DEF BlocksInv
 <2>2. \A d \in Requesters : request'[d].at = "allocated" => request'[d].fresh.owner # b.owner
   BY <1>5, <1>15 DEF SetCall
 <2> QED BY <1>10, <1>14, <2>1, <2>2, FreshMore
<1>18. void' = void /\ slots' = slots /\ dying' = dying BY DEF ServeFresh
<1>19. BlockTypes' BY <1>15, <1>18 DEF BlocksInv, BlockTypes, SetCall
<1> QED BY <1>12, <1>13, <1>14, <1>16, <1>17, <1>18, <1>19 DEF BlocksInv, BlockBooks

LEMMA FailedToAllocate ==
  ASSUME BlocksInv, NEW c \in Requesters, AllocationFails(c)
  PROVE  BlocksInv'
<1>1. NoCall \in Calls /\ NoCall.at = "idle" /\ request' = [request EXCEPT ![c] = NoCall]
  BY DEF Calls, NoCall, AllocationFails
<1>2. PICK w \in Calls : w = NoCall BY <1>1
<1>3. SetCall(request', request, c, w) /\ w.at = "idle" BY <1>1, <1>2, CallIsSet DEF BlocksInv
<1>4. Users(void, request', lent, slots, dying) /\ Fresh(request', registry) BY <1>3, UsersKept, FreshKept DEF BlocksInv
<1> QED BY <1>3, <1>4 DEF BlocksInv, BlockTypes, AllocationFails, SetCall

LEMMA Constructed ==
  ASSUME BlocksInv, NEW c \in Requesters, ConstructNext(c)
  PROVE  BlocksInv'
<1>1. request[c].at = "constructing" /\ request[c].next \in Nat /\ request[c].left \in Positive
  BY CallOf DEF BlocksInv, ConstructNext
<1>2. PICK next \in Nat, left \in Positive : next = request[c].next /\ left = request[c].left BY <1>1
<1>3. PICK w \in Calls : /\ request' = [request EXCEPT ![c] = w] /\ w.at # "allocated"
                         /\ w.at = "constructing" => w.next = next + 1 /\ w.left = left - 1
 <2>1. CASE left = 1
  <3>1. NoCall \in Calls /\ NoCall.at = "idle" BY DEF Calls, NoCall
  <3>2. request' = [request EXCEPT ![c] = NoCall] BY <1>2, <2>1 DEF ConstructNext
  <3> QED BY <3>1, <3>2
 <2>2. CASE left # 1
  <3>1. PICK w : w = [at |-> "constructing", next |-> next + 1, left |-> left - 1] OBVIOUS
  <3>2. left - 1 \in Positive /\ next + 1 \in Nat BY <2>2 DEF Positive
  <3>3. w \in Calls /\ w.at = "constructing" /\ w.next = next + 1 /\ w.left = left - 1 BY <3>1, <3>2 DEF Calls
  <3>4. request' = [request EXCEPT ![c] = w] BY <1>2, <2>2, <3>1 DEF ConstructNext
  <3> QED BY <3>3, <3>4
 <2> QED BY <2>1, <2>2
<1>4. SetCall(request', request, c, w) BY <1>3, CallIsSet DEF BlocksInv
<1>5. request'[c] = w /\ \A d \in Requesters : d # c => request'[d] = request[d] BY <1>4 DEF SetCall
<1>6. Todo(request[c]) = next .. (next + left - 1) /\ next \in Todo(request[c]) BY <1>2 DEF Todo, Positive
<1>7. w.at = "constructing" => Todo(w) \subseteq Todo(request[c]) /\ next \notin Todo(w)
 <2>1. w.at = "constructing" => Todo(w) = (next + 1) .. ((next + 1) + (left - 1) - 1) BY <1>3 DEF Todo
 <2>2. (next + 1) .. ((next + 1) + (left - 1) - 1) \subseteq next .. (next + left - 1) /\ next \notin (next + 1) .. ((next + 1) + (left - 1) - 1)
   BY DEF Positive
 <2> QED BY <1>6, <2>1, <2>2
<1>8. slots' = slots \cup {next} /\ UNCHANGED <<void, pool, sections, registry, stale, release, lent, dying>>
  BY <1>2 DEF ConstructNext
<1>9. Building(request, c) /\ Users(void, request, lent, slots, dying) BY <1>1 DEF Building, BlocksInv
<1>10. next \in lent /\ next \notin dying /\ ~void BY <1>6, <1>9 DEF Users
<1>11. \A d \in Requesters : d # c /\ Building(request', d) => Building(request, d) /\ Todo(request'[d]) = Todo(request[d]) /\ next \notin Todo(request[d])
  BY <1>5, <1>6, <1>9 DEF Users, Building
<1>12. Building(request', c) => Todo(request'[c]) \subseteq Todo(request[c]) /\ next \notin Todo(request'[c])
  BY <1>5, <1>7 DEF Building
<1>13. \A d \in Requesters : Building(request', d) =>
          Building(request, d) /\ Todo(request'[d]) \subseteq Todo(request[d]) /\ next \notin Todo(request'[d])
  BY <1>9, <1>11, <1>12
<1>14. Users(void, request', lent, slots', dying)
 <2>1. slots' \cup dying \subseteq lent /\ slots' \cap dying = {} BY <1>8, <1>9, <1>10 DEF Users
 <2>2. ASSUME NEW d \in Requesters, Building(request', d)
       PROVE  Todo(request'[d]) \subseteq lent /\ Todo(request'[d]) \cap (slots' \cup dying) = {}
   BY <1>8, <1>9, <1>13, <2>2 DEF Users
 <2>3. ASSUME NEW d \in Requesters, NEW e \in Requesters, d # e, Building(request', d), Building(request', e)
       PROVE  Todo(request'[d]) \cap Todo(request'[e]) = {}
  <3>1. Todo(request[d]) \cap Todo(request[e]) = {} BY <1>9, <1>13, <2>3 DEF Users
  <3> QED BY <1>13, <2>3, <3>1
 <2> QED BY <1>10, <2>1, <2>2, <2>3 DEF Users
<1>15. Fresh(request', registry) BY <1>3, <1>4, FreshKept DEF BlocksInv
<1>16. BlockTypes' BY <1>4, <1>8 DEF BlocksInv, BlockTypes, SetCall
<1> QED BY <1>8, <1>14, <1>15, <1>16 DEF BlocksInv

LEMMA Threw ==
  ASSUME BlocksInv, NEW c \in Requesters, ConstructorThrows(c)
  PROVE  BlocksInv'
<1>1. request[c].at = "constructing" /\ request[c].next \in Nat /\ request[c].left \in Positive
  BY CallOf DEF BlocksInv, ConstructorThrows
<1>2. PICK next \in Nat, left \in Positive : next = request[c].next /\ left = request[c].left BY <1>1
<1>3. BlockBooks(sections, registry, pool, lent, stale, release) /\ ReturnRange(next, left) /\ left \in Nat
  BY <1>2 DEF ConstructorThrows, BlocksInv, BlockBooks, Positive
<1>4. BlockBooks(sections', registry', pool', lent', stale', release') /\ lent' = lent \ (next .. (next + left - 1)) /\ registry' = registry
 <2>1. registry' = registry BY <1>3 DEF ReturnRange, Return
 <2> QED BY <1>3, <2>1, RangeReturned
<1>5. lent' = lent \ Todo(request[c]) BY <1>2, <1>4 DEF Todo
<1>6. NoCall \in Calls /\ NoCall.at = "idle" /\ request' = [request EXCEPT ![c] = NoCall]
  BY DEF Calls, NoCall, ConstructorThrows
<1>7. PICK w \in Calls : w = NoCall BY <1>6
<1>8. SetCall(request', request, c, w) /\ w.at = "idle" BY <1>6, <1>7, CallIsSet DEF BlocksInv
<1>9. Building(request, c) /\ Users(void, request, lent, slots, dying) BY <1>1 DEF Building, BlocksInv
<1>10. \A d \in Requesters : Building(request', d) => d # c /\ Building(request, d) /\ request'[d] = request[d]
  BY <1>8 DEF SetCall, Building
<1>11. Users(void, request', lent', slots, dying)
 <2>1. slots \cup dying \subseteq lent' /\ slots \cap dying = {} /\ ~void BY <1>5, <1>9 DEF Users
 <2>2. ASSUME NEW d \in Requesters, Building(request', d)
       PROVE  Todo(request'[d]) \subseteq lent' /\ Todo(request'[d]) \cap (slots \cup dying) = {}
  <3>1. Todo(request[d]) \cap Todo(request[c]) = {} /\ Todo(request[d]) \subseteq lent /\ Todo(request[d]) \cap (slots \cup dying) = {}
    BY <1>9, <1>10, <2>2 DEF Users
  <3> QED BY <1>5, <1>10, <2>2, <3>1
 <2>3. ASSUME NEW d \in Requesters, NEW e \in Requesters, d # e, Building(request', d), Building(request', e)
       PROVE  Todo(request'[d]) \cap Todo(request'[e]) = {}
   BY <1>9, <1>10, <2>3 DEF Users
 <2> QED BY <2>1, <2>2, <2>3 DEF Users
<1>12. Fresh(request', registry) BY <1>8, FreshKept DEF BlocksInv
<1>13. void' = void /\ slots' = slots /\ dying' = dying BY DEF ConstructorThrows
<1>14. BlockTypes' BY <1>8, <1>13 DEF BlocksInv, BlockTypes, SetCall
<1> QED BY <1>4, <1>11, <1>12, <1>13, <1>14 DEF BlocksInv, BlockBooks

LEMMA HandleDied ==
  ASSUME BlocksInv, NEW address, HandleDies(address)
  PROVE  BlocksInv'
<1>1. address \in slots /\ slots' = slots \ {address} /\ dying' = dying \cup {address} BY DEF HandleDies
<1>2. UNCHANGED <<void, pool, sections, registry, stale, release, request, lent>> BY DEF HandleDies
<1>3. slots' \cup dying' = slots \cup dying /\ (slots \cap dying = {} => slots' \cap dying' = {}) BY <1>1
<1>4. Users(void, request, lent, slots', dying')
 <2>1. Users(void, request, lent, slots, dying) BY DEF BlocksInv
 <2>2. ~void BY <1>1, <2>1 DEF Users
 <2> QED BY <1>3, <2>1, <2>2 DEF Users
<1> QED BY <1>2, <1>4 DEF BlocksInv, BlockTypes

LEMMA SlotReleased ==
  ASSUME BlocksInv, NEW address, ReleaseSlot(address)
  PROVE  BlocksInv'
<1>1. address \in dying /\ dying' = dying \ {address} /\ ReturnRange(address, 1) /\ UNCHANGED <<void, request, slots>>
  BY DEF ReleaseSlot
<1>2. BlockBooks(sections, registry, pool, lent, stale, release) BY DEF BlocksInv, BlockBooks
<1>3. BlockBooks(sections', registry', pool', lent', stale', release') /\ lent' = lent \ (address .. (address + 1 - 1)) /\ registry' = registry
 <2>1. registry' = registry BY <1>1 DEF ReturnRange, Return
 <2> QED BY <1>1, <1>2, <2>1, RangeReturned
<1>4. Users(void, request, lent, slots, dying) BY DEF BlocksInv
<1>5. address \in Int
 <2>1. PICK b \in At(address) : TRUE BY <1>1 DEF ReturnRange
 <2>2. b \in Block /\ address \in Span(b) BY <1>2, <2>1 DEF At, BlockBooks, Owned, Tiled, AlignedBlocks
 <2> QED BY <2>2, SpanOf
<1>6. address .. (address + 1 - 1) = {address} BY <1>5
<1>7. lent' = lent \ {address} BY <1>3, <1>6
<1>8. Users(void, request, lent', slots, dying')
 <2>1. address \notin slots BY <1>1, <1>4 DEF Users
 <2>2. slots \cup dying' \subseteq lent' /\ slots \cap dying' = {} /\ ~void BY <1>1, <1>4, <1>7, <2>1 DEF Users
 <2>3. ASSUME NEW c \in Requesters, Building(request, c)
       PROVE  Todo(request[c]) \subseteq lent' /\ Todo(request[c]) \cap (slots \cup dying') = {}
   BY <1>1, <1>4, <1>7, <2>3 DEF Users
 <2>4. \A c, d \in Requesters : c # d /\ Building(request, c) /\ Building(request, d) => Todo(request[c]) \cap Todo(request[d]) = {}
   BY <1>4 DEF Users
 <2> QED BY <2>2, <2>3, <2>4 DEF Users
<1> QED BY <1>1, <1>3, <1>8 DEF BlocksInv, BlockTypes, BlockBooks

LEMMA BytesReturned ==
  ASSUME BlocksInv, void, BlockBooks(sections', registry', pool', lent', stale', release'), UNCHANGED <<void, registry, request, slots, dying>>
  PROVE  BlocksInv'
<1>1. Users(void, request, lent', slots, dying) BY DEF BlocksInv, Users
<1> QED BY <1>1 DEF BlocksInv, BlockTypes, BlockBooks

LEMMA RangeOfBytesReturned ==
  ASSUME BlocksInv, NEW address, NEW count \in Nat, ReturnBytes(address, count)
  PROVE  BlocksInv'
<1>1. void /\ ReturnRange(address, count) /\ UNCHANGED <<void, request, slots, dying>> BY DEF ReturnBytes
<1>2. registry' = registry BY <1>1 DEF ReturnRange, Return
<1>3. BlockBooks(sections', registry', pool', lent', stale', release') BY <1>1, RangeReturned DEF BlocksInv, BlockBooks
<1> QED BY <1>1, <1>2, <1>3, BytesReturned

LEMMA PointerReturned ==
  ASSUME BlocksInv, NEW address, ReturnPointer(address)
  PROVE  BlocksInv'
<1>1. PICK b \in At(address) : Returnable(b, 0, b.length) /\ Return(b, 0, b.length) BY DEF ReturnPointer
<1>2. void /\ UNCHANGED <<void, request, slots, dying>> /\ registry' = registry BY <1>1 DEF ReturnPointer, Return
<1>3. BlockBooks(sections, registry, pool, lent, stale, release) BY DEF BlocksInv, BlockBooks
<1>4. b \in Block BY <1>1, <1>3 DEF At, BlockBooks, Owned, Tiled, AlignedBlocks
<1>5. PICK count \in Nat : count = b.length BY <1>4 DEF Block
<1>6. BlockBooks(sections', registry', pool', lent', stale', release') BY <1>1, <1>3, <1>5, Restored
<1> QED BY <1>2, <1>6, BytesReturned

LEMMA Preallocated ==
  ASSUME BlocksInv, NEW o \in Owners, NEW length \in Lengths, Preallocate(o, length)
  PROVE  BlocksInv'
<1>1. PICK b : b = WholeOwner(o, length) OBVIOUS
<1>2. b \in AlignedBlocks /\ b.owner = o /\ b.head = Base[b.owner] /\ b.length \in Lengths BY <1>1, WholeOwnerOf
<1>3. \A p \in registry : p.owner # b.owner BY <1>2 DEF Preallocate, InUse
<1>4. \A c \in Requesters : request[c].at = "allocated" => request[c].fresh.owner # b.owner
  BY <1>2 DEF Preallocate, InUse
<1>5. registry' = registry \cup {b} /\ pool' = pool \cup {b} /\ stale' = stale \cup {b} BY <1>1 DEF Preallocate
<1>6. UNCHANGED <<void, sections, release, request, lent, slots, dying>> BY DEF Preallocate
<1>7. BlockBooks(sections, registry', pool', lent, stale', release) BY <1>2, <1>3, <1>5, Added DEF BlocksInv, BlockBooks
<1>8. Fresh(request, registry') BY <1>4, <1>5, FreshMore DEF BlocksInv
<1> QED BY <1>6, <1>7, <1>8 DEF BlocksInv, BlockTypes, BlockBooks

LEMMA Culled ==
  ASSUME BlocksInv, NEW old \in SUBSET stale, Cull(old)
  PROVE  BlocksInv'
<1>1. Queued(stale', release', pool, registry) BY DEF BlocksInv, Queued, Cull
<1> QED BY <1>1 DEF BlocksInv, BlockTypes, Cull

LEMMA OwnersReleased ==
  ASSUME BlocksInv, ReleaseCulled
  PROVE  BlocksInv'
<1>1. /\ Owned(registry) /\ Tiled(sections, registry) /\ FreeWell(pool, sections, registry)
      /\ LentIs(lent, pool, registry) /\ Queued(stale, release, pool, registry)
  BY DEF BlocksInv
<1>2. \A b \in release : b \in registry /\ b \in pool /\ b \notin stale /\ ~Split(sections, b)
 <2>1. SUFFICES ASSUME NEW b \in release PROVE b \in registry /\ b \in pool /\ b \notin stale /\ ~Split(sections, b)
   OBVIOUS
 <2>2. b \in registry /\ b \in pool /\ b \notin stale BY <1>1 DEF Queued
 <2>3. b \notin sections BY <1>1, <2>2, SectionIsNoOwner
 <2> QED BY <1>1, <2>2, <2>3 DEF FreeWell
<1>3. Retired = release BY <1>2 DEF Retired, Split
<1>4. /\ registry' = registry \ release /\ pool' = pool \ release /\ stale' = stale /\ release' = {}
      /\ UNCHANGED <<void, sections, request, lent, slots, dying>>
  BY <1>2, <1>3 DEF ReleaseCulled
<1>5. Owned(registry') BY <1>1, <1>4 DEF Owned
<1>6. Tiled(sections, registry')
 <2>1. ASSUME NEW s \in sections PROVE \E o \in registry' : o.owner = s.owner /\ s # o /\ IsWithin(s, o)
  <3>1. PICK o \in registry : o.owner = s.owner /\ s # o /\ IsWithin(s, o) BY <1>1 DEF Tiled
  <3>2. o \notin release BY <1>2, <3>1 DEF Split
  <3> QED BY <1>4, <3>1, <3>2
 <2> QED BY <1>1, <1>4, <2>1 DEF Tiled
<1>7. FreeWell(pool', sections, registry') BY <1>1, <1>4 DEF FreeWell
<1>8. LentIs(lent, pool', registry')
 <2>1. SUFFICES ASSUME NEW x
                PROVE  x \in lent <=> (\E o \in registry' : x \in Span(o)) /\ ~\E f \in pool' : x \in Span(f)
   BY DEF LentIs
 <2>2. x \in lent <=> (\E o \in registry : x \in Span(o)) /\ ~\E f \in pool : x \in Span(f) BY <1>1 DEF LentIs
 <2>3. ASSUME x \in lent PROVE (\E o \in registry' : x \in Span(o)) /\ ~\E f \in pool' : x \in Span(f)
   BY <1>2, <1>4, <2>2, <2>3
 <2>4. ASSUME NEW o \in registry', x \in Span(o), ~\E f \in pool' : x \in Span(f) PROVE x \in lent
  <3>1. \A f \in release : SpansApart(o, f) /\ o \in Block /\ f \in Block
    BY <1>1, <1>2, <1>4, OwnersApart DEF Owned, AlignedBlocks
  <3>2. \A f \in release : x \notin Span(f) BY <2>4, <3>1, ApartShareNothing
  <3> QED BY <1>4, <2>2, <2>4, <3>2
 <2> QED BY <2>3, <2>4
<1>9. Queued(stale', release', pool', registry')
 <2>1. stale = (registry \ release) \cap (pool \ release) BY <1>1, <1>2 DEF Queued
 <2> QED BY <1>4, <2>1 DEF Queued
<1>10. Fresh(request, registry') BY <1>4 DEF BlocksInv, Fresh
<1> QED BY <1>4, <1>5, <1>6, <1>7, <1>8, <1>9, <1>10 DEF BlocksInv, BlockTypes

LEMMA BlocksBegin ==
  ASSUME BlocksInit
  PROVE  BlocksInv
<1>1. BlockTypes BY DEF BlocksInit, BlockTypes, Calls
<1>2. \A c \in Requesters : request[c].at = "idle" BY DEF BlocksInit, NoCall
<1>3. Owned(registry) /\ Tiled(sections, registry) /\ FreeWell(pool, sections, registry)
  BY DEF BlocksInit, Owned, Tiled, FreeWell
<1>4. LentIs(lent, pool, registry) /\ Queued(stale, release, pool, registry) BY DEF BlocksInit, LentIs, Queued
<1>5. Users(void, request, lent, slots, dying) /\ Fresh(request, registry)
  BY <1>2 DEF BlocksInit, Users, Fresh, Building
<1> QED BY <1>1, <1>3, <1>4, <1>5 DEF BlocksInv

LEMMA BlocksStepKeeps ==
  ASSUME BlocksInv, BlocksNext
  PROVE  BlocksInv'
<1>1. ASSUME NEW c \in Requesters, NEW count \in 1..MaxCount, NEW alignment \in Alignments, Ask(c, count, alignment)
      PROVE  BlocksInv'
  BY <1>1, Asked
<1>2. ASSUME NEW c \in Requesters, NEW o \in Owners, NEW length \in Lengths, Allocate(c, o, length) PROVE BlocksInv'
  BY <1>2, Allocated
<1>3. ASSUME NEW c \in Requesters, Serve(c) \/ ServeFresh(c) \/ AllocationFails(c) \/ ConstructNext(c) \/ ConstructorThrows(c)
      PROVE  BlocksInv'
  BY <1>3, Served, ServedFresh, FailedToAllocate, Constructed, Threw
<1>4. ASSUME NEW address \in Addresses, HandleDies(address) \/ ReleaseSlot(address) \/ ReturnPointer(address)
      PROVE  BlocksInv'
  BY <1>4, HandleDied, SlotReleased, PointerReturned
<1>5. ASSUME NEW address \in Addresses, NEW count \in 1..MaxCount, ReturnBytes(address, count) PROVE BlocksInv'
 <2>1. count \in Nat BY CountAssumption
 <2> QED BY <1>5, <2>1, RangeOfBytesReturned
<1>6. ASSUME NEW o \in Owners, NEW length \in Lengths, Preallocate(o, length) PROVE BlocksInv' BY <1>6, Preallocated
<1>7. ASSUME NEW old \in SUBSET stale, Cull(old) PROVE BlocksInv' BY <1>7, Culled
<1>8. CASE ReleaseCulled BY <1>8, OwnersReleased
<1> QED BY <1>1, <1>2, <1>3, <1>4, <1>5, <1>6, <1>7, <1>8 DEF BlocksNext

LEMMA BlocksStay ==
  ASSUME BlocksInv, UNCHANGED blockVars
  PROVE  BlocksInv'
  BY DEF BlocksInv, blockVars, BlockTypes

LEMMA BlocksKnow ==
  ASSUME BlocksInv
  PROVE  BlocksAreSafe
<1>1. /\ Owned(registry) /\ Tiled(sections, registry) /\ FreeWell(pool, sections, registry)
      /\ LentIs(lent, pool, registry) /\ Queued(stale, release, pool, registry)
  BY DEF BlocksInv
<1>2. \A s \in sections : s \in AlignedBlocks /\ s \in Block BY <1>1 DEF Tiled, AlignedBlocks
<1>3. \A b \in pool : b \in AlignedBlocks
 <2>1. \A b \in pool : Leaf(b, sections, registry) BY <1>1 DEF FreeWell, Leaf
 <2> QED BY <1>1, <2>1, LeafOf
<1>4. ASSUME NEW o \in registry, NEW parts, parts = {s \in sections : s.owner = o.owner}, parts # {}
      PROVE  UNION {Span(s) : s \in parts} = Span(o)
 <2>1. ASSUME NEW s \in parts PROVE Span(s) \subseteq Span(o)
  <3>1. s \in sections /\ s.owner = o.owner BY <1>4, <2>1
  <3>2. PICK p \in registry : p.owner = s.owner /\ IsWithin(s, p) BY <1>1, <3>1 DEF Tiled
  <3>3. p = o /\ o \in Block BY <1>1, <3>1, <3>2 DEF Owned, AlignedBlocks
  <3> QED BY <1>2, <3>1, <3>2, <3>3, WithinIsPart
 <2>2. ASSUME NEW x \in Span(o) PROVE \E s \in parts : x \in Span(s)
  <3>1. Split(sections, o) BY <1>4 DEF Split
  <3> QED BY <1>1, <1>4, <2>2, <3>1 DEF Tiled
 <2> QED BY <2>1, <2>2
<1>5. ASSUME NEW s \in sections, NEW t \in sections, s.owner = t.owner, s # t PROVE Span(s) \cap Span(t) = {}
 <2>1. SpansApart(s, t) BY <1>1, <1>5 DEF Tiled
 <2> QED BY <1>2, <2>1, ApartShareNothing
<1>6. lent = (UNION {Span(o) : o \in registry}) \ (UNION {Span(b) : b \in pool})
 <2>1. \A x : x \in lent <=> (\E o \in registry : x \in Span(o)) /\ ~\E b \in pool : x \in Span(b) BY <1>1 DEF LentIs
 <2>2. PICK whole : whole = UNION {Span(o) : o \in registry} OBVIOUS
 <2>3. PICK spare : spare = UNION {Span(b) : b \in pool} OBVIOUS
 <2>4. \A x : x \in whole <=> \E o \in registry : x \in Span(o) BY <2>2
 <2>5. \A x : x \in spare <=> \E b \in pool : x \in Span(b) BY <2>3
 <2>6. \A x : x \in lent <=> x \in whole /\ x \notin spare BY <2>1, <2>4, <2>5
 <2>7. lent = whole \ spare BY <2>6
 <2> QED BY <2>2, <2>3, <2>7
<1>7. slots \cup dying \subseteq lent /\ slots \cap dying = {} BY DEF BlocksInv, Users
<1>8. \A b \in pool : b \in sections \/ (b \in registry /\ \A s \in sections : s.owner # b.owner)
  BY <1>1 DEF FreeWell, Split
<1>9. \A a, b \in pool : ~Contiguous(a, b) BY <1>1 DEF FreeWell
<1>10. \A s \in sections : \E o \in registry : o.owner = s.owner BY <1>1 DEF Tiled
<1>11. \A b \in pool \cup sections : b.align = AlignmentOf(b.head) BY <1>2, <1>3 DEF AlignedBlocks
<1>12. PoolIsWhatIsFree
 <2>1. ASSUME NEW o \in registry
       PROVE  LET parts == {s \in sections : s.owner = o.owner} IN
              /\ parts # {} => UNION {Span(s) : s \in parts} = Span(o)
              /\ \A s, t \in parts : s # t => Span(s) \cap Span(t) = {}
  <3> DEFINE parts == {s \in sections : s.owner = o.owner}
  <3>1. parts # {} => UNION {Span(s) : s \in parts} = Span(o) BY <1>4
  <3>2. \A s, t \in parts : s # t => Span(s) \cap Span(t) = {} BY <1>5
  <3> QED BY <3>1, <3>2
 <2> QED BY <1>6, <1>7, <1>8, <1>9, <1>10, <1>11, <2>1 DEF PoolIsWhatIsFree
<1>13. OnlyUnusedIsReleased
 <2>1. Retired \subseteq pool BY DEF Retired
 <2>2. \A b \in Retired : Span(b) \cap lent = {} BY <1>1, <2>1 DEF LentIs
 <2> QED BY <1>1, <2>1, <2>2 DEF OnlyUnusedIsReleased, Queued
<1> QED BY <1>12, <1>13 DEF BlocksAreSafe

\* Sections tile owners, what is not lent is free, joined and known, and
\* only what is wholly free is released.
THEOREM BlocksAreKept == BlocksSpec => []BlocksAreSafe
<1>1. BlocksInit => BlocksInv BY BlocksBegin
<1>2. BlocksInv /\ [BlocksNext]_blockVars => BlocksInv' BY BlocksStepKeeps, BlocksStay
<1>3. BlocksInv => BlocksAreSafe BY BlocksKnow
<1> QED BY <1>1, <1>2, <1>3, PTL DEF BlocksSpec

\* ---- Objects and their slots. ----
Places == {"idle", "claim", "destroying", "destroyed", "constructing", "constructed", "failed"}
SlotPhases == {"unknown", "raw", "constructing", "destroying", "live"}
Builds == [at : Places, slot : Nat, last : Nat, by : {"none", "construct", "destroy"}]
BatchKinds == [at : {"none", "making", "lent"}, first : Nat, count : Nat, handles : SUBSET SlotIds, dying : SUBSET SlotIds]
SlotRanges == [first : Nat, length : Nat]
Reservations == [at : {"none", "idle", "emplacing"}, base : Nat, count : Nat, remaining : Seq(SlotRanges), index : Nat]

ObjectTypes ==
  /\ use \in {"tracked", "made", "reserved"}
  /\ slotPhase \in [SlotIds -> SlotPhases] /\ object \in [SlotIds -> {0, 1}]
  /\ building \in [Builders -> Builds] /\ vacant \subseteq SlotIds /\ claims \subseteq SlotIds
  /\ made \in BatchKinds /\ reserved \in Reservations

Works(b) == building[b].at \notin {"idle", "claim"}

\* What the place of a builder says of its slot's phase and object.
SlotOf(b) ==
  LET w == building[b] IN
  /\ w.slot \in SlotIds
  /\ w.at \in {"destroying", "destroyed"} => slotPhase[w.slot] = "destroying"
  /\ w.at \in {"constructing", "constructed"} => slotPhase[w.slot] = "constructing"
  /\ Busy(w.slot)
  /\ object[w.slot] = IF w.at \in {"destroying", "constructed"} THEN 1 ELSE 0

Tracker ==
  /\ \A b \in Builders : Works(b) => SlotOf(b)
  /\ \A b \in Builders : building[b].at # "idle" =>
        building[b].slot <= building[b].last /\ building[b].last \in SlotIds /\ building[b].by # "none"
  /\ \A b, d \in Builders : Works(b) /\ Works(d) /\ building[b].slot = building[d].slot => b = d
  /\ \A s \in SlotIds : Busy(s) => \E b \in Builders : Works(b) /\ building[b].slot = s
  /\ use = "tracked" => \A s \in SlotIds : ~Busy(s) => ((object[s] = 1) <=> (slotPhase[s] = "live"))
  /\ use # "tracked" => \A b \in Builders : building[b].at = "idle"

\* The objects of a batch are those that have a handle.
Batch ==
  /\ use # "made" => made.at = "none"
  /\ made.at = "none" => made = NoneMade
  /\ made.at = "making" =>
        /\ made.dying = {} /\ \E n \in 0 .. made.count - 1 : made.handles = Run(made.first, n)
  /\ made.dying \subseteq made.handles /\ made.handles \subseteq Run(made.first, made.count)
  /\ Run(made.first, made.count) \subseteq SlotIds
  /\ use = "made" =>
        /\ vacant = SlotIds \ Run(made.first, made.count)
        /\ \A s \in SlotIds : object[s] = 1 <=> s \in made.handles

\* Ranges from lo up to hi, in order and none of them empty.
Ordered(l, lo, hi) ==
  /\ l \in Seq(SlotRanges)
  /\ \A i \in DOMAIN l : l[i].length > 0 /\ lo <= l[i].first /\ l[i].first + l[i].length <= hi
  /\ \A i, j \in DOMAIN l : i < j => l[i].first + l[i].length <= l[j].first
Covers(l) == UNION {Run(r.first, r.length) : r \in ToSet(l)}

Ranged ==
  /\ use # "reserved" => reserved.at = "none" /\ claims = {}
  /\ reserved.at = "none" => reserved = NoReservation
  /\ Ordered(reserved.remaining, 0, SlotCount)
  /\ reserved.at = "emplacing" => \E i \in DOMAIN reserved.remaining :
        reserved.base + reserved.index \in Run(reserved.remaining[i].first, reserved.remaining[i].length)
  /\ Covers(reserved.remaining) \cap claims = {}
  /\ use = "reserved" =>
        /\ vacant = (SlotIds \ Covers(reserved.remaining)) \ claims
        /\ \A s \in SlotIds : object[s] = 1 <=> s \in claims

ObjectsInv == ObjectTypes /\ Tracker /\ Batch /\ Ranged

--------------------
\* Ranges.

LEMMA RangeLists ==
  ASSUME NEW l \in Seq(SlotRanges)
  PROVE  /\ Len(l) \in Nat /\ DOMAIN l = 1 .. Len(l)
         /\ \A i \in DOMAIN l : l[i] \in SlotRanges /\ l[i].first \in Nat /\ l[i].length \in Nat
<1>1. Len(l) \in Nat /\ DOMAIN l = 1 .. Len(l) /\ \A i \in 1 .. Len(l) : l[i] \in SlotRanges
  BY LenProperties, ElementOfSeq
<1> QED BY <1>1 DEF SlotRanges

LEMMA CoverOf ==
  ASSUME NEW l \in Seq(SlotRanges), NEW s
  PROVE  s \in Covers(l) <=> \E i \in DOMAIN l : s \in Run(l[i].first, l[i].length)
  BY DEF Covers, ToSet

LEMMA NoRanges ==
  ASSUME NEW lo \in Nat, NEW hi \in Nat
  PROVE  Ordered(<<>>, lo, hi) /\ Covers(<<>>) = {}
<1>1. <<>> \in Seq(SlotRanges) /\ DOMAIN <<>> = {} BY EmptySeq
<1> QED BY <1>1, CoverOf DEF Ordered

LEMMA OneRange ==
  ASSUME NEW r \in SlotRanges, r.length > 0, NEW lo \in Nat, NEW hi \in Nat, lo <= r.first, r.first + r.length <= hi
  PROVE  Ordered(<<r>>, lo, hi) /\ Covers(<<r>>) = Run(r.first, r.length)
<1>1. PICK l : l = <<r>> OBVIOUS
<1>2. l \in Seq(SlotRanges) /\ DOMAIN l = {1} /\ l[1] = r BY <1>1
<1>3. \A s : s \in Covers(l) <=> s \in Run(r.first, r.length) BY <1>2, CoverOf
<1>4. Ordered(l, lo, hi) BY <1>2 DEF Ordered
<1> QED BY <1>1, <1>3, <1>4

LEMMA ConcatRanges ==
  ASSUME NEW k, NEW l, NEW lo \in Nat, NEW m \in Nat, NEW hi \in Nat,
         Ordered(k, lo, m), Ordered(l, m, hi), lo <= m, m <= hi
  PROVE  Ordered(k \o l, lo, hi) /\ Covers(k \o l) = Covers(k) \cup Covers(l)
<1>1. k \in Seq(SlotRanges) /\ l \in Seq(SlotRanges) BY DEF Ordered
<1>2. /\ Len(k) \in Nat /\ DOMAIN k = 1 .. Len(k) /\ Len(l) \in Nat /\ DOMAIN l = 1 .. Len(l)
      /\ \A i \in DOMAIN k : k[i].first \in Nat /\ k[i].length \in Nat
      /\ \A i \in DOMAIN l : l[i].first \in Nat /\ l[i].length \in Nat
  BY <1>1, RangeLists
<1>3. PICK q : q = k \o l OBVIOUS
<1>4. /\ q \in Seq(SlotRanges) /\ Len(q) = Len(k) + Len(l)
      /\ \A i \in 1 .. Len(k) + Len(l) : q[i] = IF i <= Len(k) THEN k[i] ELSE l[i - Len(k)]
  BY <1>1, <1>3, ConcatProperties
<1>5. DOMAIN q = 1 .. Len(k) + Len(l) BY <1>4, RangeLists
<1>6. \A i \in DOMAIN k : i \in DOMAIN q /\ q[i] = k[i] BY <1>2, <1>4, <1>5
<1>7. \A i \in DOMAIN l : Len(k) + i \in DOMAIN q /\ q[Len(k) + i] = l[i]
 <2>1. SUFFICES ASSUME NEW i \in 1 .. Len(l) PROVE Len(k) + i \in 1 .. Len(k) + Len(l) /\ q[Len(k) + i] = l[i]
   BY <1>2, <1>5
 <2>2. PICK j : j = Len(k) + i OBVIOUS
 <2>3. j \in 1 .. Len(k) + Len(l) /\ ~(j <= Len(k)) /\ j - Len(k) = i BY <1>2, <2>2
 <2> QED BY <1>4, <2>2, <2>3
<1>8. \A j \in DOMAIN q : (j \in DOMAIN k /\ q[j] = k[j]) \/ (~(j <= Len(k)) /\ \E i \in DOMAIN l : j = Len(k) + i /\ q[j] = l[i])
 <2>1. SUFFICES ASSUME NEW j \in 1 .. Len(k) + Len(l), ~(j <= Len(k))
                PROVE  \E i \in DOMAIN l : j = Len(k) + i /\ q[j] = l[i]
   BY <1>2, <1>4, <1>5
 <2>2. PICK i : i = j - Len(k) OBVIOUS
 <2>3. i \in 1 .. Len(l) /\ j = Len(k) + i BY <1>2, <2>1, <2>2
 <2> QED BY <1>2, <1>7, <2>3
<1>9. /\ \A i \in DOMAIN k : k[i].length > 0 /\ lo <= k[i].first /\ k[i].first + k[i].length <= m
      /\ \A i \in DOMAIN l : l[i].length > 0 /\ m <= l[i].first /\ l[i].first + l[i].length <= hi
      /\ \A i, j \in DOMAIN k : i < j => k[i].first + k[i].length <= k[j].first
      /\ \A i, j \in DOMAIN l : i < j => l[i].first + l[i].length <= l[j].first
  BY DEF Ordered
<1>10. \A j \in DOMAIN q : q[j].length > 0 /\ lo <= q[j].first /\ q[j].first + q[j].length <= hi
 <2>1. \A i \in DOMAIN k : k[i].length > 0 /\ lo <= k[i].first /\ k[i].first + k[i].length <= hi BY <1>2, <1>9
 <2>2. \A i \in DOMAIN l : l[i].length > 0 /\ lo <= l[i].first /\ l[i].first + l[i].length <= hi BY <1>2, <1>9
 <2> QED BY <1>8, <2>1, <2>2
<1>11. ASSUME NEW i \in DOMAIN q, NEW j \in DOMAIN q, i < j PROVE q[i].first + q[i].length <= q[j].first
 <2>1. CASE j \in DOMAIN k /\ q[j] = k[j]
  <3>1. i \in DOMAIN k /\ q[i] = k[i] BY <1>2, <1>5, <1>6, <1>11, <2>1
  <3> QED BY <1>9, <1>11, <2>1, <3>1
 <2>2. ASSUME NEW f \in DOMAIN l, j = Len(k) + f, q[j] = l[f] PROVE q[i].first + q[i].length <= q[j].first
  <3>1. CASE i \in DOMAIN k /\ q[i] = k[i] BY <1>2, <1>9, <2>2, <3>1
  <3>2. ASSUME NEW e \in DOMAIN l, i = Len(k) + e, q[i] = l[e] PROVE q[i].first + q[i].length <= q[j].first
   <4>1. e < f BY <1>2, <1>11, <2>2, <3>2
   <4> QED BY <1>9, <2>2, <3>2, <4>1
  <3> QED BY <1>8, <3>1, <3>2
 <2> QED BY <1>8, <2>1, <2>2
<1>12. Covers(q) = Covers(k) \cup Covers(l)
 <2>1. \A s : s \in Covers(q) <=> s \in Covers(k) \/ s \in Covers(l)
  <3>1. SUFFICES ASSUME NEW s PROVE s \in Covers(q) <=> s \in Covers(k) \/ s \in Covers(l) OBVIOUS
  <3>2. ASSUME s \in Covers(q) PROVE s \in Covers(k) \/ s \in Covers(l)
   <4>1. PICK j \in DOMAIN q : s \in Run(q[j].first, q[j].length) BY <1>4, <3>2, CoverOf
   <4>2. CASE j \in DOMAIN k /\ q[j] = k[j] BY <1>1, <4>1, <4>2, CoverOf
   <4>3. CASE \E i \in DOMAIN l : q[j] = l[i] BY <1>1, <4>1, <4>3, CoverOf
   <4> QED BY <1>8, <4>2, <4>3
  <3>3. s \in Covers(k) => s \in Covers(q) BY <1>1, <1>4, <1>6, CoverOf
  <3>4. ASSUME s \in Covers(l) PROVE s \in Covers(q)
   <4>1. PICK i \in DOMAIN l : s \in Run(l[i].first, l[i].length) BY <1>1, <3>4, CoverOf
   <4>2. \E j \in DOMAIN q : q[j] = l[i] BY <1>7
   <4> QED BY <1>4, <4>1, <4>2, CoverOf
  <3> QED BY <3>2, <3>3, <3>4
 <2> QED BY <2>1
<1> QED BY <1>3, <1>4, <1>10, <1>11, <1>12 DEF Ordered

\* A piece of a list of ranges.
LEMMA PieceOf ==
  ASSUME NEW l, NEW lo \in Nat, NEW hi \in Nat, Ordered(l, lo, hi),
         NEW m \in Int, NEW n \in Int, m >= 1, n <= Len(l), NEW a \in Nat, NEW z \in Nat,
         \A i \in m .. n : a <= l[i].first /\ l[i].first + l[i].length <= z
  PROVE  /\ Ordered(SubSeq(l, m, n), a, z)
         /\ \A s : s \in Covers(SubSeq(l, m, n)) <=> \E i \in m .. n : s \in Run(l[i].first, l[i].length)
<1>1. l \in Seq(SlotRanges) BY DEF Ordered
<1>2. Len(l) \in Nat /\ DOMAIN l = 1 .. Len(l) /\ \A i \in DOMAIN l : l[i] \in SlotRanges BY <1>1, RangeLists
<1>3. \A i \in m .. n : i \in DOMAIN l /\ l[i] \in SlotRanges BY <1>2
<1>4. PICK q : q = SubSeq(l, m, n) OBVIOUS
<1>5. /\ q \in Seq(SlotRanges) /\ Len(q) = IF m <= n THEN n - m + 1 ELSE 0
      /\ \A i \in 1 .. n - m + 1 : q[i] = l[m + i - 1]
  BY <1>3, <1>4, SubSeqProperties
<1>6. DOMAIN q = 1 .. n - m + 1
 <2>1. CASE m <= n BY <1>5, <2>1, RangeLists
 <2>2. CASE ~(m <= n)
  <3>1. DOMAIN q = 1 .. 0 BY <1>5, <2>2, RangeLists
  <3> QED BY <2>2, <3>1
 <2> QED BY <2>1, <2>2
<1>7. \A i \in DOMAIN q : i \in Nat /\ \E j \in m .. n : j = m + i - 1 /\ q[i] = l[j]
 <2>1. SUFFICES ASSUME NEW i \in 1 .. n - m + 1 PROVE i \in Nat /\ \E j \in m .. n : j = m + i - 1 /\ q[i] = l[j]
   BY <1>6
 <2>2. PICK j : j = m + i - 1 OBVIOUS
 <2>3. i \in Nat /\ j \in m .. n BY <2>1, <2>2
 <2>4. q[i] = l[j] BY <1>5, <2>1, <2>2
 <2> QED BY <2>2, <2>3, <2>4
<1>8. \A j \in m .. n : \E i \in DOMAIN q : q[i] = l[j]
 <2>1. SUFFICES ASSUME NEW j \in m .. n PROVE \E i \in DOMAIN q : q[i] = l[j] OBVIOUS
 <2>2. PICK i : i = j - m + 1 OBVIOUS
 <2>3. i \in DOMAIN q /\ m + i - 1 = j BY <1>6, <2>2
 <2> QED BY <1>5, <1>6, <2>3
<1>9. \A i \in DOMAIN q : q[i].length > 0 /\ a <= q[i].first /\ q[i].first + q[i].length <= z
 <2>1. \A j \in m .. n : l[j].length > 0 /\ a <= l[j].first /\ l[j].first + l[j].length <= z BY <1>3 DEF Ordered
 <2> QED BY <1>7, <2>1
<1>10. ASSUME NEW i \in DOMAIN q, NEW j \in DOMAIN q, i < j PROVE q[i].first + q[i].length <= q[j].first
 <2>1. PICK e \in m .. n : e = m + i - 1 /\ q[i] = l[e] BY <1>7
 <2>2. PICK f \in m .. n : f = m + j - 1 /\ q[j] = l[f] BY <1>7
 <2>3. e < f /\ e \in DOMAIN l /\ f \in DOMAIN l BY <1>3, <1>7, <1>10, <2>1, <2>2
 <2>4. \A g, h \in DOMAIN l : g < h => l[g].first + l[g].length <= l[h].first BY DEF Ordered
 <2> QED BY <2>1, <2>2, <2>3, <2>4
<1>11. \A s : s \in Covers(q) <=> \E i \in m .. n : s \in Run(l[i].first, l[i].length)
 <2>1. SUFFICES ASSUME NEW s PROVE s \in Covers(q) <=> \E i \in m .. n : s \in Run(l[i].first, l[i].length) OBVIOUS
 <2>2. ASSUME s \in Covers(q) PROVE \E i \in m .. n : s \in Run(l[i].first, l[i].length)
  <3>1. PICK i \in DOMAIN q : s \in Run(q[i].first, q[i].length) BY <1>5, <2>2, CoverOf
  <3>2. PICK j \in m .. n : q[i] = l[j] BY <1>7
  <3> QED BY <3>1, <3>2
 <2>3. ASSUME NEW j \in m .. n, s \in Run(l[j].first, l[j].length) PROVE s \in Covers(q)
  <3>1. PICK i \in DOMAIN q : q[i] = l[j] BY <1>8
  <3> QED BY <1>5, <2>3, <3>1, CoverOf
 <2> QED BY <2>2, <2>3
<1> QED BY <1>4, <1>5, <1>9, <1>10, <1>11 DEF Ordered

Some(r) == IF r.length > 0 THEN <<r>> ELSE <<>>

LEMMA SomeOf ==
  ASSUME NEW r \in SlotRanges, NEW lo \in Nat, NEW hi \in Nat, lo <= r.first, r.first + r.length <= hi
  PROVE  Ordered(Some(r), lo, hi) /\ Covers(Some(r)) = Run(r.first, r.length)
<1>1. r.first \in Nat /\ r.length \in Nat BY DEF SlotRanges
<1>2. CASE r.length > 0
 <2>1. Some(r) = <<r>> BY <1>2 DEF Some
 <2> QED BY <1>2, <2>1, OneRange
<1>3. CASE ~(r.length > 0)
 <2>1. Some(r) = <<>> BY <1>3 DEF Some
 <2>2. Run(r.first, r.length) = {} BY <1>1, <1>3 DEF Run
 <2> QED BY <2>1, <2>2, NoRanges
<1> QED BY <1>2, <1>3

LEMMA WithoutIsOrdered ==
  ASSUME NEW l, NEW hi \in Nat, Ordered(l, 0, hi), NEW i \in DOMAIN l, NEW s, s \in Run(l[i].first, l[i].length)
  PROVE  Ordered(Without(l, i, s), 0, hi) /\ Covers(Without(l, i, s)) = Covers(l) \ {s}
<1>1. l \in Seq(SlotRanges) BY DEF Ordered
<1>2. /\ Len(l) \in Nat /\ DOMAIN l = 1 .. Len(l)
      /\ \A j \in DOMAIN l : l[j].first \in Nat /\ l[j].length \in Nat
  BY <1>1, RangeLists
<1>3. PICK first \in Nat, length \in Nat, end \in Nat : first = l[i].first /\ length = l[i].length /\ end = first + length
  BY <1>2
<1>4. s \in Nat /\ first <= s /\ s < end /\ end <= hi
 <2>1. end <= hi BY <1>3 DEF Ordered
 <2> QED BY <1>3, <2>1 DEF Run
<1>5. \A j \in DOMAIN l : (j < i => l[j].first + l[j].length <= first) /\ (i < j => end <= l[j].first)
  BY <1>3 DEF Ordered
<1>6. PICK b, f : b = Unclaimed(first, s - first) /\ f = Unclaimed(s + 1, length - b.length - 1) OBVIOUS
<1>7. PICK bn \in Nat, fn \in Nat, after \in Nat : bn = s - first /\ fn = length - bn - 1 /\ after = s + 1 BY <1>3, <1>4
<1>8. b = Unclaimed(first, bn) /\ f = Unclaimed(after, fn) BY <1>6, <1>7 DEF Unclaimed
<1>9. PICK sb, sf, left, right : /\ sb = Some(b)
                                 /\ sf = Some(f)
                                 /\ left = SubSeq(l, 1, i - 1) /\ right = SubSeq(l, i + 1, Len(l))
  OBVIOUS
<1>. /\ b \in SlotRanges /\ b.first = first /\ b.length = bn
     /\ f \in SlotRanges /\ f.first = after /\ f.length = fn
  BY <1>8 DEF SlotRanges, Unclaimed
<1>. first <= s /\ first + bn <= s /\ s <= after /\ after + fn <= end /\ s \in Nat BY <1>3, <1>4, <1>7
<1>10. Ordered(sb, first, s) /\ Covers(sb) = Run(first, bn) BY <1>9, SomeOf
<1>11. Ordered(sf, s, end) /\ Covers(sf) = Run(after, fn) BY <1>9, SomeOf
<1>12. PICK middle : middle = sb \o sf OBVIOUS
<1>13. Ordered(middle, first, end) /\ Covers(middle) = Run(first, bn) \cup Run(after, fn)
  BY <1>3, <1>4, <1>10, <1>11, <1>12, ConcatRanges
<1>14. i \in Int /\ 1 <= i /\ i <= Len(l) BY <1>2
<1>15. /\ Ordered(left, 0, first)
       /\ \A x : x \in Covers(left) <=> \E j \in 1 .. i - 1 : x \in Run(l[j].first, l[j].length)
 <2>1. \A j \in 1 .. i - 1 : 0 <= l[j].first /\ l[j].first + l[j].length <= first BY <1>2, <1>5, <1>14
 <2>2. PICK n \in Int : n = i - 1 /\ n <= Len(l) BY <1>2, <1>14
 <2>3. \A j \in 1 .. n : 0 <= l[j].first /\ l[j].first + l[j].length <= first BY <2>1, <2>2
 <2>4. left = SubSeq(l, 1, n) BY <1>9, <2>2
 <2>5. 0 \in Nat /\ 1 \in Int /\ 1 >= 1 OBVIOUS
 <2>6. /\ Ordered(SubSeq(l, 1, n), 0, first)
       /\ \A x : x \in Covers(SubSeq(l, 1, n)) <=> \E j \in 1 .. n : x \in Run(l[j].first, l[j].length)
   BY <2>2, <2>3, <2>5, PieceOf
 <2> QED BY <2>2, <2>4, <2>6
<1>16. /\ Ordered(right, end, hi)
       /\ \A x : x \in Covers(right) <=> \E j \in i + 1 .. Len(l) : x \in Run(l[j].first, l[j].length)
 <2>1. \A j \in i + 1 .. Len(l) : j \in DOMAIN l /\ i < j BY <1>2, <1>14
 <2>2. \A j \in DOMAIN l : l[j].first + l[j].length <= hi BY DEF Ordered
 <2>3. \A j \in i + 1 .. Len(l) : end <= l[j].first /\ l[j].first + l[j].length <= hi BY <1>5, <2>1, <2>2
 <2>4. PICK m \in Int : m = i + 1 /\ m >= 1 BY <1>2, <1>14
 <2>5. PICK n \in Nat : n = Len(l) BY <1>2
 <2>9. n \in Int /\ n <= Len(l) BY <2>5
 <2>6. \A j \in m .. n : end <= l[j].first /\ l[j].first + l[j].length <= hi BY <2>3, <2>4, <2>5
 <2>7. right = SubSeq(l, m, n) BY <1>9, <2>4, <2>5
 <2>8. /\ Ordered(SubSeq(l, m, n), end, hi)
       /\ \A x : x \in Covers(SubSeq(l, m, n)) <=> \E j \in m .. n : x \in Run(l[j].first, l[j].length)
   BY <2>4, <2>5, <2>6, <2>9, PieceOf
 <2> QED BY <2>4, <2>5, <2>7, <2>8
<1>17. PICK front : front = left \o middle OBVIOUS
<1>18. Ordered(front, 0, end) /\ Covers(front) = Covers(left) \cup Covers(middle)
  BY <1>3, <1>4, <1>13, <1>15, <1>17, ConcatRanges
<1>19. PICK all : all = front \o right OBVIOUS
<1>20. Ordered(all, 0, hi) /\ Covers(all) = Covers(left) \cup Covers(middle) \cup Covers(right)
  BY <1>3, <1>4, <1>16, <1>18, <1>19, ConcatRanges
<1>21. all = Without(l, i, s) BY <1>3, <1>6, <1>9, <1>12, <1>17, <1>19 DEF Without, Some
<1>22. \A x : x \in Run(first, bn) \cup Run(after, fn) <=> x \in Run(first, length) /\ x # s
 <2>1. SUFFICES ASSUME NEW x PROVE x \in Run(first, bn) \cup Run(after, fn) <=> x \in Run(first, length) /\ x # s
   OBVIOUS
 <2>2. x \in Run(first, length) <=> x \in Int /\ first <= x /\ x < end BY <1>3 DEF Run
 <2>3. x \in Run(first, bn) <=> x \in Int /\ first <= x /\ x < s BY <1>3, <1>4, <1>7 DEF Run
 <2>4. x \in Run(after, fn) <=> x \in Int /\ s < x /\ x < end BY <1>3, <1>4, <1>7 DEF Run
 <2>5. x \in Int => (x < s \/ s < x <=> x # s) BY <1>4
 <2>6. x \in Int => (x < s => x < end) /\ (s < x => first <= x) BY <1>3, <1>4
 <2> QED BY <2>2, <2>3, <2>4, <2>5, <2>6
<1>23. \A x : x \in Covers(all) <=> x \in Covers(l) /\ x # s
 <2>1. SUFFICES ASSUME NEW x PROVE x \in Covers(all) <=> x \in Covers(l) /\ x # s OBVIOUS
 <2>2. \A j \in DOMAIN l : j # i => ~(s \in Run(l[j].first, l[j].length))
  <3>1. SUFFICES ASSUME NEW j \in DOMAIN l, j # i PROVE ~(s \in Run(l[j].first, l[j].length)) OBVIOUS
  <3>2. j < i \/ i < j BY <1>2, <3>1
  <3>3. l[j].first \in Nat /\ l[j].length \in Nat /\ (l[j].first + l[j].length <= first \/ end <= l[j].first)
    BY <1>2, <1>5, <3>1, <3>2
  <3> QED BY <1>3, <1>4, <3>3 DEF Run
 <2>3. ASSUME x \in Covers(all) PROVE x \in Covers(l) /\ x # s
  <3>1. CASE x \in Covers(middle) BY <1>1, <1>3, <1>13, <1>22, <3>1, CoverOf
  <3>2. CASE x \in Covers(left)
   <4>1. PICK j \in 1 .. i - 1 : x \in Run(l[j].first, l[j].length) BY <1>15, <3>2
   <4>2. j \in DOMAIN l /\ j # i BY <1>2, <1>14
   <4> QED BY <1>1, <2>2, <4>1, <4>2, CoverOf
  <3>3. CASE x \in Covers(right)
   <4>1. PICK j \in i + 1 .. Len(l) : x \in Run(l[j].first, l[j].length) BY <1>16, <3>3
   <4>2. j \in DOMAIN l /\ j # i BY <1>2, <1>14
   <4> QED BY <1>1, <2>2, <4>1, <4>2, CoverOf
  <3> QED BY <1>20, <2>3, <3>1, <3>2, <3>3
 <2>4. ASSUME x \in Covers(l), x # s PROVE x \in Covers(all)
  <3>1. PICK j \in DOMAIN l : x \in Run(l[j].first, l[j].length) BY <1>1, <2>4, CoverOf
  <3>2. CASE j = i BY <1>3, <1>13, <1>20, <1>22, <2>4, <3>1, <3>2
  <3>3. CASE j # i
   <4>1. j \in 1 .. i - 1 \/ j \in i + 1 .. Len(l) BY <1>2, <1>14, <3>3
   <4> QED BY <1>15, <1>16, <1>20, <3>1, <4>1
  <3> QED BY <3>2, <3>3
 <2> QED BY <2>3, <2>4
<1> QED BY <1>20, <1>21, <1>23
--------------------
\* The tracker.

Working(at) == at \notin {"idle", "claim"}

LEMMA InitIsSound == ObjectsInit => ObjectsInv
<1>1. SUFFICES ASSUME ObjectsInit PROVE ObjectsInv OBVIOUS
<1>2. NoBuilding \in Builds /\ NoBuilding.at = "idle" BY DEF NoBuilding, Builds, Places
<1>3. NoneMade \in BatchKinds BY DEF NoneMade, BatchKinds
<1>4. <<>> \in Seq(SlotRanges) BY EmptySeq
<1>5. NoReservation \in Reservations BY <1>4 DEF NoReservation, Reservations
<1>6. ObjectTypes BY <1>1, <1>2, <1>3, <1>5 DEF ObjectTypes, ObjectsInit, SlotPhases
<1>7. Tracker BY <1>1, <1>2 DEF ObjectsInit, Tracker, Works, Busy
<1>8. Run(0, 0) = {} BY DEF Run
<1>9. Batch BY <1>1, <1>8 DEF ObjectsInit, Batch, NoneMade
<1>10. Ordered(<<>>, 0, SlotCount) /\ Covers(<<>>) = {} BY SlotAssumption, NoRanges
<1>11. Ranged BY <1>1, <1>10 DEF ObjectsInit, Ranged, NoReservation
<1> QED BY <1>6, <1>7, <1>9, <1>11 DEF ObjectsInv

LEMMA OthersOfTracker ==
  ASSUME Batch, Ranged, use = "tracked", UNCHANGED <<use, vacant, made, reserved, claims>>
  PROVE  Batch' /\ Ranged'
<1>1. Batch' BY DEF Batch
<1>2. Ranged' BY DEF Ranged, Covers, Ordered
<1> QED BY <1>1, <1>2

LEMMA OthersOfPool ==
  ASSUME Tracker, use # "tracked", UNCHANGED <<use, slotPhase, building>>
  PROVE  Tracker'
  BY DEF Tracker, Works, Busy

\* A builder that works on no slot and comes to work on none.
LEMMA BuilderMoves ==
  ASSUME ObjectTypes, Tracker, NEW b \in Builders, NEW w \in Builds, use = "tracked",
         ~Works(b), ~Working(w.at), w.at # "idle" => w.slot <= w.last /\ w.last \in SlotIds /\ w.by # "none",
         building' = [building EXCEPT ![b] = w], UNCHANGED <<use, slotPhase, object>>
  PROVE  Tracker' /\ building' \in [Builders -> Builds]
<1>1. building \in [Builders -> Builds] BY DEF ObjectTypes
<1>2. /\ building' \in [Builders -> Builds] /\ building'[b] = w
      /\ \A d \in Builders : d # b => building'[d] = building[d]
  BY <1>1
<1>3. \A d \in Builders : Works(d)' <=> Works(d) BY <1>2 DEF Works, Working
<1>4. \A d \in Builders : Works(d)' => d # b BY <1>3
<1>5. (\A d \in Builders : Works(d) => SlotOf(d))'
 <2>1. SUFFICES ASSUME NEW d \in Builders, Works(d)' PROVE SlotOf(d)' OBVIOUS
 <2>2. Works(d) /\ building'[d] = building[d] BY <1>2, <1>3, <1>4, <2>1
 <2> QED BY <2>2 DEF Tracker, SlotOf, Busy
<1>6. (\A d \in Builders : building[d].at # "idle" =>
          building[d].slot <= building[d].last /\ building[d].last \in SlotIds /\ building[d].by # "none")'
  BY <1>2 DEF Tracker, SlotIds
<1>7. (\A d, e \in Builders : Works(d) /\ Works(e) /\ building[d].slot = building[e].slot => d = e)'
  BY <1>2, <1>3, <1>4 DEF Tracker
<1>8. (\A s \in SlotIds : Busy(s) => \E d \in Builders : Works(d) /\ building[d].slot = s)'
 <2>1. SUFFICES ASSUME NEW s \in SlotIds, Busy(s)' PROVE \E d \in Builders : Works(d)' /\ building'[d].slot = s
   BY DEF SlotIds
 <2>2. Busy(s) BY <2>1 DEF Busy
 <2>3. PICK d \in Builders : Works(d) /\ building[d].slot = s BY <2>2 DEF Tracker
 <2> QED BY <1>2, <1>3, <1>4, <2>3
<1> QED BY <1>2, <1>5, <1>6, <1>7, <1>8 DEF Tracker, Busy, SlotIds

SetTo(new, old, x, v) == new = [old EXCEPT ![x] = v]

\* A builder at slot s, which it works on or is about to leave, while the
\* slot is in phase p and has o objects.
Shaped(w, s, p, o) ==
  /\ w.at # "idle" => w.slot <= w.last /\ w.last \in SlotIds /\ w.by # "none"
  /\ Working(w.at) => /\ w.slot = s
                      /\ (w.at \in {"destroying", "constructed"} => o = 1) /\ (w.at \notin {"destroying", "constructed"} => o = 0)
                      /\ w.at \in {"destroying", "destroyed"} => p = "destroying"
                      /\ w.at \in {"constructing", "constructed"} => p = "constructing"
  /\ Working(w.at) <=> p \in {"constructing", "destroying"}
  /\ ~Working(w.at) => (p = "live" => o = 1) /\ (p # "live" => o = 0)

\* A builder at its slot, which it keeps or leaves.
LEMMA BuilderWorks ==
  ASSUME ObjectTypes, Tracker, NEW b \in Builders, NEW w \in Builds, NEW s \in SlotIds, NEW p \in SlotPhases, NEW o \in {0, 1},
         use = "tracked", use' = use, SetTo(building', building, b, w),
         SetTo(slotPhase', slotPhase, s, p), SetTo(object', object, s, o),
         \A d \in Builders : d # b /\ Works(d) => building[d].slot # s,
         Works(b) => building[b].slot = s,
         Shaped(w, s, p, o)
  PROVE  Tracker' /\ building' \in [Builders -> Builds] /\ slotPhase' \in [SlotIds -> SlotPhases] /\ object' \in [SlotIds -> {0, 1}]
<1>1. building \in [Builders -> Builds] /\ slotPhase \in [SlotIds -> SlotPhases] /\ object \in [SlotIds -> {0, 1}]
  BY DEF ObjectTypes
<1>2. /\ building' \in [Builders -> Builds] /\ building'[b] = w
      /\ \A d \in Builders : d # b => building'[d] = building[d]
  BY <1>1 DEF SetTo
<1>3. /\ slotPhase' \in [SlotIds -> SlotPhases] /\ slotPhase'[s] = p
      /\ \A t \in SlotIds : t # s => slotPhase'[t] = slotPhase[t]
  BY <1>1 DEF SetTo
<1>4. /\ object' \in [SlotIds -> {0, 1}] /\ object'[s] = o
      /\ \A t \in SlotIds : t # s => object'[t] = object[t]
  BY <1>1 DEF SetTo
<1>. /\ w.at # "idle" => w.slot <= w.last /\ w.last \in SlotIds /\ w.by # "none"
     /\ Working(w.at) => /\ w.slot = s
                         /\ (w.at \in {"destroying", "constructed"} => o = 1) /\ (w.at \notin {"destroying", "constructed"} => o = 0)
                         /\ w.at \in {"destroying", "destroyed"} => p = "destroying"
                         /\ w.at \in {"constructing", "constructed"} => p = "constructing"
     /\ Working(w.at) <=> p \in {"constructing", "destroying"}
     /\ ~Working(w.at) => (p = "live" => o = 1) /\ (p # "live" => o = 0)
  BY DEF Shaped
<1>5. \A d \in Builders : d # b => (Works(d)' <=> Works(d)) BY <1>2 DEF Works
<1>6. Works(b)' <=> Working(w.at) BY <1>2 DEF Works, Working
<1>7. \A t \in SlotIds : t # s => (Busy(t)' <=> Busy(t)) BY <1>3 DEF Busy
<1>8. Busy(s)' <=> Working(w.at) BY <1>3 DEF Busy
<1>9. (\A d \in Builders : Works(d) => SlotOf(d))'
 <2>1. SUFFICES ASSUME NEW d \in Builders, Works(d)' PROVE SlotOf(d)' OBVIOUS
 <2>2. CASE d = b
  <3>1. Working(w.at) /\ w.slot = s BY <1>6, <2>1, <2>2
  <3> QED BY <1>2, <1>3, <1>4, <1>8, <2>2, <3>1 DEF SlotOf, SlotIds, Busy
 <2>3. CASE d # b
  <3>1. Works(d) /\ building'[d] = building[d] /\ building[d].slot # s BY <1>2, <1>5, <2>1, <2>3
  <3>2. SlotOf(d) BY <3>1 DEF Tracker
  <3>3. building[d].slot \in SlotIds BY <3>2 DEF SlotOf
  <3>4. PICK t \in SlotIds : t = building[d].slot BY <3>3
  <3>5. t # s /\ slotPhase'[t] = slotPhase[t] /\ object'[t] = object[t] BY <1>3, <1>4, <3>1, <3>4
  <3> QED BY <3>1, <3>2, <3>4, <3>5 DEF SlotOf, SlotIds, Busy
 <2> QED BY <2>2, <2>3
<1>10. (\A d \in Builders : building[d].at # "idle" =>
          building[d].slot <= building[d].last /\ building[d].last \in SlotIds /\ building[d].by # "none")'
  BY <1>2 DEF Tracker, SlotIds
<1>11. (\A d, e \in Builders : Works(d) /\ Works(e) /\ building[d].slot = building[e].slot => d = e)'
 <2>1. SUFFICES ASSUME NEW d \in Builders, NEW e \in Builders, Works(d)', Works(e)', building'[d].slot = building'[e].slot
                PROVE  d = e
   OBVIOUS
 <2>2. \A f \in Builders : f = b /\ Works(f)' => building'[f].slot = s BY <1>2, <1>6
 <2>3. \A f \in Builders : f # b /\ Works(f)' => Works(f) /\ building'[f] = building[f] /\ building'[f].slot # s
   BY <1>2, <1>5
 <2>4. \A f, g \in Builders : Works(f) /\ Works(g) /\ building[f].slot = building[g].slot => f = g BY DEF Tracker
 <2> QED BY <2>1, <2>2, <2>3, <2>4
<1>12. (\A t \in SlotIds : Busy(t) => \E d \in Builders : Works(d) /\ building[d].slot = t)'
 <2>1. SUFFICES ASSUME NEW t \in SlotIds, Busy(t)' PROVE \E d \in Builders : Works(d)' /\ building'[d].slot = t
   BY DEF SlotIds
 <2>2. CASE t = s BY <1>2, <1>6, <1>8, <2>1, <2>2
 <2>3. CASE t # s
  <3>1. PICK d \in Builders : Works(d) /\ building[d].slot = t BY <1>7, <2>1, <2>3 DEF Tracker
  <3>2. d # b BY <2>3, <3>1
  <3> QED BY <1>2, <1>5, <3>1, <3>2
 <2> QED BY <2>2, <2>3
<1>13. (use = "tracked" => \A t \in SlotIds : ~Busy(t) => ((object[t] = 1) <=> (slotPhase[t] = "live")))'
 <2>1. SUFFICES ASSUME NEW t \in SlotIds, ~Busy(t)' PROVE object'[t] = 1 <=> slotPhase'[t] = "live" BY DEF SlotIds
 <2>2. CASE t = s BY <1>3, <1>4, <1>8, <2>1, <2>2
 <2>3. CASE t # s BY <1>3, <1>4, <1>7, <2>1, <2>3 DEF Tracker
 <2> QED BY <2>2, <2>3
<1>14. (use # "tracked" => \A d \in Builders : building[d].at = "idle")' OBVIOUS
<1> QED BY <1>2, <1>3, <1>4, <1>9, <1>10, <1>11, <1>12, <1>13, <1>14 DEF Tracker
\* What a builder that may work on slot s says of the others.
LEMMA AloneAt ==
  ASSUME ObjectTypes, Tracker, NEW b \in Builders, Works(b)
  PROVE  /\ use = "tracked" /\ SlotOf(b) /\ building[b] \in Builds /\ building[b].slot \in SlotIds
         /\ building[b].slot <= building[b].last /\ building[b].last \in SlotIds /\ building[b].by # "none"
         /\ \A d \in Builders : d # b /\ Works(d) => building[d].slot # building[b].slot
<1>1. building[b].at # "idle" BY DEF Works
<1>2. use = "tracked" BY <1>1 DEF Tracker
<1>3. SlotOf(b) BY DEF Tracker
<1>4. building[b].slot \in SlotIds BY <1>3 DEF SlotOf
<1>5. building[b] \in Builds BY DEF ObjectTypes
<1> QED BY <1>1, <1>2, <1>3, <1>4, <1>5 DEF Tracker

LEMMA BeginIsSound ==
  ASSUME ObjectsInv, NEW b \in Builders, NEW by \in {"construct", "destroy"}, NEW r \in Ranges, Begin(b, by, r)
  PROVE  ObjectsInv'
<1>1. ObjectTypes /\ Tracker /\ Batch /\ Ranged BY DEF ObjectsInv
<1>2. r[1] \in SlotIds /\ r[2] \in SlotIds /\ r[1] <= r[2] BY DEF Ranges
<1>3. PICK w : w = [at |-> "claim", slot |-> r[1], last |-> r[2], by |-> by] OBVIOUS
<1>4. /\ w \in Builds /\ ~Working(w.at) /\ w.slot <= w.last /\ w.last \in SlotIds /\ w.by # "none"
  BY <1>2, <1>3 DEF Builds, Places, Working, SlotIds
<1>5. /\ use = "tracked" /\ ~Works(b) /\ building' = [building EXCEPT ![b] = w]
      /\ UNCHANGED <<use, slotPhase, object, vacant, made, reserved, claims>>
  BY <1>3 DEF Begin, Works, NoBuilding
<1>6. Tracker' /\ building' \in [Builders -> Builds] BY <1>1, <1>4, <1>5, BuilderMoves
<1>7. ObjectTypes' BY <1>1, <1>5, <1>6 DEF ObjectTypes
<1>8. Batch' /\ Ranged' BY <1>1, <1>5, OthersOfTracker
<1> QED BY <1>6, <1>7, <1>8 DEF ObjectsInv

LEMMA ClaimIsSound ==
  ASSUME ObjectsInv, NEW b \in Builders, Claim(b)
  PROVE  ObjectsInv'
<1>1. ObjectTypes /\ Tracker /\ Batch /\ Ranged BY DEF ObjectsInv
<1>2. PICK u \in Builds : u = building[b] BY <1>1 DEF ObjectTypes
<1>3. /\ u.at = "claim" /\ u.slot \in Nat /\ u.last \in Nat /\ u.slot <= u.last /\ u.last \in SlotIds /\ u.by # "none"
      /\ use = "tracked" /\ ~Works(b)
  BY <1>1, <1>2 DEF Claim, Tracker, Works, Builds
<1>4. PICK s \in SlotIds : s = u.slot BY <1>3, SlotAssumption DEF SlotIds
<1>5. Claimed(b, s, u.last, u.by) /\ UNCHANGED <<use, object, vacant, made, reserved, claims>> BY <1>2, <1>4 DEF Claim
<1>6. Batch' /\ Ranged' BY <1>1, <1>3, <1>5, OthersOfTracker
<1>7. NoBuilding \in Builds /\ ~Working(NoBuilding.at) /\ NoBuilding.at = "idle"
  BY DEF NoBuilding, Builds, Places, Working
<1>8. ASSUME NEW w \in Builds, building' = [building EXCEPT ![b] = w], ~Working(w.at), UNCHANGED slotPhase,
             w.at # "idle" => w.slot <= w.last /\ w.last \in SlotIds /\ w.by # "none"
      PROVE  ObjectsInv'
 <2>1. Tracker' /\ building' \in [Builders -> Builds] BY <1>1, <1>3, <1>5, <1>8, BuilderMoves
 <2> QED BY <1>1, <1>5, <1>6, <1>8, <2>1 DEF ObjectsInv, ObjectTypes
<1>9. CASE Busy(s)
 <2>1. building' = [building EXCEPT ![b] = NoBuilding] /\ UNCHANGED slotPhase BY <1>5, <1>9 DEF Claimed
 <2> QED BY <1>7, <1>8, <2>1
<1>10. CASE ~Busy(s) /\ u.by = "destroy" /\ slotPhase[s] # "live"
 <2>1. PICK w : w = IF s = u.last THEN NoBuilding ELSE [u EXCEPT !.slot = s + 1] OBVIOUS
 <2>2. building' = [building EXCEPT ![b] = w] /\ UNCHANGED slotPhase BY <1>2, <1>5, <1>10, <2>1 DEF Claimed
 <2>3. s # u.last => s + 1 \in Nat /\ s + 1 <= u.last BY <1>3, <1>4
 <2>4. w \in Builds /\ ~Working(w.at) /\ (w.at # "idle" => w.slot <= w.last /\ w.last \in SlotIds /\ w.by # "none")
   BY <1>3, <1>7, <2>1, <2>3 DEF Builds, Working
 <2> QED BY <1>8, <2>2, <2>4
<1>11. CASE ~Busy(s) /\ ~(u.by = "destroy" /\ slotPhase[s] # "live")
 <2>1. PICK p : p = IF slotPhase[s] = "live" THEN "destroying" ELSE "constructing" OBVIOUS
 <2>2. PICK w : w = [u EXCEPT !.at = p] OBVIOUS
 <2>3. slotPhase \in [SlotIds -> SlotPhases] /\ object \in [SlotIds -> {0, 1}] BY <1>1 DEF ObjectTypes
 <2>4. /\ slotPhase' = [slotPhase EXCEPT ![s] = p] /\ building' = [building EXCEPT ![b] = w]
  <3>1. slotPhase' = [slotPhase EXCEPT ![s] = p] BY <1>5, <1>11, <2>1, <2>3 DEF Claimed
  <3>2. building' = [building EXCEPT ![b] = w] BY <1>2, <1>5, <1>11, <2>1, <2>2 DEF Claimed
  <3> QED BY <3>1, <3>2
 <2>5. /\ w \in Builds /\ Working(w.at) /\ w.at = p /\ w.slot = s /\ w.last = u.last /\ w.by = u.by
   BY <1>4, <2>1, <2>2 DEF Builds, Places, Working
 <2>6. PICK o \in {0, 1} : o = object[s] BY <2>3
 <2>7. object' = [object EXCEPT ![s] = o] BY <1>5, <2>3, <2>6
 <2>8. \A d \in Builders : d # b /\ Works(d) => building[d].slot # s BY <1>1, <1>11 DEF Tracker, SlotOf
 <2>9. p \in SlotPhases /\ p \in {"constructing", "destroying"} /\ (p = "destroying" <=> slotPhase[s] = "live")
   BY <2>1 DEF SlotPhases
 <2>10. o = 1 <=> slotPhase[s] = "live" BY <1>1, <1>3, <1>11, <2>6 DEF Tracker
 <2>11. Shaped(w, s, p, o) BY <1>3, <1>4, <2>5, <2>6, <2>9, <2>10 DEF Shaped
 <2>13. SetTo(building', building, b, w) /\ SetTo(slotPhase', slotPhase, s, p) /\ SetTo(object', object, s, o)
   BY <2>4, <2>7 DEF SetTo
 <2>12. Tracker' /\ building' \in [Builders -> Builds] /\ slotPhase' \in [SlotIds -> SlotPhases] /\ object' \in [SlotIds -> {0, 1}]
   BY <1>1, <1>3, <1>4, <1>5, <2>5, <2>6, <2>8, <2>9, <2>11, <2>13, BuilderWorks
 <2> QED BY <1>1, <1>5, <1>6, <2>12 DEF ObjectsInv, ObjectTypes
<1> QED BY <1>9, <1>10, <1>11

LEMMA WorkIsSound ==
  ASSUME ObjectsInv, NEW b \in Builders, DestroyOne(b) \/ ConstructOne(b)
  PROVE  ObjectsInv'
<1>1. ObjectTypes /\ Tracker /\ Batch /\ Ranged BY DEF ObjectsInv
<1>2. Works(b) /\ UNCHANGED <<use, slotPhase, vacant, made, reserved, claims>> BY DEF DestroyOne, ConstructOne, Works
<1>3. PICK u \in Builds : u = building[b] BY <1>1 DEF ObjectTypes
<1>4. PICK s \in SlotIds : s = u.slot BY <1>1, <1>2, <1>3, AloneAt
<1>5. /\ use = "tracked" /\ u.slot <= u.last /\ u.last \in SlotIds /\ u.by # "none" /\ building[b].slot = s
      /\ \A d \in Builders : d # b /\ Works(d) => building[d].slot # s
  BY <1>1, <1>2, <1>3, <1>4, AloneAt
<1>6. /\ u.at = "destroying" => slotPhase[s] = "destroying" /\ object[s] = 1
      /\ u.at = "constructing" => slotPhase[s] = "constructing" /\ object[s] = 0
  BY <1>1, <1>2, <1>3, <1>4, AloneAt DEF SlotOf
<1>7. slotPhase \in [SlotIds -> SlotPhases] /\ object \in [SlotIds -> {0, 1}] BY <1>1 DEF ObjectTypes
<1>8. PICK p \in SlotPhases : p = slotPhase[s] BY <1>7
<1>9. slotPhase' = [slotPhase EXCEPT ![s] = p] BY <1>2, <1>7, <1>8
<1>10. \E a \in {"destroyed", "constructed", "failed"}, o \in {0, 1} :
          /\ building' = [building EXCEPT ![b].at = a] /\ object' = [object EXCEPT ![s] = o]
          /\ o = IF a = "constructed" THEN 1 ELSE 0
          /\ a = "destroyed" => p = "destroying"
          /\ a = "constructed" => p = "constructing"
          /\ p \in {"constructing", "destroying"}
 <2>1. CASE DestroyOne(b)
  <3>1. u.at = "destroying" /\ object' = [object EXCEPT ![s] = object[s] - 1] BY <1>3, <1>4, <2>1 DEF DestroyOne
  <3>2. p = "destroying" /\ object[s] = 1 BY <1>6, <1>8, <3>1
  <3>4. object[s] - 1 = 0 BY <3>2
  <3>5. object' = [object EXCEPT ![s] = 0] BY <3>1, <3>4
  <3>3. building' = [building EXCEPT ![b].at = "destroyed"] \/ building' = [building EXCEPT ![b].at = "failed"]
    BY <2>1 DEF DestroyOne
  <3> QED BY <3>2, <3>3, <3>5
 <2>2. CASE ConstructOne(b)
  <3>1. u.at = "constructing" /\ p = "constructing" /\ object[s] = 0 BY <1>3, <1>6, <1>8, <2>2 DEF ConstructOne
  <3>2. CASE object' = [object EXCEPT ![s] = object[s] + 1] /\ building' = [building EXCEPT ![b].at = "constructed"]
   <4>1. object' = [object EXCEPT ![s] = 1] BY <3>1, <3>2
   <4> QED BY <3>1, <3>2, <4>1
  <3>3. CASE UNCHANGED object /\ building' = [building EXCEPT ![b].at = "failed"]
   <4>1. object' = [object EXCEPT ![s] = 0] BY <1>7, <3>1, <3>3
   <4> QED BY <3>1, <3>3, <4>1
  <3> QED BY <1>3, <1>4, <2>2, <3>2, <3>3 DEF ConstructOne
 <2> QED BY <2>1, <2>2
<1>11. PICK a \in {"destroyed", "constructed", "failed"}, o \in {0, 1} :
          /\ building' = [building EXCEPT ![b].at = a] /\ object' = [object EXCEPT ![s] = o]
          /\ o = IF a = "constructed" THEN 1 ELSE 0
          /\ a = "destroyed" => p = "destroying"
          /\ a = "constructed" => p = "constructing"
          /\ p \in {"constructing", "destroying"}
  BY <1>10
<1>12. PICK w : w = [u EXCEPT !.at = a] OBVIOUS
<1>13. /\ w \in Builds /\ Working(w.at) /\ w.at = a /\ w.slot = s /\ w.last = u.last /\ w.by = u.by
  BY <1>4, <1>12 DEF Builds, Places, Working
<1>14. building' = [building EXCEPT ![b] = w] BY <1>3, <1>11, <1>12
<1>15. Shaped(w, s, p, o) BY <1>4, <1>5, <1>11, <1>13 DEF Shaped
<1>18. SetTo(building', building, b, w) /\ SetTo(slotPhase', slotPhase, s, p) /\ SetTo(object', object, s, o)
  BY <1>9, <1>11, <1>14 DEF SetTo
<1>16. Tracker' /\ building' \in [Builders -> Builds] /\ slotPhase' \in [SlotIds -> SlotPhases] /\ object' \in [SlotIds -> {0, 1}]
  BY <1>1, <1>2, <1>4, <1>5, <1>8, <1>11, <1>13, <1>15, <1>18, BuilderWorks
<1>17. Batch' /\ Ranged' BY <1>1, <1>2, <1>5, OthersOfTracker
<1> QED BY <1>1, <1>2, <1>16, <1>17 DEF ObjectsInv, ObjectTypes

LEMMA FinishIsSound ==
  ASSUME ObjectsInv, NEW b \in Builders, FinishOne(b)
  PROVE  ObjectsInv'
<1>1. ObjectTypes /\ Tracker /\ Batch /\ Ranged BY DEF ObjectsInv
<1>2. Works(b) /\ UNCHANGED <<use, object, vacant, made, reserved, claims>> BY DEF FinishOne, Works
<1>3. PICK u \in Builds : u = building[b] BY <1>1 DEF ObjectTypes
<1>4. PICK s \in SlotIds : s = u.slot BY <1>1, <1>2, <1>3, AloneAt
<1>5. /\ use = "tracked" /\ u.slot <= u.last /\ u.last \in SlotIds /\ u.by # "none" /\ building[b].slot = s
      /\ \A d \in Builders : d # b /\ Works(d) => building[d].slot # s
  BY <1>1, <1>2, <1>3, <1>4, AloneAt
<1>6. slotPhase \in [SlotIds -> SlotPhases] /\ object \in [SlotIds -> {0, 1}] BY <1>1 DEF ObjectTypes
<1>7. PICK o \in {0, 1} : o = object[s] BY <1>6
<1>8. object' = [object EXCEPT ![s] = o] BY <1>2, <1>6, <1>7
<1>9. /\ u.at \in {"destroyed", "failed"} => o = 0
      /\ u.at = "constructed" => o = 1
  BY <1>1, <1>2, <1>3, <1>4, <1>7, AloneAt DEF SlotOf
<1>10. PICK n : n = Next1(u) OBVIOUS
<1>11. /\ NoBuilding \in Builds /\ NoBuilding.at = "idle" /\ ~Working(NoBuilding.at)
  BY DEF NoBuilding, Builds, Places, Working
<1>12. n \in Builds /\ ~Working(n.at) /\ (n.at # "idle" => n.slot <= n.last /\ n.last \in SlotIds /\ n.by # "none")
 <2>1. CASE u.slot = u.last BY <1>10, <1>11, <2>1 DEF Next1
 <2>2. CASE u.slot # u.last
  <3>1. u.slot \in Nat /\ u.last \in Nat /\ u.slot + 1 \in Nat /\ u.slot + 1 <= u.last BY <1>5, <2>2 DEF Builds
  <3>2. n = [u EXCEPT !.at = "claim", !.slot = u.slot + 1] BY <1>10, <2>2 DEF Next1
  <3> QED BY <1>5, <3>1, <3>2 DEF Builds, Places, Working
 <2> QED BY <2>1, <2>2
<1>13. ASSUME NEW w \in Builds, NEW p \in SlotPhases, building' = [building EXCEPT ![b] = w], slotPhase' = [slotPhase EXCEPT ![s] = p],
              Shaped(w, s, p, o)
       PROVE  ObjectsInv'
 <2>4. SetTo(building', building, b, w) /\ SetTo(slotPhase', slotPhase, s, p) /\ SetTo(object', object, s, o)
   BY <1>8, <1>13 DEF SetTo
 <2>1. w \in Builds /\ p \in SlotPhases /\ s \in SlotIds /\ o \in {0, 1} /\ Shaped(w, s, p, o) /\ use' = use
   BY <1>2, <1>4, <1>7, <1>13
 <2>2. Tracker' /\ building' \in [Builders -> Builds] /\ slotPhase' \in [SlotIds -> SlotPhases] /\ object' \in [SlotIds -> {0, 1}]
   BY <1>1, <1>2, <1>5, <2>1, <2>4, BuilderWorks
 <2>3. Batch' /\ Ranged' BY <1>1, <1>2, <1>5, OthersOfTracker
 <2> QED BY <1>1, <1>2, <2>2, <2>3 DEF ObjectsInv, ObjectTypes
<1>14. CASE u.at = "destroyed" /\ slotPhase' = [slotPhase EXCEPT ![s] = "constructing"] /\ building' = [building EXCEPT ![b].at = "constructing"]
 <2>1. PICK w : w = [u EXCEPT !.at = "constructing"] OBVIOUS
 <2>2. building' = [building EXCEPT ![b] = w] BY <1>3, <1>14, <2>1
 <2>3. w \in Builds /\ Working(w.at) /\ w.at = "constructing" /\ w.slot = s /\ w.slot <= w.last /\ w.last \in SlotIds /\ w.by # "none"
   BY <1>4, <1>5, <2>1 DEF Builds, Places, Working
 <2>4. PICK p \in SlotPhases : p = "constructing" BY DEF SlotPhases
 <2>5. Shaped(w, s, p, o) BY <1>9, <1>14, <2>3, <2>4 DEF Shaped
 <2> QED BY <1>13, <1>14, <2>2, <2>3, <2>4, <2>5
<1>15. CASE u.at = "destroyed" /\ slotPhase' = [slotPhase EXCEPT ![s] = "raw"] /\ building' = [building EXCEPT ![b] = n]
 <2>1. PICK p \in SlotPhases : p = "raw" BY DEF SlotPhases
 <2>2. Shaped(n, s, p, o) BY <1>9, <1>12, <1>15, <2>1 DEF Shaped
 <2> QED BY <1>12, <1>13, <1>15, <2>1, <2>2
<1>16. CASE u.at = "constructed" /\ slotPhase' = [slotPhase EXCEPT ![s] = "live"] /\ building' = [building EXCEPT ![b] = n]
 <2>1. PICK p \in SlotPhases : p = "live" BY DEF SlotPhases
 <2>2. Shaped(n, s, p, o) BY <1>9, <1>12, <1>16, <2>1 DEF Shaped
 <2> QED BY <1>12, <1>13, <1>16, <2>1, <2>2
<1>17. CASE u.at = "failed" /\ slotPhase' = [slotPhase EXCEPT ![s] = "raw"] /\ building' = [building EXCEPT ![b] = NoBuilding]
 <2>1. PICK p \in SlotPhases : p = "raw" BY DEF SlotPhases
 <2>2. Shaped(NoBuilding, s, p, o) BY <1>9, <1>11, <1>17, <2>1 DEF Shaped
 <2> QED BY <1>11, <1>13, <1>17, <2>1, <2>2
<1> QED BY <1>3, <1>4, <1>10, <1>14, <1>15, <1>16, <1>17 DEF FinishOne

LEMMA EraseIsSound ==
  ASSUME ObjectsInv, NEW r \in Ranges, Erase(r)
  PROVE  ObjectsInv'
<1>1. ObjectTypes /\ Tracker /\ Batch /\ Ranged BY DEF ObjectsInv
<1>2. use = "tracked" /\ UNCHANGED <<use, object, building, vacant, made, reserved, claims>> BY DEF Erase
<1>3. Batch' /\ Ranged' BY <1>1, <1>2, OthersOfTracker
<1>4. slotPhase \in [SlotIds -> SlotPhases] BY <1>1 DEF ObjectTypes
<1>5. \A s \in SlotIds : slotPhase'[s] = slotPhase[s] \/ (slotPhase[s] \in {"unknown", "raw"} /\ slotPhase'[s] = "unknown")
  BY DEF Erase
<1>6. slotPhase' \in [SlotIds -> SlotPhases] BY <1>4, <1>5 DEF Erase, SlotPhases
<1>7. \A s \in SlotIds : Busy(s)' <=> Busy(s) BY <1>5 DEF Busy
<1>8. \A b \in Builders : Works(b)' <=> Works(b) BY <1>2 DEF Works
<1>9. (\A b \in Builders : Works(b) => SlotOf(b))'
 <2>1. SUFFICES ASSUME NEW b \in Builders, Works(b) PROVE SlotOf(b)' BY <1>8
 <2>2. SlotOf(b) BY <1>1, <2>1 DEF Tracker
 <2>3. PICK s \in SlotIds : s = building[b].slot BY <2>2 DEF SlotOf
 <2>4. slotPhase'[s] = slotPhase[s] BY <1>5, <2>2, <2>3 DEF SlotOf, Busy
 <2> QED BY <1>2, <2>2, <2>3, <2>4 DEF SlotOf, Busy, SlotIds
<1>10. (\A s \in SlotIds : Busy(s) => \E b \in Builders : Works(b) /\ building[b].slot = s)'
  BY <1>1, <1>2, <1>7, <1>8 DEF Tracker, SlotIds
<1>11. (use = "tracked" => \A s \in SlotIds : ~Busy(s) => ((object[s] = 1) <=> (slotPhase[s] = "live")))'
  BY <1>1, <1>2, <1>5, <1>7 DEF Tracker, SlotIds
<1>12. /\ (\A b \in Builders : building[b].at # "idle" =>
              building[b].slot <= building[b].last /\ building[b].last \in SlotIds /\ building[b].by # "none")'
       /\ (\A b, d \in Builders : Works(b) /\ Works(d) /\ building[b].slot = building[d].slot => b = d)'
       /\ (use # "tracked" => \A b \in Builders : building[b].at = "idle")'
  BY <1>1, <1>2, <1>8 DEF Tracker, SlotIds
<1>13. Tracker' BY <1>9, <1>10, <1>11, <1>12 DEF Tracker
<1> QED BY <1>1, <1>2, <1>3, <1>6, <1>13 DEF ObjectsInv, ObjectTypes
--------------------
\* A batch of objects.

LEMMA RunOf ==
  ASSUME NEW first \in Nat, NEW n \in Nat
  PROVE  /\ \A x : x \in Run(first, n) <=> x \in Int /\ first <= x /\ x < first + n
         /\ Cardinality(Run(first, n)) = n
         /\ Run(first, n) \cup {first + n} = Run(first, n + 1)
<1>1. Cardinality(first .. (first + n - 1)) = IF first > first + n - 1 THEN 0 ELSE first + n - 1 - first + 1
 <2>1. first \in Int /\ first + n - 1 \in Int OBVIOUS
 <2> QED BY <2>1, FS_Interval
<1>2. (IF first > first + n - 1 THEN 0 ELSE first + n - 1 - first + 1) = n OBVIOUS
<1>3. Cardinality(Run(first, n)) = n BY <1>1, <1>2 DEF Run
<1>4. \A x : x \in Run(first, n) <=> x \in Int /\ first <= x /\ x < first + n BY DEF Run
<1>5. \A x : x \in Run(first, n + 1) <=> x \in Int /\ first <= x /\ x < first + n + 1 BY DEF Run
<1>6. Run(first, n) \cup {first + n} = Run(first, n + 1) BY <1>4, <1>5
<1> QED BY <1>3, <1>4, <1>6

LEMMA OthersOfBatch ==
  ASSUME ObjectTypes, Tracker, Ranged, use = "made", UNCHANGED <<use, slotPhase, building, reserved, claims>>
  PROVE  Tracker' /\ Ranged'
<1>1. Tracker' BY OthersOfPool
<1>2. Ranged' BY DEF Ranged, Covers, Ordered
<1> QED BY <1>1, <1>2

LEMMA MakeBatchIsSound ==
  ASSUME ObjectsInv, NEW first \in SlotIds, NEW count \in 0 .. SlotCount, count > 0, MakeBatch(first, count)
  PROVE  ObjectsInv'
<1>1. ObjectTypes /\ Tracker /\ Batch /\ Ranged BY DEF ObjectsInv
<1>2. /\ use = "made" /\ made.at = "none" /\ Run(first, count) \subseteq vacant /\ vacant' = vacant \ Run(first, count)
      /\ made' = [NoneMade EXCEPT !.at = "making", !.first = first, !.count = count]
      /\ UNCHANGED <<use, slotPhase, object, building, reserved, claims>>
  BY DEF MakeBatch
<1>3. Tracker' /\ Ranged' BY <1>1, <1>2, OthersOfBatch
<1>4. first \in Nat /\ count \in Nat BY SlotAssumption DEF SlotIds
<1>5. PICK m : m = made' OBVIOUS
<1>6. m \in BatchKinds /\ m.at = "making" /\ m.first = first /\ m.count = count /\ m.handles = {} /\ m.dying = {}
  BY <1>2, <1>4, <1>5 DEF NoneMade, BatchKinds
<1>7. vacant \subseteq SlotIds BY <1>1 DEF ObjectTypes
<1>8. made = NoneMade BY <1>1, <1>2 DEF Batch
<1>9. vacant = SlotIds /\ \A s \in SlotIds : object[s] = 1 <=> s \in {}
 <2>1. Run(0, 0) = {} BY DEF Run
 <2> QED BY <1>1, <1>2, <1>8, <2>1 DEF Batch, NoneMade
<1>10. 0 \in 0 .. count - 1 /\ Run(first, 0) = {} BY <1>4 DEF Run
<1>11. Batch'
 <2>1. (made.at = "making" => made.dying = {} /\ \E n \in 0 .. made.count - 1 : made.handles = Run(made.first, n))'
   BY <1>5, <1>6, <1>10
 <2>2. (made.dying \subseteq made.handles /\ made.handles \subseteq Run(made.first, made.count) /\ Run(made.first, made.count) \subseteq SlotIds)'
   BY <1>2, <1>5, <1>6, <1>7 DEF SlotIds
 <2>3. (vacant = SlotIds \ Run(made.first, made.count))' BY <1>2, <1>5, <1>6, <1>9 DEF SlotIds
 <2>4. (\A s \in SlotIds : object[s] = 1 <=> s \in made.handles)' BY <1>2, <1>5, <1>6, <1>9 DEF SlotIds
 <2>5. (use # "made" => made.at = "none")' /\ (made.at = "none" => made = NoneMade)' BY <1>2, <1>5, <1>6
 <2> QED BY <2>1, <2>2, <2>3, <2>4, <2>5 DEF Batch
<1>12. ObjectTypes' BY <1>1, <1>2, <1>5, <1>6 DEF ObjectTypes
<1> QED BY <1>3, <1>11, <1>12 DEF ObjectsInv

LEMMA MakeOneIsSound ==
  ASSUME ObjectsInv, MakeOne
  PROVE  ObjectsInv'
<1>1. ObjectTypes /\ Tracker /\ Batch /\ Ranged BY DEF ObjectsInv
<1>2. made.at = "making" /\ UNCHANGED <<use, slotPhase, building, vacant, reserved, claims>> BY DEF MakeOne
<1>3. use = "made" BY <1>1, <1>2 DEF Batch
<1>4. Tracker' /\ Ranged' BY <1>1, <1>2, <1>3, OthersOfBatch
<1>5. PICK m \in BatchKinds : m = made BY <1>1 DEF ObjectTypes
<1>6. m.first \in Nat /\ m.count \in Nat /\ m.handles \subseteq SlotIds BY DEF BatchKinds
<1>7. PICK n \in Nat : n < m.count /\ m.handles = Run(m.first, n) /\ m.dying = {} BY <1>1, <1>2, <1>5, <1>6 DEF Batch
<1>8. PICK s : s = m.first + n OBVIOUS
<1>9. Cardinality(made.handles) = n BY <1>5, <1>6, <1>7, RunOf
<1>10. s \in Run(m.first, m.count) /\ s \notin m.handles /\ Run(m.first, n) \cup {s} = Run(m.first, n + 1)
 <2>1. s \in Run(m.first, m.count) BY <1>6, <1>7, <1>8 DEF Run
 <2>2. s \notin m.handles BY <1>6, <1>7, <1>8 DEF Run
 <2>3. Run(m.first, n) \cup {s} = Run(m.first, n + 1) BY <1>6, <1>7, <1>8, RunOf
 <2> QED BY <2>1, <2>2, <2>3
<1>11. Run(m.first, m.count) \subseteq SlotIds /\ vacant = SlotIds \ Run(m.first, m.count) /\ m.handles \subseteq Run(m.first, m.count)
  BY <1>1, <1>3, <1>5 DEF Batch
<1>12. object \in [SlotIds -> {0, 1}] /\ \A t \in SlotIds : object[t] = 1 <=> t \in m.handles
  BY <1>1, <1>3, <1>5 DEF Batch, ObjectTypes
<1>13. s \in SlotIds /\ object[s] = 0 BY <1>10, <1>11, <1>12
<1>14. PICK k : k = made' OBVIOUS
<1>15. ASSUME object' = [object EXCEPT ![s] = object[s] + 1],
              made' = [made EXCEPT !.handles = made.handles \cup {s}, !.at = IF Cardinality(made.handles) + 1 = made.count THEN "lent" ELSE made.at]
       PROVE  ObjectsInv'
 <2>1. /\ k \in BatchKinds /\ k.first = m.first /\ k.count = m.count /\ k.handles = m.handles \cup {s} /\ k.dying = {}
       /\ k.at = IF n + 1 = m.count THEN "lent" ELSE "making"
   BY <1>2, <1>5, <1>7, <1>9, <1>13, <1>14, <1>15 DEF BatchKinds
 <2>2. object[s] + 1 = 1 BY <1>13
 <2>3. object' = [object EXCEPT ![s] = 1] BY <1>15, <2>2
 <2>4. object' \in [SlotIds -> {0, 1}] /\ \A t \in SlotIds : object'[t] = 1 <=> t \in k.handles
   BY <1>12, <1>13, <2>1, <2>3
 <2>5. k.handles = Run(k.first, n + 1) /\ k.handles \subseteq Run(k.first, k.count) BY <1>7, <1>10, <1>11, <2>1
 <2>6. k.at = "making" => n + 1 \in 0 .. k.count - 1 BY <1>6, <1>7, <2>1
 <2>7. Batch'
  <3>1. (made.at = "making" => made.dying = {} /\ \E i \in 0 .. made.count - 1 : made.handles = Run(made.first, i))'
    BY <1>14, <2>1, <2>5, <2>6
  <3>2. (made.dying \subseteq made.handles /\ made.handles \subseteq Run(made.first, made.count) /\ Run(made.first, made.count) \subseteq SlotIds)'
    BY <1>11, <1>14, <2>1, <2>5 DEF SlotIds
  <3>3. (vacant = SlotIds \ Run(made.first, made.count))' BY <1>2, <1>11, <1>14, <2>1 DEF SlotIds
  <3>4. (\A t \in SlotIds : object[t] = 1 <=> t \in made.handles)' BY <1>14, <2>4 DEF SlotIds
  <3>5. (use # "made" => made.at = "none")' /\ (made.at = "none" => made = NoneMade)' BY <1>2, <1>3, <1>14, <2>1
  <3> QED BY <3>1, <3>2, <3>3, <3>4, <3>5 DEF Batch
 <2>8. ObjectTypes' BY <1>1, <1>2, <1>14, <2>1, <2>4 DEF ObjectTypes
 <2> QED BY <1>4, <2>7, <2>8 DEF ObjectsInv
<1>16. ASSUME made' = [made EXCEPT !.at = "lent", !.dying = made.handles], UNCHANGED object PROVE ObjectsInv'
 <2>1. k \in BatchKinds /\ k.at = "lent" /\ k.first = m.first /\ k.count = m.count /\ k.handles = m.handles /\ k.dying = m.handles
   BY <1>5, <1>6, <1>14, <1>16 DEF BatchKinds
 <2>2. Batch'
  <3>1. (made.dying \subseteq made.handles /\ made.handles \subseteq Run(made.first, made.count) /\ Run(made.first, made.count) \subseteq SlotIds)'
    BY <1>11, <1>14, <2>1 DEF SlotIds
  <3>2. (vacant = SlotIds \ Run(made.first, made.count))' BY <1>2, <1>11, <1>14, <2>1 DEF SlotIds
  <3>3. (\A t \in SlotIds : object[t] = 1 <=> t \in made.handles)' BY <1>12, <1>14, <1>16, <2>1 DEF SlotIds
  <3> QED BY <1>2, <1>3, <1>14, <2>1, <3>1, <3>2, <3>3 DEF Batch
 <2>3. ObjectTypes' BY <1>1, <1>2, <1>14, <1>16, <2>1 DEF ObjectTypes
 <2> QED BY <1>4, <2>2, <2>3 DEF ObjectsInv
<1> QED BY <1>5, <1>8, <1>9, <1>15, <1>16 DEF MakeOne

LEMMA HandlesAreSound ==
  ASSUME ObjectsInv, NEW s \in SlotIds, DropHandle(s) \/ DestroyHandle(s)
  PROVE  ObjectsInv'
<1>1. ObjectTypes /\ Tracker /\ Batch /\ Ranged BY DEF ObjectsInv
<1>2. made.at = "lent" /\ UNCHANGED <<use, slotPhase, building, vacant, reserved, claims>>
  BY DEF DropHandle, DestroyHandle
<1>3. use = "made" BY <1>1, <1>2 DEF Batch
<1>4. Tracker' /\ Ranged' BY <1>1, <1>2, <1>3, OthersOfBatch
<1>5. PICK m \in BatchKinds : m = made BY <1>1 DEF ObjectTypes
<1>6. /\ Run(m.first, m.count) \subseteq SlotIds /\ vacant = SlotIds \ Run(m.first, m.count) /\ m.dying \subseteq m.handles
      /\ m.handles \subseteq Run(m.first, m.count)
  BY <1>1, <1>3, <1>5 DEF Batch
<1>7. object \in [SlotIds -> {0, 1}] /\ \A t \in SlotIds : object[t] = 1 <=> t \in m.handles
  BY <1>1, <1>3, <1>5 DEF Batch, ObjectTypes
<1>8. PICK k : k = made' OBVIOUS
<1>9. ASSUME k \in BatchKinds, k.at = "lent", k.first = m.first, k.count = m.count, k.dying \subseteq k.handles, k.handles \subseteq m.handles,
             object' \in [SlotIds -> {0, 1}], \A t \in SlotIds : object'[t] = 1 <=> t \in k.handles
      PROVE  ObjectsInv'
 <2>1. (made.dying \subseteq made.handles /\ made.handles \subseteq Run(made.first, made.count) /\ Run(made.first, made.count) \subseteq SlotIds)'
   BY <1>6, <1>8, <1>9 DEF SlotIds
 <2>2. (vacant = SlotIds \ Run(made.first, made.count))' BY <1>2, <1>6, <1>8, <1>9 DEF SlotIds
 <2>3. (\A t \in SlotIds : object[t] = 1 <=> t \in made.handles)' BY <1>8, <1>9 DEF SlotIds
 <2>4. Batch' BY <1>2, <1>3, <1>8, <1>9, <2>1, <2>2, <2>3 DEF Batch
 <2>5. ObjectTypes' BY <1>1, <1>2, <1>8, <1>9 DEF ObjectTypes
 <2> QED BY <1>4, <2>4, <2>5 DEF ObjectsInv
<1>10. CASE DropHandle(s)
 <2>1. s \in m.handles /\ made' = [made EXCEPT !.dying = made.dying \cup {s}] /\ UNCHANGED object
   BY <1>5, <1>10 DEF DropHandle
 <2>2. k \in BatchKinds /\ k.at = "lent" /\ k.first = m.first /\ k.count = m.count /\ k.handles = m.handles /\ k.dying = m.dying \cup {s}
   BY <1>2, <1>5, <1>8, <2>1 DEF BatchKinds
 <2> QED BY <1>6, <1>7, <1>9, <2>1, <2>2
<1>11. CASE DestroyHandle(s)
 <2>1. /\ s \in m.dying /\ made' = [made EXCEPT !.handles = made.handles \ {s}, !.dying = made.dying \ {s}]
       /\ object' = [object EXCEPT ![s] = object[s] - 1]
   BY <1>5, <1>11 DEF DestroyHandle
 <2>2. k \in BatchKinds /\ k.at = "lent" /\ k.first = m.first /\ k.count = m.count /\ k.handles = m.handles \ {s} /\ k.dying = m.dying \ {s}
   BY <1>2, <1>5, <1>8, <2>1 DEF BatchKinds
 <2>3. object[s] - 1 = 0 BY <1>6, <1>7, <2>1
 <2>4. object' = [object EXCEPT ![s] = 0] BY <2>1, <2>3
 <2>5. object' \in [SlotIds -> {0, 1}] /\ \A t \in SlotIds : object'[t] = 1 <=> t \in k.handles BY <1>7, <2>2, <2>4
 <2>6. k.dying \subseteq k.handles /\ k.handles \subseteq m.handles BY <1>6, <2>2
 <2> QED BY <1>9, <2>2, <2>5, <2>6
<1> QED BY <1>10, <1>11

LEMMA DeallocateIsSound ==
  ASSUME ObjectsInv, Deallocate
  PROVE  ObjectsInv'
<1>1. ObjectTypes /\ Tracker /\ Batch /\ Ranged BY DEF ObjectsInv
<1>2. /\ made.at = "lent" /\ made.handles = {} /\ vacant' = vacant \cup Run(made.first, made.count) /\ made' = NoneMade
      /\ UNCHANGED <<use, slotPhase, object, building, reserved, claims>>
  BY DEF Deallocate
<1>3. use = "made" BY <1>1, <1>2 DEF Batch
<1>4. Tracker' /\ Ranged' BY <1>1, <1>2, <1>3, OthersOfBatch
<1>5. vacant' = SlotIds /\ \A t \in SlotIds : object[t] = 1 <=> t \in {} BY <1>1, <1>2, <1>3 DEF Batch
<1>6. NoneMade \in BatchKinds /\ Run(0, 0) = {} BY DEF NoneMade, BatchKinds, Run
<1>7. Batch' BY <1>2, <1>3, <1>5, <1>6 DEF Batch, NoneMade, SlotIds
<1>8. ObjectTypes' BY <1>1, <1>2, <1>5, <1>6 DEF ObjectTypes, SlotIds
<1> QED BY <1>4, <1>7, <1>8 DEF ObjectsInv
--------------------
\* A reservation.

LEMMA OthersOfReservation ==
  ASSUME ObjectTypes, Tracker, Batch, use = "reserved", UNCHANGED <<use, slotPhase, building, made>>
  PROVE  Tracker' /\ Batch'
<1>1. Tracker' BY OthersOfPool
<1>2. Batch' BY DEF Batch
<1> QED BY <1>1, <1>2

LEMMA NoneReserved == Ordered(NoReservation.remaining, 0, SlotCount) /\ Covers(NoReservation.remaining) = {} /\ NoReservation \in Reservations
<1>1. NoReservation.remaining = <<>> /\ <<>> \in Seq(SlotRanges) BY EmptySeq DEF NoReservation
<1>2. NoReservation \in Reservations BY <1>1 DEF NoReservation, Reservations
<1> QED BY <1>1, <1>2, NoRanges, SlotAssumption

\* The pool and the objects of a reservation.
Lends(spare, alive, q, c) == spare = (SlotIds \ Covers(q)) \ c /\ (\A s \in SlotIds : alive[s] = 1 <=> s \in c) /\ Covers(q) \cap c = {}

LEMMA ReservedIsSound ==
  ASSUME ObjectTypes, Tracker, Batch, Ranged, use = "reserved", UNCHANGED <<use, slotPhase, building, made>>,
         NEW k \in Reservations, reserved' = k, k.at = "none" => k = NoReservation, Ordered(k.remaining, 0, SlotCount),
         k.at = "emplacing" => \E i \in DOMAIN k.remaining : k.base + k.index \in Run(k.remaining[i].first, k.remaining[i].length),
         vacant' \subseteq SlotIds, claims' \subseteq SlotIds, object' \in [SlotIds -> {0, 1}], Lends(vacant', object', k.remaining, claims')
  PROVE  ObjectsInv'
<1>1. Tracker' /\ Batch' BY OthersOfReservation
<1>2. ObjectTypes' BY DEF ObjectTypes, SlotIds
<1>3. (use # "reserved" => reserved.at = "none" /\ claims = {})' /\ (reserved.at = "none" => reserved = NoReservation)'
  OBVIOUS
<1>4. Ordered(reserved.remaining, 0, SlotCount)' BY DEF Ordered
<1>5. (reserved.at = "emplacing" => \E i \in DOMAIN reserved.remaining :
          reserved.base + reserved.index \in Run(reserved.remaining[i].first, reserved.remaining[i].length))'
  OBVIOUS
<1>6. (Covers(reserved.remaining) \cap claims = {})' BY DEF Lends, Covers
<1>7. (use = "reserved" => /\ vacant = (SlotIds \ Covers(reserved.remaining)) \ claims
                           /\ \A s \in SlotIds : object[s] = 1 <=> s \in claims)'
  BY DEF Lends, Covers, SlotIds
<1>8. Ranged' BY <1>3, <1>4, <1>5, <1>6, <1>7 DEF Ranged
<1> QED BY <1>1, <1>2, <1>8 DEF ObjectsInv

LEMMA ReserveIsSound ==
  ASSUME ObjectsInv, NEW first \in SlotIds, NEW count \in 0 .. SlotCount, Reserve(first, count)
  PROVE  ObjectsInv'
<1>1. ObjectTypes /\ Tracker /\ Batch /\ Ranged BY DEF ObjectsInv
<1>2. first \in Nat /\ count \in Nat BY SlotAssumption DEF SlotIds
<1>3. PICK q : q = IF count = 0 THEN <<>> ELSE <<Unclaimed(first, count)>> OBVIOUS
<1>4. /\ use = "reserved" /\ reserved.at = "none" /\ Run(first, count) \subseteq vacant /\ vacant' = vacant \ Run(first, count)
      /\ reserved' = [NoReservation EXCEPT !.at = "idle", !.base = first, !.count = count, !.remaining = q]
      /\ UNCHANGED <<use, slotPhase, object, building, made, claims>>
  BY <1>3 DEF Reserve
<1>5. reserved = NoReservation BY <1>1, <1>4 DEF Ranged
<1>6. /\ vacant = SlotIds \ claims /\ (\A s \in SlotIds : object[s] = 1 <=> s \in claims)
      /\ vacant \subseteq SlotIds /\ claims \subseteq SlotIds /\ object \in [SlotIds -> {0, 1}]
  BY <1>1, <1>4, <1>5, NoneReserved DEF Ranged, ObjectTypes
<1>7. Ordered(q, 0, SlotCount) /\ Covers(q) = Run(first, count)
 <2>1. CASE count = 0
  <3>1. q = <<>> /\ Run(first, count) = {} BY <1>2, <1>3, <2>1 DEF Run
  <3> QED BY <3>1, NoRanges, SlotAssumption
 <2>2. CASE count # 0
  <3>8. PICK r : r = Unclaimed(first, count) OBVIOUS
  <3>1. r \in SlotRanges /\ r = Unclaimed(first, count) /\ r.first = first /\ r.length = count
    BY <1>2, <3>8 DEF Unclaimed, SlotRanges
  <3>2. first + count - 1 \in Run(first, count) BY <1>2, <2>2 DEF Run
  <3>3. first + count - 1 \in SlotIds BY <1>4, <1>6, <3>2
  <3>4. r.length > 0 /\ 0 <= r.first /\ r.first + r.length <= SlotCount
    BY <1>2, <2>2, <3>1, <3>3, SlotAssumption DEF SlotIds
  <3>5. q = <<r>> BY <1>3, <2>2, <3>1
  <3>6. 0 \in Nat /\ SlotCount \in Nat BY SlotAssumption
  <3>7. Ordered(<<r>>, 0, SlotCount) /\ Covers(<<r>>) = Run(r.first, r.length) BY <3>1, <3>4, <3>6, OneRange
  <3> QED BY <3>1, <3>5, <3>7
 <2> QED BY <2>1, <2>2
<1>8. PICK k : k = reserved' OBVIOUS
<1>9. q \in Seq(SlotRanges) BY <1>7 DEF Ordered
<1>10. k \in Reservations /\ k.at = "idle" /\ k.remaining = q BY <1>2, <1>4, <1>8, <1>9 DEF NoReservation, Reservations
<1>11. Lends(vacant', object', k.remaining, claims') BY <1>4, <1>6, <1>7, <1>10 DEF Lends
<1>12. vacant' \subseteq SlotIds /\ claims' \subseteq SlotIds /\ object' \in [SlotIds -> {0, 1}] BY <1>4, <1>6
<1> QED BY <1>1, <1>4, <1>7, <1>8, <1>10, <1>11, <1>12, ReservedIsSound

LEMMA EmplaceIsSound ==
  ASSUME ObjectsInv, NEW index \in SlotIds, Emplace(index)
  PROVE  ObjectsInv'
<1>1. ObjectTypes /\ Tracker /\ Batch /\ Ranged BY DEF ObjectsInv
<1>2. /\ reserved.at = "idle" /\ HoldsAt(reserved.remaining, reserved.base + index) # {}
      /\ reserved' = [reserved EXCEPT !.at = "emplacing", !.index = index]
      /\ UNCHANGED <<use, slotPhase, object, building, vacant, made, claims>>
  BY DEF Emplace
<1>3. PICK v \in Reservations : v = reserved BY <1>1 DEF ObjectTypes
<1>4. use = "reserved" BY <1>1, <1>2 DEF Ranged
<1>5. PICK k : k = reserved' OBVIOUS
<1>6. k \in Reservations /\ k.at = "emplacing" /\ k.base = v.base /\ k.index = index /\ k.remaining = v.remaining
 <2>1. index \in Nat BY DEF SlotIds
 <2> QED BY <1>2, <1>3, <1>5, <2>1 DEF Reservations
<1>7. \E i \in DOMAIN k.remaining : k.base + k.index \in Run(k.remaining[i].first, k.remaining[i].length)
  BY <1>2, <1>3, <1>6 DEF HoldsAt
<1>8. Ordered(k.remaining, 0, SlotCount) /\ Lends(vacant', object', k.remaining, claims')
  BY <1>1, <1>2, <1>3, <1>4, <1>6 DEF Ranged, Lends
<1>9. vacant' \subseteq SlotIds /\ claims' \subseteq SlotIds /\ object' \in [SlotIds -> {0, 1}]
  BY <1>1, <1>2 DEF ObjectTypes
<1> QED BY <1>1, <1>2, <1>4, <1>5, <1>6, <1>7, <1>8, <1>9, ReservedIsSound

LEMMA EmplaceEndsSound ==
  ASSUME ObjectsInv, EmplaceEnds
  PROVE  ObjectsInv'
<1>1. ObjectTypes /\ Tracker /\ Batch /\ Ranged BY DEF ObjectsInv
<1>2. reserved.at = "emplacing" /\ UNCHANGED <<use, slotPhase, building, vacant, made>> BY DEF EmplaceEnds
<1>3. PICK v \in Reservations : v = reserved BY <1>1 DEF ObjectTypes
<1>4. use = "reserved" BY <1>1, <1>2 DEF Ranged
<1>5. PICK s : s = v.base + v.index OBVIOUS
<1>6. Ordered(v.remaining, 0, SlotCount) /\ Lends(vacant, object, v.remaining, claims) /\ v.remaining \in Seq(SlotRanges)
  BY <1>1, <1>3, <1>4 DEF Ranged, Lends, Ordered
<1>7. vacant \subseteq SlotIds /\ claims \subseteq SlotIds /\ object \in [SlotIds -> {0, 1}] BY <1>1 DEF ObjectTypes
<1>8. CASE reserved' = [reserved EXCEPT !.at = "idle"] /\ UNCHANGED <<object, claims>>
 <2>1. PICK k : k = reserved' OBVIOUS
 <2>2. k \in Reservations /\ k.at = "idle" /\ k.remaining = v.remaining BY <1>3, <1>8, <2>1 DEF Reservations
 <2>3. Lends(vacant', object', k.remaining, claims') BY <1>2, <1>6, <1>8, <2>2
 <2> QED BY <1>1, <1>2, <1>4, <1>6, <1>7, <1>8, <2>1, <2>2, <2>3, ReservedIsSound
<1>9. ASSUME NEW i \in HoldsAt(v.remaining, s), reserved' = [reserved EXCEPT !.at = "idle", !.remaining = Without(v.remaining, i, s)],
             object' = [object EXCEPT ![s] = object[s] + 1], claims' = claims \cup {s}
      PROVE  ObjectsInv'
 <2>1. i \in DOMAIN v.remaining /\ s \in Run(v.remaining[i].first, v.remaining[i].length) BY <1>9 DEF HoldsAt
 <2>2. PICK l : l = v.remaining OBVIOUS
 <2>3. PICK q : q = Without(l, i, s) OBVIOUS
 <2>4. Ordered(q, 0, SlotCount) /\ Covers(q) = Covers(l) \ {s}
   BY <1>6, <2>1, <2>2, <2>3, SlotAssumption, WithoutIsOrdered
 <2>5. s \in Covers(l) BY <1>6, <2>1, <2>2, CoverOf
 <2>6. s \in SlotIds
  <3>1. /\ 0 <= l[i].first /\ l[i].first + l[i].length <= SlotCount /\ l[i].first \in Nat /\ l[i].length \in Nat
    BY <1>6, <2>1, <2>2, RangeLists DEF Ordered
  <3>2. s \in Int /\ l[i].first <= s /\ s < l[i].first + l[i].length BY <2>1, <2>2, <3>1 DEF Run
  <3> QED BY <3>1, <3>2, SlotAssumption DEF SlotIds
 <2>7. s \notin claims /\ object[s] = 0 BY <1>6, <1>7, <2>2, <2>5, <2>6 DEF Lends
 <2>8. object[s] + 1 = 1 BY <2>7
 <2>9. object' = [object EXCEPT ![s] = 1] BY <1>9, <2>8
 <2>10. object' \in [SlotIds -> {0, 1}] /\ claims' \subseteq SlotIds /\ vacant' \subseteq SlotIds
   BY <1>2, <1>7, <1>9, <2>6, <2>9
 <2>11. \A t \in SlotIds : object'[t] = 1 <=> t \in claims' BY <1>6, <1>7, <1>9, <2>6, <2>9 DEF Lends
 <2>12. vacant' = (SlotIds \ Covers(q)) \ claims' /\ Covers(q) \cap claims' = {}
   BY <1>2, <1>6, <1>9, <2>2, <2>4, <2>5 DEF Lends
 <2>13. PICK k : k = reserved' OBVIOUS
 <2>14. q \in Seq(SlotRanges) BY <2>4 DEF Ordered
 <2>15. k \in Reservations /\ k.at = "idle" /\ k.remaining = q BY <1>3, <1>9, <2>2, <2>3, <2>13, <2>14 DEF Reservations
 <2>16. Lends(vacant', object', k.remaining, claims') BY <2>11, <2>12, <2>15 DEF Lends
 <2> QED BY <1>1, <1>2, <1>4, <2>4, <2>10, <2>13, <2>15, <2>16, ReservedIsSound
<1> QED BY <1>3, <1>5, <1>8, <1>9 DEF EmplaceEnds

LEMMA ReleasesAreSound ==
  ASSUME ObjectsInv, ReleaseReservation \/ \E s \in SlotIds : ReleaseClaim(s)
  PROVE  ObjectsInv'
<1>1. ObjectTypes /\ Tracker /\ Batch /\ Ranged BY DEF ObjectsInv
<1>2. UNCHANGED <<use, slotPhase, building, made>> BY DEF ReleaseReservation, ReleaseClaim
<1>3. PICK v \in Reservations : v = reserved BY <1>1 DEF ObjectTypes
<1>4. vacant \subseteq SlotIds /\ claims \subseteq SlotIds /\ object \in [SlotIds -> {0, 1}] BY <1>1 DEF ObjectTypes
<1>5. CASE ReleaseReservation
 <2>1. reserved.at = "idle" /\ reserved' = NoReservation /\ vacant' = vacant \cup Covers(v.remaining) /\ UNCHANGED <<object, claims>>
   BY <1>3, <1>5 DEF ReleaseReservation, Covers
 <2>2. use = "reserved" BY <1>1, <2>1 DEF Ranged
 <2>3. Covers(v.remaining) \subseteq SlotIds
  <3>1. SUFFICES ASSUME NEW t \in Covers(v.remaining) PROVE t \in SlotIds OBVIOUS
  <3>2. Ordered(v.remaining, 0, SlotCount) /\ v.remaining \in Seq(SlotRanges) BY <1>1, <1>3 DEF Ranged, Ordered
  <3>3. PICK i \in DOMAIN v.remaining : t \in Run(v.remaining[i].first, v.remaining[i].length) BY <3>1, <3>2, CoverOf
  <3>4. PICK r : r = v.remaining[i] OBVIOUS
  <3>5. r.first \in Nat /\ r.length \in Nat /\ r.first + r.length <= SlotCount BY <3>2, <3>4, RangeLists DEF Ordered
  <3>6. t \in Run(r.first, r.length) BY <3>3, <3>4
  <3> QED BY <3>5, <3>6, SlotAssumption DEF Run, SlotIds
 <2>4. Lends(vacant, object, v.remaining, claims) BY <1>1, <1>3, <2>2 DEF Ranged, Lends
 <2>5. vacant' = SlotIds \ claims BY <1>4, <2>1, <2>3, <2>4 DEF Lends
 <2>6. PICK k : k = NoReservation OBVIOUS
 <2>7. k \in Reservations /\ Ordered(k.remaining, 0, SlotCount) /\ Covers(k.remaining) = {} /\ k.at # "emplacing"
   BY <2>6, NoneReserved DEF NoReservation
 <2>8. Lends(vacant', object', k.remaining, claims') BY <2>1, <2>4, <2>5, <2>7 DEF Lends
 <2>9. vacant' \subseteq SlotIds /\ claims' \subseteq SlotIds /\ object' \in [SlotIds -> {0, 1}] BY <1>4, <2>1, <2>5
 <2> QED BY <1>1, <1>2, <2>1, <2>2, <2>6, <2>7, <2>8, <2>9, ReservedIsSound
<1>6. ASSUME NEW s \in SlotIds, ReleaseClaim(s) PROVE ObjectsInv'
 <2>1. /\ s \in claims /\ claims' = claims \ {s} /\ object' = [object EXCEPT ![s] = object[s] - 1]
       /\ vacant' = vacant \cup {s} /\ UNCHANGED reserved
   BY <1>6 DEF ReleaseClaim
 <2>2. use = "reserved" BY <1>1, <2>1 DEF Ranged
 <2>3. Lends(vacant, object, v.remaining, claims) BY <1>1, <1>3, <2>2 DEF Ranged, Lends
 <2>4. object[s] - 1 = 0 BY <2>1, <2>3 DEF Lends
 <2>5. object' = [object EXCEPT ![s] = 0] BY <2>1, <2>4
 <2>6. \A t \in SlotIds : object'[t] = 1 <=> t \in claims' BY <1>4, <2>1, <2>3, <2>5 DEF Lends
 <2>7. vacant' = (SlotIds \ Covers(v.remaining)) \ claims' /\ Covers(v.remaining) \cap claims' = {}
   BY <2>1, <2>3 DEF Lends
 <2>8. Lends(vacant', object', v.remaining, claims') BY <2>6, <2>7 DEF Lends
 <2>9. vacant' \subseteq SlotIds /\ claims' \subseteq SlotIds /\ object' \in [SlotIds -> {0, 1}] BY <1>4, <2>1, <2>5
 <2>10. /\ v.at = "none" => v = NoReservation
        /\ Ordered(v.remaining, 0, SlotCount)
        /\ v.at = "emplacing" => \E i \in DOMAIN v.remaining : v.base + v.index \in Run(v.remaining[i].first, v.remaining[i].length)
   BY <1>1, <1>3 DEF Ranged
 <2> QED BY <1>1, <1>2, <1>3, <2>1, <2>2, <2>8, <2>9, <2>10, ReservedIsSound
<1> QED BY <1>5, <1>6
--------------------
\* Every operation, and what the invariant says of the objects.

LEMMA OperationIsSound ==
  ASSUME ObjectsInv, ObjectsNext
  PROVE  ObjectsInv'
<1>1. CASE \E b \in Builders : \/ \E by \in {"construct", "destroy"}, r \in Ranges : Begin(b, by, r)
                               \/ Claim(b) \/ DestroyOne(b) \/ ConstructOne(b) \/ FinishOne(b)
  BY <1>1, BeginIsSound, ClaimIsSound, WorkIsSound, FinishIsSound
<1>2. CASE \E r \in Ranges : Erase(r) BY <1>2, EraseIsSound
<1>3. CASE \E first \in SlotIds, count \in 0 .. SlotCount : (count > 0 /\ MakeBatch(first, count)) \/ Reserve(first, count)
  BY <1>3, MakeBatchIsSound, ReserveIsSound
<1>4. CASE MakeOne \/ Deallocate \/ EmplaceEnds \/ ReleaseReservation
  BY <1>4, MakeOneIsSound, DeallocateIsSound, EmplaceEndsSound, ReleasesAreSound
<1>5. CASE \E s \in SlotIds : DropHandle(s) \/ DestroyHandle(s) \/ Emplace(s) \/ ReleaseClaim(s)
  BY <1>5, HandlesAreSound, EmplaceIsSound, ReleasesAreSound
<1> QED BY <1>1, <1>2, <1>3, <1>4, <1>5 DEF ObjectsNext

LEMMA ObjectsStutter ==
  ASSUME ObjectsInv, UNCHANGED objectVars
  PROVE  ObjectsInv'
<1>1. UNCHANGED <<use, slotPhase, object, building, vacant, made, reserved, claims>> BY DEF objectVars
<1>2. ObjectTypes' BY <1>1 DEF ObjectsInv, ObjectTypes
<1>3. Tracker' BY <1>1 DEF ObjectsInv, Tracker, Works, SlotOf, Busy
<1>4. Batch' BY <1>1 DEF ObjectsInv, Batch
<1>5. Ranged' BY <1>1 DEF ObjectsInv, Ranged, Covers, Ordered
<1> QED BY <1>2, <1>3, <1>4, <1>5 DEF ObjectsInv

LEMMA InvariantOfObjects == ObjectsInv => ObjectsLiveOnce
<1>1. SUFFICES ASSUME ObjectsInv PROVE ObjectsLiveOnce OBVIOUS
<1>2. ObjectTypes /\ Tracker /\ Batch /\ Ranged BY <1>1 DEF ObjectsInv
<1>3. \A b \in Builders, s \in SlotIds : WorksOn(b, s) <=> Works(b) /\ building[b].slot = s BY DEF WorksOn, Works
<1>4. ASSUME NEW s \in SlotIds PROVE Cardinality({b \in Builders : WorksOn(b, s)}) = IF Busy(s) THEN 1 ELSE 0
 <2>1. CASE Busy(s)
  <3>1. PICK b \in Builders : Works(b) /\ building[b].slot = s BY <1>2, <2>1 DEF Tracker
  <3>2. {d \in Builders : WorksOn(d, s)} = {b} BY <1>2, <1>3, <3>1 DEF Tracker
  <3> QED BY <2>1, <3>2, FS_Singleton
 <2>2. CASE ~Busy(s)
  <3>1. {b \in Builders : WorksOn(b, s)} = {} BY <1>2, <1>3, <2>2 DEF Tracker, SlotOf
  <3> QED BY <2>2, <3>1, FS_EmptySet
 <2> QED BY <2>1, <2>2
<1>5. TrackedAsAlive BY <1>2, <1>4 DEF TrackedAsAlive, ObjectTypes, Tracker
<1>6. LentOnce
 <2>1. PICK q : q = reserved.remaining OBVIOUS
 <2>2. PICK u : u = UNION {Run(r.first, r.length) : r \in ToSet(q)} OBVIOUS
 <2>3. u = Covers(reserved.remaining) BY <2>1, <2>2 DEF Covers
 <2>4. use = "made" => vacant = SlotIds \ Run(made.first, made.count) BY <1>2 DEF Batch
 <2>5. use = "reserved" => vacant = (SlotIds \ u) \ claims /\ u \cap claims = {} /\ \A s \in SlotIds : (object[s] = 1) <=> s \in claims
   BY <1>2, <2>3 DEF Ranged
 <2>6. Ordered(q, 0, SlotCount) /\ q \in Seq(SlotRanges) BY <1>2, <2>1 DEF Ranged, Ordered
 <2>7. ASSUME NEW i \in DOMAIN q, NEW j \in DOMAIN q, i < j PROVE q[i].first + q[i].length < q[j].first + 1
  <3>1. q[i].first + q[i].length <= q[j].first BY <2>6, <2>7 DEF Ordered
  <3>2. q[i].first \in Nat /\ q[i].length \in Nat /\ q[j].first \in Nat BY <2>6, RangeLists
  <3> QED BY <3>1, <3>2
 <2>8. \A i \in DOMAIN q : q[i].length > 0 BY <2>6 DEF Ordered
 <2>9. ASSUME NEW s \in vacant, use # "tracked" PROVE object[s] = 0
  <3>1. s \in SlotIds /\ object[s] \in {0, 1} /\ (use = "made" \/ use = "reserved") BY <1>2, <2>9 DEF ObjectTypes
  <3>2. CASE use = "made" BY <1>2, <2>9, <3>1, <3>2 DEF Batch
  <3>3. CASE use = "reserved" BY <2>5, <2>9, <3>1, <3>3
  <3> QED BY <3>1, <3>2, <3>3
 <2> QED BY <2>1, <2>2, <2>4, <2>5, <2>7, <2>8, <2>9 DEF LentOnce
<1> QED BY <1>5, <1>6 DEF ObjectsLiveOnce

\* A slot is lent and constructed once, by the builder that claimed it, and
\* what a throwing constructor leaves behind is taken back exactly.
THEOREM ObjectsAreSafe == ObjectsInit /\ [][ObjectsNext]_objectVars => []ObjectsLiveOnce
<1>1. ObjectsInit => ObjectsInv BY InitIsSound
<1>2. ObjectsInv /\ [ObjectsNext]_objectVars => ObjectsInv' BY OperationIsSound, ObjectsStutter
<1>3. ObjectsInv => ObjectsLiveOnce BY InvariantOfObjects
<1> QED BY <1>1, <1>2, <1>3, PTL

\* ---- Memory, among the services: whatever part a behaviour is about, a step
\* is one of blocks, one of objects, or leaves both alone.
LEMMA MemoryStep ==
  ASSUME Next
  PROVE  [BlocksNext]_blockVars /\ [ObjectsNext]_objectVars
<1>1. CASE BlocksStep BY <1>1 DEF BlocksStep
<1>2. CASE ObjectsStep BY <1>2 DEF ObjectsStep
<1>3. CASE GamepadStep \/ LoggingStep \/ NativeStep \/ SchedulerStep \/ BindingsStep \/ SelectionStep
  BY <1>3 DEF GamepadStep, LoggingStep, NativeStep, SchedulerStep, BindingsStep, SelectionStep
<1>4. CASE SetupStep \/ PressureStep \/ SharedStep \/ TerminalStep \/ WindowStep
  BY <1>4 DEF SetupStep, PressureStep, SharedStep, TerminalStep, WindowStep
<1> QED BY <1>1, <1>2, <1>3, <1>4 DEF Next

\* What a caller is lent is lent to no other and is neither free nor
\* released, free memory is joined and stays known, and an object lives in
\* a slot of it once, until its handle or its builder ends it: the locked
\* bookkeeping of block transactions and of object pools, for any owners,
\* callers and builders.
THEOREM MemoryIsKept == Spec => []MemoryIsSafe
<1>1. Init => BlocksInv /\ ObjectsInv BY BlocksBegin, InitIsSound DEF Init
<1>2. (BlocksInv /\ ObjectsInv) /\ [Next]_allVars => (BlocksInv /\ ObjectsInv)'
 <2>1. SUFFICES ASSUME BlocksInv, ObjectsInv, [Next]_allVars PROVE BlocksInv' /\ ObjectsInv' OBVIOUS
 <2>2. [BlocksNext]_blockVars /\ [ObjectsNext]_objectVars BY <2>1, MemoryStep DEF allVars
 <2> QED BY <2>1, <2>2, BlocksStepKeeps, BlocksStay, OperationIsSound, ObjectsStutter
<1>3. BlocksInv /\ ObjectsInv => MemoryIsSafe BY BlocksKnow, InvariantOfObjects DEF MemoryIsSafe
<1> QED BY <1>1, <1>2, <1>3, PTL DEF Spec

\* ---- What is watched, among the services: each step is one of gamepads, of
\* pressure, of shared values or of windows, or leaves them alone.
LEMMA WatchesStep ==
  ASSUME Next
  PROVE  /\ [GamepadNext]_gamepadVars /\ [PressureNext]_pressureVars
         /\ [SharedNext]_sharedVars /\ [WindowNext]_windowVars
<1>1. CASE GamepadStep \/ PressureStep BY <1>1 DEF GamepadStep, PressureStep
<1>2. CASE SharedStep \/ WindowStep BY <1>2 DEF SharedStep, WindowStep
<1>3. CASE BlocksStep \/ ObjectsStep \/ LoggingStep \/ NativeStep \/ SchedulerStep
  BY <1>3 DEF BlocksStep, ObjectsStep, LoggingStep, NativeStep, SchedulerStep
<1>4. CASE BindingsStep \/ SelectionStep \/ SetupStep \/ TerminalStep
  BY <1>4 DEF BindingsStep, SelectionStep, SetupStep, TerminalStep
<1> QED BY <1>1, <1>2, <1>3, <1>4 DEF Next

\* What a listener of a gamepad, a watch of a runtime's pressure or a
\* channel of a window last heard is what holds once nothing is in
\* progress, each change once and in order, and what waits on a shared
\* value sees every change: for any number of watches, waiters and sizes,
\* and whatever the callbacks do in between.
THEOREM WatchesAreTold == Spec => []WatchesFollow
<1>1. Init => GamepadKept /\ PressureKept /\ SharedKept /\ WindowKept
  BY PadBegins, PressureBegins, SharedBegins, WindowBegins DEF Init
<1>2. (GamepadKept /\ PressureKept /\ SharedKept /\ WindowKept) /\ [Next]_allVars
      => (GamepadKept /\ PressureKept /\ SharedKept /\ WindowKept)'
 <2>1. SUFFICES ASSUME GamepadKept, PressureKept, SharedKept, WindowKept, [Next]_allVars
                PROVE  GamepadKept' /\ PressureKept' /\ SharedKept' /\ WindowKept'
   OBVIOUS
 <2>2. /\ [GamepadNext]_gamepadVars /\ [PressureNext]_pressureVars
       /\ [SharedNext]_sharedVars /\ [WindowNext]_windowVars
   BY <2>1, WatchesStep DEF allVars
 <2>3. GamepadKept' /\ PressureKept' BY <2>1, <2>2, GamepadStepKeeps, GamepadStays, PressureStepKeeps, PressureStays
 <2>4. SharedKept' /\ WindowKept' BY <2>1, <2>2, SharedStepKeeps, SharedStays, WindowStepKeeps, WindowStays
 <2> QED BY <2>3, <2>4
<1>3. GamepadKept /\ PressureKept /\ SharedKept /\ WindowKept => WatchesFollow
  BY GamepadFollowed, PressureFollowed, SharedAgree, WindowKnown DEF WatchesFollow
<1> QED BY <1>1, <1>2, <1>3, PTL DEF Spec

\* ---- Logs. ----
References == Logs \X Nat
Lives == {"absent", "creating", "Opening", "Open", "Closing", "Closed"}
LogCalls ==
  {AtRest} \cup [at : {"submitting", "stopping"}]
  \cup [at : {"building", "reopening", "dropping", "waiting", "ending"}, log : Logs]
Defaults == [kind : {"host", "none"}] \cup [kind : {"own", "closed"}, log : Logs]
Tallies == [accepted : Nat, written : Nat, suppressed : Nat, failed : Nat, discarded : Nat]
LogTypes ==
  /\ life \in [Logs -> Lives] /\ gen \in [Logs -> Nat] /\ holds \in [Holders -> SUBSET References]
  /\ queue \in Seq(References) /\ worker \in Seq(References) /\ Len(worker) <= 1
  /\ call \in [Callers -> LogCalls] /\ default \in Defaults /\ restore \in [Logs -> BOOLEAN]
  /\ tally \in Tallies /\ process \in [at : {"running", "stopping", "stopped"}, ended : SUBSET Logs]

\* A generation that somebody has is the last one of a log with a file, ...
FilesKept(lives, last, had) ==
  /\ \A g \in had : g = <<g[1], last[g[1]]>> /\ g[1] \in Logs /\ lives[g[1]] \in {"Open", "Closing"}
  /\ \A l \in Logs : lives[l] \in {"Open", "Closing"} => <<l, last[l]>> \in had

\* ... it is published while its log is open, and registered until whoever
\* closes it drops it; a caller has it only during its call.
IsLetting(c, l, calls, has) == calls[c].at \in {"dropping", "ending"} /\ calls[c].log = l /\ has[c] # {}
HoldersKept(lives, last, has, calls) ==
  /\ \A l \in Logs : lives[l] = "Open" => <<l, last[l]>> \in has["published"] /\ <<l, last[l]>> \in has["registry"]
  /\ \A l \in Logs : <<l, last[l]>> \in has["published"] => lives[l] = "Open"
  /\ \A l \in Logs : <<l, last[l]>> \in has["registry"] => lives[l] = "Open" \/ \E c \in Callers : IsLetting(c, l, calls, has)
  /\ \A c \in Callers :
       /\ has[c] # {} => calls[c].at \in {"submitting", "dropping", "ending"}
       /\ calls[c].at = "submitting" => \E l \in Logs : has[c] = {<<l, last[l]>>}
       /\ calls[c].at = "dropping" => has[c] # {} /\ lives[calls[c].log] # "Open"
       /\ calls[c].at \in {"dropping", "ending"} /\ has[c] # {} => has[c] = {<<calls[c].log, last[calls[c].log]>>}

\* One caller at a time builds a log.
BuildersKept(lives, calls) ==
  /\ \A c \in Callers : calls[c].at = "building" => lives[calls[c].log] \in {"creating", "Opening"}
  /\ \A c, d \in Callers : calls[c].at = "building" /\ calls[d].at = "building" /\ calls[c].log = calls[d].log => c = d

\* The process ends once everybody is at rest, by one caller, log for log.
IsEnding(c, calls) == calls[c].at \in {"stopping", "ending"}
ProcessKept(lives, calls, ends) ==
  /\ ends.at = "running" => ends.ended = {} /\ \A c \in Callers : ~IsEnding(c, calls)
  /\ ends.at # "running" => \A c \in Callers : calls[c] = AtRest \/ IsEnding(c, calls)
  /\ \A c, d \in Callers : IsEnding(c, calls) /\ IsEnding(d, calls) => c = d
  /\ ends.at = "stopped" => \A c \in Callers : ~IsEnding(c, calls)
  /\ \A l \in ends.ended : lives[l] # "Open"
  /\ \A c \in Callers : calls[c].at = "ending" => lives[calls[c].log] # "Open"

DefaultKept(lives, chosen, again, ends) ==
  /\ chosen.kind = "own" => lives[chosen.log] = "Open"
  /\ chosen.kind = "closed" => lives[chosen.log] \in {"Opening", "Closing", "Closed"} /\ again[chosen.log] /\ chosen.log \notin ends.ended
  /\ ends.at = "stopped" => chosen.kind \in {"host", "none"}

TallyKept(counted, waiting, writing) ==
  counted.accepted = counted.written + counted.suppressed + counted.failed + Len(waiting) + Len(writing)

LogsKept ==
  /\ LogTypes /\ FilesKept(life, gen, Live) /\ HoldersKept(life, gen, holds, call)
  /\ BuildersKept(life, call) /\ ProcessKept(life, call, process)
  /\ DefaultKept(life, default, restore, process) /\ TallyKept(tally, queue, worker)

LEMMA HeldIs ==
  ASSUME NEW has, NEW waiting, NEW writing, NEW g
  PROVE  g \in Held(has, waiting, writing)
         <=> (\E h \in Holders : g \in has[h]) \/ g \in ToSet(waiting) \/ g \in ToSet(writing)
  BY DEF Held

LEMMA SingleSequence ==
  ASSUME NEW g
  PROVE  SetToSeq({g}) = <<g>>
<1>1. Cardinality({g}) = 1 BY FS_Singleton
<1>2. \A f \in [1 .. 1 -> {g}] : f = <<g>> OBVIOUS
<1>3. <<g>> \in [1 .. 1 -> {g}] /\ IsInjective(<<g>>) BY DEF IsInjective
<1>4. SetToSeq({g}) \in [1 .. 1 -> {g}] BY <1>1, <1>3 DEF SetToSeq
<1> QED BY <1>2, <1>4

LEMMA LogsBegin == LogInit => LogsKept
<1>1. SUFFICES ASSUME LogInit PROVE LogsKept OBVIOUS
<1>2. LogTypes BY <1>1 DEF LogInit, LogTypes, LogCalls, Defaults, Tallies, Lives, References, Holders
<1>3. Live = {} BY <1>1 DEF LogInit, Live, Held, ToSet
<1>4. FilesKept(life, gen, Live) /\ HoldersKept(life, gen, holds, call)
  BY <1>1, <1>3 DEF LogInit, FilesKept, HoldersKept, Holders, AtRest, IsLetting
<1>5. BuildersKept(life, call) /\ ProcessKept(life, call, process)
  BY <1>1 DEF LogInit, BuildersKept, ProcessKept, AtRest, IsEnding
<1>6. DefaultKept(life, default, restore, process) /\ TallyKept(tally, queue, worker)
  BY <1>1 DEF LogInit, DefaultKept, TallyKept
<1> QED BY <1>2, <1>4, <1>5, <1>6 DEF LogsKept

\* A release ends exactly what nobody has any more.
LEMMA Settles ==
  ASSUME LogsKept, Settle(life), call' \in [Callers -> LogCalls], gen' = gen, Held(holds', queue', worker') \subseteq Live,
         holds'["published"] = holds["published"], HoldersKept(life, gen, holds', call'),
         BuildersKept(life, call'), ProcessKept(life, call', process)
  PROVE  /\ life' \in [Logs -> Lives] /\ FilesKept(life', gen', Live') /\ HoldersKept(life', gen', holds', call')
         /\ BuildersKept(life', call') /\ ProcessKept(life', call', process)
         /\ DefaultKept(life', default, restore, process)
<1>1. PICK had, left : had = Live /\ left = Held(holds', queue', worker') OBVIOUS
<1>2. Live' = left BY <1>1 DEF Live
<1>3. life \in [Logs -> Lives] /\ FilesKept(life, gen, had) BY <1>1 DEF LogsKept, LogTypes
<1>4. \A l \in Logs : life'[l] = IF life[l] = "Closing" /\ (\E g \in had \ left : l = g[1]) THEN "Closed" ELSE life[l]
  BY <1>1 DEF Settle
<1>5. life' \in [Logs -> Lives] BY <1>3 DEF Settle, Lives
<1>6. \A l \in Logs : life'[l] = life[l] \/ (life[l] = "Closing" /\ life'[l] = "Closed" /\ <<l, gen[l]>> \notin left)
  BY <1>3, <1>4 DEF FilesKept
<1>7. \A l \in Logs : life[l] = "Open" => <<l, gen[l]>> \in left
 <2>1. "published" \in Holders BY DEF Holders
 <2>2. \A l \in Logs : life[l] = "Open" => <<l, gen[l]>> \in holds'["published"] BY DEF HoldersKept
 <2> QED BY <1>1, <2>1, <2>2, HeldIs
<1>8. \A g \in left : g = <<g[1], gen[g[1]]>> /\ g[1] \in Logs /\ life'[g[1]] \in {"Open", "Closing"}
  BY <1>1, <1>3, <1>6 DEF FilesKept
<1>9. \A l \in Logs : life'[l] \in {"Open", "Closing"} => <<l, gen[l]>> \in left
 <2>1. SUFFICES ASSUME NEW l \in Logs, life'[l] \in {"Open", "Closing"}, <<l, gen[l]>> \notin left PROVE FALSE OBVIOUS
 <2>2. life[l] = "Closing" /\ life'[l] = "Closing" BY <1>6, <1>7, <2>1
 <2>3. <<l, gen[l]>> \in had BY <1>3, <2>2 DEF FilesKept
 <2>4. <<l, gen[l]>>[1] = l OBVIOUS
 <2> QED BY <1>4, <2>1, <2>2, <2>3, <2>4
<1>10. FilesKept(life', gen', Live') BY <1>2, <1>8, <1>9 DEF FilesKept
<1>11. HoldersKept(life', gen', holds', call')
 <2>1. \A c \in Callers : call'[c].at = "dropping" => call'[c].log \in Logs BY DEF LogCalls, AtRest
 <2> QED BY <1>6, <2>1 DEF HoldersKept
<1>12. BuildersKept(life', call')
 <2>1. \A c \in Callers : call'[c].at = "building" => call'[c].log \in Logs BY DEF LogCalls, AtRest
 <2> QED BY <1>6, <2>1 DEF BuildersKept
<1>13. ProcessKept(life', call', process)
 <2>1. \A c \in Callers : call'[c].at = "ending" => call'[c].log \in Logs BY DEF LogCalls, AtRest
 <2>2. process.ended \subseteq Logs BY DEF LogsKept, LogTypes
 <2> QED BY <1>6, <2>1, <2>2 DEF ProcessKept
<1>14. DefaultKept(life', default, restore, process) BY <1>6 DEF LogsKept, LogTypes, Defaults, DefaultKept
<1> QED BY <1>5, <1>10, <1>11, <1>12, <1>13, <1>14

LEMMA SettledStep ==
  ASSUME LogsKept, Settle(life), UNCHANGED <<gen, default, restore, process>>,
         call' \in [Callers -> LogCalls], holds' \in [Holders -> SUBSET References],
         queue' \in Seq(References), worker' \in Seq(References), Len(worker') <= 1, tally' \in Tallies,
         Held(holds', queue', worker') \subseteq Live,
         holds'["published"] = holds["published"], HoldersKept(life, gen, holds', call'),
         BuildersKept(life, call'), ProcessKept(life, call', process), TallyKept(tally', queue', worker')
  PROVE  LogsKept'
<1>1. /\ life' \in [Logs -> Lives] /\ FilesKept(life', gen', Live') /\ HoldersKept(life', gen', holds', call')
      /\ BuildersKept(life', call') /\ ProcessKept(life', call', process)
      /\ DefaultKept(life', default, restore, process)
  BY Settles
<1>2. LogTypes' BY <1>1 DEF LogsKept, LogTypes
<1> QED BY <1>1, <1>2 DEF LogsKept

\* A caller that moves between places where it has nothing.
LEMMA CallGoesOn ==
  ASSUME LogsKept, NEW c \in Callers, NEW o \in LogCalls, call' = [call EXCEPT ![c] = o],
         holds[c] = {}, o.at \notin {"submitting", "dropping", "building", "stopping", "ending"}
  PROVE  /\ call' \in [Callers -> LogCalls] /\ HoldersKept(life, gen, holds, call') /\ BuildersKept(life, call')
         /\ process.at = "running" \/ o = AtRest => ProcessKept(life, call', process)
<1>1. call \in [Callers -> LogCalls] /\ HoldersKept(life, gen, holds, call) /\ BuildersKept(life, call)
      /\ ProcessKept(life, call, process)
  BY DEF LogsKept, LogTypes
<1>2. call' \in [Callers -> LogCalls] /\ call'[c] = o /\ \A d \in Callers \ {c} : call'[d] = call[d] BY <1>1
<1>3. HoldersKept(life, gen, holds, call')
 <2>1. \A d \in Callers, l \in Logs : IsLetting(d, l, call, holds) => IsLetting(d, l, call', holds)
   BY <1>2 DEF IsLetting
 <2> QED BY <1>1, <1>2, <2>1 DEF HoldersKept
<1>4. BuildersKept(life, call') BY <1>1, <1>2 DEF BuildersKept
<1>5. process.at = "running" \/ o = AtRest => ProcessKept(life, call', process) BY <1>1, <1>2 DEF ProcessKept, IsEnding
<1> QED BY <1>2, <1>3, <1>4, <1>5

LEMMA AtRestHasNone ==
  ASSUME LogsKept, NEW c \in Callers
  PROVE  call[c].at \notin {"submitting", "dropping", "ending"} => holds[c] = {}
  BY DEF LogsKept, HoldersKept

LEMMA CallsGoOn ==
  ASSUME LogsKept, NEW c \in Callers,
         (\E l \in Logs : Reopen(c, l) \/ CloseJoins(c, l)) \/ CloseReturns(c)
  PROVE  LogsKept'
<1>1. UNCHANGED <<life, gen, holds, queue, worker, default, restore, tally, process>>
  BY DEF Reopen, CloseJoins, CloseReturns
<1>2. PICK o \in LogCalls : /\ call' = [call EXCEPT ![c] = o] /\ call[c].at \in {"idle", "waiting"}
                            /\ o.at \notin {"submitting", "dropping", "building", "stopping", "ending"}
                            /\ process.at = "running" \/ o = AtRest
 <2>1. CASE \E l \in Logs : Reopen(c, l)
  <3>1. PICK l \in Logs : Reopen(c, l) BY <2>1
  <3>2. PICK o : o = [at |-> "reopening", log |-> l] OBVIOUS
  <3>3. o \in LogCalls /\ o.at = "reopening" BY <3>2 DEF LogCalls
  <3>4. call' = [call EXCEPT ![c] = o] /\ call[c].at = "idle" /\ process.at = "running"
    BY <3>1, <3>2 DEF Reopen, Free, AtRest
  <3> QED BY <3>3, <3>4
 <2>2. CASE \E l \in Logs : CloseJoins(c, l)
  <3>1. PICK l \in Logs : CloseJoins(c, l) BY <2>2
  <3>2. PICK o : o = [at |-> "waiting", log |-> l] OBVIOUS
  <3>3. o \in LogCalls /\ o.at = "waiting" BY <3>2 DEF LogCalls
  <3>4. call' = [call EXCEPT ![c] = o] /\ call[c].at = "idle" /\ process.at = "running"
    BY <3>1, <3>2 DEF CloseJoins, Free, AtRest
  <3> QED BY <3>3, <3>4
 <2>3. CASE CloseReturns(c)
  <3>1. AtRest \in LogCalls BY DEF LogCalls
  <3> QED BY <2>3, <3>1 DEF CloseReturns, Done, AtRest
 <2> QED BY <2>1, <2>2, <2>3
<1>3. holds[c] = {} BY <1>2, AtRestHasNone
<1>4. /\ call' \in [Callers -> LogCalls] /\ HoldersKept(life, gen, holds, call') /\ BuildersKept(life, call')
      /\ ProcessKept(life, call', process)
  BY <1>2, <1>3, CallGoesOn
<1>5. LogTypes' /\ Live' = Live BY <1>1, <1>4 DEF LogsKept, LogTypes, Live
<1> QED BY <1>1, <1>4, <1>5 DEF LogsKept

LEMMA RecordIsTaken ==
  ASSUME LogsKept, Take
  PROVE  LogsKept'
<1>1. UNCHANGED <<life, gen, holds, call, default, restore, tally, process>> BY DEF Take
<1>2. queue \in Seq(References) /\ queue # <<>> /\ worker = <<>> /\ worker' = <<Head(queue)>> /\ queue' = Tail(queue)
  BY DEF Take, LogsKept, LogTypes
<1>3. /\ queue' \in Seq(References) /\ worker' \in Seq(References) /\ Len(worker') = 1 /\ Len(worker) = 0
      /\ Len(queue) = Len(queue') + 1 /\ Len(queue') \in Nat
  BY <1>2
<1>4. \A g : g \in ToSet(queue) \/ g \in ToSet(worker) <=> g \in ToSet(queue') \/ g \in ToSet(worker')
 <2>1. ToSet(worker) = {} /\ ToSet(worker') = {Head(queue)} BY <1>2 DEF ToSet
 <2>2. ToSet(queue) = {Head(queue)} \cup ToSet(Tail(queue))
  <3>1. \A i \in DOMAIN queue : i = 1 \/ (i - 1 \in DOMAIN Tail(queue) /\ queue[i] = Tail(queue)[i - 1]) BY <1>2
  <3>2. \A i \in DOMAIN Tail(queue) : i + 1 \in DOMAIN queue /\ Tail(queue)[i] = queue[i + 1] BY <1>2
  <3>3. 1 \in DOMAIN queue /\ queue[1] = Head(queue) BY <1>2
  <3>4. ASSUME NEW g \in ToSet(queue) PROVE g = Head(queue) \/ g \in ToSet(Tail(queue))
   <4>1. PICK i \in DOMAIN queue : g = queue[i] BY <3>4 DEF ToSet
   <4> QED BY <3>1, <3>3, <4>1 DEF ToSet
  <3>5. ASSUME NEW g \in ToSet(Tail(queue)) PROVE g \in ToSet(queue)
   <4>1. PICK i \in DOMAIN Tail(queue) : g = Tail(queue)[i] BY <3>5 DEF ToSet
   <4> QED BY <3>2, <4>1 DEF ToSet
  <3>6. Head(queue) \in ToSet(queue) BY <3>3 DEF ToSet
  <3> QED BY <3>4, <3>5, <3>6
 <2> QED BY <1>2, <2>1, <2>2
<1>5. Live' = Live
 <2>1. \A g : g \in Live <=> g \in Held(holds', queue', worker') BY <1>1, <1>4, HeldIs DEF Live
 <2> QED BY <2>1 DEF Live
<1>6. TallyKept(tally, queue', worker')
 <2>1. tally.accepted \in Nat /\ tally.written \in Nat /\ tally.suppressed \in Nat /\ tally.failed \in Nat
   BY DEF LogsKept, LogTypes, Tallies
 <2> QED BY <1>3, <2>1 DEF LogsKept, TallyKept
<1>7. LogTypes' BY <1>1, <1>3 DEF LogsKept, LogTypes
<1> QED BY <1>1, <1>5, <1>6, <1>7 DEF LogsKept

LEMMA RecordIsWritten ==
  ASSUME LogsKept, NEW outcome \in {"written", "suppressed", "failed"}, Write(outcome)
  PROVE  LogsKept'
<1>1. UNCHANGED <<gen, holds, queue, call, default, restore, process>> /\ Settle(life) BY DEF Write
<1>2. worker # <<>> /\ worker \in Seq(References) /\ Len(worker) <= 1 /\ worker' = <<>>
      /\ tally \in Tallies /\ tally' = [tally EXCEPT ![outcome] = tally[outcome] + 1]
  BY DEF Write, LogsKept, LogTypes
<1>3. Len(worker) = 1 /\ Len(worker') = 0 /\ worker' \in Seq(References)
 <2>1. \A s \in Seq(References) : Len(s) \in Nat /\ (Len(s) = 0 => s = <<>>) OBVIOUS
 <2>2. Len(worker) \in Nat /\ Len(worker) # 0 BY <1>2, <2>1
 <2>3. Len(<<>>) = 0 /\ <<>> \in Seq(References) OBVIOUS
 <2>4. Len(worker) <= 1 /\ worker' = <<>> BY <1>2
 <2>5. Len(worker') = 0 /\ worker' \in Seq(References) BY <2>3, <2>4, Zenon
 <2>6. Len(worker) = 1
  <3>1. \A n \in Nat : n <= 1 /\ n # 0 => n = 1 OBVIOUS
  <3>2. Len(worker) <= 1 BY <2>4
  <3> QED BY <2>2, <3>1, <3>2, Zenon
 <2> QED BY <2>5, <2>6
<1>4. /\ tally' \in Tallies /\ tally'.accepted = tally.accepted
      /\ tally'.written + tally'.suppressed + tally'.failed = tally.written + tally.suppressed + tally.failed + 1
 <2>1. CASE outcome = "written" BY <1>2, <2>1 DEF Tallies
 <2>2. CASE outcome = "suppressed" BY <1>2, <2>2 DEF Tallies
 <2>3. CASE outcome = "failed" BY <1>2, <2>3 DEF Tallies
 <2> QED BY <2>1, <2>2, <2>3
<1>5. TallyKept(tally', queue', worker')
 <2>1. /\ tally.accepted \in Nat /\ tally.written \in Nat /\ tally.suppressed \in Nat /\ tally.failed \in Nat
       /\ tally'.accepted \in Nat /\ tally'.written \in Nat /\ tally'.suppressed \in Nat /\ tally'.failed \in Nat
   BY <1>2, <1>4 DEF Tallies
 <2>2. queue' = queue /\ Len(queue) \in Nat BY <1>1 DEF LogsKept, LogTypes
 <2>3. tally.accepted = tally.written + tally.suppressed + tally.failed + Len(queue) + Len(worker)
   BY DEF LogsKept, TallyKept
 <2>4. tally'.accepted = tally'.written + tally'.suppressed + tally'.failed + Len(queue) + Len(worker')
   BY <1>3, <1>4, <2>1, <2>2, <2>3
 <2> QED BY <2>2, <2>4 DEF TallyKept
<1>6. Held(holds', queue', worker') \subseteq Live
 <2>1. ToSet(worker') = {} BY <1>2 DEF ToSet
 <2> QED BY <1>1, <2>1, HeldIs DEF Live
<1>7. /\ call' \in [Callers -> LogCalls] /\ holds' \in [Holders -> SUBSET References] /\ queue' \in Seq(References)
      /\ holds'["published"] = holds["published"] /\ HoldersKept(life, gen, holds', call')
      /\ BuildersKept(life, call') /\ ProcessKept(life, call', process)
  BY <1>1 DEF LogsKept, LogTypes
<1> QED BY <1>1, <1>3, <1>4, <1>5, <1>6, <1>7, SettledStep

LEMMA HoldersApart ==
    /\ \A c \in Callers : c \in Holders /\ c # "published" /\ c # "registry" /\ c # "host"
    /\ "published" \in Holders /\ "registry" \in Holders /\ "host" \in Holders
  BY CallerAssumption DEF Holders

LEMMA HostAsks ==
  ASSUME LogsKept, NEW l \in Logs, HostGet(l)
  PROVE  LogsKept'
<1>1. UNCHANGED <<life, gen, queue, worker, call, default, restore, tally, process>> BY DEF HostGet
<1>2. PICK g \in References : g = <<l, gen[l]>> BY DEF LogsKept, LogTypes, References
<1>3. g \in holds["registry"] /\ holds["host"] = {} /\ holds' = [holds EXCEPT !["host"] = {g}]
      /\ holds \in [Holders -> SUBSET References]
  BY <1>2 DEF HostGet, Current, LogsKept, LogTypes
<1>4. /\ holds' \in [Holders -> SUBSET References] /\ holds'["host"] = {g}
      /\ \A h \in Holders \ {"host"} : holds'[h] = holds[h]
  BY <1>3, HoldersApart
<1>5. Live' = Live
 <2>1. \A x : (\E h \in Holders : x \in holds[h]) <=> (\E h \in Holders : x \in holds'[h]) BY <1>3, <1>4, HoldersApart
 <2>2. \A x : x \in Live <=> x \in Held(holds', queue', worker') BY <1>1, <2>1, HeldIs DEF Live
 <2> QED BY <2>2 DEF Live
<1>6. HoldersKept(life, gen, holds', call)
 <2>1. /\ \A c \in Callers : holds'[c] = holds[c]
       /\ holds'["published"] = holds["published"] /\ holds'["registry"] = holds["registry"]
   BY <1>4, HoldersApart
 <2>2. \A c \in Callers, k \in Logs : IsLetting(c, k, call, holds) <=> IsLetting(c, k, call, holds')
   BY <2>1 DEF IsLetting
 <2> QED BY <2>1, <2>2 DEF LogsKept, HoldersKept
<1>7. LogTypes' BY <1>1, <1>4 DEF LogsKept, LogTypes
<1> QED BY <1>1, <1>5, <1>6, <1>7 DEF LogsKept

LEMMA HostLets ==
  ASSUME LogsKept, HostDrops
  PROVE  LogsKept'
<1>1. UNCHANGED <<gen, queue, worker, call, default, restore, tally, process>> /\ Settle(life) BY DEF HostDrops
<1>2. holds' = [holds EXCEPT !["host"] = {}] /\ holds \in [Holders -> SUBSET References]
  BY DEF HostDrops, LogsKept, LogTypes
<1>3. /\ holds' \in [Holders -> SUBSET References] /\ holds'["host"] = {}
      /\ \A h \in Holders \ {"host"} : holds'[h] = holds[h]
  BY <1>2, HoldersApart
<1>4. Held(holds', queue', worker') \subseteq Live BY <1>1, <1>3, HeldIs DEF Live
<1>5. HoldersKept(life, gen, holds', call) /\ holds'["published"] = holds["published"]
 <2>1. /\ \A c \in Callers : holds'[c] = holds[c]
       /\ holds'["published"] = holds["published"] /\ holds'["registry"] = holds["registry"]
   BY <1>3, HoldersApart
 <2>2. \A c \in Callers, k \in Logs : IsLetting(c, k, call, holds) <=> IsLetting(c, k, call, holds')
   BY <2>1 DEF IsLetting
 <2> QED BY <2>1, <2>2 DEF LogsKept, HoldersKept
<1>6. /\ call' \in [Callers -> LogCalls] /\ queue' \in Seq(References) /\ worker' \in Seq(References)
      /\ Len(worker') <= 1 /\ tally' \in Tallies /\ TallyKept(tally', queue', worker')
      /\ BuildersKept(life, call') /\ ProcessKept(life, call', process)
  BY <1>1 DEF LogsKept, LogTypes
<1> QED BY <1>1, <1>3, <1>4, <1>5, <1>6, SettledStep

LEMMA DefaultIsMade ==
  ASSUME LogsKept, NEW c \in Callers, NEW l \in Logs, MakeDefault(c, l)
  PROVE  LogsKept'
<1>1. UNCHANGED <<life, gen, holds, queue, worker, call, restore, tally, process>> BY DEF MakeDefault
<1>2. PICK o : o = [kind |-> "own", log |-> l] OBVIOUS
<1>3. o \in Defaults /\ o.kind = "own" /\ o.log = l BY <1>2 DEF Defaults
<1>4. default' = o /\ life[l] = "Open" /\ process.at = "running" BY <1>2 DEF MakeDefault, Free
<1>5. LogTypes' /\ Live' = Live BY <1>1, <1>3, <1>4 DEF LogsKept, LogTypes, Live
<1>6. DefaultKept(life, default', restore, process) BY <1>3, <1>4 DEF DefaultKept
<1> QED BY <1>1, <1>5, <1>6 DEF LogsKept

LEMMA RecordIsSubmitted ==
  ASSUME LogsKept, NEW c \in Callers, NEW l \in Logs, Submit(c, l)
  PROVE  LogsKept'
<1>1. UNCHANGED <<life, gen, queue, worker, default, restore, tally, process>> BY DEF Submit
<1>2. PICK g \in References, o \in LogCalls : g = <<l, gen[l]>> /\ o = [at |-> "submitting"]
  BY DEF LogsKept, LogTypes, References, LogCalls
<1>3. g \in holds["published"] /\ holds' = [holds EXCEPT ![c] = {g}] /\ holds \in [Holders -> SUBSET References]
      /\ call[c] = AtRest /\ process.at = "running" /\ call' = [call EXCEPT ![c] = o] /\ call \in [Callers -> LogCalls]
  BY <1>2 DEF Submit, Free, Current, LogsKept, LogTypes
<1>4. holds[c] = {} /\ o.at = "submitting" /\ call[c].at = "idle" BY <1>2, <1>3, AtRestHasNone DEF AtRest
<1>5. /\ holds' \in [Holders -> SUBSET References] /\ holds'[c] = {g}
      /\ \A h \in Holders \ {c} : holds'[h] = holds[h]
  BY <1>3, HoldersApart
<1>6. call' \in [Callers -> LogCalls] /\ call'[c] = o /\ \A d \in Callers \ {c} : call'[d] = call[d] BY <1>3
<1>7. Live' = Live
 <2>1. \A x : (\E h \in Holders : x \in holds[h]) <=> (\E h \in Holders : x \in holds'[h])
   BY <1>3, <1>4, <1>5, HoldersApart
 <2>2. \A x : x \in Live <=> x \in Held(holds', queue', worker') BY <1>1, <2>1, HeldIs DEF Live
 <2> QED BY <2>2 DEF Live
<1>8. HoldersKept(life, gen, holds', call')
 <2>1. /\ \A d \in Callers \ {c} : holds'[d] = holds[d]
       /\ holds'["published"] = holds["published"] /\ holds'["registry"] = holds["registry"]
   BY <1>5, HoldersApart
 <2>2. \A d \in Callers, k \in Logs : IsLetting(d, k, call, holds) => IsLetting(d, k, call', holds')
   BY <1>4, <1>6, <2>1 DEF IsLetting
 <2> QED BY <1>2, <1>4, <1>5, <1>6, <2>1, <2>2 DEF LogsKept, HoldersKept
<1>9. BuildersKept(life, call') /\ ProcessKept(life, call', process)
  BY <1>3, <1>4, <1>6 DEF LogsKept, BuildersKept, ProcessKept, IsEnding
<1>10. LogTypes' BY <1>1, <1>5, <1>6 DEF LogsKept, LogTypes
<1> QED BY <1>1, <1>7, <1>8, <1>9, <1>10 DEF LogsKept

\* A caller lets go of what it had.
LEMMA CallerLets ==
  ASSUME LogsKept, NEW c \in Callers, NEW registered, registered \subseteq holds["registry"],
         \A l \in Logs : life[l] = "Open" => <<l, gen[l]>> \in registered,
         \A l \in Logs : <<l, gen[l]>> \in registered => life[l] = "Open" \/ \E d \in Callers \ {c} : IsLetting(d, l, call, holds),
         holds' = [holds EXCEPT !["registry"] = registered, ![c] = {}],
         NEW o \in LogCalls, call' = [call EXCEPT ![c] = o], o.at \notin {"submitting", "dropping"}
  PROVE  /\ holds' \in [Holders -> SUBSET References] /\ holds'[c] = {} /\ \A h \in Holders : holds'[h] \subseteq holds[h]
         /\ holds'["published"] = holds["published"] /\ HoldersKept(life, gen, holds', call')
<1>1. /\ holds \in [Holders -> SUBSET References] /\ call \in [Callers -> LogCalls]
      /\ HoldersKept(life, gen, holds, call)
  BY DEF LogsKept, LogTypes
<1>2. /\ holds' \in [Holders -> SUBSET References] /\ holds'[c] = {} /\ holds'["registry"] = registered
      /\ \A h \in Holders \ {c, "registry"} : holds'[h] = holds[h]
  BY <1>1, HoldersApart
<1>3. call' \in [Callers -> LogCalls] /\ call'[c] = o /\ \A d \in Callers \ {c} : call'[d] = call[d] BY <1>1
<1>4. /\ \A d \in Callers \ {c} : holds'[d] = holds[d]
      /\ holds'["published"] = holds["published"]
  BY <1>2, HoldersApart
<1>5. \A d \in Callers \ {c}, k \in Logs : IsLetting(d, k, call, holds) => IsLetting(d, k, call', holds')
  BY <1>3, <1>4 DEF IsLetting
<1>6. HoldersKept(life, gen, holds', call')
 <2>1. \A l \in Logs : <<l, gen[l]>> \in holds'["registry"] => life[l] = "Open" \/ \E d \in Callers : IsLetting(d, l, call', holds')
   BY <1>2, <1>5
 <2>2. \A l \in Logs : life[l] = "Open" => <<l, gen[l]>> \in holds'["published"] /\ <<l, gen[l]>> \in holds'["registry"]
   BY <1>1, <1>2, <1>4 DEF HoldersKept
 <2>3. \A l \in Logs : <<l, gen[l]>> \in holds'["published"] => life[l] = "Open" BY <1>1, <1>4 DEF HoldersKept
 <2>4. ASSUME NEW d \in Callers
       PROVE  /\ holds'[d] # {} => call'[d].at \in {"submitting", "dropping", "ending"}
              /\ call'[d].at = "submitting" => \E l \in Logs : holds'[d] = {<<l, gen[l]>>}
              /\ call'[d].at = "dropping" => holds'[d] # {} /\ life[call'[d].log] # "Open"
              /\ call'[d].at \in {"dropping", "ending"} /\ holds'[d] # {} => holds'[d] = {<<call'[d].log, gen[call'[d].log]>>}
  <3>1. CASE d = c BY <1>2, <1>3, <3>1
  <3>2. CASE d # c
   <4>1. holds'[d] = holds[d] /\ call'[d] = call[d] BY <1>3, <1>4, <3>2
   <4>2. /\ holds[d] # {} => call[d].at \in {"submitting", "dropping", "ending"}
         /\ call[d].at = "submitting" => \E l \in Logs : holds[d] = {<<l, gen[l]>>}
         /\ call[d].at = "dropping" => holds[d] # {} /\ life[call[d].log] # "Open"
         /\ call[d].at \in {"dropping", "ending"} /\ holds[d] # {} => holds[d] = {<<call[d].log, gen[call[d].log]>>}
     BY <1>1 DEF HoldersKept
   <4> QED BY <4>1, <4>2
  <3> QED BY <3>1, <3>2
 <2> QED BY <2>1, <2>2, <2>3, <2>4 DEF HoldersKept
<1> QED BY <1>1, <1>2, <1>4, <1>6, HoldersApart

LEMMA RecordIsQueued ==
  ASSUME LogsKept, NEW c \in Callers, Enqueue(c)
  PROVE  LogsKept'
<1>1. UNCHANGED <<gen, worker, default, restore, process>> /\ Settle(life) /\ call[c].at = "submitting" BY DEF Enqueue
<1>2. PICK l \in Logs : holds[c] = {<<l, gen[l]>>} BY <1>1 DEF LogsKept, HoldersKept
<1>3. PICK g \in References : g = <<l, gen[l]>> BY DEF LogsKept, LogTypes, References
<1>4. holds[c] = {g} /\ SetToSeq(holds[c]) = <<g>> BY <1>2, <1>3, SingleSequence
<1>5. AtRest \in LogCalls /\ AtRest.at = "idle" BY DEF LogCalls, AtRest
<1>6. /\ \A h \in Holders : holds'[h] \subseteq holds[h]
      /\ holds' \in [Holders -> SUBSET References] /\ holds'["published"] = holds["published"]
      /\ HoldersKept(life, gen, holds', call') /\ call' = [call EXCEPT ![c] = AtRest]
 <2>1. holds \in [Holders -> SUBSET References] /\ holds' = [holds EXCEPT ![c] = {}] /\ call' = [call EXCEPT ![c] = AtRest]
   BY DEF Enqueue, Done, LogsKept, LogTypes
 <2>2. PICK r : r = holds["registry"] OBVIOUS
 <2>3. holds' = [holds EXCEPT !["registry"] = r, ![c] = {}] BY <2>1, <2>2, HoldersApart
 <2>4. \A k \in Logs : life[k] = "Open" => <<k, gen[k]>> \in r BY <2>2 DEF LogsKept, HoldersKept
 <2>5. \A k \in Logs : <<k, gen[k]>> \in r => life[k] = "Open" \/ \E d \in Callers \ {c} : IsLetting(d, k, call, holds)
   BY <1>1, <2>2 DEF LogsKept, HoldersKept, IsLetting
 <2> QED BY <1>5, <2>1, <2>2, <2>3, <2>4, <2>5, CallerLets
<1>7. call' \in [Callers -> LogCalls] /\ call'[c] = AtRest /\ \A d \in Callers \ {c} : call'[d] = call[d]
  BY <1>5, <1>6 DEF LogsKept, LogTypes
<1>8. BuildersKept(life, call') /\ ProcessKept(life, call', process)
  BY <1>1, <1>5, <1>7 DEF LogsKept, BuildersKept, ProcessKept, IsEnding
<1>9. PICK q, n : q = queue /\ n = Append(queue, g) OBVIOUS
<1>10. /\ q \in Seq(References) /\ n \in Seq(References) /\ Len(n) = Len(q) + 1 /\ Len(q) \in Nat
       /\ n = q \o <<g>>
  BY <1>9 DEF LogsKept, LogTypes
<1>11. tally \in Tallies BY DEF LogsKept, LogTypes
<1>12. \/ queue' = n /\ tally' = [tally EXCEPT !.accepted = tally.accepted + 1]
       \/ queue' = q /\ tally' = [tally EXCEPT !.discarded = tally.discarded + 1]
  BY <1>4, <1>9, <1>10, <1>11 DEF Enqueue, Tallies
<1>13. queue' \in Seq(References) /\ tally' \in Tallies
 <2>1. CASE queue' = n /\ tally' = [tally EXCEPT !.accepted = tally.accepted + 1]
  <3>1. tally' \in Tallies BY <1>11, <2>1 DEF Tallies
  <3> QED BY <1>10, <2>1, <3>1
 <2>2. CASE queue' = q /\ tally' = [tally EXCEPT !.discarded = tally.discarded + 1]
  <3>1. tally' \in Tallies BY <1>11, <2>2 DEF Tallies
  <3> QED BY <1>10, <2>2, <3>1
 <2> QED BY <1>12, <2>1, <2>2
<1>14. TallyKept(tally', queue', worker')
 <2>1. /\ tally.accepted \in Nat /\ tally.written \in Nat /\ tally.suppressed \in Nat /\ tally.failed \in Nat
       /\ tally'.written = tally.written /\ tally'.suppressed = tally.suppressed /\ tally'.failed = tally.failed
       /\ \/ queue' = n /\ tally'.accepted = tally.accepted + 1
          \/ queue' = q /\ tally'.accepted = tally.accepted
   BY <1>11, <1>12 DEF Tallies
 <2>2. Len(worker) \in Nat /\ worker' = worker BY <1>1 DEF LogsKept, LogTypes
 <2>3. tally.accepted = tally.written + tally.suppressed + tally.failed + Len(q) + Len(worker)
   BY <1>9 DEF LogsKept, TallyKept
 <2>4. CASE queue' = n /\ tally'.accepted = tally.accepted + 1
  <3>1. \A a, b, d, e, f, h \in Nat : a = b + d + e + f + h => a + 1 = b + d + e + (f + 1) + h OBVIOUS
  <3>2. tally'.accepted = tally'.written + tally'.suppressed + tally'.failed + (Len(q) + 1) + Len(worker)
   <4>1. PICK a, b, d, e, f, h \in Nat : /\ a = tally.accepted /\ b = tally.written /\ d = tally.suppressed
                                         /\ e = tally.failed /\ f = Len(q) /\ h = Len(worker)
     BY <1>10, <2>1, <2>2, Zenon
   <4>2. a = b + d + e + f + h BY <2>3, <4>1
   <4>3. a + 1 = b + d + e + (f + 1) + h BY <3>1, <4>2
   <4>4. /\ tally'.accepted = a + 1 /\ tally'.written = b /\ tally'.suppressed = d /\ tally'.failed = e
         /\ Len(q) = f /\ Len(worker) = h
     BY <2>1, <2>4, <4>1
   <4> QED BY <4>3, <4>4
  <3>3. Len(queue') = Len(q) + 1 BY <1>10, <2>4
  <3> QED BY <2>2, <3>2, <3>3 DEF TallyKept
 <2>5. CASE queue' = q /\ tally'.accepted = tally.accepted BY <2>1, <2>2, <2>3, <2>5 DEF TallyKept
 <2> QED BY <2>1, <2>4, <2>5
<1>15. Held(holds', queue', worker') \subseteq Live
 <2>1. ToSet(n) = ToSet(q) \cup {g}
  <3>1. DOMAIN n = 1 .. Len(q) + 1 /\ DOMAIN q = 1 .. Len(q) /\ n[Len(q) + 1] = g /\ \A i \in DOMAIN q : n[i] = q[i]
    BY <1>9, <1>10
  <3>2. \A i \in DOMAIN n : i \in DOMAIN q \/ i = Len(q) + 1 BY <1>10, <3>1
  <3>3. \A i \in DOMAIN q : i \in DOMAIN n BY <1>10, <3>1
  <3>4. Len(q) + 1 \in DOMAIN n BY <1>10, <3>1
  <3>5. ASSUME NEW x \in ToSet(n) PROVE x \in ToSet(q) \cup {g}
   <4>1. PICK i \in DOMAIN n : x = n[i] BY <3>5 DEF ToSet
   <4> QED BY <3>1, <3>2, <4>1 DEF ToSet
  <3>6. ASSUME NEW x \in ToSet(q) PROVE x \in ToSet(n)
   <4>1. PICK i \in DOMAIN q : x = q[i] BY <3>6 DEF ToSet
   <4> QED BY <3>1, <3>3, <4>1 DEF ToSet
  <3>7. g \in ToSet(n) BY <3>1, <3>4 DEF ToSet
  <3> QED BY <3>5, <3>6, <3>7
 <2>2. ToSet(queue') \subseteq ToSet(q) \cup {g} BY <1>12, <2>1
 <2>3. \E h \in Holders : g \in holds[h] BY <1>4, HoldersApart
 <2> QED BY <1>1, <1>6, <1>9, <2>2, <2>3, HeldIs DEF Live
<1>16. worker' \in Seq(References) /\ Len(worker') <= 1 BY <1>1 DEF LogsKept, LogTypes
<1> QED BY <1>1, <1>6, <1>7, <1>8, <1>13, <1>14, <1>15, <1>16, SettledStep

LEMMA RegistrationEnds ==
  ASSUME LogsKept, NEW c \in Callers, CloseDrops(c) \/ ShutDownDrops(c)
  PROVE  LogsKept'
<1>1. /\ UNCHANGED <<gen, queue, worker, default, restore, tally, process>> /\ Settle(life)
      /\ call[c].at \in {"dropping", "ending"}
      /\ holds' = [holds EXCEPT !["registry"] = {g \in holds["registry"] : g[1] # call[c].log}, ![c] = {}]
  BY HoldersApart DEF CloseDrops, ShutDownDrops, LogsKept, LogTypes
<1>2. call \in [Callers -> LogCalls] /\ call[c].log \in Logs
 <2>1. call \in [Callers -> LogCalls] BY DEF LogsKept, LogTypes
 <2>2. call[c] \in [at : {"building", "reopening", "dropping", "waiting", "ending"}, log : Logs]
   BY <1>1, <2>1 DEF LogCalls, AtRest
 <2> QED BY <2>1, <2>2
<1>3. life[call[c].log] # "Open" BY <1>1 DEF LogsKept, HoldersKept, ProcessKept
<1>4. PICK o \in LogCalls : /\ call' = [call EXCEPT ![c] = o] /\ o.at \in {"waiting", "ending"}
                            /\ o.at = "ending" => o = call[c]
 <2>1. CASE CloseDrops(c)
  <3>1. PICK o : o = [at |-> "waiting", log |-> call[c].log] OBVIOUS
  <3>2. o \in LogCalls /\ o.at = "waiting" BY <1>2, <3>1 DEF LogCalls
  <3>3. call[c].at = "dropping" /\ call' = [call EXCEPT ![c].at = "waiting"] BY <2>1 DEF CloseDrops
  <3>4. call[c] \in [at : {"building", "reopening", "dropping", "waiting", "ending"}, log : Logs]
    BY <1>2, <3>3 DEF LogCalls, AtRest
  <3>5. [call[c] EXCEPT !.at = "waiting"] = o BY <3>1, <3>4
  <3>6. call' = [call EXCEPT ![c] = o] BY <1>2, <3>3, <3>5
  <3> QED BY <3>2, <3>6
 <2>2. CASE ShutDownDrops(c)
  <3>1. call' = [call EXCEPT ![c] = call[c]] /\ call[c].at = "ending" /\ call[c] \in LogCalls
    BY <1>2, <2>2 DEF ShutDownDrops
  <3> QED BY <3>1
 <2> QED BY <2>1, <2>2
<1>5. PICK r : r = {g \in holds["registry"] : g[1] # call[c].log} OBVIOUS
<1>6. /\ \A h \in Holders : holds'[h] \subseteq holds[h]
      /\ holds' \in [Holders -> SUBSET References] /\ holds'["published"] = holds["published"]
      /\ HoldersKept(life, gen, holds', call')
 <2>1. holds' = [holds EXCEPT !["registry"] = r, ![c] = {}] BY <1>1, <1>5
 <2>2. \A k \in Logs : <<k, gen[k]>>[1] = k OBVIOUS
 <2>3. \A k \in Logs : life[k] = "Open" => <<k, gen[k]>> \in r BY <1>3, <1>5, <2>2 DEF LogsKept, HoldersKept
 <2>4. \A k \in Logs : <<k, gen[k]>> \in r => life[k] = "Open" \/ \E d \in Callers \ {c} : IsLetting(d, k, call, holds)
   BY <1>5, <2>2 DEF LogsKept, HoldersKept, IsLetting
 <2>5. r \subseteq holds["registry"] /\ o.at \notin {"submitting", "dropping"} BY <1>4, <1>5
 <2> QED BY <1>4, <2>1, <2>3, <2>4, <2>5, CallerLets
<1>7. call' \in [Callers -> LogCalls] /\ call'[c] = o /\ \A d \in Callers \ {c} : call'[d] = call[d] BY <1>2, <1>4
<1>8. BuildersKept(life, call') /\ ProcessKept(life, call', process)
 <2>1. \A d \in Callers : IsEnding(d, call') => IsEnding(d, call) BY <1>4, <1>7 DEF IsEnding
 <2>2. process.at # "running" => o.at = "ending"
   BY <1>1, <1>4, <1>2, <1>7 DEF LogsKept, ProcessKept, IsEnding, AtRest, CloseDrops, ShutDownDrops
 <2>3. BuildersKept(life, call') BY <1>4, <1>7 DEF LogsKept, BuildersKept
 <2>4. ProcessKept(life, call', process) BY <1>4, <1>7, <2>1, <2>2 DEF LogsKept, ProcessKept, IsEnding
 <2> QED BY <2>3, <2>4
<1>9. Held(holds', queue', worker') \subseteq Live BY <1>1, <1>6, HeldIs DEF Live
<1>10. /\ queue' \in Seq(References) /\ worker' \in Seq(References)
       /\ Len(worker') <= 1 /\ tally' \in Tallies /\ TallyKept(tally', queue', worker')
  BY <1>1 DEF LogsKept, LogTypes
<1> QED BY <1>1, <1>6, <1>7, <1>8, <1>9, <1>10, SettledStep

\* A log without a file turns to another state without one.
LEMMA LifeTurns ==
  ASSUME LogsKept, NEW l \in Logs, life[l] \notin {"Open", "Closing"},
         NEW n \in Lives \ {"Open", "Closing"}, life' = [life EXCEPT ![l] = n],
         UNCHANGED <<gen, holds, queue, worker>>
  PROVE  /\ life' \in [Logs -> Lives] /\ life'[l] = n /\ \A k \in Logs \ {l} : life'[k] = life[k]
         /\ FilesKept(life', gen', Live') /\ HoldersKept(life', gen', holds, call)
<1>1. life \in [Logs -> Lives] /\ FilesKept(life, gen, Live) /\ HoldersKept(life, gen, holds, call) /\ Live' = Live /\ gen' = gen
  BY DEF LogsKept, LogTypes, Live
<1>2. life' \in [Logs -> Lives] /\ life'[l] = n /\ \A k \in Logs \ {l} : life'[k] = life[k] BY <1>1
<1>3. FilesKept(life', gen, Live) BY <1>1, <1>2 DEF FilesKept
<1>4. HoldersKept(life', gen, holds, call)
 <2>1. \A c \in Callers : call[c].at = "dropping" => call[c].log \in Logs BY DEF LogsKept, LogTypes, LogCalls, AtRest
 <2> QED BY <1>1, <1>2, <2>1 DEF HoldersKept
<1> QED BY <1>1, <1>2, <1>3, <1>4

\* A caller that becomes the builder of a log, or is no more.
LEMMA BuilderTurns ==
  ASSUME LogsKept, NEW c \in Callers, NEW l \in Logs, holds[c] = {},
         ~IsEnding(c, call), NEW o \in LogCalls, call' = [call EXCEPT ![c] = o], NEW has,
         NEW lives, HoldersKept(lives, gen', has, call), has[c] = {},
         \A d \in Callers \ {c} : call[d].at = "building" => call[d].log # l /\ lives[call[d].log] = life[call[d].log],
         \/ o.at = "building" /\ o.log = l /\ lives[l] \in {"creating", "Opening"} /\ process.at = "running"
         \/ o = AtRest
  PROVE  call' \in [Callers -> LogCalls] /\ HoldersKept(lives, gen', has, call') /\ BuildersKept(lives, call')
<1>1. call \in [Callers -> LogCalls] /\ BuildersKept(life, call) BY DEF LogsKept, LogTypes
<1>2. call' \in [Callers -> LogCalls] /\ call'[c] = o /\ \A d \in Callers \ {c} : call'[d] = call[d] BY <1>1
<1>3. o.at \in {"building", "idle"} BY DEF AtRest
<1>4. HoldersKept(lives, gen', has, call')
 <2>1. \A d \in Callers, k \in Logs : IsLetting(d, k, call, has) => IsLetting(d, k, call', has) BY <1>2 DEF IsLetting
 <2> QED BY <1>2, <1>3, <2>1 DEF HoldersKept
<1>5. BuildersKept(lives, call') BY <1>1, <1>2 DEF BuildersKept, AtRest
<1> QED BY <1>2, <1>4, <1>5

LEMMA RunningKept ==
  ASSUME NEW lives, NEW calls, NEW ends, NEW c \in Callers, NEW o, call \in [Callers -> LogCalls],
         ProcessKept(life, call, ends), ends.at = "running",
         calls = [call EXCEPT ![c] = o], o.at \notin {"stopping", "ending"}
  PROVE  ProcessKept(lives, calls, ends)
<1>1. calls[c] = o /\ \A d \in Callers \ {c} : calls[d] = call[d] OBVIOUS
<1>2. ends.ended = {} /\ \A d \in Callers : ~IsEnding(d, calls) BY <1>1 DEF ProcessKept, IsEnding
<1> QED BY <1>2 DEF ProcessKept, IsEnding

LEMMA BuildersRun ==
  ASSUME LogsKept, NEW c \in Callers, call[c].at \in {"building", "reopening", "submitting", "dropping", "waiting"}
  PROVE  process.at = "running" /\ ~IsEnding(c, call)
  BY DEF LogsKept, LogTypes, ProcessKept, IsEnding, AtRest

LEMMA CategoryIsAcquired ==
  ASSUME LogsKept, NEW c \in Callers, NEW l \in Logs, Acquire(c, l)
  PROVE  LogsKept'
<1>1. /\ UNCHANGED <<gen, holds, queue, worker, default, restore, tally, process>>
      /\ call[c] = AtRest /\ process.at = "running" /\ life[l] = "absent" /\ life' = [life EXCEPT ![l] = "creating"]
  BY DEF Acquire, Free, Become
<1>2. PICK o : o = [at |-> "building", log |-> l] OBVIOUS
<1>3. o \in LogCalls /\ o.at = "building" /\ o.log = l /\ call' = [call EXCEPT ![c] = o] BY <1>2 DEF LogCalls, Acquire
<1>4. holds[c] = {} /\ ~IsEnding(c, call) BY <1>1, AtRestHasNone DEF AtRest, IsEnding
<1>5. /\ life' \in [Logs -> Lives] /\ life'[l] = "creating" /\ \A k \in Logs \ {l} : life'[k] = life[k]
      /\ FilesKept(life', gen', Live') /\ HoldersKept(life', gen', holds, call)
  BY <1>1, LifeTurns DEF Lives
<1>6. \A d \in Callers \ {c} : call[d].at = "building" => call[d].log # l /\ life'[call[d].log] = life[call[d].log]
 <2>1. \A d \in Callers : call[d].at = "building" => call[d].log \in Logs BY DEF LogsKept, LogTypes, LogCalls, AtRest
 <2> QED BY <1>1, <1>5, <2>1 DEF LogsKept, BuildersKept
<1>7. call' \in [Callers -> LogCalls] /\ HoldersKept(life', gen', holds, call') /\ BuildersKept(life', call')
 <2>1. call' \in [Callers -> LogCalls] /\ call'[c] = o /\ \A d \in Callers \ {c} : call'[d] = call[d]
   BY <1>3 DEF LogsKept, LogTypes
 <2>2. \A d \in Callers, k \in Logs : IsLetting(d, k, call, holds) => IsLetting(d, k, call', holds)
   BY <1>4, <2>1 DEF IsLetting
 <2>3. HoldersKept(life', gen', holds, call') BY <1>3, <1>4, <1>5, <2>1, <2>2 DEF HoldersKept
 <2>4. BuildersKept(life', call') BY <1>3, <1>5, <1>6, <2>1 DEF LogsKept, BuildersKept
 <2> QED BY <2>1, <2>3, <2>4
<1>8. ProcessKept(life', call', process) BY <1>1, <1>3, RunningKept DEF LogsKept, LogTypes
<1>9. DefaultKept(life', default, restore, process) BY <1>1, <1>5 DEF LogsKept, LogTypes, Defaults, DefaultKept
<1>10. LogTypes' BY <1>1, <1>5, <1>7 DEF LogsKept, LogTypes
<1> QED BY <1>1, <1>5, <1>7, <1>8, <1>9, <1>10 DEF LogsKept

LEMMA ConstructionBegins ==
  ASSUME LogsKept, NEW c \in Callers, Construct(c)
  PROVE  LogsKept'
<1>1. UNCHANGED <<gen, holds, queue, worker, default, restore, tally, process>> /\ call[c].at = "reopening"
  BY DEF Construct
<1>2. call \in [Callers -> LogCalls] /\ holds[c] = {} /\ ~IsEnding(c, call) /\ process.at = "running"
  BY <1>1, AtRestHasNone, BuildersRun DEF LogsKept, LogTypes
<1>3. call[c] \in [at : {"building", "reopening", "dropping", "waiting", "ending"}, log : Logs]
  BY <1>1, <1>2 DEF LogCalls, AtRest
<1>4. PICK l \in Logs : l = call[c].log BY <1>3
<1>5. CASE life[l] = "Closed"
 <2>1. life' = [life EXCEPT ![l] = "Opening"] /\ call' = [call EXCEPT ![c].at = "building"]
   BY <1>4, <1>5 DEF Construct, Become
 <2>2. PICK o : o = [at |-> "building", log |-> l] OBVIOUS
 <2>3. o \in LogCalls /\ o.at = "building" /\ o.log = l BY <2>2 DEF LogCalls
 <2>4. [call[c] EXCEPT !.at = "building"] = o BY <1>3, <1>4, <2>2
 <2>5. call' = [call EXCEPT ![c] = o] BY <1>2, <2>1, <2>4
 <2>6. /\ life' \in [Logs -> Lives] /\ life'[l] = "Opening" /\ \A k \in Logs \ {l} : life'[k] = life[k]
       /\ FilesKept(life', gen', Live') /\ HoldersKept(life', gen', holds, call)
   BY <1>1, <1>5, <2>1, LifeTurns DEF Lives
 <2>7. \A d \in Callers \ {c} : call[d].at = "building" => call[d].log # l /\ life'[call[d].log] = life[call[d].log]
  <3>1. \A d \in Callers : call[d].at = "building" => call[d].log \in Logs BY <1>2 DEF LogCalls, AtRest
  <3> QED BY <1>5, <2>6, <3>1 DEF LogsKept, BuildersKept
 <2>8. call' \in [Callers -> LogCalls] /\ HoldersKept(life', gen', holds, call') /\ BuildersKept(life', call')
   BY <1>1, <1>2, <2>3, <2>5, <2>6, <2>7, BuilderTurns
 <2>9. ProcessKept(life', call', process) BY <1>2, <2>3, <2>5, RunningKept DEF LogsKept
 <2>10. DefaultKept(life', default, restore, process) BY <1>5, <2>6 DEF LogsKept, LogTypes, Defaults, DefaultKept
 <2>11. LogTypes' BY <1>1, <2>6, <2>8 DEF LogsKept, LogTypes
 <2> QED BY <1>1, <2>6, <2>8, <2>9, <2>10, <2>11 DEF LogsKept
<1>6. CASE life[l] # "Closed"
 <2>1. UNCHANGED life /\ call' = [call EXCEPT ![c] = AtRest] BY <1>4, <1>6 DEF Construct, Done
 <2>2. AtRest \in LogCalls /\ AtRest.at = "idle" BY DEF LogCalls, AtRest
 <2>3. /\ call' \in [Callers -> LogCalls] /\ HoldersKept(life, gen, holds, call') /\ BuildersKept(life, call')
       /\ ProcessKept(life, call', process)
   BY <1>2, <2>1, <2>2, CallGoesOn
 <2>4. LogTypes' /\ Live' = Live BY <1>1, <2>1, <2>3 DEF LogsKept, LogTypes, Live
 <2> QED BY <1>1, <2>1, <2>3, <2>4 DEF LogsKept
<1> QED BY <1>5, <1>6

LEMMA OpeningFails ==
  ASSUME LogsKept, NEW c \in Callers, BuildFails(c)
  PROVE  LogsKept'
<1>1. UNCHANGED <<gen, holds, queue, worker, default, restore, tally, process>> /\ call[c].at = "building"
      /\ call' = [call EXCEPT ![c] = AtRest]
  BY DEF BuildFails, Done
<1>2. call \in [Callers -> LogCalls] /\ holds[c] = {} /\ ~IsEnding(c, call) /\ process.at = "running"
  BY <1>1, AtRestHasNone, BuildersRun DEF LogsKept, LogTypes
<1>3. call[c].log \in Logs BY <1>1, <1>2 DEF LogCalls, AtRest
<1>4. PICK l \in Logs : l = call[c].log BY <1>3
<1>5. PICK n \in {"absent", "Closed"} : n = IF life[l] = "creating" THEN "absent" ELSE "Closed" OBVIOUS
<1>6. life' = [life EXCEPT ![l] = n] /\ life[l] \in {"creating", "Opening"}
  BY <1>1, <1>4, <1>5 DEF BuildFails, Become, LogsKept, BuildersKept
<1>7. /\ life' \in [Logs -> Lives] /\ life'[l] = n /\ \A k \in Logs \ {l} : life'[k] = life[k]
      /\ FilesKept(life', gen', Live') /\ HoldersKept(life', gen', holds, call)
  BY <1>1, <1>6, LifeTurns DEF Lives
<1>8. \A d \in Callers \ {c} : call[d].at = "building" => call[d].log # l /\ life'[call[d].log] = life[call[d].log]
 <2>1. \A d \in Callers : call[d].at = "building" => call[d].log \in Logs BY <1>2 DEF LogCalls, AtRest
 <2> QED BY <1>1, <1>4, <1>7, <2>1 DEF LogsKept, BuildersKept
<1>9. AtRest \in LogCalls /\ AtRest.at = "idle" BY DEF LogCalls, AtRest
<1>10. call' \in [Callers -> LogCalls] /\ HoldersKept(life', gen', holds, call') /\ BuildersKept(life', call')
  BY <1>1, <1>2, <1>7, <1>8, <1>9, BuilderTurns
<1>11. ProcessKept(life', call', process) BY <1>1, <1>2, <1>9, RunningKept DEF LogsKept
<1>12. DefaultKept(life', default, restore, process) BY <1>5, <1>6, <1>7 DEF LogsKept, LogTypes, Defaults, DefaultKept
<1>13. LogTypes' BY <1>1, <1>7, <1>10 DEF LogsKept, LogTypes
<1> QED BY <1>1, <1>7, <1>10, <1>11, <1>12, <1>13 DEF LogsKept

LEMMA OpeningSucceeds ==
  ASSUME LogsKept, NEW c \in Callers, BuildSucceeds(c)
  PROVE  LogsKept'
<1>1. UNCHANGED <<queue, worker, tally, process>> /\ call[c].at = "building" /\ call' = [call EXCEPT ![c] = AtRest]
  BY DEF BuildSucceeds, Done
<1>2. call \in [Callers -> LogCalls] /\ holds[c] = {} /\ ~IsEnding(c, call) /\ process.at = "running"
  BY <1>1, AtRestHasNone, BuildersRun DEF LogsKept, LogTypes
<1>3. call[c].log \in Logs BY <1>1, <1>2 DEF LogCalls, AtRest
<1>4. PICK l \in Logs : l = call[c].log BY <1>3
<1>5. gen[l] \in Nat /\ gen \in [Logs -> Nat] /\ life \in [Logs -> Lives] /\ holds \in [Holders -> SUBSET References]
      /\ restore \in [Logs -> BOOLEAN] /\ default \in Defaults /\ life[l] \in {"creating", "Opening"}
  BY <1>1, <1>4 DEF LogsKept, LogTypes, BuildersKept
<1>6. PICK g \in References : g = <<l, gen[l] + 1>>
 <2>1. gen[l] + 1 \in Nat BY <1>5
 <2> QED BY <2>1 DEF References
<1>7. /\ gen' = [gen EXCEPT ![l] = gen[l] + 1] /\ life' = [life EXCEPT ![l] = "Open"]
      /\ restore' = [restore EXCEPT ![l] = FALSE]
      /\ holds' = [holds EXCEPT !["published"] = holds["published"] \cup {g}, !["registry"] = holds["registry"] \cup {g}]
      /\ default' = IF restore[l] /\ default = [kind |-> "closed", log |-> l] THEN [kind |-> "own", log |-> l] ELSE default
  BY <1>4, <1>5, <1>6, HoldersApart DEF BuildSucceeds, Become
<1>8. /\ gen' \in [Logs -> Nat] /\ gen'[l] = gen[l] + 1 /\ life' \in [Logs -> Lives] /\ life'[l] = "Open"
      /\ restore' \in [Logs -> BOOLEAN] /\ holds' \in [Holders -> SUBSET References]
      /\ \A k \in Logs \ {l} : gen'[k] = gen[k] /\ life'[k] = life[k] /\ restore'[k] = restore[k]
  BY <1>5, <1>6, <1>7, HoldersApart DEF Lives
<1>9. /\ holds'["published"] = holds["published"] \cup {g} /\ holds'["registry"] = holds["registry"] \cup {g}
      /\ \A h \in Holders \ {"published", "registry"} : holds'[h] = holds[h]
  BY <1>5, <1>7, HoldersApart
<1>10. Live' = Live \cup {g}
 <2>1. \A x : (\E h \in Holders : x \in holds'[h]) <=> (\E h \in Holders : x \in holds[h]) \/ x = g
   BY <1>9, HoldersApart
 <2>2. \A x : x \in Held(holds', queue', worker') <=> x \in Live \/ x = g BY <1>1, <2>1, HeldIs DEF Live
 <2> QED BY <2>2 DEF Live
<1>11. \A x \in Live : x = <<x[1], gen[x[1]]>> /\ x[1] \in Logs \ {l} /\ life[x[1]] \in {"Open", "Closing"}
  BY <1>5 DEF LogsKept, FilesKept
<1>12. FilesKept(life', gen', Live')
 <2>1. g[1] = l BY <1>6
 <2>2. \A x \in Live' : x = <<x[1], gen'[x[1]]>> /\ x[1] \in Logs /\ life'[x[1]] \in {"Open", "Closing"}
   BY <1>6, <1>8, <1>10, <1>11, <2>1
 <2>3. \A k \in Logs : life'[k] \in {"Open", "Closing"} => <<k, gen'[k]>> \in Live'
   BY <1>6, <1>8, <1>10 DEF LogsKept, FilesKept
 <2> QED BY <2>2, <2>3 DEF FilesKept
<1>13. HoldersKept(life', gen', holds', call)
 <2>1. HoldersKept(life, gen, holds, call) BY DEF LogsKept
 <2>2. \A d \in Callers : holds'[d] = holds[d] BY <1>9, HoldersApart
 <2>3. \A d \in Callers, k \in Logs : IsLetting(d, k, call, holds) => IsLetting(d, k, call, holds')
   BY <2>2 DEF IsLetting
 <2>4. \A k \in Logs \ {l} : <<k, gen[k]>> # g BY <1>6
 <2>5. \A k \in Logs : life'[k] = "Open" => <<k, gen'[k]>> \in holds'["published"] /\ <<k, gen'[k]>> \in holds'["registry"]
   BY <1>6, <1>8, <1>9, <2>1 DEF HoldersKept
 <2>6. \A k \in Logs : <<k, gen'[k]>> \in holds'["published"] => life'[k] = "Open"
   BY <1>6, <1>8, <1>9, <2>1, <2>4 DEF HoldersKept
 <2>7. \A k \in Logs : <<k, gen'[k]>> \in holds'["registry"] => life'[k] = "Open" \/ \E d \in Callers : IsLetting(d, k, call, holds')
   BY <1>6, <1>8, <1>9, <2>1, <2>3, <2>4 DEF HoldersKept
 <2>8. ASSUME NEW d \in Callers
       PROVE  /\ holds[d] # {} => call[d].at \in {"submitting", "dropping", "ending"}
              /\ call[d].at = "submitting" => \E k \in Logs : holds[d] = {<<k, gen'[k]>>}
              /\ call[d].at = "dropping" => holds[d] # {} /\ life'[call[d].log] # "Open"
              /\ call[d].at \in {"dropping", "ending"} /\ holds[d] # {} => holds[d] = {<<call[d].log, gen'[call[d].log]>>}
  <3>1. \A x \in holds[d] : x \in Live BY HoldersApart, HeldIs DEF Live
  <3>2. \A k \in Logs : <<k, gen[k]>> \in Live => gen'[k] = gen[k] /\ life'[k] = life[k]
   <4>1. \A k \in Logs : <<k, gen[k]>>[1] = k OBVIOUS
   <4> QED BY <1>8, <1>11, <4>1
  <3>3. call[d].at \in {"dropping", "ending"} => call[d].log \in Logs BY <1>2 DEF LogCalls, AtRest
  <3>4. /\ holds[d] # {} => call[d].at \in {"submitting", "dropping", "ending"}
        /\ call[d].at = "submitting" => \E k \in Logs : holds[d] = {<<k, gen[k]>>}
        /\ call[d].at = "dropping" => holds[d] # {} /\ life[call[d].log] # "Open"
        /\ call[d].at \in {"dropping", "ending"} /\ holds[d] # {} => holds[d] = {<<call[d].log, gen[call[d].log]>>}
    BY <2>1 DEF HoldersKept
  <3>5. CASE call[d].at = "submitting" BY <3>1, <3>2, <3>4, <3>5
  <3>6. CASE call[d].at \in {"dropping", "ending"} BY <3>1, <3>2, <3>3, <3>4, <3>6
  <3> QED BY <3>4, <3>5, <3>6
 <2> QED BY <2>2, <2>5, <2>6, <2>7, <2>8 DEF HoldersKept
<1>14. AtRest \in LogCalls /\ AtRest.at = "idle" BY DEF LogCalls, AtRest
<1>15. call' \in [Callers -> LogCalls] /\ HoldersKept(life', gen', holds', call') /\ BuildersKept(life', call')
 <2>1. \A d \in Callers \ {c} : call[d].at = "building" => call[d].log # l /\ life'[call[d].log] = life[call[d].log]
  <3>1. \A d \in Callers : call[d].at = "building" => call[d].log \in Logs BY <1>2 DEF LogCalls, AtRest
  <3> QED BY <1>1, <1>4, <1>8, <3>1 DEF LogsKept, BuildersKept
 <2>2. holds'[c] = {} BY <1>2, <1>9, HoldersApart
 <2> QED BY <1>1, <1>2, <1>13, <1>14, <2>1, <2>2, BuilderTurns
<1>16. ProcessKept(life', call', process) BY <1>1, <1>2, <1>14, RunningKept DEF LogsKept
<1>17. default' \in Defaults /\ DefaultKept(life', default', restore', process)
 <2>1. DefaultKept(life, default, restore, process) BY DEF LogsKept
 <2>2. PICK own, shut : own = [kind |-> "own", log |-> l] /\ shut = [kind |-> "closed", log |-> l] OBVIOUS
 <2>3. own \in Defaults /\ own.kind = "own" /\ own.log = l /\ \A o \in Defaults : o.kind = "closed" /\ o.log = l => o = shut
   BY <2>2 DEF Defaults
 <2>4. \A o \in Defaults : o.kind \in {"own", "closed"} => o.log \in Logs BY DEF Defaults
 <2>5. default' = IF restore[l] /\ default = shut THEN own ELSE default BY <1>7, <2>2
 <2>6. CASE restore[l] /\ default = shut BY <1>2, <1>8, <2>3, <2>5, <2>6 DEF DefaultKept
 <2>7. CASE ~(restore[l] /\ default = shut)
  <3>1. default' = default BY <2>5, <2>7
  <3>2. default.kind = "closed" => default.log # l BY <1>5, <2>1, <2>3, <2>7 DEF DefaultKept
  <3>3. default.kind = "own" => default.log # l BY <1>5, <2>1 DEF DefaultKept
  <3> QED BY <1>2, <1>5, <1>8, <2>1, <2>4, <3>1, <3>2, <3>3 DEF DefaultKept
 <2> QED BY <2>6, <2>7
<1>18. LogTypes' BY <1>1, <1>8, <1>15, <1>17 DEF LogsKept, LogTypes
<1> QED BY <1>1, <1>12, <1>15, <1>16, <1>17, <1>18 DEF LogsKept

\* A log that closes: one more has its file, no one publishes it.
LEMMA Unpublishes ==
  ASSUME LogsKept, NEW c \in Callers, NEW l \in Logs, life[l] = "Open", Unpublish(c, l), life' = Become(l, "Closing"),
         call[c].at \in {"idle", "stopping"}, NEW o \in LogCalls, o.at \in {"dropping", "ending"}, o.log = l,
         call' = [call EXCEPT ![c] = o], UNCHANGED <<gen, queue, worker>>, process.at # "stopped"
  PROVE  /\ life' \in [Logs -> Lives] /\ life'[l] = "Closing" /\ \A k \in Logs \ {l} : life'[k] = life[k]
         /\ call' \in [Callers -> LogCalls] /\ holds' \in [Holders -> SUBSET References]
         /\ restore' \in [Logs -> BOOLEAN] /\ default' \in Defaults
         /\ FilesKept(life', gen', Live') /\ HoldersKept(life', gen', holds', call') /\ BuildersKept(life', call')
         /\ DefaultKept(life', default', restore', process)
<1>1. /\ life \in [Logs -> Lives] /\ holds \in [Holders -> SUBSET References] /\ call \in [Callers -> LogCalls]
      /\ restore \in [Logs -> BOOLEAN] /\ default \in Defaults /\ gen' = gen /\ gen \in [Logs -> Nat]
  BY DEF LogsKept, LogTypes
<1>2. life' \in [Logs -> Lives] /\ life'[l] = "Closing" /\ \A k \in Logs \ {l} : life'[k] = life[k]
  BY <1>1 DEF Become, Lives
<1>3. call' \in [Callers -> LogCalls] /\ call'[c] = o /\ \A d \in Callers \ {c} : call'[d] = call[d] BY <1>1
<1>4. PICK g \in References : g = <<l, gen[l]>> BY <1>1 DEF References
<1>5. g \in holds["published"] /\ g \in holds["registry"] /\ holds[c] = {} /\ HoldersKept(life, gen, holds, call)
  BY <1>4, AtRestHasNone DEF LogsKept, HoldersKept
<1>6. holds' = [holds EXCEPT !["published"] = holds["published"] \ {g}, ![c] = {g}]
  BY <1>1, <1>4, HoldersApart DEF Unpublish, Current
<1>7. /\ holds' \in [Holders -> SUBSET References] /\ holds'["published"] = holds["published"] \ {g} /\ holds'[c] = {g}
      /\ \A h \in Holders \ {c, "published"} : holds'[h] = holds[h]
  BY <1>1, <1>6, HoldersApart
<1>8. holds'["registry"] = holds["registry"] /\ \A d \in Callers \ {c} : holds'[d] = holds[d] BY <1>7, HoldersApart
<1>9. Live' = Live
 <2>1. \A x : (\E h \in Holders : x \in holds[h]) <=> (\E h \in Holders : x \in holds'[h]) BY <1>5, <1>7, HoldersApart
 <2>2. \A x : x \in Live <=> x \in Held(holds', queue', worker') BY <2>1, HeldIs DEF Live
 <2> QED BY <2>2 DEF Live
<1>10. FilesKept(life', gen', Live') BY <1>1, <1>2, <1>9 DEF LogsKept, FilesKept
<1>11. HoldersKept(life', gen', holds', call')
 <2>1. \A d \in Callers \ {c}, k \in Logs : IsLetting(d, k, call, holds) => IsLetting(d, k, call', holds')
   BY <1>3, <1>8 DEF IsLetting
 <2>2. IsLetting(c, l, call', holds') /\ \A k \in Logs : ~IsLetting(c, k, call, holds) BY <1>3, <1>5, <1>7 DEF IsLetting
 <2>3. \A k \in Logs \ {l} : <<k, gen[k]>> # g BY <1>4
 <2>4. \A k \in Logs : life'[k] = "Open" => <<k, gen[k]>> \in holds'["published"] /\ <<k, gen[k]>> \in holds'["registry"]
   BY <1>2, <1>5, <1>7, <1>8, <2>3 DEF HoldersKept
 <2>5. \A k \in Logs : <<k, gen[k]>> \in holds'["published"] => life'[k] = "Open"
   BY <1>2, <1>4, <1>5, <1>7 DEF HoldersKept
 <2>6. \A k \in Logs : <<k, gen[k]>> \in holds'["registry"] => life'[k] = "Open" \/ \E d \in Callers : IsLetting(d, k, call', holds')
   BY <1>2, <1>5, <1>8, <2>1, <2>2 DEF HoldersKept
 <2>7. ASSUME NEW d \in Callers
       PROVE  /\ holds'[d] # {} => call'[d].at \in {"submitting", "dropping", "ending"}
              /\ call'[d].at = "submitting" => \E k \in Logs : holds'[d] = {<<k, gen[k]>>}
              /\ call'[d].at = "dropping" => holds'[d] # {} /\ life'[call'[d].log] # "Open"
              /\ call'[d].at \in {"dropping", "ending"} /\ holds'[d] # {} => holds'[d] = {<<call'[d].log, gen[call'[d].log]>>}
  <3>1. CASE d = c BY <1>2, <1>3, <1>4, <1>7, <3>1
  <3>2. CASE d # c
   <4>1. holds'[d] = holds[d] /\ call'[d] = call[d] BY <1>3, <1>8, <3>2
   <4>2. call[d].at = "dropping" => call[d].log \in Logs BY <1>1 DEF LogCalls, AtRest
   <4>3. /\ holds[d] # {} => call[d].at \in {"submitting", "dropping", "ending"}
         /\ call[d].at = "submitting" => \E k \in Logs : holds[d] = {<<k, gen[k]>>}
         /\ call[d].at = "dropping" => holds[d] # {} /\ life[call[d].log] # "Open"
         /\ call[d].at \in {"dropping", "ending"} /\ holds[d] # {} => holds[d] = {<<call[d].log, gen[call[d].log]>>}
     BY <1>5 DEF HoldersKept
   <4> QED BY <1>2, <4>1, <4>2, <4>3
  <3> QED BY <3>1, <3>2
 <2>8. HoldersKept(life', gen, holds', call') BY <2>4, <2>5, <2>6, <2>7 DEF HoldersKept
 <2> QED BY <1>1, <2>8
<1>12. BuildersKept(life', call')
 <2>1. \A d \in Callers : call[d].at = "building" => call[d].log \in Logs /\ call[d].log # l
   BY <1>1 DEF LogCalls, AtRest, LogsKept, BuildersKept
 <2> QED BY <1>2, <1>3, <2>1 DEF LogsKept, BuildersKept
<1>13. PICK own, shut : own = [kind |-> "own", log |-> l] /\ shut = [kind |-> "closed", log |-> l] OBVIOUS
<1>14. /\ shut \in Defaults /\ own.kind = "own" /\ own.log = l /\ shut.kind = "closed" /\ shut.log = l
       /\ \A x \in Defaults : x.kind = "own" /\ x.log = l => x = own
       /\ \A x \in Defaults : x.kind \in {"own", "closed"} => x.log \in Logs
  BY <1>13 DEF Defaults
<1>15. /\ restore' = [restore EXCEPT ![l] = (default = own)]
       /\ default' = IF restore'[l] THEN shut ELSE default
  BY <1>13 DEF Unpublish
<1>16. /\ restore' \in [Logs -> BOOLEAN] /\ restore'[l] = (default = own)
       /\ \A k \in Logs \ {l} : restore'[k] = restore[k]
  BY <1>1, <1>15
<1>17. l \notin process.ended /\ process.at # "stopped" BY DEF LogsKept, ProcessKept
<1>18. default' \in Defaults /\ DefaultKept(life', default', restore', process)
 <2>1. DefaultKept(life, default, restore, process) BY DEF LogsKept
 <2>2. CASE default = own BY <1>2, <1>14, <1>15, <1>16, <1>17, <2>2 DEF DefaultKept
 <2>3. CASE default # own
  <3>1. default' = default /\ (default.kind \in {"own", "closed"} => default.log \in Logs)
    BY <1>1, <1>14, <1>15, <1>16, <2>3
  <3>2. default.kind \in {"own", "closed"} => default.log # l BY <1>1, <1>14, <2>1, <2>3 DEF DefaultKept
  <3> QED BY <1>1, <1>2, <1>16, <1>17, <2>1, <3>1, <3>2 DEF DefaultKept
 <2> QED BY <2>2, <2>3
<1> QED BY <1>2, <1>3, <1>7, <1>10, <1>11, <1>12, <1>16, <1>18

LEMMA ClosingBegins ==
  ASSUME LogsKept, NEW c \in Callers, NEW l \in Logs, CloseBegins(c, l)
  PROVE  LogsKept'
<1>1. /\ UNCHANGED <<gen, queue, worker, tally, process>> /\ Unpublish(c, l) /\ life' = Become(l, "Closing")
      /\ life[l] = "Open" /\ call[c] = AtRest /\ process.at = "running"
  BY DEF CloseBegins, Free
<1>2. PICK o : o = [at |-> "dropping", log |-> l] OBVIOUS
<1>3. o \in LogCalls /\ o.at = "dropping" /\ o.log = l /\ call' = [call EXCEPT ![c] = o]
  BY <1>2 DEF LogCalls, CloseBegins
<1>4. call[c].at = "idle" BY <1>1 DEF AtRest
<1>5. /\ life' \in [Logs -> Lives] /\ life'[l] = "Closing" /\ \A k \in Logs \ {l} : life'[k] = life[k]
      /\ call' \in [Callers -> LogCalls] /\ holds' \in [Holders -> SUBSET References]
      /\ restore' \in [Logs -> BOOLEAN] /\ default' \in Defaults
      /\ FilesKept(life', gen', Live') /\ HoldersKept(life', gen', holds', call') /\ BuildersKept(life', call')
      /\ DefaultKept(life', default', restore', process)
  BY <1>1, <1>3, <1>4, Unpublishes
<1>6. ProcessKept(life', call', process) BY <1>1, <1>3, RunningKept DEF LogsKept, LogTypes
<1>7. LogTypes' BY <1>1, <1>5 DEF LogsKept, LogTypes
<1> QED BY <1>1, <1>5, <1>6, <1>7 DEF LogsKept

LEMMA LogIsShutDown ==
  ASSUME LogsKept, NEW c \in Callers, NEW l \in Logs, ShutDown(c, l)
  PROVE  LogsKept'
<1>1. UNCHANGED <<gen, queue, worker, tally, process>> /\ call[c].at = "stopping" /\ l \notin process.ended
  BY DEF ShutDown
<1>2. PICK o : o = [at |-> "ending", log |-> l] OBVIOUS
<1>3. o \in LogCalls /\ o.at = "ending" /\ o.log = l /\ call' = [call EXCEPT ![c] = o] BY <1>2 DEF LogCalls, ShutDown
<1>4. /\ process.at \notin {"running", "stopped"} /\ call \in [Callers -> LogCalls] /\ holds[c] = {}
      /\ ProcessKept(life, call, process) /\ process \in [at : {"running", "stopping", "stopped"}, ended : SUBSET Logs]
  BY <1>1, AtRestHasNone DEF LogsKept, LogTypes, ProcessKept, IsEnding
<1>5. call'[c] = o /\ \A d \in Callers \ {c} : call'[d] = call[d] BY <1>3, <1>4
<1>6. \A d \in Callers \ {c} : call[d] = AtRest /\ ~IsEnding(d, call)
 <2>1. IsEnding(c, call) BY <1>1 DEF IsEnding
 <2> QED BY <1>4, <2>1 DEF ProcessKept
<1>7. CASE life[l] = "Open"
 <2>1. Unpublish(c, l) /\ life' = Become(l, "Closing") BY <1>7 DEF ShutDown
 <2>2. /\ life' \in [Logs -> Lives] /\ life'[l] = "Closing" /\ \A k \in Logs \ {l} : life'[k] = life[k]
       /\ call' \in [Callers -> LogCalls] /\ holds' \in [Holders -> SUBSET References]
       /\ restore' \in [Logs -> BOOLEAN] /\ default' \in Defaults
       /\ FilesKept(life', gen', Live') /\ HoldersKept(life', gen', holds', call') /\ BuildersKept(life', call')
       /\ DefaultKept(life', default', restore', process)
   BY <1>1, <1>3, <1>4, <1>7, <2>1, Unpublishes
 <2>3. ProcessKept(life', call', process)
  <3>1. \A d \in Callers : IsEnding(d, call') <=> d = c BY <1>3, <1>5, <1>6 DEF IsEnding
  <3>2. \A k \in process.ended : life'[k] # "Open" BY <1>1, <1>4, <2>2 DEF ProcessKept
  <3>3. \A d \in Callers : call'[d].at = "ending" => call'[d] = o BY <1>5, <1>6 DEF IsEnding
  <3>4. \A d \in Callers : call'[d].at = "ending" => life'[call'[d].log] # "Open" BY <1>3, <2>2, <3>3
  <3> QED BY <1>4, <1>5, <1>6, <3>1, <3>2, <3>4 DEF ProcessKept
 <2>4. LogTypes' BY <1>1, <2>2 DEF LogsKept, LogTypes
 <2> QED BY <1>1, <2>2, <2>3, <2>4 DEF LogsKept
<1>8. CASE life[l] # "Open"
 <2>1. UNCHANGED <<life, holds, default, restore>> BY <1>8 DEF ShutDown
 <2>2. call' \in [Callers -> LogCalls] BY <1>3, <1>4
 <2>3. HoldersKept(life, gen, holds, call')
  <3>1. \A d \in Callers, k \in Logs : IsLetting(d, k, call, holds) => IsLetting(d, k, call', holds)
    BY <1>4, <1>5 DEF IsLetting
  <3> QED BY <1>3, <1>4, <1>5, <3>1 DEF LogsKept, HoldersKept
 <2>4. BuildersKept(life, call') BY <1>3, <1>5 DEF LogsKept, BuildersKept
 <2>5. ProcessKept(life, call', process)
  <3>1. \A d \in Callers : IsEnding(d, call') <=> d = c BY <1>3, <1>5, <1>6 DEF IsEnding
  <3>3. \A d \in Callers : call'[d].at = "ending" => call'[d] = o BY <1>5, <1>6 DEF IsEnding
  <3>4. \A d \in Callers : call'[d].at = "ending" => life[call'[d].log] # "Open" BY <1>3, <1>8, <3>3
  <3> QED BY <1>4, <1>5, <1>6, <3>1, <3>4 DEF ProcessKept
 <2>6. LogTypes' /\ Live' = Live BY <1>1, <2>1, <2>2 DEF LogsKept, LogTypes, Live
 <2> QED BY <1>1, <2>1, <2>3, <2>4, <2>5, <2>6 DEF LogsKept
<1> QED BY <1>7, <1>8

LEMMA StoppingBegins ==
  ASSUME LogsKept, NEW c \in Callers, StopBegins(c)
  PROVE  LogsKept'
<1>1. UNCHANGED <<life, gen, holds, queue, worker, default, restore, tally>> /\ process.at = "running"
      /\ \A d \in Callers : call[d] = AtRest
  BY DEF StopBegins
<1>2. PICK o : o = [at |-> "stopping"] OBVIOUS
<1>3. o \in LogCalls /\ o.at = "stopping" /\ call' = [call EXCEPT ![c] = o] BY <1>2 DEF LogCalls, StopBegins
<1>4. call \in [Callers -> LogCalls] /\ process \in [at : {"running", "stopping", "stopped"}, ended : SUBSET Logs]
  BY DEF LogsKept, LogTypes
<1>5. /\ process' \in [at : {"running", "stopping", "stopped"}, ended : SUBSET Logs]
      /\ process'.at = "stopping" /\ process'.ended = {}
  BY <1>1, <1>4 DEF StopBegins, LogsKept, ProcessKept
<1>6. call' \in [Callers -> LogCalls] /\ call'[c] = o /\ \A d \in Callers \ {c} : call'[d] = AtRest BY <1>1, <1>3, <1>4
<1>7. AtRest.at = "idle" BY DEF AtRest
<1>8. HoldersKept(life, gen, holds, call')
 <2>1. \A d \in Callers, k \in Logs : ~IsLetting(d, k, call, holds) BY <1>1, <1>7 DEF IsLetting
 <2>2. \A d \in Callers : holds[d] = {} BY <1>1, <1>7, AtRestHasNone
 <2> QED BY <1>3, <1>6, <1>7, <2>1, <2>2 DEF LogsKept, HoldersKept
<1>9. BuildersKept(life, call') BY <1>3, <1>6, <1>7 DEF BuildersKept
<1>10. ProcessKept(life, call', process') BY <1>3, <1>5, <1>6, <1>7 DEF ProcessKept, IsEnding
<1>11. DefaultKept(life, default, restore, process') BY <1>5 DEF LogsKept, DefaultKept
<1>12. LogTypes' /\ Live' = Live BY <1>1, <1>5, <1>6 DEF LogsKept, LogTypes, Live
<1> QED BY <1>1, <1>8, <1>9, <1>10, <1>11, <1>12 DEF LogsKept

\* The caller that ends the process is alone.
LEMMA EndingGoesOn ==
  ASSUME LogsKept, NEW c \in Callers, IsEnding(c, call), holds[c] = {}, NEW o \in LogCalls, o.at \in {"idle", "stopping"},
         call' = [call EXCEPT ![c] = o]
  PROVE  /\ call' \in [Callers -> LogCalls] /\ HoldersKept(life, gen, holds, call') /\ BuildersKept(life, call')
         /\ process.at \notin {"running", "stopped"} /\ call'[c] = o
         /\ \A d \in Callers \ {c} : call'[d] = AtRest /\ ~IsEnding(d, call')
<1>1. call \in [Callers -> LogCalls] /\ ProcessKept(life, call, process) BY DEF LogsKept, LogTypes
<1>2. call' \in [Callers -> LogCalls] /\ call'[c] = o /\ \A d \in Callers \ {c} : call'[d] = call[d] BY <1>1
<1>3. process.at \notin {"running", "stopped"} /\ \A d \in Callers \ {c} : call[d] = AtRest /\ ~IsEnding(d, call)
  BY <1>1 DEF ProcessKept
<1>4. HoldersKept(life, gen, holds, call')
 <2>1. \A d \in Callers, k \in Logs : IsLetting(d, k, call, holds) => IsLetting(d, k, call', holds)
   BY <1>2 DEF IsLetting
 <2> QED BY <1>2, <2>1 DEF LogsKept, HoldersKept
<1>5. BuildersKept(life, call') BY <1>2 DEF LogsKept, BuildersKept
<1>6. \A d \in Callers \ {c} : call'[d] = AtRest /\ ~IsEnding(d, call') BY <1>2, <1>3 DEF IsEnding
<1> QED BY <1>2, <1>3, <1>4, <1>5, <1>6

LEMMA RegistryIsReleased ==
  ASSUME LogsKept, NEW c \in Callers, ReleaseRegistry(c)
  PROVE  LogsKept'
<1>1. UNCHANGED <<life, gen, holds, queue, worker, restore, tally>> /\ call[c].at = "ending" /\ holds[c] = {}
  BY DEF ReleaseRegistry
<1>2. PICK o : o = [at |-> "stopping"] OBVIOUS
<1>3. o \in LogCalls /\ o.at = "stopping" /\ call' = [call EXCEPT ![c] = o] /\ IsEnding(c, call)
  BY <1>1, <1>2 DEF LogCalls, ReleaseRegistry, IsEnding
<1>4. /\ call' \in [Callers -> LogCalls] /\ HoldersKept(life, gen, holds, call') /\ BuildersKept(life, call')
      /\ process.at \notin {"running", "stopped"} /\ call'[c] = o
      /\ \A d \in Callers \ {c} : call'[d] = AtRest /\ ~IsEnding(d, call')
  BY <1>1, <1>3, EndingGoesOn
<1>5. call[c].log \in Logs BY <1>1 DEF LogsKept, LogTypes, LogCalls, AtRest
<1>6. PICK l \in Logs : l = call[c].log BY <1>5
<1>7. ProcessKept(life, call, process) /\ process \in [at : {"running", "stopping", "stopped"}, ended : SUBSET Logs]
  BY DEF LogsKept, LogTypes
<1>8. life[l] # "Open" BY <1>1, <1>6, <1>7 DEF ProcessKept
<1>9. /\ process' \in [at : {"running", "stopping", "stopped"}, ended : SUBSET Logs]
      /\ process'.at = process.at /\ process'.ended = process.ended \cup {l}
  BY <1>6, <1>7 DEF ReleaseRegistry
<1>10. ProcessKept(life, call', process')
 <2>1. \A d \in Callers : IsEnding(d, call') <=> d = c BY <1>3, <1>4 DEF IsEnding
 <2>2. \A d \in Callers : call'[d].at # "ending" BY <1>3, <1>4 DEF IsEnding
 <2>3. \A k \in process'.ended : life[k] # "Open" BY <1>7, <1>8, <1>9 DEF ProcessKept
 <2> QED BY <1>4, <1>9, <2>1, <2>2, <2>3 DEF ProcessKept
<1>11. PICK shut, none : shut = [kind |-> "closed", log |-> l] /\ none = [kind |-> "none"] OBVIOUS
<1>12. /\ none \in Defaults /\ none.kind = "none" /\ default \in Defaults
       /\ \A x \in Defaults : x.kind = "closed" /\ x.log = l => x = shut
  BY <1>11 DEF Defaults, LogsKept, LogTypes
<1>13. default' = IF default = shut THEN none ELSE default BY <1>6, <1>11 DEF ReleaseRegistry
<1>14. default' \in Defaults /\ DefaultKept(life, default', restore, process')
 <2>1. CASE default = shut BY <1>4, <1>9, <1>12, <1>13, <2>1 DEF DefaultKept
 <2>2. CASE default # shut BY <1>4, <1>9, <1>12, <1>13, <2>2 DEF LogsKept, DefaultKept
 <2> QED BY <2>1, <2>2
<1>15. LogTypes' /\ Live' = Live BY <1>1, <1>4, <1>9, <1>14 DEF LogsKept, LogTypes, Live
<1> QED BY <1>1, <1>4, <1>10, <1>14, <1>15 DEF LogsKept

LEMMA ProcessIsStopped ==
  ASSUME LogsKept, NEW c \in Callers, Stopped(c)
  PROVE  LogsKept'
<1>1. UNCHANGED <<life, gen, holds, queue, worker, default, restore, tally>> /\ call[c].at = "stopping"
      /\ \A l \in Logs : life[l] = "absent" \/ l \in process.ended
  BY DEF Stopped
<1>2. AtRest \in LogCalls /\ AtRest.at = "idle" /\ call' = [call EXCEPT ![c] = AtRest]
  BY DEF LogCalls, AtRest, Stopped, Done
<1>3. IsEnding(c, call) /\ holds[c] = {} BY <1>1, AtRestHasNone DEF IsEnding
<1>4. /\ call' \in [Callers -> LogCalls] /\ HoldersKept(life, gen, holds, call') /\ BuildersKept(life, call')
      /\ process.at \notin {"running", "stopped"} /\ call'[c] = AtRest
      /\ \A d \in Callers \ {c} : call'[d] = AtRest /\ ~IsEnding(d, call')
  BY <1>2, <1>3, EndingGoesOn
<1>5. ProcessKept(life, call, process) /\ process \in [at : {"running", "stopping", "stopped"}, ended : SUBSET Logs]
  BY DEF LogsKept, LogTypes
<1>6. /\ process' \in [at : {"running", "stopping", "stopped"}, ended : SUBSET Logs]
      /\ process'.at = "stopped" /\ process'.ended = process.ended
  BY <1>5 DEF Stopped
<1>7. ProcessKept(life, call', process') BY <1>2, <1>4, <1>5, <1>6 DEF ProcessKept, IsEnding
<1>8. default.kind \in {"host", "none"}
 <2>1. default \in Defaults /\ DefaultKept(life, default, restore, process) BY DEF LogsKept, LogTypes
 <2>2. default.kind \in {"host", "none"} \/ (default.kind \in {"own", "closed"} /\ default.log \in Logs)
   BY <2>1 DEF Defaults
 <2> QED BY <1>1, <1>5, <2>1, <2>2 DEF DefaultKept, ProcessKept
<1>9. DefaultKept(life, default, restore, process') BY <1>8 DEF DefaultKept
<1>10. LogTypes' /\ Live' = Live BY <1>1, <1>4, <1>6 DEF LogsKept, LogTypes, Live
<1> QED BY <1>1, <1>4, <1>7, <1>9, <1>10 DEF LogsKept

LEMMA LogStepKeeps ==
  ASSUME LogsKept, LogNext
  PROVE  LogsKept'
<1>1. CASE Take \/ HostDrops \/ (\E outcome \in {"written", "suppressed", "failed"} : Write(outcome)) \/ (\E l \in Logs : HostGet(l))
  BY <1>1, RecordIsTaken, HostLets, RecordIsWritten, HostAsks
<1>2. ASSUME NEW c \in Callers, Enqueue(c) \/ Construct(c) \/ BuildFails(c) \/ BuildSucceeds(c) PROVE LogsKept'
  BY <1>2, RecordIsQueued, ConstructionBegins, OpeningFails, OpeningSucceeds
<1>3. ASSUME NEW c \in Callers, CloseDrops(c) \/ CloseReturns(c) \/ StopBegins(c) \/ ShutDownDrops(c) \/ ReleaseRegistry(c) \/ Stopped(c)
      PROVE  LogsKept'
  BY <1>3, RegistrationEnds, CallsGoOn, StoppingBegins, RegistryIsReleased, ProcessIsStopped
<1>4. ASSUME NEW c \in Callers, NEW l \in Logs,
             \/ Submit(c, l) \/ MakeDefault(c, l) \/ Acquire(c, l) \/ Reopen(c, l)
             \/ CloseBegins(c, l) \/ CloseJoins(c, l) \/ ShutDown(c, l)
      PROVE  LogsKept'
  BY <1>4, RecordIsSubmitted, DefaultIsMade, CategoryIsAcquired, CallsGoOn, ClosingBegins, LogIsShutDown
<1> QED BY <1>1, <1>2, <1>3, <1>4 DEF LogNext

LEMMA LogsStay == LogsKept /\ UNCHANGED logVars => LogsKept'
  BY DEF LogsKept, LogTypes, logVars, Live

LEMMA LogsEndClean ==
  ASSUME LogsKept
  PROVE  LoggingEndsClean
<1>1. /\ LogTypes /\ FilesKept(life, gen, Live) /\ HoldersKept(life, gen, holds, call)
      /\ DefaultKept(life, default, restore, process) /\ TallyKept(tally, queue, worker)
  BY DEF LogsKept
<1>2. \A k \in Logs : <<k, gen[k]>>[1] = k OBVIOUS
<1>3. ASSUME NEW l \in Logs
      PROVE  Cardinality({g \in Live : g[1] = l}) = IF life[l] \in {"Open", "Closing"} THEN 1 ELSE 0
 <2>1. CASE life[l] \in {"Open", "Closing"}
  <3>1. {g \in Live : g[1] = l} = {<<l, gen[l]>>} BY <1>1, <1>2, <2>1 DEF FilesKept
  <3> QED BY <2>1, <3>1, FS_Singleton
 <2>2. CASE life[l] \notin {"Open", "Closing"}
  <3>1. {g \in Live : g[1] = l} = {} BY <1>1, <2>2 DEF FilesKept
  <3> QED BY <2>2, <3>1, FS_EmptySet
 <2> QED BY <2>1, <2>2
<1>4. ASSUME NEW l \in Logs, life[l] = "Closing", \A c \in Callers : call[c].at \notin {"dropping", "ending"}
      PROVE  \E h \in Holders \ {"published", "registry"} : Current(l) \in holds[h] \cup ToSet(queue) \cup ToSet(worker)
 <2>1. <<l, gen[l]>> \in Live BY <1>1, <1>4 DEF FilesKept
 <2>2. <<l, gen[l]>> \notin holds["published"] /\ <<l, gen[l]>> \notin holds["registry"]
   BY <1>1, <1>4 DEF HoldersKept, IsLetting
 <2>3. (\E h \in Holders : <<l, gen[l]>> \in holds[h]) \/ <<l, gen[l]>> \in ToSet(queue) \/ <<l, gen[l]>> \in ToSet(worker)
   BY <2>1, HeldIs DEF Live
 <2>4. "host" \in Holders \ {"published", "registry"} BY HoldersApart
 <2> QED BY <2>2, <2>3, <2>4 DEF Current
<1>5. \A l \in Logs : life[l] = "Open" => Current(l) \in holds["published"] \cap holds["registry"]
  BY <1>1 DEF HoldersKept, Current
<1>6. ClosedIsABoundary BY <1>1, <1>3, <1>4, <1>5 DEF ClosedIsABoundary, TallyKept
<1>7. DefaultComesBack BY <1>1 DEF LogTypes, DefaultKept, DefaultComesBack
<1> QED BY <1>6, <1>7 DEF LoggingEndsClean

\* ---- What comes out, among the services: each step is one of logs or of the
\* terminal, or leaves them alone.
LEMMA OutputStep ==
  ASSUME Next
  PROVE  [LogNext]_logVars /\ [TerminalNext]_terminalVars
<1>1. CASE LoggingStep \/ TerminalStep BY <1>1 DEF LoggingStep, TerminalStep
<1>2. CASE BlocksStep \/ ObjectsStep \/ NativeStep \/ SchedulerStep
  BY <1>2 DEF BlocksStep, ObjectsStep, NativeStep, SchedulerStep
<1>3. CASE GamepadStep \/ PressureStep \/ SharedStep \/ WindowStep
  BY <1>3 DEF GamepadStep, PressureStep, SharedStep, WindowStep
<1>4. CASE BindingsStep \/ SelectionStep \/ SetupStep BY <1>4 DEF BindingsStep, SelectionStep, SetupStep
<1> QED BY <1>1, <1>2, <1>3, <1>4 DEF Next

\* A log ends with the last reference to its file and takes nothing along,
\* neither a record that was accepted nor the file of the next generation
\* nor the default logger of the process; and a terminal captures both
\* streams or neither, and both are the process's own again in the end; it
\* removes nothing that was not shown while somebody watched, and nothing
\* stays on disk but for a window closed too late: whoever closes, fails
\* or crashes, for any number of logs, callers, records and lines.
THEOREM OutputIsClean == Spec => []OutputEndsClean
<1>1. Init => LogsKept /\ TerminalKept BY LogsBegin, TerminalBegins DEF Init
<1>2. (LogsKept /\ TerminalKept) /\ [Next]_allVars => (LogsKept /\ TerminalKept)'
 <2>1. SUFFICES ASSUME LogsKept, TerminalKept, [Next]_allVars PROVE LogsKept' /\ TerminalKept' OBVIOUS
 <2>2. [LogNext]_logVars /\ [TerminalNext]_terminalVars BY <2>1, OutputStep DEF allVars
 <2> QED BY <2>1, <2>2, LogStepKeeps, LogsStay, TerminalStepKeeps, TerminalStays
<1>3. LogsKept /\ TerminalKept => OutputEndsClean BY LogsEndClean, TerminalIsClean DEF OutputEndsClean
<1> QED BY <1>1, <1>2, <1>3, PTL DEF Spec
====================
