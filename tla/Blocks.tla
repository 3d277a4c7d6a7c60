---- MODULE Blocks ----
\* Block bookkeeping of the byte managers and the object pools: owners are
\* backing allocations, split into sections on checkout and joined again
\* on return.  Every transaction holds all five locks; memory is allocated
\* outside of them.  One unit of address is an object, or 32 bytes.  The
\* legacy entry points that record parts of a transaction are left out.
EXTENDS Integers, FiniteSets

CONSTANTS Requesters,
          Base,         \* by owner the address its memory is at
          Lengths,      \* of owners allocated, as grown by adjust_length()
          MaxCount      \* bound of requests

Owners == DOMAIN Base
Alignments == {1, 2, 4}
ASSUME BaseAssumption == \A o \in Owners : Base[o] \in Nat \ {0}
ASSUME LengthAssumption == Lengths \subseteq Nat \ {0}
ASSUME CountAssumption == MaxCount \in Nat
ASSUME ApartAssumption ==       \* external: the memory of two owners does not overlap
    \A o, p \in Owners : o # p => \A n, m \in Lengths : Base[o] + n <= Base[p] \/ Base[p] + m <= Base[o]

VARIABLES
    void,               \* byte blocks, or blocks of objects
    pool, sections, registry, stale, release,
    request,               \* by caller what it asked for, allocated or is constructing
    lent,               \* history: addresses handed out
    slots,              \* Context::slots_: addresses with a live object
    dying               \* objects destroyed whose slot is not returned yet

blockVars == <<void, pool, sections, registry, stale, release, request, lent, slots, dying>>

NoCall == [at |-> "idle"]
BlocksInit ==
  /\ void \in BOOLEAN
  /\ pool = {} /\ sections = {} /\ registry = {} /\ stale = {} /\ release = {}
  /\ request = [c \in Requesters |-> NoCall]
  /\ lent = {} /\ slots = {} /\ dying = {}
--------------------
Span(b) == b.head..(b.head + b.length - 1)
AlignmentOf(address) == CHOOSE a \in {1, 2, 4, 8} : address % a = 0 /\ (a = 8 \/ address % (2 * a) # 0)
WholeOwner(o, length) == [owner |-> o, head |-> Base[o], align |-> AlignmentOf(Base[o]), length |-> length]
Slice(b, offset, length) ==
  [b EXCEPT !.head = @ + offset, !.length = length, !.align = IF offset = 0 THEN @ ELSE AlignmentOf(b.head + offset)]
Contiguous(a, b) == a.owner = b.owner /\ a.head + a.length = b.head

\* split_point(): bytes are split at the widest boundary (of 128, 64, or the
\* block's own) that leaves something behind.
SplitPoint(b, count) ==
  LET wide == IF b.align > 4 THEN b.align ELSE 4
      narrow == IF b.align < 2 THEN b.align ELSE 2
      padding(boundary) == (boundary - ((b.head + count) % boundary)) % boundary
      fits(boundary) == padding(boundary) < b.length - count
  IN IF ~void THEN count
     ELSE IF fits(wide) THEN count + padding(wide)
     ELSE IF fits(2) THEN count + padding(2)
     ELSE IF fits(narrow) THEN count + padding(narrow)
     ELSE b.length

\* PoolOrder: best aligned first, then longest, then highest.
Before(a, b) ==
  \/ a.align > b.align
  \/ a.align = b.align /\ a.length > b.length
  \/ a.align = b.align /\ a.length = b.length /\ a.head > b.head
Fitting(count, alignment) == {b \in pool : b.align >= alignment /\ b.length >= count}

\* Mutant: a block checked out again is still waiting for its release.
CheckedOutQueued(original, count, fresh) ==
  LET point == SplitPoint(original, count)
      head == Slice(original, 0, point)
      tail == Slice(original, point, original.length - point)
      parts == IF point < original.length THEN {head, tail} ELSE IF original \in sections THEN {head} ELSE {}
  IN /\ registry' = IF fresh THEN registry \cup {original} ELSE registry
     /\ sections' = (sections \ {original}) \cup parts
     /\ pool' = (pool \ {original}) \cup (parts \ {head})
     /\ stale' = stale \ {original} /\ UNCHANGED release
     /\ lent' = lent \cup Span(head)

\* checkout_locked()
CheckedOut(original, count, fresh) ==
  LET point == SplitPoint(original, count)
      head == Slice(original, 0, point)
      tail == Slice(original, point, original.length - point)
      parts == IF point < original.length THEN {head, tail} ELSE IF original \in sections THEN {head} ELSE {}
  IN /\ registry' = IF fresh THEN registry \cup {original} ELSE registry
     /\ sections' = (sections \ {original}) \cup parts
     /\ pool' = (pool \ {original}) \cup (parts \ {head})
     /\ stale' = stale \ {original} /\ release' = release \ {original}
     /\ lent' = lent \cup Span(head)

\* Mutant: what is returned is joined with what follows it only.
JoinedRightOnly(part, offset, count, original) ==
  LET right == {b \in pool \cap sections : offset + count = original.length /\ Contiguous(part, b)} IN
  [left |-> {}, right |-> right,
   block |-> [part EXCEPT !.length = @ + IF right = {} THEN 0 ELSE (CHOOSE b \in right : TRUE).length]]

\* The free neighbours of a returned part, and the block they make.
Joined(part, offset, count, original) ==
  LET left == {b \in pool \cap sections : offset = 0 /\ Contiguous(b, part)}
      right == {b \in pool \cap sections : offset + count = original.length /\ Contiguous(part, b)}
      long(set) == IF set = {} THEN 0 ELSE (CHOOSE b \in set : TRUE).length
      first == IF left = {} THEN part ELSE CHOOSE b \in left : TRUE
  IN [left |-> left, right |-> right, block |-> [first EXCEPT !.length = long(left) + part.length + long(right)]]

\* return_locked(): what may be returned, and what it leaves.
Returnable(original, offset, count) ==
  /\ \E o \in registry : o.owner = original.owner
  /\ count > 0 /\ offset + count <= original.length /\ original \notin pool
  /\ \/ original \in sections
     \/ original \in registry /\ \A s \in sections : s.owner # original.owner
Return(original, offset, count) ==
  LET part == Slice(original, offset, count)
      joined == Joined(part, offset, count, original)
      whole == joined.block \in registry
      rest == {Slice(original, 0, offset), Slice(original, offset + count, original.length - offset - count)}
  IN /\ sections' = (sections \ ({original} \cup joined.left \cup joined.right))
                       \cup {r \in rest : r.length > 0} \cup (IF whole THEN {} ELSE {joined.block})
     /\ pool' = (pool \ (joined.left \cup joined.right)) \cup {joined.block}
     /\ IF whole THEN stale' = stale \cup {joined.block} /\ release' = release \ {joined.block}
        ELSE UNCHANGED <<stale, release>>
     /\ lent' = lent \ Span(part)
     /\ UNCHANGED registry

\* return_range(): the section at an address, or else the owner.
At(address) ==
  LET s == {b \in sections : address \in Span(b)} IN
  IF s # {} THEN s ELSE {b \in registry : address \in Span(b)}
ReturnRange(address, count) ==
  \E b \in At(address) : Returnable(b, address - b.head, count) /\ Return(b, address - b.head, count)
--------------------
InUse(o) == (\E b \in registry : b.owner = o) \/ (\E c \in Requesters : request[c].at = "allocated" /\ request[c].fresh.owner = o)

\* checkout(): look in the pool; allocate; look again, as others may have
\* returned something meanwhile, and drop what was allocated if they have.
Ask(c, count, alignment) ==
  /\ request[c] = NoCall
  /\ request' = [request EXCEPT ![c] = [at |-> "asking", count |-> count, alignment |-> alignment]]
  /\ UNCHANGED <<void, pool, sections, registry, stale, release, lent, slots, dying>>
Got(c, head, length) ==
  IF void THEN request' = [request EXCEPT ![c] = NoCall]
  ELSE request' = [request EXCEPT ![c] = [at |-> "constructing", next |-> head, left |-> request[c].count]]
Serve(c) ==
  /\ request[c].at \in {"asking", "allocated"}
  /\ \E b \in Fitting(request[c].count, request[c].alignment) :
       /\ \A other \in Fitting(request[c].count, request[c].alignment) \ {b} : Before(b, other)
       /\ CheckedOut(b, request[c].count, FALSE)
       /\ Got(c, b.head, request[c].count)
  /\ UNCHANGED <<void, slots, dying>>
Allocate(c, o, length) ==
  /\ request[c].at = "asking" /\ Fitting(request[c].count, request[c].alignment) = {}
  /\ ~InUse(o) /\ length >= request[c].count /\ AlignmentOf(Base[o]) >= request[c].alignment
  /\ request' = [request EXCEPT ![c] = [at |-> "allocated", count |-> @.count, alignment |-> @.alignment, fresh |-> WholeOwner(o, length)]]
  /\ UNCHANGED <<void, pool, sections, registry, stale, release, lent, slots, dying>>
ServeFresh(c) ==
  /\ request[c].at = "allocated" /\ Fitting(request[c].count, request[c].alignment) = {}
  /\ CheckedOut(request[c].fresh, request[c].count, TRUE)
  /\ Got(c, request[c].fresh.head, request[c].count)
  /\ UNCHANGED <<void, slots, dying>>
AllocationFails(c) ==
  /\ request[c].at = "asking" /\ Fitting(request[c].count, request[c].alignment) = {}
  /\ request' = [request EXCEPT ![c] = NoCall]
  /\ UNCHANGED <<void, pool, sections, registry, stale, release, lent, slots, dying>>

\* retrieve_objects(): one object after the other; when a constructor throws
\* the slots from there on go back, the handles made return their own.
ConstructNext(c) ==
  /\ request[c].at = "constructing"
  /\ slots' = slots \cup {request[c].next}
  /\ request' = [request EXCEPT ![c] = IF @.left = 1 THEN NoCall
                                             ELSE [at |-> "constructing", next |-> @.next + 1, left |-> @.left - 1]]
  /\ UNCHANGED <<void, pool, sections, registry, stale, release, lent, dying>>
ConstructorThrows(c) ==
  /\ request[c].at = "constructing"
  /\ ReturnRange(request[c].next, request[c].left)
  /\ request' = [request EXCEPT ![c] = NoCall]
  /\ UNCHANGED <<void, slots, dying>>
HandleDies(address) ==
  /\ address \in slots
  /\ slots' = slots \ {address} /\ dying' = dying \cup {address}
  /\ UNCHANGED <<void, pool, sections, registry, stale, release, request, lent>>
ReleaseSlot(address) ==
  /\ address \in dying /\ dying' = dying \ {address}
  /\ ReturnRange(address, 1)
  /\ UNCHANGED <<void, request, slots>>

\* return_ptr() and return_portion() of bytes; what is free or runs over the
\* end of its section is refused.
ReturnBytes(address, count) ==
  /\ void /\ ReturnRange(address, count)
  /\ UNCHANGED <<void, request, slots, dying>>
ReturnPointer(address) ==
  /\ void /\ \E b \in At(address) : Returnable(b, 0, b.length) /\ Return(b, 0, b.length)
  /\ UNCHANGED <<void, request, slots, dying>>

Preallocate(o, length) ==
  /\ ~InUse(o)
  /\ LET b == WholeOwner(o, length) IN registry' = registry \cup {b} /\ pool' = pool \cup {b} /\ stale' = stale \cup {b}
  /\ UNCHANGED <<void, sections, release, request, lent, slots, dying>>
Cull(old) ==
  /\ old # {} /\ stale' = stale \ old /\ release' = release \cup old
  /\ UNCHANGED <<void, pool, sections, registry, request, lent, slots, dying>>

Retired == {b \in release \cap registry \cap pool : \A s \in sections : s.owner # b.owner}
ReleaseCulled ==
  /\ release # {} /\ release' = {}
  /\ pool' = pool \ Retired /\ registry' = registry \ Retired /\ stale' = stale \ Retired
  /\ UNCHANGED <<void, sections, request, lent, slots, dying>>

Addresses == UNION {Base[o]..(Base[o] + 7) : o \in Owners}     \* bound: no owner is longer than 8
BlocksNext ==
  \/ \E c \in Requesters :
       \/ \E count \in 1..MaxCount, alignment \in Alignments :
            (void \/ alignment = 1) /\ (void => alignment > 1) /\ Ask(c, count, alignment)
       \/ \E o \in Owners, length \in Lengths : Allocate(c, o, length)
       \/ Serve(c) \/ ServeFresh(c) \/ AllocationFails(c) \/ ConstructNext(c) \/ ConstructorThrows(c)
  \/ \E address \in Addresses :
       \/ HandleDies(address) \/ ReleaseSlot(address) \/ ReturnPointer(address)
       \/ \E count \in 1..MaxCount : ReturnBytes(address, count)
  \/ \E o \in Owners, length \in Lengths : Preallocate(o, length)
  \/ \E old \in SUBSET stale : Cull(old)
  \/ ReleaseCulled

BlocksSpec == BlocksInit /\ [][BlocksNext]_blockVars
--------------------
\* Memory is neither handed out twice nor lost: the sections of an owner
\* that is split tile it, every part is either lent or in the pool, and no
\* block of the pool reaches into memory that is lent, holds an object or
\* is on its way back; blocks know their alignment, and two free neighbours
\* of one owner were joined.
PoolIsWhatIsFree ==
  /\ \A o \in registry :
       LET parts == {s \in sections : s.owner = o.owner} IN
       /\ parts # {} => UNION {Span(s) : s \in parts} = Span(o)
       /\ \A s, t \in parts : s # t => Span(s) \cap Span(t) = {}
  /\ \A s \in sections : \E o \in registry : o.owner = s.owner
  /\ \A b \in pool : b \in sections \/ (b \in registry /\ \A s \in sections : s.owner # b.owner)
  /\ lent = (UNION {Span(o) : o \in registry}) \ (UNION {Span(b) : b \in pool})
  /\ slots \cup dying \subseteq lent /\ slots \cap dying = {}
  /\ \A b \in pool \cup sections : b.align = AlignmentOf(b.head)
  /\ \A a, b \in pool : ~Contiguous(a, b)

\* An owner is released only while it is whole and unused, however long ago
\* it was found stale: what waits for release or is stale is free or will be
\* passed over, and every owner that is wholly free is known to be.
OnlyUnusedIsReleased ==
  /\ Retired \subseteq pool /\ \A b \in Retired : Span(b) \cap lent = {}
  /\ stale \cup release \subseteq registry \cap pool
  /\ stale \cap release = {}
  /\ registry \cap pool \subseteq stale \cup release

\* The pool of blocks and the registry of owners agree with what callers
\* hold, so that nothing in use is handed out again or released.
BlocksAreSafe == PoolIsWhatIsFree /\ OnlyUnusedIsReleased
====================
