---- MODULE HandoffProofs ----
\* What is handed over between threads.  Catalogues of assets: a watch
\* that has been told of no loss shows the catalogue of the revision it
\* has seen, for any keys, producers, watches and size of the outbox.
\* Frames between the two loops, for any number of slots from three on,
\* any capacity of the backlog and any bounds of the exploration: slots
\* have one owner, frames arrive in order, input belongs to its window.
EXTENDS AssetLoading, FrameHandoff, Integers, SequenceTheorems, TLAPS

Stores == [entries : [Keys -> Nat], revision : Nat, outbox : Seq(Nat), routed : BOOLEAN,
           lost : Nat, draining : BOOLEAN, closed : BOOLEAN]
WatchStates == [active : BOOLEAN, seen : Nat, seeded : Nat, seedLost : Nat, knownLost : Nat, view : [Keys -> Nat]]
Drains == [at : {"out", "pump", "take", "notify", "end"}, left : Int, change : Nat, lost : Nat, to : SUBSET Watches]
Past == [entries : [Keys -> Nat], silent : BOOLEAN]

EntriesAt(r) == IF r = 0 THEN NoEntries ELSE history[r].entries
Waiting == ToSet(store.outbox)
Draining(p) == drain[p].at \in {"take", "notify", "end"}
Holds(p, w) == drain[p].at = "notify" /\ w \in drain[p].to

\* l holds revisions up to n, each once and in order.
Rising(l, n) ==
  /\ l \in Seq(Nat)
  /\ \A i \in DOMAIN l : l[i] \in 1 .. n
  /\ \A i, j \in DOMAIN l : i < j => l[i] < l[j]

CatalogueTypes ==
  /\ store \in Stores /\ watch \in [Watches -> WatchStates] /\ drain \in [Producers -> Drains]
  /\ history \in Seq(Past) /\ Len(history) = store.revision
  /\ ~store.closed => store.entries = EntriesAt(store.revision)

OutboxRises == Rising(store.outbox, store.revision)

\* One drain at a time; what it has in hand is older than all that waits.
OneDrain ==
  /\ \A p \in Producers : Draining(p) => store.draining
  /\ \A p, q \in Producers : Draining(p) /\ Draining(q) => p = q
  /\ \A p \in Producers : drain[p].at = "notify" =>
        /\ drain[p].change \in 1 .. store.revision /\ drain[p].lost <= store.lost
        /\ \A x \in Waiting : drain[p].change < x

\* Of the revisions since its seed a watch has seen each, or will, unless it
\* was silent or counts as lost.
Reaches(w) ==
  \A r \in 1 .. store.revision : r > watch[w].seeded =>
      \/ r <= watch[w].seen \/ history[r].silent \/ store.lost > watch[w].seedLost
      \/ r \in Waiting
      \/ \E p \in Producers : Holds(p, w) /\ drain[p].change = r

\* When a drain comes to a watch with a change it has not seen, all before
\* that change are seen, silent or in the count that comes with it.
Overtakes(w) ==
  \A p \in Producers : Holds(p, w) /\ drain[p].change > watch[w].seen =>
      /\ watch[w].knownLost <= drain[p].lost
      /\ \A r \in 1 .. store.revision : watch[w].seeded < r /\ r < drain[p].change =>
            r <= watch[w].seen \/ history[r].silent \/ drain[p].lost > watch[w].seedLost

KnowsBounds(w) ==
  /\ watch[w].seeded <= watch[w].seen /\ watch[w].seen <= store.revision
  /\ watch[w].seedLost <= watch[w].knownLost /\ watch[w].knownLost <= store.lost

Shows(w) ==
  watch[w].knownLost = watch[w].seedLost
     /\ (\A r \in 1 .. store.revision : watch[w].seeded < r /\ r <= watch[w].seen => ~history[r].silent)
   => watch[w].view = EntriesAt(watch[w].seen)

Follows(w) ==
  /\ KnowsBounds(w) /\ Shows(w)
  /\ ~store.closed => Reaches(w) /\ Overtakes(w)

CatalogueInv == CatalogueTypes /\ OutboxRises /\ OneDrain /\ \A w \in Watching : Follows(w)

--------------------
\* Outboxes.

LEMMA Revisions ==
  ASSUME NEW l \in Seq(Nat)
  PROVE  /\ Len(l) \in Nat /\ DOMAIN l = 1 .. Len(l) /\ \A i \in 1 .. Len(l) : l[i] \in Nat
         /\ l = <<>> <=> Len(l) = 0
         /\ ToSet(l) \subseteq Nat
<1>1. Len(l) \in Nat /\ DOMAIN l = 1 .. Len(l) /\ \A i \in 1 .. Len(l) : l[i] \in Nat BY LenProperties, ElementOfSeq
<1>2. l = <<>> <=> Len(l) = 0 BY EmptySeq
<1> QED BY <1>1, <1>2 DEF ToSet

LEMMA RisingNone ==
  ASSUME NEW n \in Nat
  PROVE  Rising(<<>>, n) /\ ToSet(<<>>) = {}
  BY EmptySeq DEF Rising, ToSet

LEMMA RisingFurther ==
  ASSUME NEW n \in Nat, NEW m \in Nat, n <= m, NEW l, Rising(l, n)
  PROVE  Rising(l, m)
  BY Revisions DEF Rising

LEMMA RisingAppends ==
  ASSUME NEW n \in Nat, NEW l, Rising(l, n)
  PROVE  Rising(Append(l, n + 1), n + 1) /\ ToSet(Append(l, n + 1)) = ToSet(l) \cup {n + 1}
<1>1. l \in Seq(Nat) /\ Len(l) \in Nat /\ DOMAIN l = 1 .. Len(l) BY Revisions DEF Rising
<1>10. PICK x \in Nat : x = n + 1 OBVIOUS
<1>2. PICK k : x = n + 1 /\ k = Append(l, x) BY <1>10
<1>3. /\ k \in Seq(Nat) /\ Len(k) = Len(l) + 1
      /\ (\A i \in 1 .. Len(l) : k[i] = l[i]) /\ k[Len(l) + 1] = x
  BY <1>1, <1>2, AppendProperties
<1>4. DOMAIN k = 1 .. Len(l) + 1 BY <1>3, Revisions
<1>5. \A i \in DOMAIN l : l[i] \in 1 .. n BY DEF Rising
<1>6. \A i \in DOMAIN k : i \in Nat /\ ((i \in DOMAIN l /\ k[i] = l[i]) \/ (i = Len(l) + 1 /\ k[i] = x))
 <2>1. SUFFICES ASSUME NEW i \in 1 .. Len(l) + 1
                PROVE  i \in Nat /\ ((i \in 1 .. Len(l) /\ k[i] = l[i]) \/ (i = Len(l) + 1 /\ k[i] = x))
   BY <1>1, <1>4
 <2>2. CASE i = Len(l) + 1 BY <1>3, <2>2
 <2>3. CASE i # Len(l) + 1
  <3>1. i \in 1 .. Len(l) BY <1>1, <2>1, <2>3
  <3>2. k[i] = l[i] BY <1>3, <3>1
  <3>3. i \in Nat BY <1>1, <2>1
  <3> QED BY <3>1, <3>2, <3>3
 <2> QED BY <2>2, <2>3
<1>7. \A i \in DOMAIN k : k[i] \in 1 .. x BY <1>2, <1>5, <1>6
<1>8. \A i, j \in DOMAIN k : i < j => k[i] < k[j]
 <2>1. SUFFICES ASSUME NEW i \in DOMAIN k, NEW j \in DOMAIN k, i < j PROVE k[i] < k[j] OBVIOUS
 <2>2. i \in DOMAIN l /\ k[i] = l[i] /\ l[i] \in 1 .. n BY <1>1, <1>4, <1>5, <1>6, <2>1
 <2>3. CASE j \in DOMAIN l /\ k[j] = l[j] BY <2>1, <2>2, <2>3 DEF Rising
 <2>4. CASE j = Len(l) + 1 /\ k[j] = x BY <1>2, <2>2, <2>4
 <2> QED BY <1>6, <2>3, <2>4
<1>9. ToSet(k) = ToSet(l) \cup {x}
 <2>1. Len(l) + 1 \in DOMAIN k /\ \A i \in DOMAIN l : i \in DOMAIN k /\ k[i] = l[i] BY <1>1, <1>3, <1>4
 <2> QED BY <1>3, <1>6, <2>1 DEF ToSet
<1> QED BY <1>2, <1>3, <1>7, <1>8, <1>9 DEF Rising

LEMMA RisingTail ==
  ASSUME NEW n \in Nat, NEW l, Rising(l, n), l # <<>>
  PROVE  /\ Rising(Tail(l), n) /\ Head(l) \in 1 .. n
         /\ ToSet(l) = ToSet(Tail(l)) \cup {Head(l)}
         /\ \A x \in ToSet(Tail(l)) : Head(l) < x
<1>1. l \in Seq(Nat) /\ Len(l) \in Nat /\ Len(l) >= 1 /\ DOMAIN l = 1 .. Len(l) BY Revisions DEF Rising
<1>2. PICK k, h : k = Tail(l) /\ h = Head(l) OBVIOUS
<1>3. k \in Seq(Nat) /\ Len(k) = Len(l) - 1 /\ (\A i \in 1 .. Len(k) : k[i] = l[i + 1]) /\ h = l[1]
  BY <1>1, <1>2, HeadTailProperties
<1>4. DOMAIN k = 1 .. Len(l) - 1 BY <1>3, Revisions
<1>5. \A i \in DOMAIN k : i \in Nat /\ i >= 1 /\ i + 1 \in DOMAIN l /\ k[i] = l[i + 1] BY <1>1, <1>3, <1>4
<1>6. \A i \in DOMAIN l : l[i] \in 1 .. n BY DEF Rising
<1>7. \A i, j \in DOMAIN l : i < j => l[i] < l[j] BY DEF Rising
<1>8. \A i \in DOMAIN k : k[i] \in 1 .. n BY <1>5, <1>6
<1>9. \A i, j \in DOMAIN k : i < j => k[i] < k[j]
 <2>1. SUFFICES ASSUME NEW i \in DOMAIN k, NEW j \in DOMAIN k, i < j PROVE k[i] < k[j] OBVIOUS
 <2>2. i + 1 < j + 1 BY <1>5, <2>1
 <2> QED BY <1>5, <1>7, <2>2
<1>10. 1 \in DOMAIN l /\ h \in 1 .. n BY <1>1, <1>3, <1>6
<1>11. \A x \in ToSet(k) : h < x
 <2>1. SUFFICES ASSUME NEW i \in DOMAIN k PROVE h < k[i] BY DEF ToSet
 <2>2. 1 < i + 1 BY <1>5
 <2> QED BY <1>3, <1>5, <1>7, <1>10, <2>2
<1>12. ToSet(l) = ToSet(k) \cup {h}
 <2>1. \A i \in DOMAIN l : i # 1 => i - 1 \in DOMAIN k /\ k[i - 1] = l[i]
  <3>1. SUFFICES ASSUME NEW i \in DOMAIN l, i # 1 PROVE i - 1 \in DOMAIN k /\ k[i - 1] = l[i] OBVIOUS
  <3>2. PICK m : m = i - 1 OBVIOUS
  <3>3. m \in 1 .. Len(k) /\ m + 1 = i BY <1>1, <1>3, <3>1, <3>2
  <3>4. k[m] = l[m + 1] /\ m \in DOMAIN k BY <1>3, <1>4, <3>3
  <3> QED BY <3>2, <3>3, <3>4
 <2>2. \A i \in DOMAIN l : l[i] = h \/ \E m \in DOMAIN k : k[m] = l[i] BY <1>3, <2>1
 <2>3. \A m \in DOMAIN k : \E i \in DOMAIN l : l[i] = k[m] BY <1>5
 <2>4. \E i \in DOMAIN l : l[i] = h BY <1>3, <1>10
 <2>5. ASSUME NEW x \in ToSet(l) PROVE x \in ToSet(k) \cup {h}
  <3>1. PICK i \in DOMAIN l : x = l[i] BY <2>5 DEF ToSet
  <3>2. CASE l[i] = h BY <3>1, <3>2
  <3>3. CASE \E m \in DOMAIN k : k[m] = l[i] BY <3>1, <3>3 DEF ToSet
  <3> QED BY <2>2, <3>2, <3>3
 <2>6. ASSUME NEW x \in ToSet(k) PROVE x \in ToSet(l)
  <3>1. PICK m \in DOMAIN k : x = k[m] BY <2>6 DEF ToSet
  <3>2. PICK i \in DOMAIN l : l[i] = k[m] BY <2>3
  <3> QED BY <3>1, <3>2 DEF ToSet
 <2>7. h \in ToSet(l) BY <2>4 DEF ToSet
 <2> QED BY <2>5, <2>6, <2>7
<1> QED BY <1>2, <1>3, <1>8, <1>9, <1>10, <1>11, <1>12 DEF Rising

--------------------
\* What a step of the source leaves of the promises to a watch.

\* Drains are where they were, with the same change in hand.
DrainsStay ==
  /\ drain' \in [Producers -> Drains]
  /\ \A p \in Producers : /\ Draining(p)' <=> Draining(p)
                          /\ drain'[p].at = "notify" <=> drain[p].at = "notify"
                          /\ drain[p].at = "notify" =>
                                /\ drain'[p].change = drain[p].change /\ drain'[p].lost = drain[p].lost
                                /\ drain'[p].to = drain[p].to

\* The source moves on and drops nothing uncounted.
SourceMoves ==
  /\ store.revision <= store'.revision /\ store.lost <= store'.lost /\ (store.closed => store'.closed)
  /\ \A r \in 1 .. store.revision : history'[r] = history[r]
  /\ store'.closed \/ store'.lost > store.lost \/
       \A r \in 1 .. store'.revision :
          IF r <= store.revision THEN r \in Waiting => r \in Waiting'
          ELSE r \in Waiting' \/ history'[r].silent

\* What comes to w is what came to it before.
SameToward(w) ==
  \A p \in Producers : /\ Holds(p, w)' <=> Holds(p, w)
                       /\ Holds(p, w) => drain'[p].change = drain[p].change /\ drain'[p].lost = drain[p].lost

LEMMA WatchTypes ==
  ASSUME CatalogueTypes, NEW w \in Watches
  PROVE  /\ watch[w].active \in BOOLEAN /\ watch[w].seen \in Nat /\ watch[w].seeded \in Nat
         /\ watch[w].seedLost \in Nat /\ watch[w].knownLost \in Nat /\ watch[w].view \in [Keys -> Nat]
  BY DEF CatalogueTypes, WatchStates

LEMMA StoreTypes ==
  ASSUME CatalogueTypes
  PROVE  /\ store.revision \in Nat /\ store.lost \in Nat /\ store.outbox \in Seq(Nat) /\ store.entries \in [Keys -> Nat]
         /\ store.routed \in BOOLEAN /\ store.draining \in BOOLEAN /\ store.closed \in BOOLEAN
  BY DEF CatalogueTypes, Stores

LEMMA DrainTypes ==
  ASSUME CatalogueTypes, NEW p \in Producers
  PROVE  /\ drain[p].at \in {"out", "pump", "take", "notify", "end"} /\ drain[p].left \in Int
         /\ drain[p].change \in Nat /\ drain[p].lost \in Nat /\ drain[p].to \subseteq Watches
  BY DEF CatalogueTypes, Drains

LEMMA MovesKeep ==
  ASSUME CatalogueTypes, CatalogueTypes', OneDrain, NEW w \in Watches, Follows(w),
         SourceMoves, watch'[w] = watch[w], SameToward(w)
  PROVE  Follows(w)'
<1>1. /\ store.revision \in Nat /\ store.lost \in Nat /\ store'.revision \in Nat /\ store'.lost \in Nat
      /\ watch[w].seen \in Nat /\ watch[w].seeded \in Nat /\ watch[w].seedLost \in Nat /\ watch[w].knownLost \in Nat
  BY StoreTypes, WatchTypes DEF CatalogueTypes, Stores
<1>2. /\ store.revision <= store'.revision /\ store.lost <= store'.lost /\ (store.closed => store'.closed)
      /\ \A r \in 1 .. store.revision : history'[r] = history[r]
  BY DEF SourceMoves
<1>3. KnowsBounds(w) /\ Shows(w) BY DEF Follows
<1>4. KnowsBounds(w)' BY <1>1, <1>2, <1>3 DEF KnowsBounds
<1>5. \A r \in 1 .. store'.revision : r <= watch[w].seen => r \in 1 .. store.revision BY <1>1, <1>3 DEF KnowsBounds
<1>6. EntriesAt(watch[w].seen)' = EntriesAt(watch[w].seen)
 <2>1. watch[w].seen = 0 \/ watch[w].seen \in 1 .. store.revision BY <1>1, <1>3 DEF KnowsBounds
 <2> QED BY <1>2, <2>1 DEF EntriesAt
<1>7. Shows(w)'
 <2>1. SUFFICES ASSUME watch[w].knownLost = watch[w].seedLost,
                       \A r \in 1 .. store'.revision : watch[w].seeded < r /\ r <= watch[w].seen => ~history'[r].silent
                PROVE  watch'[w].view = EntriesAt(watch[w].seen)'
   BY DEF Shows
 <2>2. \A r \in 1 .. store.revision : r \in 1 .. store'.revision /\ history'[r] = history[r] BY <1>1, <1>2
 <2>3. \A r \in 1 .. store.revision : watch[w].seeded < r /\ r <= watch[w].seen => ~history[r].silent BY <2>1, <2>2
 <2> QED BY <1>3, <1>6, <2>1, <2>3 DEF Shows
<1>8. ASSUME ~store'.closed PROVE Reaches(w)'
 <2>1. ~store.closed /\ Reaches(w) BY <1>2, <1>8 DEF Follows
 <2>2. SUFFICES ASSUME NEW r \in 1 .. store'.revision, r > watch[w].seeded
                PROVE  \/ r <= watch[w].seen \/ history'[r].silent \/ store'.lost > watch[w].seedLost
                       \/ r \in Waiting' \/ \E p \in Producers : Holds(p, w)' /\ drain'[p].change = r
   BY DEF Reaches
 <2>3. CASE store'.lost > store.lost BY <1>1, <1>3, <2>3 DEF KnowsBounds
 <2>4. CASE ~(store'.lost > store.lost) /\ r <= store.revision
  <3>1. r \in 1 .. store.revision /\ history'[r] = history[r] /\ (r \in Waiting => r \in Waiting')
    BY <1>1, <1>2, <1>8, <2>4 DEF SourceMoves
  <3>2. \/ r <= watch[w].seen \/ history[r].silent \/ store.lost > watch[w].seedLost
        \/ r \in Waiting \/ \E p \in Producers : Holds(p, w) /\ drain[p].change = r
    BY <2>1, <2>2, <3>1 DEF Reaches
  <3>3. CASE \E p \in Producers : Holds(p, w) /\ drain[p].change = r BY <3>3 DEF SameToward
  <3>4. store.lost > watch[w].seedLost => store'.lost > watch[w].seedLost BY <1>1, <1>2
  <3> QED BY <3>1, <3>2, <3>3, <3>4
 <2>5. CASE ~(store'.lost > store.lost) /\ ~(r <= store.revision) BY <1>8, <2>5 DEF SourceMoves
 <2> QED BY <2>3, <2>4, <2>5
<1>9. ASSUME ~store'.closed PROVE Overtakes(w)'
 <2>1. ~store.closed /\ Overtakes(w) BY <1>2, <1>9 DEF Follows
 <2>2. SUFFICES ASSUME NEW p \in Producers, Holds(p, w)', drain'[p].change > watch[w].seen
                PROVE  /\ watch[w].knownLost <= drain'[p].lost
                       /\ \A r \in 1 .. store'.revision : watch[w].seeded < r /\ r < drain'[p].change =>
                             r <= watch[w].seen \/ history'[r].silent \/ drain'[p].lost > watch[w].seedLost
   BY DEF Overtakes
 <2>3. Holds(p, w) /\ drain'[p].change = drain[p].change /\ drain'[p].lost = drain[p].lost BY <2>2 DEF SameToward
 <2>4. drain[p].change \in 1 .. store.revision BY <2>3 DEF OneDrain, Holds
 <2>5. \A r \in 1 .. store'.revision : r < drain[p].change => r \in 1 .. store.revision /\ history'[r] = history[r]
   BY <1>1, <1>2, <2>4
 <2> QED BY <2>1, <2>2, <2>3, <2>5 DEF Overtakes
<1> QED BY <1>4, <1>7, <1>8, <1>9 DEF Follows

LEMMA DrainsKeep ==
  ASSUME CatalogueTypes, OneDrain, DrainsStay, store'.draining = store.draining,
         store'.revision \in Nat, store'.lost \in Nat,
         store.revision <= store'.revision, store.lost <= store'.lost,
         \A x \in Waiting' : x \in Nat /\ (x \in Waiting \/ x > store.revision)
  PROVE  OneDrain'
<1>1. store.revision \in Nat /\ store.lost \in Nat BY StoreTypes
<1>2. \A p \in Producers : Draining(p)' => store'.draining BY DEF DrainsStay, OneDrain
<1>3. \A p, q \in Producers : Draining(p)' /\ Draining(q)' => p = q BY DEF DrainsStay, OneDrain
<1>4. ASSUME NEW p \in Producers, drain'[p].at = "notify"
      PROVE  /\ drain'[p].change \in 1 .. store'.revision /\ drain'[p].lost <= store'.lost
             /\ \A x \in Waiting' : drain'[p].change < x
 <2>1. /\ drain[p].change \in 1 .. store.revision /\ drain[p].lost <= store.lost
       /\ \A x \in Waiting : drain[p].change < x
   BY <1>4 DEF DrainsStay, OneDrain
 <2>2. drain'[p].change = drain[p].change /\ drain'[p].lost = drain[p].lost /\ drain[p].lost \in Nat
   BY <1>4, DrainTypes DEF DrainsStay
 <2>3. ASSUME NEW x \in Waiting', x > store.revision, x \notin Waiting PROVE drain[p].change < x BY <1>1, <2>1, <2>3
 <2>4. drain[p].change \in 1 .. store'.revision /\ drain[p].lost <= store'.lost BY <1>1, <2>1, <2>2
 <2> QED BY <2>1, <2>2, <2>3, <2>4
<1> QED BY <1>2, <1>3, <1>4 DEF OneDrain

LEMMA StayingIsSame ==
  ASSUME DrainsStay, NEW w
  PROVE  SameToward(w)
  BY DEF DrainsStay, SameToward, Holds

\* The source is as it was.
SourceStays ==
  /\ store'.revision = store.revision /\ store'.lost = store.lost /\ store'.outbox = store.outbox
  /\ store'.closed = store.closed /\ history' = history

LEMMA StayingMoves ==
  ASSUME CatalogueTypes, SourceStays
  PROVE  SourceMoves /\ Waiting' = Waiting
<1>1. store.revision \in Nat /\ store.lost \in Nat BY StoreTypes
<1>2. Waiting' = Waiting BY DEF SourceStays, Waiting
<1> QED BY <1>1, <1>2 DEF SourceStays, SourceMoves

LEMMA Keeping ==
  ASSUME CatalogueInv, CatalogueTypes', OutboxRises', OneDrain',
         \A w \in Watching' : w \in Watching /\ watch'[w] = watch[w] /\ SameToward(w) /\ SourceMoves
  PROVE  CatalogueInv'
<1>1. ASSUME NEW w \in Watching' PROVE Follows(w)'
 <2>1. w \in Watches /\ w \in Watching /\ watch'[w] = watch[w] /\ SameToward(w) /\ SourceMoves BY <1>1 DEF Watching
 <2>2. CatalogueTypes /\ OneDrain /\ Follows(w) BY <2>1 DEF CatalogueInv
 <2> QED BY <2>1, <2>2, MovesKeep
<1> QED BY <1>1 DEF CatalogueInv

LEMMA HistoryGrows ==
  ASSUME CatalogueTypes, NEW n \in Nat, n = store.revision + 1, NEW entries \in [Keys -> Nat], NEW silent \in BOOLEAN,
         Revised(entries, silent)
  PROVE  /\ history' \in Seq(Past) /\ Len(history') = n
         /\ \A r \in 1 .. store.revision : history'[r] = history[r]
         /\ history'[n].entries = entries /\ history'[n].silent = silent
         /\ watch' = watch
<1>1. PICK e : e = [entries |-> entries, silent |-> silent] OBVIOUS
<1>2. e \in Past /\ e.entries = entries /\ e.silent = silent BY <1>1 DEF Past
<1>3. history \in Seq(Past) /\ Len(history) = store.revision /\ store.revision \in Nat BY StoreTypes DEF CatalogueTypes
<1>4. history' = Append(history, e) /\ watch' = watch BY <1>1 DEF Revised
<1>5. /\ history' \in Seq(Past) /\ Len(history') = Len(history) + 1
      /\ \A i \in 1 .. Len(history) : history'[i] = history[i]
      /\ history'[Len(history) + 1] = e
  BY <1>2, <1>3, <1>4, AppendProperties
<1> QED BY <1>2, <1>3, <1>4, <1>5

\* What a committed record does to the outbox, and to what is counted as lost.
OutboxStep(new) ==
  \/ ~Observing /\ store'.outbox = store.outbox /\ store'.lost = store.lost
  \/ store'.outbox = store.outbox /\ store'.lost = store.lost + 1
  \/ store.outbox # <<>> /\ store'.outbox = Append(Tail(store.outbox), new) /\ store'.lost = store.lost + 1
  \/ store'.outbox = Append(store.outbox, new) /\ store'.lost = store.lost

LEMMA OutboxSteps ==
  ASSUME CatalogueTypes, OutboxRises, NEW n \in Nat, n = store.revision + 1, OutboxStep(n),
         store'.revision = n
  PROVE  /\ OutboxRises' /\ store'.outbox \in Seq(Nat)
         /\ \A x \in Waiting' : x \in Nat /\ (x \in Waiting \/ x > store.revision)
         /\ store'.lost \in Nat /\ store'.lost >= store.lost
         /\ ~Observing \/ store'.lost > store.lost \/ Waiting' = Waiting \cup {n}
<1>1. store.revision \in Nat /\ store.lost \in Nat /\ store.outbox \in Seq(Nat) BY StoreTypes
<1>2. PICK l : l = store.outbox OBVIOUS
<1>3. Rising(l, store.revision) /\ Rising(l, n) BY <1>1, <1>2, RisingFurther DEF OutboxRises
<1>4. PICK longer : longer = Append(l, n) OBVIOUS
<1>14. Rising(longer, n) /\ ToSet(longer) = ToSet(l) \cup {n} BY <1>1, <1>3, <1>4, RisingAppends
<1>15. PICK tail : tail = Tail(l) OBVIOUS
<1>16. PICK shifted : shifted = Append(tail, n) OBVIOUS
<1>17. ASSUME l # <<>> PROVE Rising(tail, store.revision) /\ ToSet(tail) \subseteq ToSet(l)
  BY <1>1, <1>3, <1>15, <1>17, RisingTail
<1>5. l # <<>> => Rising(shifted, n) /\ ToSet(shifted) = ToSet(tail) \cup {n} BY <1>1, <1>16, <1>17, RisingAppends
<1>18. \/ ~Observing /\ store'.outbox = l /\ store'.lost = store.lost
       \/ store'.outbox = l /\ store'.lost = store.lost + 1
       \/ l # <<>> /\ store'.outbox = shifted /\ store'.lost = store.lost + 1
       \/ store'.outbox = longer /\ store'.lost = store.lost
  BY <1>2, <1>4, <1>15, <1>16 DEF OutboxStep
<1>6. ToSet(l) \subseteq Nat BY <1>1, <1>2, Revisions
<1>7. store'.lost \in Nat /\ store'.lost >= store.lost BY <1>1 DEF OutboxStep
<1>8. OutboxRises' BY <1>3, <1>5, <1>14, <1>18 DEF OutboxRises
<1>9. \A x \in ToSet(store'.outbox) : x \in ToSet(l) \/ x = n BY <1>5, <1>14, <1>17, <1>18
<1>10. ~Observing \/ store'.lost > store.lost \/ ToSet(store'.outbox) = ToSet(l) \cup {n}
 <2>1. store'.lost = store.lost + 1 => store'.lost > store.lost BY <1>1
 <2> QED BY <2>1, <1>14, <1>18
<1>11. Waiting = ToSet(l) /\ Waiting' = ToSet(store'.outbox) BY <1>2 DEF Waiting
<1>12. \A x \in Waiting' : x \in Nat /\ (x \in Waiting \/ x > store.revision) BY <1>1, <1>6, <1>9, <1>11
<1>13. store'.outbox \in Seq(Nat) BY <1>8 DEF OutboxRises, Rising
<1> QED BY <1>7, <1>8, <1>10, <1>11, <1>12, <1>13

\* The store after a commit.
LEMMA CommitsOnce ==
  ASSUME CatalogueTypes, NEW p \in Producers, NEW entries \in [Keys -> Nat], Commit(p, entries),
         NEW n \in Nat, n = store.revision + 1
  PROVE  /\ store' = [store EXCEPT !.entries = entries, !.revision = n, !.outbox = store'.outbox, !.lost = store'.lost]
         /\ OutboxStep(n) /\ ~store.closed
<1>1. store \in Stores BY DEF CatalogueTypes
<1>2. PICK s : s = [store EXCEPT !.entries = entries, !.revision = n] OBVIOUS
<1>3. /\ s = [store EXCEPT !.entries = entries, !.revision = s.revision] /\ s.revision = n
      /\ s.outbox = store.outbox /\ s.lost = store.lost /\ s \in Stores
  BY <1>1, <1>2 DEF Stores
<1>4. PICK prepared \in BOOLEAN : store' = Committed(s, prepared) BY <1>2 DEF Commit
<1>5. \/ ~Observing /\ store' = s
      \/ store' = [s EXCEPT !.lost = @ + 1]
      \/ Len(s.outbox) = OutboxSize /\ store' = [s EXCEPT !.outbox = Append(Tail(@), s.revision), !.lost = @ + 1]
      \/ store' = [s EXCEPT !.outbox = Append(@, s.revision)]
  BY <1>4 DEF Committed
<1>6. Len(s.outbox) = OutboxSize => store.outbox # <<>> BY <1>3, CatalogueAssumption, EmptySeq
<1>7. PICK l, t, m : l = Append(s.outbox, s.revision) /\ t = Append(Tail(s.outbox), s.revision) /\ m = s.lost + 1
  OBVIOUS
<1>8. \/ ~Observing /\ store' = s
      \/ store' = [s EXCEPT !.lost = m]
      \/ Len(s.outbox) = OutboxSize /\ store' = [s EXCEPT !.outbox = t, !.lost = m]
      \/ store' = [s EXCEPT !.outbox = l]
  BY <1>5, <1>7
<1>9. store' = [store EXCEPT !.entries = entries, !.revision = n, !.outbox = store'.outbox, !.lost = store'.lost]
  BY <1>1, <1>2, <1>8 DEF Stores
<1>10. \/ ~Observing /\ store'.outbox = s.outbox /\ store'.lost = s.lost
       \/ store'.outbox = s.outbox /\ store'.lost = m
       \/ Len(s.outbox) = OutboxSize /\ store'.outbox = t /\ store'.lost = m
       \/ store'.outbox = l /\ store'.lost = s.lost
  BY <1>3, <1>8 DEF Stores
<1>11. OutboxStep(n) BY <1>3, <1>6, <1>7, <1>10 DEF OutboxStep
<1> QED BY <1>9, <1>11 DEF Commit, Revisable

LEMMA CommitKeeps ==
  ASSUME CatalogueInv, NEW p \in Producers, NEW entries \in [Keys -> Nat], Commit(p, entries)
  PROVE  CatalogueInv'
<1>1. CatalogueTypes /\ OutboxRises /\ OneDrain BY DEF CatalogueInv
<1>2. PICK n \in Nat : n = store.revision + 1 BY <1>1, StoreTypes
<1>3. /\ store.revision \in Nat /\ store.lost \in Nat /\ store \in Stores /\ drain \in [Producers -> Drains]
      /\ watch \in [Watches -> WatchStates]
  BY <1>1, StoreTypes DEF CatalogueTypes
<1>4. /\ store' = [store EXCEPT !.entries = entries, !.revision = n, !.outbox = store'.outbox, !.lost = store'.lost]
      /\ OutboxStep(n) /\ ~store.closed
  BY <1>1, <1>2, CommitsOnce
<1>5. /\ store'.entries = entries /\ store'.revision = n /\ store'.routed = store.routed
      /\ store'.draining = store.draining /\ store'.closed = store.closed
  BY <1>3, <1>4 DEF Stores
<1>6. /\ history' \in Seq(Past) /\ Len(history') = n
      /\ \A r \in 1 .. store.revision : history'[r] = history[r]
      /\ history'[n].entries = entries /\ history'[n].silent = FALSE /\ watch' = watch
  BY <1>1, <1>2, HistoryGrows DEF Commit
<1>7. /\ OutboxRises' /\ store'.outbox \in Seq(Nat)
      /\ \A x \in Waiting' : x \in Nat /\ (x \in Waiting \/ x > store.revision)
      /\ store'.lost \in Nat /\ store'.lost >= store.lost
      /\ ~Observing \/ store'.lost > store.lost \/ Waiting' = Waiting \cup {n}
  BY <1>1, <1>2, <1>4, <1>5, OutboxSteps
<1>8. drain' \in [Producers -> Drains] /\ DrainsStay
 <2>1. CASE drain[p].at = "out" /\ drain' = [drain EXCEPT ![p].at = "pump"]
  <3>1. drain' \in [Producers -> Drains] BY <1>3, <2>1 DEF Drains
  <3>2. drain'[p].at = "pump" /\ \A q \in Producers : q # p => drain'[q] = drain[q] BY <1>3, <2>1 DEF Drains
  <3> QED BY <2>1, <3>1, <3>2 DEF DrainsStay, Draining
 <2>2. CASE drain' = drain BY <1>3, <2>2 DEF DrainsStay, Draining
 <2> QED BY <2>1, <2>2 DEF Commit
<1>9. CatalogueTypes'
 <2>1. store' \in Stores BY <1>2, <1>3, <1>4, <1>7 DEF Stores
 <2>2. store'.entries = EntriesAt(store.revision)' BY <1>2, <1>3, <1>5, <1>6 DEF EntriesAt
 <2> QED BY <1>3, <1>5, <1>6, <1>8, <2>1, <2>2 DEF CatalogueTypes
<1>10. OneDrain' BY <1>1, <1>2, <1>3, <1>5, <1>7, <1>8, DrainsKeep
<1>11. ASSUME NEW w \in Watching' PROVE w \in Watching /\ watch'[w] = watch[w] /\ SameToward(w) /\ SourceMoves
 <2>1. w \in Watching /\ watch'[w] = watch[w] BY <1>6, <1>11 DEF Watching
 <2>2. SameToward(w) BY <1>8, StayingIsSame
 <2>3. store'.lost > store.lost \/ Waiting' = Waiting \cup {n} BY <1>7, <2>1 DEF Observing
 <2>4. \A r \in 1 .. store'.revision : ~(r <= store.revision) => r = n BY <1>2, <1>3, <1>5
 <2>5. SourceMoves BY <1>2, <1>3, <1>5, <1>6, <1>7, <2>3, <2>4 DEF SourceMoves
 <2> QED BY <2>1, <2>2, <2>5
<1> QED BY <1>7, <1>9, <1>10, <1>11, Keeping

LEMMA ChangeKeeps ==
  ASSUME CatalogueInv, NEW p \in Producers,
         (\E k \in Keys : Publish(p, k) \/ Replace(p, k)) \/ ClearCatalogue(p)
  PROVE  CatalogueInv'
<1>1. store.entries \in [Keys -> Nat] /\ store.revision \in Nat BY StoreTypes DEF CatalogueInv
<1>2. PICK n \in Nat : n = store.revision + 1 BY <1>1
<1>3. ASSUME NEW k \in Keys, Publish(p, k) \/ Replace(p, k) PROVE CatalogueInv'
 <2>1. [store.entries EXCEPT ![k] = n] \in [Keys -> Nat] BY <1>1
 <2>2. Commit(p, [store.entries EXCEPT ![k] = n]) BY <1>2, <1>3 DEF Publish, Replace
 <2> QED BY <2>1, <2>2, CommitKeeps
<1>4. ASSUME ClearCatalogue(p) PROVE CatalogueInv'
 <2>1. NoEntries \in [Keys -> Nat] BY DEF NoEntries
 <2> QED BY <1>4, <2>1, CommitKeeps DEF ClearCatalogue
<1> QED BY <1>3, <1>4

LEMMA Drops ==
  ASSUME CatalogueTypes
  PROVE  /\ store.lost + Len(store.outbox) \in Nat /\ store.lost + Len(store.outbox) >= store.lost
         /\ Waiting = {} \/ store.lost + Len(store.outbox) > store.lost
         /\ <<>> \in Seq(Nat) /\ ToSet(<<>>) = {} /\ NoEntries \in [Keys -> Nat]
<1>1. store.lost \in Nat /\ store.outbox \in Seq(Nat) BY StoreTypes
<1>2. Len(store.outbox) \in Nat /\ (store.outbox = <<>> \/ Len(store.outbox) > 0) BY <1>1, LenProperties, EmptySeq
<1>3. ToSet(<<>>) = {} /\ <<>> \in Seq(Nat) BY RisingNone DEF Rising
<1>4. store.outbox = <<>> => Waiting = {} BY <1>3 DEF Waiting
<1> QED BY <1>1, <1>2, <1>3, <1>4 DEF NoEntries

LEMMA DiscardKeeps ==
  ASSUME CatalogueInv, Discard
  PROVE  CatalogueInv'
<1>1. CatalogueTypes /\ OutboxRises /\ OneDrain BY DEF CatalogueInv
<1>2. PICK n \in Nat : n = store.revision + 1 BY <1>1, StoreTypes
<1>3. /\ store.revision \in Nat /\ store.lost \in Nat /\ store \in Stores /\ drain \in [Producers -> Drains]
      /\ watch \in [Watches -> WatchStates] /\ ~store.closed
  BY <1>1, StoreTypes DEF CatalogueTypes, Discard, Revisable
<1>4. PICK lost \in Nat : lost = store.lost + Len(store.outbox) BY <1>1, Drops
<1>5. store' = [store EXCEPT !.entries = NoEntries, !.outbox = <<>>, !.lost = lost, !.revision = n]
  BY <1>2, <1>3, <1>4 DEF Discard, Dropped, Stores
<1>6. /\ store'.entries = NoEntries /\ store'.revision = n /\ store'.outbox = <<>> /\ store'.lost = lost
      /\ store'.draining = store.draining /\ store'.closed = store.closed
  BY <1>3, <1>5 DEF Stores
<1>7. /\ NoEntries \in [Keys -> Nat] /\ <<>> \in Seq(Nat) /\ ToSet(<<>>) = {}
      /\ lost >= store.lost /\ (Waiting = {} \/ lost > store.lost)
  BY <1>1, <1>4, Drops
<1>8. /\ history' \in Seq(Past) /\ Len(history') = n
      /\ \A r \in 1 .. store.revision : history'[r] = history[r]
      /\ history'[n].entries = NoEntries /\ history'[n].silent = TRUE /\ watch' = watch
  BY <1>1, <1>2, <1>7, HistoryGrows DEF Discard
<1>9. Waiting' = {} BY <1>6, <1>7 DEF Waiting
<1>10. drain' = drain /\ DrainsStay BY <1>3 DEF DrainsStay, Draining, Discard
<1>11. CatalogueTypes'
 <2>1. store' \in Stores BY <1>2, <1>3, <1>5, <1>7 DEF Stores
 <2>2. store'.entries = EntriesAt(store.revision)' BY <1>2, <1>3, <1>6, <1>8 DEF EntriesAt
 <2> QED BY <1>3, <1>6, <1>8, <1>10, <2>1, <2>2 DEF CatalogueTypes
<1>12. OutboxRises' BY <1>2, <1>6, RisingNone DEF OutboxRises
<1>13. OneDrain' BY <1>1, <1>2, <1>3, <1>6, <1>7, <1>9, <1>10, DrainsKeep
<1>14. SourceMoves
 <2>1. \A r \in 1 .. store'.revision : ~(r <= store.revision) => r = n BY <1>2, <1>3, <1>6
 <2> QED BY <1>2, <1>3, <1>6, <1>7, <1>8, <2>1 DEF SourceMoves
<1>15. ASSUME NEW w \in Watching' PROVE w \in Watching /\ watch'[w] = watch[w] /\ SameToward(w) /\ SourceMoves
  BY <1>8, <1>10, <1>14, <1>15, StayingIsSame DEF Watching
<1> QED BY <1>11, <1>12, <1>13, <1>15, Keeping

LEMMA CloseKeeps ==
  ASSUME CatalogueInv, CloseStore
  PROVE  CatalogueInv'
<1>1. CatalogueTypes /\ OutboxRises /\ OneDrain BY DEF CatalogueInv
<1>2. /\ store.revision \in Nat /\ store.lost \in Nat /\ store \in Stores
      /\ watch' = watch /\ drain' = drain /\ history' = history
  BY <1>1, StoreTypes DEF CatalogueTypes, CloseStore
<1>3. PICK lost \in Nat : lost = store.lost + Len(store.outbox) BY <1>1, Drops
<1>4. store' = [store EXCEPT !.entries = NoEntries, !.outbox = <<>>, !.lost = lost, !.closed = TRUE]
  BY <1>2, <1>3 DEF CloseStore, Dropped, Stores
<1>5. /\ store'.revision = store.revision /\ store'.outbox = <<>> /\ store'.lost = lost
      /\ store'.draining = store.draining /\ store'.closed
  BY <1>2, <1>4 DEF Stores
<1>6. NoEntries \in [Keys -> Nat] /\ <<>> \in Seq(Nat) /\ ToSet(<<>>) = {} /\ lost >= store.lost BY <1>1, <1>3, Drops
<1>7. store' \in Stores BY <1>2, <1>4, <1>6 DEF Stores
<1>8. CatalogueTypes' BY <1>1, <1>2, <1>5, <1>7 DEF CatalogueTypes
<1>9. OutboxRises' BY <1>2, <1>5, RisingNone DEF OutboxRises
<1>10. DrainsStay BY <1>1, <1>2 DEF DrainsStay, Draining, CatalogueTypes
<1>11. Waiting' = {} BY <1>5, <1>6 DEF Waiting
<1>12. OneDrain' BY <1>1, <1>2, <1>5, <1>6, <1>10, <1>11, DrainsKeep
<1>13. SourceMoves BY <1>2, <1>5, <1>6 DEF SourceMoves
<1>14. ASSUME NEW w \in Watching' PROVE w \in Watching /\ watch'[w] = watch[w] /\ SameToward(w) /\ SourceMoves
  BY <1>2, <1>10, <1>13, <1>14, StayingIsSame DEF Watching
<1> QED BY <1>8, <1>9, <1>12, <1>14, Keeping

\* A step that leaves what the source holds, and the drains.
LEMMA StayingKeeps ==
  ASSUME CatalogueInv, SourceStays, store' \in Stores, store'.entries = store.entries,
         store'.draining = store.draining, drain' = drain, watch' \in [Watches -> WatchStates],
         \A w \in Watching' : (w \in Watching /\ watch'[w] = watch[w]) \/ Follows(w)'
  PROVE  CatalogueInv'
<1>1. CatalogueTypes /\ OutboxRises /\ OneDrain BY DEF CatalogueInv
<1>2. SourceMoves /\ Waiting' = Waiting BY <1>1, StayingMoves
<1>3. store.revision \in Nat /\ store.lost \in Nat /\ store.outbox \in Seq(Nat) BY <1>1, StoreTypes
<1>4. DrainsStay BY <1>1 DEF DrainsStay, Draining, CatalogueTypes
<1>5. OutboxRises' BY <1>1 DEF OutboxRises, SourceStays
<1>6. CatalogueTypes' BY <1>1 DEF CatalogueTypes, SourceStays, EntriesAt
<1>7. OneDrain'
 <2>1. \A x \in Waiting' : x \in Nat /\ (x \in Waiting \/ x > store.revision) BY <1>2, <1>3, Revisions DEF Waiting
 <2> QED BY <1>1, <1>3, <1>4, <2>1, DrainsKeep DEF SourceStays
<1>8. ASSUME NEW w \in Watching' PROVE Follows(w)'
 <2>1. CASE w \in Watching /\ watch'[w] = watch[w]
  <3>1. w \in Watches /\ Follows(w) /\ SameToward(w) BY <1>4, <2>1, StayingIsSame DEF CatalogueInv, Watching
  <3> QED BY <1>1, <1>2, <1>6, <2>1, <3>1, MovesKeep
 <2> QED BY <1>8, <2>1
<1> QED BY <1>5, <1>6, <1>7, <1>8 DEF CatalogueInv

LEMMA RouteKeeps ==
  ASSUME CatalogueInv, Route
  PROVE  CatalogueInv'
<1>1. store \in Stores /\ watch \in [Watches -> WatchStates] BY DEF CatalogueInv, CatalogueTypes
<1>2. store' \in Stores /\ store'.entries = store.entries /\ store'.draining = store.draining /\ SourceStays
  BY <1>1 DEF Route, Stores, SourceStays
<1> QED BY <1>1, <1>2, StayingKeeps DEF Route, Watching

LEMMA UnwatchKeeps ==
  ASSUME CatalogueInv, NEW w \in Watches, Unwatch(w)
  PROVE  CatalogueInv'
<1>1. store \in Stores /\ watch \in [Watches -> WatchStates] BY DEF CatalogueInv, CatalogueTypes
<1>2. watch' \in [Watches -> WatchStates] BY <1>1 DEF Unwatch, WatchStates
<1>3. ~watch'[w].active /\ \A v \in Watches : v # w => watch'[v] = watch[v] BY <1>1 DEF Unwatch, WatchStates
<1>4. \A v \in Watching' : v \in Watching /\ watch'[v] = watch[v] BY <1>3 DEF Watching
<1>5. store' = store /\ history' = history /\ drain' = drain BY DEF Unwatch
<1> QED BY <1>1, <1>2, <1>4, <1>5, StayingKeeps DEF SourceStays

LEMMA WatchKeeps ==
  ASSUME CatalogueInv, NEW w \in Watches, Watch(w)
  PROVE  CatalogueInv'
<1>1. store \in Stores /\ watch \in [Watches -> WatchStates] /\ CatalogueTypes /\ OneDrain
  BY DEF CatalogueInv, CatalogueTypes
<1>2. /\ store.revision \in Nat /\ store.lost \in Nat /\ store.entries \in [Keys -> Nat]
      /\ store' = store /\ history' = history /\ drain' = drain /\ ~store.closed
  BY <1>1, StoreTypes DEF Watch
<1>3. Seed \in WatchStates BY <1>2 DEF Seed, WatchStates
<1>4. watch' \in [Watches -> WatchStates] /\ watch'[w] = Seed /\ \A v \in Watches : v # w => watch'[v] = watch[v]
  BY <1>1, <1>3 DEF Watch
<1>5. /\ watch'[w].seen = store.revision /\ watch'[w].seeded = store.revision /\ watch'[w].seedLost = store.lost
      /\ watch'[w].knownLost = store.lost /\ watch'[w].view = store.entries
  BY <1>4 DEF Seed
<1>6. EntriesAt(watch[w].seen)' = store.entries BY <1>1, <1>2, <1>5 DEF EntriesAt, CatalogueTypes
<1>7. KnowsBounds(w)' /\ Shows(w)' BY <1>2, <1>5, <1>6 DEF KnowsBounds, Shows
<1>8. Reaches(w)' BY <1>2, <1>5 DEF Reaches
<1>9. Overtakes(w)'
 <2>1. \A p \in Producers : drain[p].at = "notify" => drain[p].change \in 1 .. store.revision BY <1>1 DEF OneDrain
 <2>2. \A p \in Producers : Holds(p, w)' => ~(drain'[p].change > watch'[w].seen) BY <1>2, <1>5, <2>1 DEF Holds
 <2> QED BY <2>2 DEF Overtakes
<1>10. Follows(w)' BY <1>7, <1>8, <1>9 DEF Follows
<1>11. \A v \in Watching' : (v \in Watching /\ watch'[v] = watch[v]) \/ Follows(v)'
 <2>1. ASSUME NEW v \in Watching', v # w PROVE v \in Watching /\ watch'[v] = watch[v] BY <1>4, <2>1 DEF Watching
 <2> QED BY <1>10, <2>1
<1> QED BY <1>1, <1>2, <1>4, <1>11, StayingKeeps DEF SourceStays

\* A step of a drain that comes to nobody and leaves what the source holds.
LEMMA QuietKeeps ==
  ASSUME CatalogueInv, SourceStays, store' \in Stores, store'.entries = store.entries,
         watch' = watch, OneDrain', drain' \in [Producers -> Drains],
         \A w \in Watches : SameToward(w)
  PROVE  CatalogueInv'
<1>1. CatalogueTypes /\ OutboxRises BY DEF CatalogueInv
<1>2. SourceMoves BY <1>1, StayingMoves
<1>3. OutboxRises' BY <1>1 DEF OutboxRises, SourceStays
<1>4. CatalogueTypes' BY <1>1 DEF CatalogueTypes, SourceStays, EntriesAt
<1>5. ASSUME NEW w \in Watching' PROVE w \in Watching /\ watch'[w] = watch[w] /\ SameToward(w) /\ SourceMoves
  BY <1>2, <1>5 DEF Watching
<1> QED BY <1>3, <1>4, <1>5, Keeping

\* What the steps of p's drain have in common.
LEMMA OthersWait ==
  ASSUME CatalogueTypes, OneDrain, NEW p \in Producers, Draining(p)
  PROVE  \A q \in Producers : q # p => ~Draining(q) /\ drain[q].at # "notify"
  BY DEF OneDrain, Draining

LEMMA PumpKeeps ==
  ASSUME CatalogueInv, NEW p \in Producers, Pump(p)
  PROVE  CatalogueInv'
<1>1. CatalogueTypes /\ OneDrain /\ store \in Stores /\ drain \in [Producers -> Drains]
  BY DEF CatalogueInv, CatalogueTypes
<1>2. drain[p].at \in {"out", "pump"} /\ watch' = watch /\ history' = history BY DEF Pump
<1>3. PICK d : d = [Out EXCEPT !.at = "take", !.left = OutboxSize] OBVIOUS
<1>4. /\ Out \in Drains /\ Out.at = "out"
      /\ d \in Drains /\ d.at = "take"
 <2>1. Out \in Drains /\ Out.at = "out" BY DEF Drains, Out
 <2>2. OutboxSize \in Int BY CatalogueAssumption
 <2>3. d \in Drains /\ d.at = "take" BY <1>3, <2>1, <2>2 DEF Drains
 <2> QED BY <2>1, <2>3
<1>5. \/ drain' = [drain EXCEPT ![p] = Out] /\ store' = store
      \/ ~store.draining /\ drain' = [drain EXCEPT ![p] = d] /\ store' = [store EXCEPT !.draining = TRUE]
  BY <1>3 DEF Pump
<1>6. /\ drain' \in [Producers -> Drains] /\ drain'[p].at \in {"out", "take"}
      /\ \A q \in Producers : q # p => drain'[q] = drain[q]
  BY <1>1, <1>4, <1>5
<1>7. store' \in Stores /\ store'.entries = store.entries /\ SourceStays BY <1>1, <1>2, <1>5 DEF Stores, SourceStays
<1>8. Waiting' = Waiting BY <1>1, <1>7, StayingMoves
<1>9. OneDrain'
 <2>1. \A q \in Producers : drain'[q].at = "notify" => q # p BY <1>6
 <2>2. ASSUME NEW q \in Producers, drain'[q].at = "notify"
       PROVE  /\ drain'[q].change \in 1 .. store'.revision /\ drain'[q].lost <= store'.lost
              /\ \A x \in Waiting' : drain'[q].change < x
  <3>1. drain'[q] = drain[q] /\ drain[q].at = "notify" BY <1>6, <2>1, <2>2
  <3> QED BY <1>1, <1>7, <1>8, <3>1 DEF OneDrain, SourceStays
 <2>3. CASE drain' = [drain EXCEPT ![p] = Out] /\ store' = store
  <3>1. \A q \in Producers : Draining(q)' => Draining(q) BY <1>1, <1>4, <1>6, <2>3 DEF Draining
  <3> QED BY <1>1, <2>2, <2>3, <3>1 DEF OneDrain
 <2>4. CASE ~store.draining /\ store' = [store EXCEPT !.draining = TRUE]
  <3>1. store'.draining BY <1>1, <2>4 DEF Stores
  <3>2. \A q \in Producers : ~Draining(q) BY <1>1, <2>4 DEF OneDrain
  <3>3. \A q \in Producers : Draining(q)' => q = p BY <1>6, <3>2 DEF Draining
  <3> QED BY <2>2, <3>1, <3>3 DEF OneDrain
 <2> QED BY <1>5, <2>3, <2>4
<1>10. \A w \in Watches : SameToward(w) BY <1>2, <1>6 DEF SameToward, Holds
<1> QED BY <1>2, <1>6, <1>7, <1>9, <1>10, QuietKeeps

\* A step of p's drain that is not with a change before or not after.
LEMMA DrainKeeps ==
  ASSUME CatalogueInv, NEW p \in Producers, NEW d \in Drains, drain' = [drain EXCEPT ![p] = d],
         Draining(p), d.at # "notify", drain[p].at = "notify" => drain[p].to = {},
         SourceStays, store' \in Stores, store'.entries = store.entries, watch' = watch,
         store'.draining \/ d.at = "out"
  PROVE  CatalogueInv'
<1>1. CatalogueTypes /\ OneDrain /\ drain \in [Producers -> Drains] BY DEF CatalogueInv, CatalogueTypes
<1>2. \A q \in Producers : q # p => ~Draining(q) /\ drain[q].at # "notify" BY <1>1, OthersWait
<1>3. /\ drain' \in [Producers -> Drains] /\ drain'[p] = d
      /\ \A q \in Producers : q # p => drain'[q] = drain[q]
  BY <1>1
<1>4. \A q \in Producers : drain'[q].at # "notify" /\ (Draining(q)' => q = p) BY <1>2, <1>3 DEF Draining
<1>5. \A q \in Producers : Draining(q)' => store'.draining BY <1>3, <1>4 DEF Draining
<1>6. OneDrain' BY <1>4, <1>5 DEF OneDrain
<1>7. \A w \in Watches : SameToward(w) BY <1>2, <1>4 DEF SameToward, Holds
<1> QED BY <1>3, <1>6, <1>7, QuietKeeps

LEMMA DrainsKeepAll ==
  ASSUME CatalogueInv, NEW p \in Producers,
         Notified(p) \/ EndDrain(p) \/ (Take(p) /\ (store.outbox = <<>> \/ drain[p].left = 0))
  PROVE  CatalogueInv'
<1>1. CatalogueTypes /\ OneDrain /\ drain \in [Producers -> Drains] /\ store \in Stores /\ drain[p] \in Drains
  BY DEF CatalogueInv, CatalogueTypes
<1>2. CASE EndDrain(p)
 <2>1. drain' = [drain EXCEPT ![p] = Out] /\ Draining(p) /\ drain[p].at # "notify" /\ watch' = watch
   BY <1>2 DEF EndDrain, Draining
 <2>2. store' \in Stores /\ store'.entries = store.entries /\ SourceStays
   BY <1>1, <1>2 DEF EndDrain, Stores, SourceStays
 <2>3. Out \in Drains /\ Out.at = "out" BY DEF Out, Drains
 <2> QED BY <2>1, <2>2, <2>3, DrainKeeps
<1>3. CASE ~EndDrain(p)
 <2>1. PICK at \in {"take", "end"} : /\ drain' = [drain EXCEPT ![p].at = at] /\ store' = store /\ history' = history
                                    /\ watch' = watch /\ Draining(p) /\ (drain[p].at = "notify" => drain[p].to = {})
   BY <1>3 DEF Notified, Take, Draining
 <2>2. PICK d : d = [drain[p] EXCEPT !.at = at] OBVIOUS
 <2>3. d \in Drains /\ d.at = at BY <1>1, <2>2 DEF Drains
 <2>4. drain' = [drain EXCEPT ![p] = d] BY <1>1, <2>1, <2>2
 <2>5. store.draining /\ SourceStays BY <1>1, <2>1 DEF OneDrain, SourceStays
 <2> QED BY <1>1, <2>1, <2>3, <2>4, <2>5, DrainKeeps
<1> QED BY <1>2, <1>3

LEMMA TakeKeeps ==
  ASSUME CatalogueInv, NEW p \in Producers, Take(p), ~(store.outbox = <<>> \/ drain[p].left = 0)
  PROVE  CatalogueInv'
<1>1. /\ CatalogueTypes /\ OutboxRises /\ OneDrain /\ drain \in [Producers -> Drains] /\ store \in Stores
      /\ drain[p].left \in Int /\ store.revision \in Nat /\ store.lost \in Nat
  BY StoreTypes, DrainTypes DEF CatalogueInv, CatalogueTypes
<1>2. /\ drain[p].at = "take" /\ store' = [store EXCEPT !.outbox = Tail(@)] /\ watch' = watch /\ history' = history
      /\ drain' = [drain EXCEPT ![p] = [at |-> "notify", left |-> @.left - 1,
                             change |-> Head(store.outbox), lost |-> store.lost, to |-> Watching]]
  BY DEF Take
<1>3. PICK h, k : h = Head(store.outbox) /\ k = Tail(store.outbox) OBVIOUS
<1>4. /\ Rising(k, store.revision) /\ h \in 1 .. store.revision
      /\ Waiting = ToSet(k) \cup {h} /\ \A x \in ToSet(k) : h < x
  BY <1>1, <1>3, RisingTail DEF OutboxRises, Waiting
<1>5. k \in Seq(Nat) BY <1>4 DEF Rising
<1>6. /\ store' \in Stores /\ store'.entries = store.entries /\ store'.revision = store.revision /\ store'.outbox = k
      /\ store'.lost = store.lost /\ store'.draining = store.draining /\ store'.closed = store.closed
  BY <1>1, <1>2, <1>3, <1>5 DEF Stores
<1>7. PICK d : d = [at |-> "notify", left |-> drain[p].left - 1, change |-> h, lost |-> store.lost, to |-> Watching]
  OBVIOUS
<1>8. d \in Drains /\ d.at = "notify" /\ d.change = h /\ d.lost = store.lost /\ d.to = Watching
  BY <1>1, <1>4, <1>7 DEF Drains, Watching
<1>9. drain' = [drain EXCEPT ![p] = d] BY <1>1, <1>2, <1>3, <1>7
<1>10. /\ drain' \in [Producers -> Drains] /\ drain'[p] = d
       /\ \A q \in Producers : q # p => drain'[q] = drain[q]
  BY <1>1, <1>8, <1>9
<1>11. /\ Draining(p) /\ drain[p].at # "notify"
       /\ \A q \in Producers : q # p => ~Draining(q) /\ drain[q].at # "notify"
  BY <1>1, <1>2, OthersWait DEF Draining
<1>12. Waiting' = ToSet(k) BY <1>6 DEF Waiting
<1>13. OneDrain'
 <2>1. \A q \in Producers : (Draining(q)' => q = p) /\ (drain'[q].at = "notify" => q = p) BY <1>10, <1>11 DEF Draining
 <2>2. store.draining BY <1>1, <1>11 DEF OneDrain
 <2>3. drain'[p].change \in 1 .. store'.revision /\ drain'[p].lost <= store'.lost BY <1>1, <1>4, <1>6, <1>8, <1>10
 <2>4. \A x \in Waiting' : drain'[p].change < x BY <1>4, <1>8, <1>10, <1>12
 <2> QED BY <1>6, <2>1, <2>2, <2>3, <2>4 DEF OneDrain
<1>14. CatalogueTypes' BY <1>1, <1>2, <1>6, <1>10 DEF CatalogueTypes, EntriesAt
<1>15. OutboxRises' BY <1>4, <1>6 DEF OutboxRises
<1>16. ASSUME NEW w \in Watching' PROVE Follows(w)'
 <2>1. w \in Watches /\ w \in Watching /\ Follows(w) /\ watch'[w] = watch[w] BY <1>2, <1>16 DEF Watching, CatalogueInv
 <2>2. /\ watch[w].seen \in Nat /\ watch[w].seeded \in Nat /\ watch[w].seedLost \in Nat /\ watch[w].knownLost \in Nat
   BY <1>1, <2>1, WatchTypes
 <2>3. \A q \in Producers : ~Holds(q, w) /\ (Holds(q, w)' <=> q = p) BY <1>8, <1>10, <1>11, <2>1 DEF Holds
 <2>4. KnowsBounds(w)' /\ Shows(w)' BY <1>2, <1>6, <2>1 DEF Follows, KnowsBounds, Shows, EntriesAt
 <2>5. ASSUME ~store'.closed PROVE Reaches(w)'
  <3>1. SUFFICES ASSUME NEW r \in 1 .. store'.revision, r > watch[w].seeded
                 PROVE  \/ r <= watch[w].seen \/ history[r].silent \/ store.lost > watch[w].seedLost
                        \/ r \in Waiting' \/ \E q \in Producers : Holds(q, w)' /\ drain'[q].change = r
    BY <1>2, <1>6, <2>1 DEF Reaches
  <3>2. \/ r <= watch[w].seen \/ history[r].silent \/ store.lost > watch[w].seedLost \/ r \in Waiting
    BY <1>6, <2>1, <2>3, <2>5, <3>1 DEF Follows, Reaches
  <3>3. CASE r = h BY <1>8, <1>10, <2>3, <3>3
  <3> QED BY <1>4, <1>12, <3>2, <3>3
 <2>6. ASSUME ~store'.closed PROVE Overtakes(w)'
  <3>1. \A r \in 1 .. store.revision : watch[w].seeded < r /\ r < h =>
            r <= watch[w].seen \/ history[r].silent \/ store.lost > watch[w].seedLost
   <4>1. SUFFICES ASSUME NEW r \in 1 .. store.revision, watch[w].seeded < r, r < h
                  PROVE  r <= watch[w].seen \/ history[r].silent \/ store.lost > watch[w].seedLost
     OBVIOUS
   <4>2. r \notin Waiting BY <1>4, <4>1
   <4>3. r > watch[w].seeded BY <2>2, <4>1
   <4> QED BY <1>6, <2>1, <2>3, <2>6, <4>2, <4>3 DEF Follows, Reaches
  <3>2. watch[w].knownLost <= store.lost BY <2>1 DEF Follows, KnowsBounds
  <3> QED BY <1>2, <1>6, <1>8, <1>10, <2>1, <2>3, <3>1, <3>2 DEF Overtakes
 <2> QED BY <2>4, <2>5, <2>6 DEF Follows
<1> QED BY <1>13, <1>14, <1>15, <1>16 DEF CatalogueInv

\* The watch a change is delivered to, if it is fresh to it.
Fresh(p, w) == watch[w].active /\ drain[p].change > watch[w].seen /\ ~store.closed

\* The catalogue that w builds from its own and the change in p's hand.
Applied(p, w) ==
  LET change == drain[p].change
      before == IF change = 1 THEN NoEntries ELSE history[change - 1].entries
      after == history[change].entries
  IN IF after = NoEntries THEN NoEntries
     ELSE [key \in Keys |-> IF after[key] # before[key] THEN after[key] ELSE watch[w].view[key]]

LEMMA DeliverSteps ==
  ASSUME CatalogueTypes, OneDrain, NEW p \in Producers, NEW w \in Watches, Deliver(p, w)
  PROVE  /\ drain' \in [Producers -> Drains] /\ watch' \in [Watches -> WatchStates]
         /\ store' = store /\ history' = history
         /\ drain'[p] = [drain[p] EXCEPT !.to = @ \ {w}] /\ \A q \in Producers : q # p => drain'[q] = drain[q]
         /\ \A v \in Watches : v # w => watch'[v] = watch[v]
         /\ ~Fresh(p, w) => watch'[w] = watch[w]
         /\ Fresh(p, w) => watch'[w] = [watch[w] EXCEPT !.seen = drain[p].change, !.knownLost = drain[p].lost,
                                            !.view = Applied(p, w)]
         /\ Applied(p, w) \in [Keys -> Nat]
<1>1. /\ drain \in [Producers -> Drains] /\ watch \in [Watches -> WatchStates] /\ store \in Stores
      /\ drain[p] \in Drains /\ watch[w] \in WatchStates /\ store.revision \in Nat
      /\ drain[p].change \in Nat /\ drain[p].lost \in Nat /\ history \in Seq(Past) /\ Len(history) = store.revision
      /\ watch[w].view \in [Keys -> Nat]
  BY StoreTypes, DrainTypes, WatchTypes DEF CatalogueTypes
<1>2. drain[p].at = "notify" /\ drain[p].change \in 1 .. store.revision BY DEF OneDrain, Deliver
<1>3. Applied(p, w) \in [Keys -> Nat]
 <2>1. history[drain[p].change] \in Past BY <1>1, <1>2, ElementOfSeq
 <2>2. history[drain[p].change].entries \in [Keys -> Nat] BY <2>1 DEF Past
 <2> QED BY <1>1, <2>2 DEF Applied, NoEntries
<1>4. PICK next : next = [watch[w] EXCEPT !.seen = drain[p].change, !.knownLost = drain[p].lost,
                                              !.view = Applied(p, w)]
  OBVIOUS
<1>5. next \in WatchStates BY <1>1, <1>3, <1>4 DEF WatchStates
<1>6. watch' = [watch EXCEPT ![w] = IF ~Fresh(p, w) THEN watch[w] ELSE next] /\ store' = store /\ history' = history
 <2>1. PICK seen, knownLost, view : seen = drain[p].change /\ knownLost = drain[p].lost /\ view = Applied(p, w) OBVIOUS
 <2>2. watch' = [watch EXCEPT ![w] = IF ~Fresh(p, w) THEN watch[w]
                    ELSE [watch[w] EXCEPT !.seen = seen, !.knownLost = knownLost, !.view = view]]
  <3>1. CASE ~Fresh(p, w) BY <1>1, <3>1 DEF Deliver, Fresh
  <3>2. CASE Fresh(p, w) BY <1>1, <2>1, <3>2 DEF Deliver, Fresh, Applied
  <3> QED BY <3>1, <3>2
 <2> QED BY <1>4, <2>1, <2>2 DEF Deliver
<1>7. PICK d : d = [drain[p] EXCEPT !.to = @ \ {w}] OBVIOUS
<1>8. d \in Drains BY <1>1, <1>7 DEF Drains
<1>9. drain' = [drain EXCEPT ![p] = d] BY <1>1, <1>7 DEF Deliver
<1> QED BY <1>1, <1>3, <1>4, <1>5, <1>6, <1>7, <1>8, <1>9

\* A fresh change is the next one the watch has to see, if none was lost.
LEMMA FreshShows ==
  ASSUME CatalogueInv, NEW p \in Producers, NEW w \in Watches, Holds(p, w), Fresh(p, w),
         drain[p].lost = watch[w].seedLost,
         \A r \in 1 .. store.revision : watch[w].seeded < r /\ r <= drain[p].change => ~history[r].silent
  PROVE  Applied(p, w) = EntriesAt(drain[p].change)
<1>1. CatalogueTypes /\ OneDrain /\ KnowsBounds(w) /\ Shows(w) /\ Overtakes(w)
  BY DEF CatalogueInv, Follows, Fresh, Watching
<1>2. /\ watch[w].seen \in Nat /\ watch[w].seeded \in Nat /\ watch[w].seedLost \in Nat /\ watch[w].knownLost \in Nat
      /\ watch[w].view \in [Keys -> Nat] /\ store.revision \in Nat
      /\ drain[p].change \in Nat /\ drain[p].lost \in Nat /\ history \in Seq(Past) /\ Len(history) = store.revision
  BY <1>1, StoreTypes, DrainTypes, WatchTypes DEF CatalogueTypes
<1>3. drain[p].change \in 1 .. store.revision /\ drain[p].change > watch[w].seen BY <1>1 DEF OneDrain, Holds, Fresh
<1>4. PICK c \in Nat, e \in Nat : c = drain[p].change /\ e = c - 1 BY <1>2, <1>3
<1>5. /\ watch[w].knownLost <= drain[p].lost
      /\ \A r \in 1 .. store.revision : watch[w].seeded < r /\ r < c =>
              r <= watch[w].seen \/ history[r].silent \/ drain[p].lost > watch[w].seedLost
  BY <1>1, <1>3, <1>4 DEF Overtakes
<1>6. e = watch[w].seen
 <2>1. e >= watch[w].seen /\ watch[w].seeded <= watch[w].seen BY <1>1, <1>2, <1>3, <1>4 DEF KnowsBounds
 <2>2. SUFFICES ASSUME e > watch[w].seen PROVE FALSE BY <1>2, <2>1
 <2>3. e \in 1 .. store.revision /\ watch[w].seeded < e /\ e < c /\ e <= c BY <1>2, <1>3, <1>4, <2>1, <2>2
 <2>4. ~history[e].silent BY <1>4, <2>3
 <2>5. e <= watch[w].seen \/ drain[p].lost > watch[w].seedLost BY <1>5, <2>3, <2>4
 <2> QED BY <1>2, <2>2, <2>5
<1>7. watch[w].knownLost = watch[w].seedLost BY <1>1, <1>2, <1>5 DEF KnowsBounds
<1>8. \A r \in 1 .. store.revision : watch[w].seeded < r /\ r <= watch[w].seen => ~history[r].silent BY <1>2, <1>3
<1>9. watch[w].view = EntriesAt(e) BY <1>1, <1>6, <1>7, <1>8 DEF Shows
<1>10. EntriesAt(e) = IF c = 1 THEN NoEntries ELSE history[c - 1].entries BY <1>2, <1>3, <1>4 DEF EntriesAt
<1>11. PICK after : after = history[c].entries OBVIOUS
<1>12. after \in [Keys -> Nat] /\ EntriesAt(c) = after
 <2>1. history[c] \in Past BY <1>2, <1>3, <1>4, ElementOfSeq
 <2> QED BY <1>3, <1>4, <1>11, <2>1 DEF Past, EntriesAt
<1>13. Applied(p, w) = IF after = NoEntries THEN NoEntries
                       ELSE [key \in Keys |-> IF after[key] # watch[w].view[key] THEN after[key] ELSE watch[w].view[key]]
  BY <1>4, <1>9, <1>10, <1>11 DEF Applied
<1>14. Applied(p, w) = after
 <2>1. CASE after = NoEntries BY <1>13, <2>1
 <2>2. CASE after # NoEntries
  <3>1. Applied(p, w) = [key \in Keys |-> after[key]] BY <1>2, <1>13, <2>2
  <3> QED BY <1>12, <3>1
 <2> QED BY <2>1, <2>2
<1> QED BY <1>4, <1>12, <1>14

LEMMA DeliverFollows ==
  ASSUME CatalogueInv, NEW p \in Producers, NEW w \in Watches, Deliver(p, w), w \in Watching'
  PROVE  Follows(w)'
<1>1. /\ CatalogueTypes /\ OneDrain /\ drain \in [Producers -> Drains] /\ watch[w] \in WatchStates
  BY DEF CatalogueInv, CatalogueTypes
<1>2. /\ store' = store /\ history' = history /\ \A q \in Producers : q # p => drain'[q] = drain[q]
      /\ drain'[p] = [drain[p] EXCEPT !.to = @ \ {w}]
      /\ ~Fresh(p, w) => watch'[w] = watch[w]
      /\ Fresh(p, w) => watch'[w] = [watch[w] EXCEPT !.seen = drain[p].change, !.knownLost = drain[p].lost,
                                         !.view = Applied(p, w)]
  BY <1>1, DeliverSteps
<1>3. Holds(p, w) /\ drain[p].change \in 1 .. store.revision /\ drain[p].lost <= store.lost
  BY <1>1 DEF Deliver, Holds, OneDrain
<1>4. \A q \in Producers : ~Holds(q, w)'
 <2>1. w \notin drain'[p].to BY <1>1, <1>2 DEF Drains
 <2>2. \A q \in Producers : q # p => drain[q].at # "notify" BY <1>1, <1>3, OthersWait DEF Holds, Draining
 <2> QED BY <1>2, <2>1, <2>2 DEF Holds
<1>5. Overtakes(w)' BY <1>4 DEF Overtakes
<1>6. watch[w].active /\ w \in Watching BY <1>1, <1>2 DEF Watching, WatchStates
<1>7. Follows(w) BY <1>6 DEF CatalogueInv
<1>8. /\ watch[w].seen \in Nat /\ watch[w].seeded \in Nat /\ watch[w].seedLost \in Nat /\ watch[w].knownLost \in Nat
      /\ store.revision \in Nat /\ store.lost \in Nat /\ drain[p].change \in Nat /\ drain[p].lost \in Nat
  BY <1>1, StoreTypes, DrainTypes, WatchTypes
<1>9. CASE ~Fresh(p, w)
 <2>1. watch'[w] = watch[w] /\ (drain[p].change <= watch[w].seen \/ store.closed) BY <1>2, <1>6, <1>8, <1>9 DEF Fresh
 <2>2. KnowsBounds(w)' /\ Shows(w)' BY <1>2, <1>7, <2>1 DEF Follows, KnowsBounds, Shows, EntriesAt
 <2>3. ASSUME ~store'.closed PROVE Reaches(w)'
  <3>1. SUFFICES ASSUME NEW r \in 1 .. store.revision, r > watch[w].seeded
                 PROVE  r <= watch[w].seen \/ history[r].silent \/ store.lost > watch[w].seedLost \/ r \in Waiting
    BY <1>2, <2>1 DEF Reaches, Waiting
  <3>2. \/ r <= watch[w].seen \/ history[r].silent \/ store.lost > watch[w].seedLost
        \/ r \in Waiting \/ \E q \in Producers : Holds(q, w) /\ drain[q].change = r
    BY <1>2, <1>7, <2>3, <3>1 DEF Follows, Reaches
  <3>3. ASSUME NEW q \in Producers, Holds(q, w) PROVE q = p BY <1>1, <1>3, <3>3 DEF OneDrain, Holds, Draining
  <3> QED BY <1>2, <2>1, <2>3, <3>2, <3>3
 <2> QED BY <1>5, <2>2, <2>3 DEF Follows
<1>10. CASE Fresh(p, w)
 <2>1. PICK c \in Nat, k \in Nat : c = drain[p].change /\ k = drain[p].lost BY <1>8
 <2>2. /\ watch'[w].seen = c /\ watch'[w].knownLost = k /\ watch'[w].view = Applied(p, w)
       /\ watch'[w].seeded = watch[w].seeded /\ watch'[w].seedLost = watch[w].seedLost
   BY <1>1, <1>2, <1>10, <2>1 DEF WatchStates
 <2>3. c > watch[w].seen /\ c <= store.revision /\ k <= store.lost /\ ~store.closed /\ c # 0
   BY <1>3, <1>8, <1>10, <2>1 DEF Fresh
 <2>4. watch[w].knownLost <= k BY <1>3, <1>7, <2>1, <2>3 DEF Follows, Overtakes
 <2>5. KnowsBounds(w)' BY <1>2, <1>7, <1>8, <2>2, <2>3, <2>4 DEF Follows, KnowsBounds
 <2>6. Shows(w)'
  <3>1. SUFFICES ASSUME k = watch[w].seedLost,
                        \A r \in 1 .. store.revision : watch[w].seeded < r /\ r <= c => ~history[r].silent
                 PROVE  Applied(p, w) = EntriesAt(c)
    BY <1>2, <2>2 DEF Shows, EntriesAt
  <3> QED BY <1>3, <1>10, <2>1, <3>1, FreshShows
 <2>7. Reaches(w)'
  <3>1. SUFFICES ASSUME NEW r \in 1 .. store.revision, r > watch[w].seeded
                 PROVE  r <= c \/ history[r].silent \/ store.lost > watch[w].seedLost \/ r \in Waiting
    BY <1>2, <2>2 DEF Reaches, Waiting
  <3>2. \/ r <= watch[w].seen \/ history[r].silent \/ store.lost > watch[w].seedLost
        \/ r \in Waiting \/ \E q \in Producers : Holds(q, w) /\ drain[q].change = r
    BY <1>7, <2>3, <3>1 DEF Follows, Reaches
  <3>3. ASSUME NEW q \in Producers, Holds(q, w) PROVE q = p BY <1>1, <1>3, <3>3 DEF OneDrain, Holds, Draining
  <3>4. r \in Nat BY <1>8
  <3>5. CASE r <= watch[w].seen BY <1>8, <2>3, <3>4, <3>5
  <3>6. CASE \E q \in Producers : Holds(q, w) /\ drain[q].change = r BY <2>1, <3>3, <3>4, <3>6
  <3> QED BY <3>2, <3>5, <3>6
 <2> QED BY <1>5, <2>5, <2>6, <2>7 DEF Follows
<1> QED BY <1>9, <1>10

LEMMA DeliverKeeps ==
  ASSUME CatalogueInv, NEW p \in Producers, NEW w \in Watches, Deliver(p, w)
  PROVE  CatalogueInv'
<1>1. /\ CatalogueTypes /\ OutboxRises /\ OneDrain /\ drain \in [Producers -> Drains]
  BY DEF CatalogueInv, CatalogueTypes
<1>2. /\ drain' \in [Producers -> Drains] /\ watch' \in [Watches -> WatchStates]
      /\ store' = store /\ history' = history
      /\ drain'[p] = [drain[p] EXCEPT !.to = @ \ {w}] /\ \A q \in Producers : q # p => drain'[q] = drain[q]
      /\ \A v \in Watches : v # w => watch'[v] = watch[v]
  BY <1>1, DeliverSteps
<1>3. SourceStays /\ Waiting' = Waiting BY <1>2 DEF SourceStays, Waiting
<1>4. SourceMoves BY <1>1, <1>3, StayingMoves
<1>5. /\ drain'[p].at = drain[p].at /\ drain'[p].change = drain[p].change /\ drain'[p].lost = drain[p].lost
      /\ drain'[p].to = drain[p].to \ {w}
  BY <1>1, <1>2 DEF Drains
<1>6. \A q \in Producers : /\ drain'[q].at = drain[q].at /\ drain'[q].change = drain[q].change
                           /\ drain'[q].lost = drain[q].lost
  BY <1>2, <1>5
<1>7. OneDrain' BY <1>1, <1>2, <1>3, <1>6 DEF OneDrain, Draining
<1>8. CatalogueTypes' BY <1>1, <1>2 DEF CatalogueTypes, EntriesAt
<1>9. OutboxRises' BY <1>1, <1>2 DEF OutboxRises
<1>10. ASSUME NEW v \in Watching' PROVE Follows(v)'
 <2>1. CASE v = w BY <1>10, <2>1, DeliverFollows
 <2>2. CASE v # w
  <3>1. v \in Watches /\ watch'[v] = watch[v] /\ v \in Watching BY <1>2, <1>10, <2>2 DEF Watching
  <3>2. SameToward(v) BY <1>2, <1>5, <1>6, <2>2 DEF SameToward, Holds
  <3>3. Follows(v) BY <3>1 DEF CatalogueInv
  <3> QED BY <1>1, <1>4, <1>8, <3>1, <3>2, <3>3, MovesKeep
 <2> QED BY <2>1, <2>2
<1> QED BY <1>7, <1>8, <1>9, <1>10 DEF CatalogueInv

--------------------
LEMMA CatalogueStarts ==
    CatalogueInit => CatalogueInv
<1>1. SUFFICES ASSUME CatalogueInit PROVE CatalogueInv OBVIOUS
<1>2. <<>> \in Seq(Nat) /\ <<>> \in Seq(Past) /\ NoEntries \in [Keys -> Nat] /\ Rising(<<>>, 0)
  BY RisingNone, EmptySeq DEF NoEntries, Rising
<1>3. /\ store.entries = NoEntries /\ store.revision = 0 /\ store.outbox = <<>>
      /\ \A w \in Watches : ~watch[w].active
      /\ \A p \in Producers : drain[p].at = "out"
  BY <1>1 DEF CatalogueInit, Absent, Out
<1>4. CatalogueTypes
 <2>1. store \in Stores BY <1>1, <1>2 DEF CatalogueInit, Stores
 <2>2. watch \in [Watches -> WatchStates] /\ drain \in [Producers -> Drains]
   BY <1>1, <1>2 DEF CatalogueInit, WatchStates, Absent, Drains, Out
 <2>3. history \in Seq(Past) /\ Len(history) = 0 BY <1>1, <1>2, EmptySeq DEF CatalogueInit
 <2>4. store.entries = EntriesAt(store.revision) BY <1>3 DEF EntriesAt
 <2> QED BY <1>3, <2>1, <2>2, <2>3, <2>4 DEF CatalogueTypes
<1>5. OutboxRises BY <1>2, <1>3 DEF OutboxRises
<1>6. OneDrain BY <1>3 DEF OneDrain, Draining
<1>7. Watching = {} BY <1>3 DEF Watching
<1> QED BY <1>4, <1>5, <1>6, <1>7 DEF CatalogueInv

LEMMA CatalogueKept ==
    CatalogueInv /\ [CatalogueNext]_catalogueVars => CatalogueInv'
<1>1. SUFFICES ASSUME CatalogueInv, [CatalogueNext]_catalogueVars PROVE CatalogueInv' OBVIOUS
<1>2. CASE UNCHANGED catalogueVars
 <2>1. store' = store /\ watch' = watch /\ drain' = drain /\ history' = history BY <1>2 DEF catalogueVars
 <2>2. store \in Stores /\ watch \in [Watches -> WatchStates] /\ SourceStays
   BY <1>1, <2>1 DEF CatalogueInv, CatalogueTypes, SourceStays
 <2> QED BY <1>1, <2>1, <2>2, StayingKeeps DEF Watching
<1>3. ASSUME NEW p \in Producers, \/ \E k \in Keys : Publish(p, k) \/ Replace(p, k)
                                  \/ ClearCatalogue(p) \/ Pump(p) \/ Take(p) \/ Notified(p) \/ EndDrain(p)
                                  \/ \E w \in Watches : Deliver(p, w)
      PROVE  CatalogueInv'
  BY <1>1, <1>3, ChangeKeeps, PumpKeeps, TakeKeeps, DrainsKeepAll, DeliverKeeps
<1>4. ASSUME Discard \/ CloseStore \/ Route PROVE CatalogueInv' BY <1>1, <1>4, DiscardKeeps, CloseKeeps, RouteKeeps
<1>5. ASSUME NEW w \in Watches, Watch(w) \/ Unwatch(w) PROVE CatalogueInv' BY <1>1, <1>5, WatchKeeps, UnwatchKeeps
<1> QED BY <1>1, <1>2, <1>3, <1>4, <1>5 DEF CatalogueNext

LEMMA FollowsCatalogue ==
    CatalogueInv => WatchFollowsCatalogue
<1>1. SUFFICES ASSUME CatalogueInv, NEW w \in Watches, watch[w].active, watch[w].knownLost = watch[w].seedLost,
                      \A r \in (watch[w].seeded + 1) .. watch[w].seen : ~history[r].silent
               PROVE  watch[w].view = IF watch[w].seen = 0 THEN NoEntries ELSE history[watch[w].seen].entries
  BY DEF WatchFollowsCatalogue
<1>2. CatalogueTypes /\ Shows(w) /\ KnowsBounds(w) BY <1>1 DEF CatalogueInv, Follows, Watching
<1>3. store.revision \in Nat /\ watch[w].seen \in Nat /\ watch[w].seeded \in Nat BY <1>2, StoreTypes, WatchTypes
<1>4. \A r \in 1 .. store.revision : watch[w].seeded < r /\ r <= watch[w].seen => ~history[r].silent BY <1>1, <1>3
<1> QED BY <1>1, <1>2, <1>4 DEF Shows, EntriesAt

\* A watch of a catalogue that has been told of no loss since its seed shows
\* the catalogue of the revision it has seen (AssetCatalogue, commit() to
\* deliver()): for any keys, producers, watches and size of the outbox, and
\* any number of revisions.
THEOREM CatalogueFollowed == CatalogueSpec => []WatchFollowsCatalogue
<1>1. CatalogueSpec => []CatalogueInv BY CatalogueStarts, CatalogueKept, PTL DEF CatalogueSpec
<1> QED BY <1>1, FollowsCatalogue, PTL

\* ---- The two loops. ----
USE DEF slotVars, inputVars, flagVars, simVars, platVars, clockVars, timerVars, waitVars, outerVars

--------------------
\* The parts of the state, and the steps that concern each.

SlotTypes ==
  /\ slot \in [Slots -> {"Free", "Writing", "Ready", "Rendering", "Retired", "Recycling"}]
  /\ frame \in [Slots -> 0..MaxUpdates] /\ ready \in {0} \cup Slots
  /\ writable \in {0} \cup Slots /\ updates \in 0..MaxUpdates
  /\ scan \in 1..(NumSlots + 1) /\ taken \in {0} \cup Slots /\ current \in {0} \cup Slots
  /\ rendered \in 0..MaxUpdates

InputTypes ==
  /\ backlog \in Seq(0..MaxResizes) /\ window \in 0..MaxResizes
  /\ input \in [window : 0..MaxResizes, poll : 0..MaxResizes]
  /\ selected \in 0..MaxResizes /\ polled \in {NoPoll} \cup 0..MaxResizes
  /\ resized \in 0..MaxResizes /\ polls \in 0..MaxPolls

FlagTypes ==
  /\ simulationReady \in BOOLEAN /\ startReleased \in BOOLEAN /\ workerDone \in BOOLEAN
  /\ workerFailure \in BOOLEAN /\ stop \in BOOLEAN /\ simStarted \in BOOLEAN
  /\ due \in BOOLEAN /\ spaced \in BOOLEAN /\ passedOver \in BOOLEAN
  /\ renderTimed \in BOOLEAN /\ pollTimed \in BOOLEAN

PlaceTypes ==
  /\ simPc \in SimStates /\ resume \in {"none", "init", "update", "deinit"}
  /\ platPc \in PlatStates /\ failure \in {"none", "platform", "worker"}
  /\ asleep \subseteq {"sim", "plat"} /\ notifying \subseteq {"sim", "plat", "stopper"}
  /\ request \in {"none", "posted", "served"} /\ asks \in 0..MaxAsks

\* the platform thread blocks at three places
SleepsInWait == "plat" \in asleep => platPc \in {"sleep", "bootWait", "settling"}

LEMMA TypeParts == TypeOK <=> SlotTypes /\ InputTypes /\ FlagTypes /\ PlaceTypes
BY DEF TypeOK, SlotTypes, InputTypes, FlagTypes, PlaceTypes

SlotSteps == SimPicks \/ SimWrites \/ SimPublishes \/ PlatScans \/ PlatRecycles \/ PlatTakes \/ PlatSwaps
InputSteps == SimConsumes \/ PlatChecks \/ PlatPolls \/ PlatSelects \/ PlatTransfers \/ Resize
Surroundings == (\E t \in {"sim", "plat", "stopper"} : Wake(t)) \/ RequestStop \/ TimePasses

LEMMA SlotsElsewhere ==
  ASSUME [Next]_vars, ~SlotSteps
  PROVE  /\ UNCHANGED <<slot, frame, ready, writable, taken, current>>
         /\ scan' = scan \/ (PlatTransfers /\ scan' = 1)
         /\ updates' = updates \/ SimUpdates
         /\ rendered' = rendered \/ PlatRenders
<1>1. CASE SimStep \/ SimAsks \/ SimThrows
  BY <1>1 DEF SlotSteps, SimStep, SimAnswered, SimBinds, SimInitializes, SimAnnounces, SimAwaitsStart, SimStops,
    SimAdvances, SimConsumes, SimUpdates, SimContinues, SimSkips, SimForces, SimCloses, SimDeinitializes, SimFinishes,
    SimAsks, SimThrows
<1>2. CASE PlatStep \/ PlatStartsThread \/ PlatFailsBoot \/ PlatTimesOut \/ PlatThrows
  BY <1>2 DEF SlotSteps, PlatStep, PlatBegins, PlatBoots, PlatBootWaits, PlatReleases, PlatLoops, PlatChecks, PlatPolls,
    PlatSelects, PlatTransfers, PlatRenders, PlatWaits, PlatWoken, PlatTearsDown, PlatSettles, PlatSettleWaits,
    PlatJoins, PlatStartsThread, PlatFailsBoot, PlatTimesOut, PlatThrows
<1>3. CASE UNCHANGED vars BY <1>3 DEF vars
<1> QED BY <1>1, <1>2, <1>3 DEF SlotSteps, Next, Wake, RequestStop, TimePasses, Resize

LEMMA InputElsewhere ==
  ASSUME [Next]_vars, ~InputSteps
  PROVE  UNCHANGED <<backlog, window, input, selected, polled, resized, polls>>
<1>1. CASE SimStep \/ SimAsks \/ SimThrows
  BY <1>1 DEF InputSteps, SimStep, SimAnswered, SimBinds, SimInitializes, SimAnnounces, SimAwaitsStart, SimStops,
    SimAdvances, SimUpdates, SimContinues, SimPicks, SimSkips, SimWrites, SimPublishes, SimForces, SimCloses,
    SimDeinitializes, SimFinishes, SimAsks, SimThrows
<1>2. CASE PlatStep \/ PlatStartsThread \/ PlatFailsBoot \/ PlatTimesOut \/ PlatThrows
  BY <1>2 DEF InputSteps, PlatStep, PlatBegins, PlatBoots, PlatBootWaits, PlatReleases, PlatLoops, PlatScans,
    PlatRecycles, PlatTakes, PlatSwaps, PlatRenders, PlatWaits, PlatWoken, PlatTearsDown, PlatSettles, PlatSettleWaits,
    PlatJoins, PlatStartsThread, PlatFailsBoot, PlatTimesOut, PlatThrows
<1>3. CASE UNCHANGED vars BY <1>3 DEF vars
<1> QED BY <1>1, <1>2, <1>3 DEF InputSteps, Next, Wake, RequestStop, TimePasses

--------------------
\* Where the threads are.

SimPlaces ==
  /\ simPc \in SimStates /\ resume \in {"none", "init", "update", "deinit"}
  /\ simPc = "asking" => resume # "none"
  /\ simPc \in {"step", "update"} \/ (simPc = "asking" /\ resume = "update") => updates < MaxUpdates

LEMMA SimPlacesStep ==
  ASSUME SlotTypes, SimPlaces, [Next]_vars
  PROVE  SimPlaces'
<1>1. CASE SimUpdates BY <1>1, HandoffAssumption DEF SimPlaces, SlotTypes, SimStates, ReplacesReady, SimUpdates
<1>2. CASE SimAnnounces \/ SimAwaitsStart
  BY <1>2, HandoffAssumption DEF SimPlaces, SlotTypes, SimStates, ReplacesReady, SimAnnounces, SimAwaitsStart
<1>3. CASE SimAnswered \/ SimBinds \/ SimInitializes \/ SimStops \/ SimAdvances \/ SimConsumes
  BY <1>3, HandoffAssumption DEF SimPlaces, SlotTypes, SimStates, ReplacesReady, SimAnswered, SimBinds, SimInitializes,
    SimStops, SimAdvances, SimConsumes
<1>4. CASE SimContinues \/ SimPicks \/ SimSkips \/ SimWrites \/ SimPublishes \/ SimForces
  BY <1>4, HandoffAssumption DEF SimPlaces, SlotTypes, SimStates, ReplacesReady, SimContinues, SimPicks, SimSkips,
    SimWrites, SimPublishes, SimForces
<1>5. CASE SimCloses \/ SimDeinitializes \/ SimFinishes \/ SimAsks \/ SimThrows
  BY <1>5, HandoffAssumption DEF SimPlaces, SlotTypes, SimStates, ReplacesReady, SimCloses, SimDeinitializes,
    SimFinishes, SimAsks, SimThrows
<1>6. CASE PlatBegins \/ PlatBoots \/ PlatBootWaits \/ PlatReleases \/ PlatLoops \/
           PlatChecks \/ PlatPolls \/ PlatSelects \/ PlatTransfers \/ PlatScans \/
           PlatRecycles \/ PlatTakes \/ PlatSwaps \/ PlatRenders \/ PlatWaits \/
           PlatWoken \/ PlatTearsDown \/ PlatSettles \/ PlatSettleWaits \/ PlatJoins \/
           PlatStartsThread \/ PlatFailsBoot \/ PlatTimesOut \/ PlatThrows
  BY <1>6, HandoffAssumption DEF SimPlaces, SlotTypes, SimStates, ReplacesReady, PlatBegins, PlatBoots, PlatBootWaits,
    PlatReleases, PlatLoops, PlatChecks, PlatPolls, PlatSelects, PlatTransfers, PlatScans, PlatRecycles, PlatTakes,
    PlatSwaps, PlatRenders, PlatWaits, PlatWoken, PlatTearsDown, PlatSettles, PlatSettleWaits, PlatJoins,
    PlatStartsThread, PlatFailsBoot, PlatTimesOut, PlatThrows
<1>7. CASE Surroundings \/ Resize \/ UNCHANGED vars
  BY <1>7, HandoffAssumption DEF SimPlaces, SlotTypes, SimStates, Surroundings, vars, ReplacesReady, Wake, RequestStop,
    TimePasses, Resize
<1> QED BY <1>1, <1>2, <1>3, <1>4, <1>5, <1>6, <1>7 DEF Next, SimStep, PlatStep, Surroundings

LEMMA PlatPlacesStep ==
  ASSUME platPc \in PlatStates, failure \in {"none", "platform", "worker"}, [Next]_vars, SleepsInWait
  PROVE  /\ platPc' \in PlatStates /\ failure' \in {"none", "platform", "worker"}
         /\ SleepsInWait'
<1>1. CASE SimAnnounces \/ SimAwaitsStart
  BY <1>1 DEF SleepsInWait, PlatStates, PreserveWorkerFailure, BootSettled, WorkWaiting, SimAwake, PlatAwake,
    SimAnnounces, SimAwaitsStart
<1>2. CASE SimAnswered \/ SimBinds \/ SimInitializes \/ SimStops \/ SimAdvances \/
           SimConsumes \/ SimContinues \/ SimPicks \/ SimSkips \/ SimWrites \/
           SimPublishes \/ SimForces \/ SimCloses \/ SimDeinitializes \/ SimFinishes \/
           SimAsks \/ SimThrows \/ SimUpdates
  BY <1>2 DEF SleepsInWait, PlatStates, PreserveWorkerFailure, BootSettled, WorkWaiting, SimAwake, PlatAwake,
    SimAnswered, SimBinds, SimInitializes, SimStops, SimAdvances, SimConsumes, SimContinues, SimPicks, SimSkips,
    SimWrites, SimPublishes, SimForces, SimCloses, SimDeinitializes, SimFinishes, SimAsks, SimThrows, SimUpdates
<1>3. CASE PlatBegins \/ PlatBoots \/ PlatBootWaits \/ PlatReleases \/ PlatLoops \/
           PlatChecks \/ PlatPolls \/ PlatSelects \/ PlatTransfers \/ PlatScans \/
           PlatRecycles \/ PlatTakes \/ PlatSwaps \/ PlatRenders \/ PlatWaits \/
           PlatWoken \/ PlatTearsDown \/ PlatSettles \/ PlatSettleWaits \/ PlatJoins \/
           PlatStartsThread \/ PlatFailsBoot \/ PlatTimesOut \/ PlatThrows
  BY <1>3 DEF SleepsInWait, PlatStates, PreserveWorkerFailure, BootSettled, WorkWaiting, SimAwake, PlatAwake,
    PlatBegins, PlatBoots, PlatBootWaits, PlatReleases, PlatLoops, PlatChecks, PlatPolls, PlatSelects, PlatTransfers,
    PlatScans, PlatRecycles, PlatTakes, PlatSwaps, PlatRenders, PlatWaits, PlatWoken, PlatTearsDown, PlatSettles,
    PlatSettleWaits, PlatJoins, PlatStartsThread, PlatFailsBoot, PlatTimesOut, PlatThrows
<1>4. CASE Surroundings \/ Resize \/ UNCHANGED vars
  BY <1>4 DEF SleepsInWait, PlatStates, Surroundings, vars, PreserveWorkerFailure, BootSettled, WorkWaiting, SimAwake,
    PlatAwake, Wake, RequestStop, TimePasses, Resize
<1> QED BY <1>1, <1>2, <1>3, <1>4 DEF Next, SimStep, PlatStep, Surroundings

LEMMA OtherPlacesStep ==
  ASSUME PlaceTypes, [Next]_vars
  PROVE  /\ asleep' \subseteq {"sim", "plat"} /\ notifying' \subseteq {"sim", "plat", "stopper"}
         /\ request' \in {"none", "posted", "served"} /\ asks' \in 0..MaxAsks
<1>1. CASE SimAnnounces \/ SimAwaitsStart
  BY <1>1, HandoffAssumption DEF PlaceTypes, Serve, PumpShutdown, Consume, ReleaseStart, StartPredicate, SimAnnounces,
    SimAwaitsStart
<1>2. CASE SimAsks
  BY <1>2, HandoffAssumption DEF PlaceTypes, Serve, PumpShutdown, Consume, ReleaseStart, StartPredicate, SimAsks
<1>3. CASE SimUpdates \/ SimAnswered \/ SimBinds \/ SimInitializes \/ SimStops \/
           SimAdvances \/ SimConsumes \/ SimContinues \/ SimPicks
  BY <1>3, HandoffAssumption DEF PlaceTypes, Serve, PumpShutdown, Consume, ReleaseStart, StartPredicate, SimUpdates,
    SimAnswered, SimBinds, SimInitializes, SimStops, SimAdvances, SimConsumes, SimContinues, SimPicks
<1>4. CASE SimSkips \/ SimWrites \/ SimPublishes \/ SimForces \/ SimCloses \/
           SimDeinitializes \/ SimFinishes \/ SimThrows
  BY <1>4, HandoffAssumption DEF PlaceTypes, Serve, PumpShutdown, Consume, ReleaseStart, StartPredicate, SimSkips,
    SimWrites, SimPublishes, SimForces, SimCloses, SimDeinitializes, SimFinishes, SimThrows
<1>5. CASE PlatBegins \/ PlatBoots \/ PlatBootWaits \/ PlatReleases \/ PlatLoops \/
           PlatChecks \/ PlatPolls \/ PlatSelects
  BY <1>5, HandoffAssumption DEF PlaceTypes, Serve, PumpShutdown, Consume, ReleaseStart, StartPredicate, PlatBegins,
    PlatBoots, PlatBootWaits, PlatReleases, PlatLoops, PlatChecks, PlatPolls, PlatSelects
<1>6. CASE PlatTransfers \/ PlatScans \/ PlatRecycles \/ PlatTakes \/ PlatSwaps \/
           PlatRenders \/ PlatWaits \/ PlatWoken
  BY <1>6, HandoffAssumption DEF PlaceTypes, Serve, PumpShutdown, Consume, ReleaseStart, StartPredicate, PlatTransfers,
    PlatScans, PlatRecycles, PlatTakes, PlatSwaps, PlatRenders, PlatWaits, PlatWoken
<1>7. CASE PlatTearsDown \/ PlatSettles \/ PlatSettleWaits \/ PlatJoins \/
           PlatStartsThread \/ PlatFailsBoot \/ PlatTimesOut \/ PlatThrows
  BY <1>7, HandoffAssumption DEF PlaceTypes, Serve, PumpShutdown, Consume, ReleaseStart, StartPredicate, PlatTearsDown,
    PlatSettles, PlatSettleWaits, PlatJoins, PlatStartsThread, PlatFailsBoot, PlatTimesOut, PlatThrows
<1>8. CASE Surroundings \/ Resize \/ UNCHANGED vars
  BY <1>8, HandoffAssumption DEF PlaceTypes, Surroundings, vars, Serve, PumpShutdown, Consume, ReleaseStart,
    StartPredicate, Wake, RequestStop, TimePasses, Resize
<1> QED BY <1>1, <1>2, <1>3, <1>4, <1>5, <1>6, <1>7, <1>8 DEF Next, SimStep, PlatStep, Surroundings

LEMMA FlagTypesStep ==
  ASSUME FlagTypes, [Next]_vars
  PROVE  FlagTypes'
<1>0. RenderTimer \in BOOLEAN /\ CanPoll \in BOOLEAN BY DEF RenderTimer, CanPoll
<1>1. CASE SimBinds BY <1>1 DEF FlagTypes, SimBinds
<1>2. CASE SimAnnounces BY <1>2 DEF FlagTypes, SimAnnounces
<1>3. CASE SimThrows BY <1>3 DEF FlagTypes, SimThrows
<1>4. CASE SimForces BY <1>4 DEF FlagTypes, SimForces
<1>5. CASE SimDeinitializes BY <1>5 DEF FlagTypes, SimDeinitializes
<1>6. CASE SimFinishes BY <1>6 DEF FlagTypes, SimFinishes
<1>7. CASE PlatFailsBoot BY <1>7 DEF FlagTypes, PlatFailsBoot
<1>8. CASE PlatReleases BY <1>8 DEF FlagTypes, PlatReleases, ReleaseStart
<1>9. CASE PlatTransfers BY <1>9 DEF FlagTypes, PlatTransfers
<1>10. CASE PlatTakes BY <1>10 DEF FlagTypes, PlatTakes
<1>11. CASE PlatRenders BY <1>11 DEF FlagTypes, PlatRenders
<1>12. CASE PlatWaits BY <1>12, <1>0 DEF FlagTypes, PlatWaits
<1>13. CASE PlatWoken BY <1>13 DEF FlagTypes, PlatWoken, ForgetTimers
<1>14. CASE PlatTimesOut BY <1>14 DEF FlagTypes, PlatTimesOut, ForgetTimers
<1>15. CASE PlatTearsDown BY <1>15 DEF FlagTypes, PlatTearsDown
<1>16. CASE RequestStop BY <1>16 DEF FlagTypes, RequestStop
<1>17. CASE TimePasses BY <1>17 DEF FlagTypes, TimePasses
<1>18. CASE SimAnswered \/ SimInitializes \/ SimAwaitsStart \/ SimStops \/ SimAdvances \/
            SimConsumes \/ SimUpdates \/ SimContinues \/ SimPicks \/ SimSkips \/ SimWrites \/
            SimPublishes \/ SimCloses \/ SimAsks
 <2>1. UNCHANGED <<flagVars, stop, simStarted, clockVars, timerVars>>
   BY <1>18 DEF SimAnswered, SimInitializes, SimAwaitsStart, SimStops, SimAdvances, SimConsumes, SimUpdates,
     SimContinues, SimPicks, SimSkips, SimWrites, SimPublishes, SimCloses, SimAsks
 <2> QED BY <2>1 DEF FlagTypes
<1>19. CASE PlatBegins \/ PlatBoots \/ PlatBootWaits \/ PlatLoops \/ PlatChecks \/ PlatPolls \/
            PlatSelects \/ PlatScans \/ PlatRecycles \/ PlatSwaps \/ PlatSettles \/
            PlatSettleWaits \/ PlatJoins \/ PlatStartsThread \/ PlatThrows
 <2>1. UNCHANGED <<flagVars, stop, simStarted, clockVars, timerVars>>
   BY <1>19 DEF PlatBegins, PlatBoots, PlatBootWaits, PlatLoops, PlatChecks, PlatPolls, PlatSelects, PlatScans,
     PlatRecycles, PlatSwaps, PlatSettles, PlatSettleWaits, PlatJoins, PlatStartsThread, PlatThrows
 <2> QED BY <2>1 DEF FlagTypes
<1>20. CASE UNCHANGED vars \/ Resize \/ \E t \in {"sim", "plat", "stopper"} : Wake(t)
  BY <1>20 DEF FlagTypes, vars, Resize, Wake
<1> QED BY <1>1, <1>2, <1>3, <1>4, <1>5, <1>6, <1>7, <1>8, <1>9, <1>10, <1>11, <1>12, <1>13, <1>14, <1>15, <1>16, <1>17,
   <1>18, <1>19, <1>20 DEF Next, SimStep, PlatStep

--------------------
\* The slots and the frames in them.

\* the platform thread has left its cycle for good
Leaving == {"teardown", "settle", "settling", "join", "finished"}
\* the simulation has left its loop, with or without a slot it was writing
Ending == {"forcing", "closing", "deinit", "finish", "exited"}
\* an update has been made whose frame is not published
Unpublished == {"updated", "pick", "write", "publish"}

SlotsOwned ==
  /\ SlotsHaveOneOwner
  /\ current = taken => current = 0
  /\ simPc \in {"write", "publish"} => writable # 0
  /\ writable # 0 => \/ simPc \in {"write", "publish"} \cup Ending
                     \/ simPc = "asking" /\ resume = "deinit"
  /\ platPc \in {"begin", "start"} => simPc = "unborn"
  /\ platPc = "swap" => taken # 0
  /\ taken # 0 => platPc \in {"swap"} \cup Leaving
  /\ platPc = "recycling" => scan <= NumSlots /\ slot[scan] = "Recycling"

FramesOrdered ==
  /\ simPc \in Unpublished => updates >= 1
  /\ simPc = "publish" => frame[writable] = updates
  /\ \A i \in Slots : i \in {ready, current, taken} =>
        /\ frame[i] >= 1 /\ frame[i] <= updates
        /\ simPc \in Unpublished => frame[i] < updates

InputKept ==
  /\ window <= selected /\ selected <= resized
  /\ \A i \in 1..Len(backlog) : backlog[i] <= window
  /\ input.poll <= input.window
  /\ polled # NoPoll => polled <= resized /\ platPc \in {"select", "transfer"} \cup Leaving
  /\ polled # NoPoll /\ platPc \in {"select", "transfer"} => CanPoll
  /\ platPc = "transfer" => polled <= selected
  /\ platPc = "poll" => polls < MaxPolls /\ CanPoll

LEMMA SlotTypesStep ==
  ASSUME SlotTypes, SlotsOwned, SimPlaces, [Next]_vars
  PROVE  SlotTypes'
<1>1. CASE SimPicks BY <1>1, HandoffAssumption DEF SlotTypes, Slots, SimPlaces, SimPicks, Writable
<1>2. CASE SimWrites BY <1>2, HandoffAssumption DEF SlotTypes, Slots, SimPlaces, SimWrites
<1>3. CASE SimPublishes BY <1>3, HandoffAssumption DEF SlotTypes, Slots, SimPlaces, SimPublishes, ReplacesReady
<1>4. CASE PlatScans BY <1>4, HandoffAssumption DEF SlotTypes, Slots, SlotsOwned, PlatScans
<1>5. CASE PlatRecycles BY <1>5, HandoffAssumption DEF SlotTypes, Slots, SlotsOwned, PlatRecycles
<1>6. CASE PlatTakes BY <1>6, HandoffAssumption DEF SlotTypes, Slots, SimPlaces, PlatTakes
<1>7. CASE PlatSwaps
 <2>1. /\ slot' = slot \/ slot' = [slot EXCEPT ![current] = "Free"]
       /\ frame' = frame \/ frame' = [frame EXCEPT ![current] = 0]
       /\ current' = taken /\ taken' = 0 /\ UNCHANGED <<ready, writable, updates, scan, rendered>>
   BY <1>7 DEF PlatSwaps, GiveBackCurrent
 <2>2. 0 \in 0..MaxUpdates BY HandoffAssumption
 <2> QED BY <2>1, <2>2 DEF SlotTypes
<1>8. CASE SimUpdates BY <1>8, HandoffAssumption DEF SlotTypes, Slots, SimPlaces, SimUpdates
<1>9. CASE PlatRenders BY <1>9, HandoffAssumption DEF SlotTypes, Slots, SimPlaces, PlatRenders, RenderStarts
<1>10. CASE PlatTransfers BY <1>10, HandoffAssumption DEF SlotTypes, Slots, SimPlaces, PlatTransfers, HandOver
<1>11. CASE ~(SlotSteps \/ SimUpdates \/ PlatRenders \/ PlatTransfers) BY <1>11, SlotsElsewhere DEF SlotTypes
<1> QED BY <1>1, <1>2, <1>3, <1>4, <1>5, <1>6, <1>7, <1>8, <1>9, <1>10, <1>11 DEF SlotSteps

SimMoves ==
  /\ simPc' \in {"write", "publish"} => simPc' = simPc
  /\ simPc' \in Unpublished => simPc \in Unpublished \/ SimUpdates
  /\ simPc \in {"write", "publish"} => simPc' \in {"write", "publish"} \cup Ending
  /\ simPc \in Ending => simPc' \in Ending \/ (simPc' = "asking" /\ resume' = "deinit")
  /\ simPc = "asking" /\ resume = "deinit" =>
        resume' = "deinit" /\ simPc' \in {"asking", "deinit"}

PlatMoves ==
  /\ platPc' \in {"swap", "recycling"} => platPc' = platPc
  /\ platPc \in {"swap"} \cup Leaving => platPc' \in {"swap"} \cup Leaving
  /\ platPc \in RecyclingOrLater => platPc' \in RecyclingOrLater
  /\ platPc' \in {"begin", "start"} =>
        platPc \in {"begin", "start"} /\ (simPc = "unborn" => simPc' = "unborn")

LEMMA MovesElsewhere ==
  ASSUME [Next]_vars, ~SlotSteps, SimPlaces, platPc = "start" => simPc = "unborn",
         SleepsInWait
  PROVE  SimMoves /\ PlatMoves
<1>1. CASE PlatStartsThread
  BY <1>1 DEF SleepsInWait, SimMoves, Unpublished, PlatMoves, SimPlaces, Leaving, Ending, RecyclingOrLater, PlatAwake,
    PlatStartsThread
<1>2. CASE SimAnswered \/ SimBinds \/ SimInitializes \/ SimAnnounces \/ SimAwaitsStart \/
           SimStops \/ SimAdvances \/ SimConsumes \/ SimUpdates
  BY <1>2 DEF SleepsInWait, SimMoves, Unpublished, PlatMoves, SimPlaces, Leaving, Ending, RecyclingOrLater, PlatAwake,
    SimAnswered, SimBinds, SimInitializes, SimAnnounces, SimAwaitsStart, SimStops, SimAdvances, SimConsumes, SimUpdates
<1>3. CASE SimContinues \/ SimSkips \/ SimForces \/ SimCloses \/ SimDeinitializes \/
           SimFinishes \/ SimAsks \/ SimThrows
  BY <1>3 DEF SleepsInWait, SimMoves, Unpublished, PlatMoves, SimPlaces, Leaving, Ending, RecyclingOrLater, PlatAwake,
    SimContinues, SimSkips, SimForces, SimCloses, SimDeinitializes, SimFinishes, SimAsks, SimThrows
<1>4. CASE PlatBegins \/ PlatBoots \/ PlatBootWaits \/ PlatReleases \/ PlatLoops \/
           PlatChecks \/ PlatPolls \/ PlatSelects \/ PlatTransfers \/ PlatRenders \/
           PlatWaits \/ PlatWoken \/ PlatTearsDown \/ PlatSettles \/ PlatSettleWaits \/
           PlatJoins \/ PlatFailsBoot \/ PlatTimesOut \/ PlatThrows
  BY <1>4 DEF SleepsInWait, SimMoves, Unpublished, PlatMoves, SimPlaces, Leaving, Ending, RecyclingOrLater, PlatAwake,
    PlatBegins, PlatBoots, PlatBootWaits, PlatReleases, PlatLoops, PlatChecks, PlatPolls, PlatSelects, PlatTransfers,
    PlatRenders, PlatWaits, PlatWoken, PlatTearsDown, PlatSettles, PlatSettleWaits, PlatJoins, PlatFailsBoot,
    PlatTimesOut, PlatThrows
<1>5. CASE Surroundings \/ Resize \/ UNCHANGED vars
  BY <1>5 DEF SleepsInWait, SimMoves, Unpublished, PlatMoves, Leaving, Ending, RecyclingOrLater, Surroundings, vars,
    Wake, RequestStop, TimePasses, Resize
<1> QED BY <1>1, <1>2, <1>3, <1>4, <1>5 DEF SlotSteps, Next, SimStep, PlatStep, Surroundings

LEMMA SlotsOwnedStep ==
  ASSUME SlotTypes, SlotsOwned, SimPlaces, [Next]_vars, SleepsInWait
  PROVE  SlotsOwned'
<1>1. CASE SimPicks
 <2>1. SlotsHaveOneOwner'
  <3> SUFFICES ASSUME NEW i \in Slots
               PROVE  /\ slot'[i] = "Ready" <=> i = ready'
                      /\ slot'[i] = "Rendering" <=> i \in {current', taken'}
                      /\ slot'[i] = "Writing" <=> i = writable'
                      /\ slot'[i] = "Recycling" => i = scan' /\ platPc' \in RecyclingOrLater
    BY DEF SlotsHaveOneOwner
  <3>1. PICK j \in Slots : slot[j] = "Free" /\ slot' = [slot EXCEPT ![j] = "Writing"] /\ writable' = j
    BY <1>1, HandoffAssumption DEF SlotTypes, SlotsOwned, Ending, Slots, SimPicks, Writable
  <3>2. writable = 0 /\ UNCHANGED <<ready, taken, current, scan, platPc>>
    BY <1>1, HandoffAssumption DEF SlotTypes, SlotsOwned, Ending, Slots, SimPicks, Writable
  <3>3. /\ slot[i] = "Ready" <=> i = ready
        /\ slot[i] = "Rendering" <=> i \in {current, taken}
        /\ slot[i] # "Writing"
        /\ slot[i] = "Recycling" => i = scan /\ platPc \in RecyclingOrLater
    BY <3>2 DEF SlotsOwned, SlotsHaveOneOwner, Slots
  <3>4. CASE i = j BY <3>1, <3>2, <3>3, <3>4 DEF SlotTypes, SlotsOwned, SlotsHaveOneOwner
  <3>5. CASE i # j BY <3>1, <3>2, <3>3, <3>5 DEF SlotTypes
  <3> QED BY <3>4, <3>5
 <2> QED BY <1>1, <2>1, HandoffAssumption DEF SlotTypes, Slots, SlotsOwned, SlotsHaveOneOwner, Leaving, Ending,
    SimPicks, Writable
<1>2. CASE SimWrites
 <2>1. SlotsHaveOneOwner'
  <3> SUFFICES ASSUME NEW i \in Slots
               PROVE  /\ slot'[i] = "Ready" <=> i = ready'
                      /\ slot'[i] = "Rendering" <=> i \in {current', taken'}
                      /\ slot'[i] = "Writing" <=> i = writable'
                      /\ slot'[i] = "Recycling" => i = scan' /\ platPc' \in RecyclingOrLater
    BY DEF SlotsHaveOneOwner
  <3> QED BY <1>2, HandoffAssumption DEF SlotTypes, Slots, SlotsOwned, SlotsHaveOneOwner, RecyclingOrLater, SimWrites,
     Ending, Leaving
 <2> QED BY <1>2, <2>1, HandoffAssumption DEF SlotTypes, Slots, SlotsOwned, SlotsHaveOneOwner, Leaving, Ending,
    SimWrites
<1>3. CASE SimPublishes
 <2>1. SlotsHaveOneOwner'
  <3> SUFFICES ASSUME NEW i \in Slots
               PROVE  /\ slot'[i] = "Ready" <=> i = ready'
                      /\ slot'[i] = "Rendering" <=> i \in {current', taken'}
                      /\ slot'[i] = "Writing" <=> i = writable'
                      /\ slot'[i] = "Recycling" => i = scan' /\ platPc' \in RecyclingOrLater
    BY DEF SlotsHaveOneOwner
  <3>1. /\ slot'[i] = IF i = writable THEN "Ready" ELSE IF i = ready THEN "Retired" ELSE slot[i]
        /\ ready' = writable /\ writable' = 0 /\ writable # 0
    BY <1>3, HandoffAssumption DEF SlotTypes, SlotsOwned, Ending, Slots, SimPublishes, ReplacesReady
  <3>2. UNCHANGED <<taken, current, scan, platPc>>
    BY <1>3, HandoffAssumption DEF SlotTypes, SlotsOwned, Ending, Slots, SimPublishes, ReplacesReady
  <3> QED BY <3>1, <3>2, HandoffAssumption DEF SlotTypes, SlotsOwned, SlotsHaveOneOwner, Slots, RecyclingOrLater
 <2> QED BY <1>3, <2>1, HandoffAssumption DEF SlotTypes, Slots, SlotsOwned, SlotsHaveOneOwner, Leaving, Ending,
    SimPublishes, ReplacesReady
<1>4. CASE PlatScans
 <2>1. SlotsHaveOneOwner'
  <3> SUFFICES ASSUME NEW i \in Slots
               PROVE  /\ slot'[i] = "Ready" <=> i = ready'
                      /\ slot'[i] = "Rendering" <=> i \in {current', taken'}
                      /\ slot'[i] = "Writing" <=> i = writable'
                      /\ slot'[i] = "Recycling" => i = scan' /\ platPc' \in RecyclingOrLater
    BY DEF SlotsHaveOneOwner
  <3> QED BY <1>4, HandoffAssumption DEF SlotTypes, Slots, SlotsOwned, SlotsHaveOneOwner, RecyclingOrLater, PlatScans,
     Ending, Leaving
 <2> QED BY <1>4, <2>1, HandoffAssumption DEF SlotTypes, Slots, SlotsOwned, SlotsHaveOneOwner, Leaving, Ending,
    PlatScans
<1>5. CASE PlatRecycles
 <2>1. SlotsHaveOneOwner'
  <3> SUFFICES ASSUME NEW i \in Slots
               PROVE  /\ slot'[i] = "Ready" <=> i = ready'
                      /\ slot'[i] = "Rendering" <=> i \in {current', taken'}
                      /\ slot'[i] = "Writing" <=> i = writable'
                      /\ slot'[i] = "Recycling" => i = scan' /\ platPc' \in RecyclingOrLater
    BY DEF SlotsHaveOneOwner
  <3> QED BY <1>5, HandoffAssumption DEF SlotTypes, Slots, SlotsOwned, SlotsHaveOneOwner, RecyclingOrLater,
     PlatRecycles, Ending, Leaving
 <2> QED BY <1>5, <2>1, HandoffAssumption DEF SlotTypes, Slots, SlotsOwned, SlotsHaveOneOwner, Leaving, Ending,
    PlatRecycles
<1>6. CASE PlatTakes
 <2>0. taken = 0 /\ UNCHANGED <<frame, writable, current, scan, simPc, resume>>
   BY <1>6 DEF SlotsOwned, Leaving, PlatTakes
 <2>1. CASE due /\ ready # 0
  <3>1. /\ slot' = [slot EXCEPT ![ready] = "Rendering"] /\ taken' = ready /\ ready' = 0
        /\ platPc = "take" /\ platPc' = "swap"
    BY <1>6, <2>1 DEF PlatTakes
  <3>2. ASSUME NEW i \in Slots
        PROVE  /\ slot'[i] = "Ready" <=> i = ready'
               /\ slot'[i] = "Rendering" <=> i \in {current', taken'}
               /\ slot'[i] = "Writing" <=> i = writable'
               /\ slot'[i] = "Recycling" => i = scan' /\ platPc' \in RecyclingOrLater
   <4>1. /\ slot[i] = "Ready" <=> i = ready
         /\ slot[i] = "Rendering" <=> i = current
         /\ slot[i] = "Writing" <=> i = writable
         /\ slot[i] # "Recycling"
     BY <2>0, <3>1 DEF SlotsOwned, SlotsHaveOneOwner, RecyclingOrLater, Slots
   <4>2. i # 0 BY HandoffAssumption DEF Slots
   <4>3. slot'[i] = IF i = ready THEN "Rendering" ELSE slot[i] BY <3>1 DEF SlotTypes
   <4> QED BY <2>0, <3>1, <4>1, <4>2, <4>3
  <3>3. current # ready BY <2>1 DEF SlotTypes, SlotsOwned, SlotsHaveOneOwner
  <3>4. SlotsHaveOneOwner' BY <3>2 DEF SlotsHaveOneOwner
  <3> QED BY <2>0, <2>1, <3>1, <3>3, <3>4 DEF SlotsOwned, Leaving
 <2>2. CASE ~(due /\ ready # 0)
  <3>1. UNCHANGED <<slot, taken, ready>> /\ platPc = "take" /\ platPc' = "render" BY <1>6, <2>2 DEF PlatTakes
  <3> QED BY <2>0, <3>1 DEF SlotsOwned, SlotsHaveOneOwner, RecyclingOrLater, Leaving
 <2> QED BY <2>1, <2>2
<1>7. CASE PlatSwaps
 <2>1. SlotsHaveOneOwner'
  <3> SUFFICES ASSUME NEW i \in Slots
               PROVE  /\ slot'[i] = "Ready" <=> i = ready'
                      /\ slot'[i] = "Rendering" <=> i \in {current', taken'}
                      /\ slot'[i] = "Writing" <=> i = writable'
                      /\ slot'[i] = "Recycling" => i = scan' /\ platPc' \in RecyclingOrLater
    BY DEF SlotsHaveOneOwner
  <3>1. /\ slot'[i] = IF i = current THEN "Free" ELSE slot[i]
        /\ current' = taken /\ taken' = 0 /\ taken # 0
    BY <1>7, HandoffAssumption DEF SlotTypes, SlotsOwned, Ending, Slots, PlatSwaps, GiveBackCurrent
  <3>2. platPc = "swap" /\ UNCHANGED <<ready, writable, scan>>
    BY <1>7, HandoffAssumption DEF SlotTypes, SlotsOwned, Ending, Slots, PlatSwaps, GiveBackCurrent
  <3> QED BY <3>1, <3>2, HandoffAssumption DEF SlotTypes, SlotsOwned, SlotsHaveOneOwner, Slots, RecyclingOrLater
 <2> QED BY <1>7, <2>1, HandoffAssumption DEF SlotTypes, Slots, SlotsOwned, SlotsHaveOneOwner, Leaving, Ending,
    PlatSwaps, GiveBackCurrent
<1>8. CASE ~SlotSteps
 <2>1. /\ UNCHANGED <<slot, frame, ready, writable, taken, current>>
       /\ scan' = scan \/ PlatTransfers
   BY <1>8, SlotsElsewhere
 <2>2. SimMoves /\ PlatMoves BY <1>8, MovesElsewhere DEF SlotsOwned
 <2> QED BY <2>1, <2>2 DEF SlotsOwned, SlotsHaveOneOwner, SimMoves, PlatMoves, Leaving, Ending, RecyclingOrLater,
    PlatTransfers
<1> QED BY <1>1, <1>2, <1>3, <1>4, <1>5, <1>6, <1>7, <1>8 DEF SlotSteps

LEMMA FramesOrderedStep ==
  ASSUME SlotTypes, SlotsOwned, FramesOrdered, SimPlaces, [Next]_vars, SleepsInWait
  PROVE  FramesOrdered'
<1>1. CASE SimPicks
  BY <1>1, HandoffAssumption DEF SlotTypes, Slots, SlotsOwned, SlotsHaveOneOwner, FramesOrdered, Unpublished, SimPicks,
    Writable
<1>2. CASE SimWrites
  BY <1>2, HandoffAssumption DEF SlotTypes, Slots, SlotsOwned, SlotsHaveOneOwner, FramesOrdered, Unpublished, SimWrites
<1>3. CASE SimPublishes
  BY <1>3, HandoffAssumption DEF SlotTypes, Slots, SlotsOwned, SlotsHaveOneOwner, FramesOrdered, Unpublished,
    SimPublishes, ReplacesReady
<1>4. CASE PlatScans
  BY <1>4, HandoffAssumption DEF SlotTypes, Slots, SlotsOwned, SlotsHaveOneOwner, FramesOrdered, Unpublished, PlatScans
<1>5. CASE PlatRecycles
  BY <1>5, HandoffAssumption DEF SlotTypes, Slots, SlotsOwned, SlotsHaveOneOwner, FramesOrdered, Unpublished,
    PlatRecycles
<1>6. CASE PlatTakes
 <2>1. UNCHANGED <<frame, writable, current, updates, simPc>> /\ taken = 0 BY <1>6 DEF SlotsOwned, Leaving, PlatTakes
 <2>2. {ready', taken'} \subseteq {ready, 0} BY <1>6, <2>1 DEF PlatTakes
 <2>3. 0 \notin Slots BY HandoffAssumption DEF Slots
 <2> QED BY <2>1, <2>2, <2>3 DEF FramesOrdered
<1>7. CASE PlatSwaps
 <2>0. frame' = IF current = 0 THEN frame ELSE [frame EXCEPT ![current] = 0] BY <1>7 DEF PlatSwaps, GiveBackCurrent
 <2>1. /\ \A i \in Slots : frame'[i] = IF i = current THEN 0 ELSE frame[i]
       /\ current' = taken /\ taken' = 0 /\ UNCHANGED <<ready, writable, updates, simPc>>
   BY <1>7, <2>0, HandoffAssumption DEF SlotTypes, Slots, PlatSwaps
 <2>2. platPc = "swap" /\ taken # 0 BY <1>7 DEF PlatSwaps, SlotsOwned
 <2>4. current # 0 => current # ready /\ current # writable
   BY HandoffAssumption DEF SlotTypes, SlotsOwned, SlotsHaveOneOwner
 <2>5. (simPc = "publish" => frame'[writable] = updates) /\ (simPc \in Unpublished => updates >= 1)
   BY <2>1, <2>4, HandoffAssumption DEF SlotTypes, Slots, SlotsOwned, FramesOrdered
 <2>6. ASSUME NEW i \in Slots, i \in {ready', current', taken'}
       PROVE  frame'[i] >= 1 /\ frame'[i] <= updates' /\ (simPc' \in Unpublished => frame'[i] < updates')
  <3>1. i \in {ready, taken} /\ i # current BY <2>1, <2>2, <2>4, <2>6, HandoffAssumption DEF Slots, SlotsOwned
  <3>2. frame'[i] = frame[i] BY <2>1, <3>1
  <3> QED BY <2>1, <3>1, <3>2 DEF FramesOrdered
 <2> QED BY <2>1, <2>5, <2>6, <1>7 DEF FramesOrdered, PlatSwaps
<1>8. CASE SimUpdates
  BY <1>8, HandoffAssumption DEF SlotTypes, Slots, SlotsOwned, SlotsHaveOneOwner, FramesOrdered, Unpublished, SimUpdates
<1>9. CASE ~SlotSteps /\ ~SimUpdates
 <2>1. /\ UNCHANGED <<slot, frame, ready, writable, taken, current, updates>>
       /\ SimMoves
   BY <1>9, SlotsElsewhere, MovesElsewhere DEF SlotsOwned
 <2> QED BY <1>9, <2>1 DEF FramesOrdered, SimMoves
<1> QED BY <1>1, <1>2, <1>3, <1>4, <1>5, <1>6, <1>7, <1>8, <1>9 DEF SlotSteps

LEMMA InputTypesStep ==
  ASSUME InputTypes, InputKept, [Next]_vars
  PROVE  InputTypes'
<1>1. CASE SimConsumes BY <1>1, HandoffAssumption DEF InputTypes, NoPoll, SimConsumes, Consume
<1>2. CASE PlatChecks BY <1>2, HandoffAssumption DEF InputTypes, NoPoll, PlatChecks
<1>3. CASE PlatPolls BY <1>3, HandoffAssumption DEF InputTypes, NoPoll, InputKept, PlatPolls
<1>4. CASE PlatSelects BY <1>4, HandoffAssumption DEF InputTypes, NoPoll, PlatSelects
<1>5. CASE PlatTransfers
 <2>1. /\ window' = selected /\ polled' = NoPoll /\ UNCHANGED <<selected, resized, input, polls>>
       /\ backlog' = backlog \/ (polled # NoPoll /\ backlog' = Append(backlog, polled))
   BY <1>5 DEF PlatTransfers, HandOver
 <2> DEFINE P == 0..MaxResizes
 <2>0. backlog \in Seq(P) /\ (polled # NoPoll => polled \in P) BY DEF InputTypes
 <2> HIDE DEF P
 <2>3. backlog' \in Seq(P) BY <2>0, <2>1
 <2>2. backlog' \in Seq(0..MaxResizes) BY <2>3 DEF P
 <2> QED BY <2>1, <2>2 DEF InputTypes
<1>6. CASE Resize BY <1>6, HandoffAssumption DEF InputTypes, NoPoll, Resize
<1>7. CASE ~InputSteps BY <1>7, InputElsewhere DEF InputTypes, NoPoll
<1> QED BY <1>1, <1>2, <1>3, <1>4, <1>5, <1>6, <1>7 DEF InputSteps

LEMMA InputKeptStep ==
  ASSUME InputTypes, InputKept, [Next]_vars, SleepsInWait
  PROVE  InputKept'
<1>1. CASE SimConsumes
  BY <1>1, HandoffAssumption DEF InputTypes, NoPoll, InputKept, CanPoll, Leaving, SimConsumes, Consume
<1>2. CASE PlatChecks BY <1>2, HandoffAssumption DEF InputTypes, NoPoll, InputKept, CanPoll, Leaving, PlatChecks
<1>3. CASE PlatPolls BY <1>3, HandoffAssumption DEF InputTypes, NoPoll, InputKept, CanPoll, Leaving, PlatPolls
<1>4. CASE PlatSelects BY <1>4, HandoffAssumption DEF InputTypes, NoPoll, InputKept, CanPoll, Leaving, PlatSelects
<1>5. CASE PlatTransfers
 <2>1. /\ window' = selected /\ backlog' = IF polled = NoPoll THEN backlog ELSE Append(backlog, polled)
       /\ polled' = NoPoll /\ platPc = "transfer" /\ platPc' = "recycle"
       /\ UNCHANGED <<selected, resized, input, polls>>
   BY <1>5 DEF PlatTransfers, HandOver
 <2>2. selected \in Nat /\ window \in Nat /\ window <= selected /\ polled \in Int
       /\ (polled # NoPoll => polled <= selected)
   BY <2>1, HandoffAssumption DEF InputTypes, InputKept, NoPoll
 <2>3. \A i \in 1..Len(backlog) : backlog[i] \in Nat /\ backlog[i] <= window
   BY HandoffAssumption DEF InputTypes, InputKept
 <2>4. \A i \in 1..Len(backlog') : backlog'[i] <= window'
  <3>1. CASE polled = NoPoll BY <2>1, <2>2, <2>3, <3>1
  <3>2. CASE polled # NoPoll
   <4>1. backlog \in Seq(Int) BY HandoffAssumption DEF InputTypes
   <4>2. /\ Len(backlog') = Len(backlog) + 1 /\ Len(backlog) \in Nat
         /\ \A i \in 1..Len(backlog) : backlog'[i] = backlog[i]
         /\ backlog'[Len(backlog) + 1] = polled
     BY <2>1, <2>2, <3>2, <4>1
   <4>3. ASSUME NEW i \in 1..Len(backlog) + 1 PROVE backlog'[i] <= window'
    <5>1. CASE i = Len(backlog) + 1 BY <2>1, <2>2, <3>2, <4>2, <5>1
    <5>2. CASE i \in 1..Len(backlog) BY <2>1, <2>2, <2>3, <4>2, <5>2
    <5> QED BY <4>2, <5>1, <5>2
   <4> QED BY <4>2, <4>3
  <3> QED BY <3>1, <3>2
 <2> QED BY <2>1, <2>2, <2>4 DEF InputKept, NoPoll
<1>6. CASE Resize BY <1>6, HandoffAssumption DEF InputTypes, NoPoll, InputKept, CanPoll, Leaving, Resize
<1>7. CASE ~InputSteps
 <2>1. UNCHANGED <<backlog, window, input, selected, polled, resized, polls>> BY <1>7, InputElsewhere
 <2>2. /\ platPc' \in {"poll", "select", "transfer"} => platPc' = platPc
       /\ platPc \in {"select", "transfer"} \cup Leaving => platPc' \in {"select", "transfer"} \cup Leaving
  <3>1. CASE SimAnswered \/ SimBinds \/ SimInitializes \/ SimAnnounces \/ SimAwaitsStart \/
             SimStops \/ SimAdvances \/ SimConsumes \/ SimUpdates \/ SimContinues \/
             SimPicks \/ SimSkips \/ SimWrites \/ SimPublishes \/ SimForces \/ SimCloses \/
             SimDeinitializes \/ SimFinishes \/ SimAsks \/ SimThrows
    BY <3>1 DEF SleepsInWait, Leaving, PlatAwake, SimAnswered, SimBinds, SimInitializes, SimAnnounces, SimAwaitsStart,
      SimStops, SimAdvances, SimConsumes, SimUpdates, SimContinues, SimPicks, SimSkips, SimWrites, SimPublishes,
      SimForces, SimCloses, SimDeinitializes, SimFinishes, SimAsks, SimThrows
  <3>2. CASE PlatBegins \/ PlatBoots \/ PlatBootWaits \/ PlatReleases \/ PlatLoops \/
             PlatScans \/ PlatRecycles \/ PlatTakes \/ PlatSwaps \/ PlatRenders \/
             PlatWaits \/ PlatWoken \/ PlatTearsDown \/ PlatSettles \/ PlatSettleWaits \/
             PlatJoins \/ PlatStartsThread \/ PlatFailsBoot \/ PlatTimesOut \/ PlatThrows
    BY <3>2 DEF SleepsInWait, Leaving, PlatAwake, PlatBegins, PlatBoots, PlatBootWaits, PlatReleases, PlatLoops,
      PlatScans, PlatRecycles, PlatTakes, PlatSwaps, PlatRenders, PlatWaits, PlatWoken, PlatTearsDown, PlatSettles,
      PlatSettleWaits, PlatJoins, PlatStartsThread, PlatFailsBoot, PlatTimesOut, PlatThrows
  <3>3. CASE Surroundings \/ UNCHANGED vars BY <3>3 DEF SleepsInWait, Surroundings, vars, Wake, RequestStop, TimePasses
  <3> QED BY <1>7, <3>1, <3>2, <3>3 DEF InputSteps, Next, SimStep, PlatStep, Surroundings
 <2> QED BY <2>1, <2>2 DEF InputKept, CanPoll, Leaving
<1> QED BY <1>1, <1>2, <1>3, <1>4, <1>5, <1>6, <1>7 DEF InputSteps

--------------------
\* Notifications and failures.

\* a frame that is not due yet has a predecessor on the screen, and a timer
TimerSet ==
  /\ ~due => current # 0
  /\ platPc = "sleep" /\ ~due => renderTimed

FailureKept ==
  /\ simPc = "unborn" => ~workerFailure
  /\ platPc = "finished" => simPc \in {"unborn", "exited"} /\ (workerFailure => failure # "none")

LEMMA TimerSetStep ==
  ASSUME SlotsOwned, TimerSet, FlagTypes, SlotTypes, [Next]_vars, SleepsInWait
  PROVE  TimerSet'
<1>1. CASE SimAnswered \/ SimBinds \/ SimInitializes \/ SimAnnounces \/ SimAwaitsStart \/
           SimStops \/ SimAdvances \/ SimConsumes \/ SimUpdates \/ SimContinues \/
           SimPicks \/ SimSkips \/ SimWrites \/ SimPublishes \/ SimForces \/ SimCloses \/
           SimDeinitializes \/ SimFinishes \/ SimAsks \/ SimThrows
  BY <1>1 DEF SleepsInWait, TimerSet, SlotsOwned, FlagTypes, SlotTypes, RenderTimer, RenderStarts, ForgetTimers,
    WorkWaiting, PlatAwake, SimAnswered, SimBinds, SimInitializes, SimAnnounces, SimAwaitsStart, SimStops, SimAdvances,
    SimConsumes, SimUpdates, SimContinues, SimPicks, SimSkips, SimWrites, SimPublishes, SimForces, SimCloses,
    SimDeinitializes, SimFinishes, SimAsks, SimThrows
<1>2. CASE PlatBegins \/ PlatBoots \/ PlatBootWaits \/ PlatReleases \/ PlatLoops \/
           PlatChecks \/ PlatPolls \/ PlatSelects
  BY <1>2 DEF SleepsInWait, TimerSet, SlotsOwned, FlagTypes, SlotTypes, RenderTimer, RenderStarts, ForgetTimers,
    WorkWaiting, PlatAwake, PlatBegins, PlatBoots, PlatBootWaits, PlatReleases, PlatLoops, PlatChecks, PlatPolls,
    PlatSelects
<1>3. CASE PlatTransfers \/ PlatScans \/ PlatRecycles \/ PlatTakes \/ PlatSwaps \/
           PlatRenders \/ PlatWaits \/ PlatWoken
  BY <1>3 DEF SleepsInWait, TimerSet, SlotsOwned, FlagTypes, SlotTypes, RenderTimer, RenderStarts, ForgetTimers,
    WorkWaiting, PlatAwake, PlatTransfers, PlatScans, PlatRecycles, PlatTakes, PlatSwaps, PlatRenders, PlatWaits,
    PlatWoken
<1>4. CASE PlatTearsDown \/ PlatSettles \/ PlatSettleWaits \/ PlatJoins \/
           PlatStartsThread \/ PlatFailsBoot \/ PlatTimesOut \/ PlatThrows
  BY <1>4 DEF SleepsInWait, TimerSet, SlotsOwned, FlagTypes, SlotTypes, RenderTimer, RenderStarts, ForgetTimers,
    WorkWaiting, PlatAwake, PlatTearsDown, PlatSettles, PlatSettleWaits, PlatJoins, PlatStartsThread, PlatFailsBoot,
    PlatTimesOut, PlatThrows
<1>5. CASE Surroundings \/ Resize \/ UNCHANGED vars
  BY <1>5 DEF SleepsInWait, TimerSet, Surroundings, vars, Wake, RequestStop, TimePasses, Resize
<1> QED BY <1>1, <1>2, <1>3, <1>4, <1>5 DEF Next, SimStep, PlatStep, Surroundings

LEMMA FailureKeptStep ==
  ASSUME SlotsOwned, SimPlaces, FailureKept, [Next]_vars, SleepsInWait
  PROVE  FailureKept'
<1>1. CASE SimAnswered \/ SimBinds \/ SimInitializes \/ SimAnnounces \/ SimAwaitsStart \/
           SimStops \/ SimAdvances
  BY <1>1 DEF SleepsInWait, FailureKept, SlotsOwned, SimPlaces, PlatAwake, PreserveWorkerFailure, SimAnswered, SimBinds,
    SimInitializes, SimAnnounces, SimAwaitsStart, SimStops, SimAdvances
<1>2. CASE SimConsumes \/ SimUpdates \/ SimContinues \/ SimPicks \/ SimSkips \/
           SimWrites \/ SimPublishes
  BY <1>2 DEF SleepsInWait, FailureKept, SlotsOwned, SimPlaces, PlatAwake, PreserveWorkerFailure, SimConsumes,
    SimUpdates, SimContinues, SimPicks, SimSkips, SimWrites, SimPublishes
<1>3. CASE SimForces \/ SimCloses \/ SimDeinitializes \/ SimFinishes \/ SimAsks \/ SimThrows
  BY <1>3 DEF SleepsInWait, FailureKept, SlotsOwned, SimPlaces, PlatAwake, PreserveWorkerFailure, SimForces, SimCloses,
    SimDeinitializes, SimFinishes, SimAsks, SimThrows
<1>4. CASE PlatBegins \/ PlatBoots \/ PlatBootWaits \/ PlatReleases \/ PlatLoops \/
           PlatChecks \/ PlatPolls \/ PlatSelects
  BY <1>4 DEF SleepsInWait, FailureKept, SlotsOwned, SimPlaces, PlatAwake, PreserveWorkerFailure, PlatBegins, PlatBoots,
    PlatBootWaits, PlatReleases, PlatLoops, PlatChecks, PlatPolls, PlatSelects
<1>5. CASE PlatTransfers \/ PlatScans \/ PlatRecycles \/ PlatTakes \/ PlatSwaps \/
           PlatRenders \/ PlatWaits \/ PlatWoken
  BY <1>5 DEF SleepsInWait, FailureKept, SlotsOwned, SimPlaces, PlatAwake, PreserveWorkerFailure, PlatTransfers,
    PlatScans, PlatRecycles, PlatTakes, PlatSwaps, PlatRenders, PlatWaits, PlatWoken
<1>6. CASE PlatTearsDown \/ PlatSettles \/ PlatSettleWaits \/ PlatJoins \/
           PlatStartsThread \/ PlatFailsBoot \/ PlatTimesOut \/ PlatThrows
  BY <1>6 DEF SleepsInWait, FailureKept, SlotsOwned, SimPlaces, PlatAwake, PreserveWorkerFailure, PlatTearsDown,
    PlatSettles, PlatSettleWaits, PlatJoins, PlatStartsThread, PlatFailsBoot, PlatTimesOut, PlatThrows
<1>7. CASE Surroundings \/ Resize \/ UNCHANGED vars
  BY <1>7 DEF SleepsInWait, FailureKept, Surroundings, vars, Wake, RequestStop, TimePasses, Resize
<1> QED BY <1>1, <1>2, <1>3, <1>4, <1>5, <1>6, <1>7 DEF Next, SimStep, PlatStep, Surroundings

LEMMA NoLostWakeupStep ==
  ASSUME TypeOK, NoLostWakeup, TimerSet, [Next]_vars, SleepsInWait
  PROVE  NoLostWakeup'
<1>1. CASE SimAnswered \/ SimBinds
  BY <1>1 DEF SleepsInWait, NoLostWakeup, TimerSet, PlatAwake, SimAwake, CanPoll, BootSettled, StartPredicate,
    WorkWaiting, RenderTimer, Serve, PumpShutdown, Consume, ReleaseStart, ReplacesReady, SimAnswered, SimBinds
<1>2. CASE SimInitializes \/ SimAnnounces
  BY <1>2 DEF SleepsInWait, NoLostWakeup, TimerSet, PlatAwake, SimAwake, CanPoll, BootSettled, StartPredicate,
    WorkWaiting, RenderTimer, Serve, PumpShutdown, Consume, ReleaseStart, ReplacesReady, SimInitializes, SimAnnounces
<1>3. CASE SimAwaitsStart \/ SimStops
  BY <1>3 DEF SleepsInWait, NoLostWakeup, TimerSet, PlatAwake, SimAwake, CanPoll, BootSettled, StartPredicate,
    WorkWaiting, RenderTimer, Serve, PumpShutdown, Consume, ReleaseStart, ReplacesReady, SimAwaitsStart, SimStops
<1>4. CASE SimAdvances \/ SimConsumes
  BY <1>4 DEF SleepsInWait, NoLostWakeup, TimerSet, PlatAwake, SimAwake, CanPoll, BootSettled, StartPredicate,
    WorkWaiting, RenderTimer, Serve, PumpShutdown, Consume, ReleaseStart, ReplacesReady, SimAdvances, SimConsumes
<1>5. CASE SimUpdates \/ SimContinues
  BY <1>5 DEF SleepsInWait, NoLostWakeup, TimerSet, PlatAwake, SimAwake, CanPoll, BootSettled, StartPredicate,
    WorkWaiting, RenderTimer, Serve, PumpShutdown, Consume, ReleaseStart, ReplacesReady, SimUpdates, SimContinues
<1>6. CASE SimSkips \/ SimWrites
  BY <1>6 DEF SleepsInWait, NoLostWakeup, TimerSet, PlatAwake, SimAwake, CanPoll, BootSettled, StartPredicate,
    WorkWaiting, RenderTimer, Serve, PumpShutdown, Consume, ReleaseStart, ReplacesReady, SimSkips, SimWrites
<1>7. CASE SimPublishes \/ SimForces
  BY <1>7 DEF SleepsInWait, NoLostWakeup, TimerSet, PlatAwake, SimAwake, CanPoll, BootSettled, StartPredicate,
    WorkWaiting, RenderTimer, Serve, PumpShutdown, Consume, ReleaseStart, ReplacesReady, SimPublishes, SimForces
<1>8. CASE SimCloses \/ SimFinishes
  BY <1>8 DEF SleepsInWait, NoLostWakeup, TimerSet, PlatAwake, SimAwake, CanPoll, BootSettled, StartPredicate,
    WorkWaiting, RenderTimer, Serve, PumpShutdown, Consume, ReleaseStart, ReplacesReady, SimCloses, SimFinishes
<1>9. CASE SimAsks \/ SimThrows
  BY <1>9 DEF SleepsInWait, NoLostWakeup, TimerSet, PlatAwake, SimAwake, CanPoll, BootSettled, StartPredicate,
    WorkWaiting, RenderTimer, Serve, PumpShutdown, Consume, ReleaseStart, ReplacesReady, SimAsks, SimThrows
<1>10. CASE PlatBegins \/ PlatBoots
  BY <1>10 DEF SleepsInWait, NoLostWakeup, TimerSet, PlatAwake, SimAwake, CanPoll, BootSettled, StartPredicate,
    WorkWaiting, RenderTimer, Serve, PumpShutdown, Consume, ReleaseStart, ReplacesReady, PlatBegins, PlatBoots
<1>11. CASE PlatBootWaits \/ PlatReleases
  BY <1>11 DEF SleepsInWait, NoLostWakeup, TimerSet, PlatAwake, SimAwake, CanPoll, BootSettled, StartPredicate,
    WorkWaiting, RenderTimer, Serve, PumpShutdown, Consume, ReleaseStart, ReplacesReady, PlatBootWaits, PlatReleases
<1>12. CASE PlatLoops \/ PlatChecks
  BY <1>12 DEF SleepsInWait, NoLostWakeup, TimerSet, PlatAwake, SimAwake, CanPoll, BootSettled, StartPredicate,
    WorkWaiting, RenderTimer, Serve, PumpShutdown, Consume, ReleaseStart, ReplacesReady, PlatLoops, PlatChecks
<1>13. CASE PlatPolls \/ PlatSelects
  BY <1>13 DEF SleepsInWait, NoLostWakeup, TimerSet, PlatAwake, SimAwake, CanPoll, BootSettled, StartPredicate,
    WorkWaiting, RenderTimer, Serve, PumpShutdown, Consume, ReleaseStart, ReplacesReady, PlatPolls, PlatSelects
<1>14. CASE PlatTransfers \/ PlatScans
  BY <1>14 DEF SleepsInWait, NoLostWakeup, TimerSet, PlatAwake, SimAwake, CanPoll, BootSettled, StartPredicate,
    WorkWaiting, RenderTimer, Serve, PumpShutdown, Consume, ReleaseStart, ReplacesReady, PlatTransfers, PlatScans
<1>15. CASE PlatRecycles \/ PlatTakes
  BY <1>15 DEF SleepsInWait, NoLostWakeup, TimerSet, PlatAwake, SimAwake, CanPoll, BootSettled, StartPredicate,
    WorkWaiting, RenderTimer, Serve, PumpShutdown, Consume, ReleaseStart, ReplacesReady, PlatRecycles, PlatTakes
<1>16. CASE PlatSwaps \/ PlatRenders
  BY <1>16 DEF SleepsInWait, NoLostWakeup, TimerSet, PlatAwake, SimAwake, CanPoll, BootSettled, StartPredicate,
    WorkWaiting, RenderTimer, Serve, PumpShutdown, Consume, ReleaseStart, ReplacesReady, PlatSwaps, PlatRenders
<1>17. CASE PlatTearsDown \/ PlatSettles
  BY <1>17 DEF SleepsInWait, NoLostWakeup, TimerSet, PlatAwake, SimAwake, CanPoll, BootSettled, StartPredicate,
    WorkWaiting, RenderTimer, Serve, PumpShutdown, Consume, ReleaseStart, ReplacesReady, PlatTearsDown, PlatSettles
<1>18. CASE PlatSettleWaits \/ PlatJoins
  BY <1>18 DEF SleepsInWait, NoLostWakeup, TimerSet, PlatAwake, SimAwake, CanPoll, BootSettled, StartPredicate,
    WorkWaiting, RenderTimer, Serve, PumpShutdown, Consume, ReleaseStart, ReplacesReady, PlatSettleWaits, PlatJoins
<1>19. CASE PlatStartsThread \/ PlatFailsBoot
  BY <1>19 DEF SleepsInWait, NoLostWakeup, TimerSet, PlatAwake, SimAwake, CanPoll, BootSettled, StartPredicate,
    WorkWaiting, RenderTimer, Serve, PumpShutdown, Consume, ReleaseStart, ReplacesReady, PlatStartsThread, PlatFailsBoot
<1>20. CASE PlatTimesOut \/ PlatThrows
  BY <1>20 DEF SleepsInWait, NoLostWakeup, TimerSet, PlatAwake, SimAwake, CanPoll, BootSettled, StartPredicate,
    WorkWaiting, RenderTimer, Serve, PumpShutdown, Consume, ReleaseStart, ReplacesReady, PlatTimesOut, PlatThrows
<1>21. CASE SimPicks
 <2>1. PICK j \in Slots : slot' = [slot EXCEPT ![j] = "Writing"] BY <1>21 DEF SleepsInWait, SimPicks, Writable
 <2>2. \A i \in Slots : slot'[i] = "Retired" => slot[i] = "Retired" BY <2>1 DEF TypeOK
 <2>3. UNCHANGED <<ready, inputVars, flagVars, stop, platPc, timerVars, waitVars, outerVars>>
   BY <1>21 DEF SleepsInWait, SimPicks
 <2> QED BY <2>2, <2>3 DEF NoLostWakeup, StartPredicate, BootSettled, CanPoll
<1>22. CASE SimDeinitializes
  BY <1>22 DEF SleepsInWait, NoLostWakeup, TimerSet, PlatAwake, SimAwake, CanPoll, BootSettled, StartPredicate,
    WorkWaiting, RenderTimer, Serve, PumpShutdown, Consume, ReleaseStart, ReplacesReady, SimDeinitializes
<1>23. CASE PlatWaits
 <2>1. UNCHANGED <<slot, ready, backlog, flagVars, stop, due, notifying, request, current>>
   BY <1>23 DEF SleepsInWait, PlatWaits
 <2>2. CASE WorkWaiting BY <1>23, <2>1, <2>2 DEF PlatWaits, NoLostWakeup, StartPredicate
 <2>3. CASE ~WorkWaiting
  <3>1. /\ asleep' = asleep \cup {"plat"} /\ platPc' = "sleep"
        /\ renderTimed' = RenderTimer /\ pollTimed' = CanPoll
    BY <1>23, <2>3 DEF PlatWaits
  <3>2. ready # 0 => renderTimed' BY <2>3, <3>1 DEF WorkWaiting, RenderTimer
  <3>3. CanPoll' = CanPoll BY <2>1 DEF CanPoll
  <3> QED BY <2>1, <2>3, <3>1, <3>2, <3>3 DEF WorkWaiting, NoLostWakeup, StartPredicate
 <2> QED BY <2>2, <2>3
<1>24. CASE PlatWoken
 <2>1. UNCHANGED <<slot, ready, backlog, flagVars, stop, due, notifying, request, current>>
   BY <1>24 DEF SleepsInWait, PlatWoken
 <2>2. CASE WorkWaiting \/ CanPoll # pollTimed BY <1>24, <2>1, <2>2 DEF PlatWoken, NoLostWakeup, StartPredicate
 <2>3. CASE ~(WorkWaiting \/ CanPoll # pollTimed)
  <3>1. /\ asleep' = asleep \cup {"plat"} /\ platPc' = "sleep" /\ platPc = "sleep"
        /\ UNCHANGED <<renderTimed, pollTimed>>
    BY <1>24, <2>3 DEF PlatWoken
  <3>2. ready # 0 => renderTimed BY <2>3, <3>1 DEF WorkWaiting, TimerSet
  <3>3. CanPoll' = CanPoll BY <2>1 DEF CanPoll
  <3> QED BY <2>1, <2>3, <3>1, <3>2, <3>3 DEF WorkWaiting, NoLostWakeup, StartPredicate
 <2> QED BY <2>2, <2>3
<1>25. CASE Surroundings \/ Resize \/ UNCHANGED vars
  BY <1>25 DEF SleepsInWait, NoLostWakeup, CanPoll, BootSettled, StartPredicate, Surroundings, vars, Wake, RequestStop,
    TimePasses, Resize
<1> QED BY <1>1, <1>2, <1>3, <1>4, <1>5, <1>6, <1>7, <1>8, <1>9, <1>10, <1>11, <1>12, <1>13, <1>14, <1>15, <1>16, <1>17,
   <1>18, <1>19, <1>20, <1>21, <1>22, <1>23, <1>24, <1>25 DEF Next, SimStep, PlatStep, Surroundings

--------------------
\* The invariant, and the register the handoff is.

IInv == TypeOK /\ SlotsOwned /\ FramesOrdered /\ InputKept /\ SimPlaces
        /\ NoLostWakeup /\ TimerSet /\ FailureKept
        /\ SleepsInWait

LEMMA Invariance == Spec => []IInv
<1>1. Init => IInv
 <2> SUFFICES ASSUME Init PROVE IInv OBVIOUS
 <2>1. SlotTypes /\ InputTypes /\ FlagTypes /\ PlaceTypes
  <3>1. MaxResizes \in Nat /\ MaxPolls \in Nat /\ MaxUpdates \in Nat /\ MaxAsks \in Nat BY HandoffAssumption
  <3>2. SlotTypes BY <3>1, HandoffAssumption DEF Init, SlotTypes, Slots
  <3>3. InputTypes
   <4>1. backlog \in Seq(0..MaxResizes) BY DEF Init
   <4> QED BY <3>1, <4>1 DEF Init, InputTypes, NoPoll
  <3>4. FlagTypes BY DEF Init, FlagTypes
  <3>5. PlaceTypes BY <3>1 DEF Init, PlaceTypes, SimStates, PlatStates
  <3> QED BY <3>2, <3>3, <3>4, <3>5
 <2>2. SlotsOwned /\ FramesOrdered
   BY HandoffAssumption DEF Init, SlotsOwned, SlotsHaveOneOwner, FramesOrdered, Unpublished, Leaving, Slots
 <2>3. InputKept /\ SimPlaces BY HandoffAssumption DEF Init, InputKept, SimPlaces, NoPoll, SimStates
 <2>4. NoLostWakeup /\ TimerSet /\ FailureKept BY DEF Init, NoLostWakeup, TimerSet, FailureKept
 <2> QED BY <2>1, <2>2, <2>3, <2>4, TypeParts DEF IInv, Init, SleepsInWait
<1>2. IInv /\ [Next]_vars => IInv'
 <2> SUFFICES ASSUME IInv, [Next]_vars PROVE IInv' OBVIOUS
 <2>1. SlotTypes /\ InputTypes /\ FlagTypes /\ PlaceTypes BY TypeParts DEF IInv
 <2>2. SlotTypes' /\ InputTypes' /\ FlagTypes' BY <2>1, SlotTypesStep, InputTypesStep, FlagTypesStep DEF IInv
 <2>3. SimPlaces' BY <2>1, SimPlacesStep DEF IInv
 <2>4. /\ platPc' \in PlatStates /\ failure' \in {"none", "platform", "worker"}
       /\ SleepsInWait'
   BY <2>1, PlatPlacesStep DEF IInv, PlaceTypes
 <2>5. PlaceTypes' BY <2>1, <2>3, <2>4, OtherPlacesStep DEF PlaceTypes, SimPlaces
 <2>6. TypeOK' BY <2>2, <2>5 DEF TypeOK, SlotTypes, InputTypes, FlagTypes, PlaceTypes
 <2>7. SlotsOwned' /\ FramesOrdered' /\ InputKept' BY <2>1, SlotsOwnedStep, FramesOrderedStep, InputKeptStep DEF IInv
 <2>8. NoLostWakeup' /\ TimerSet' /\ FailureKept' BY <2>1, NoLostWakeupStep, TimerSetStep, FailureKeptStep DEF IInv
 <2> QED BY <2>3, <2>4, <2>6, <2>7, <2>8 DEF IInv
<1> QED BY <1>1, <1>2, PTL DEF Spec

\* Every variable of the two loops stays in its range.
THEOREM TypeCorrect == Spec => []TypeOK
BY Invariance, PTL DEF IInv

LEMMA ThreeSlotsSuffice == IInv => SkipIsTransient
<1> SUFFICES ASSUME IInv, \A i \in Slots : slot[i] \notin {"Free", "Writing", "Retired", "Recycling"}
             PROVE  current # 0 /\ taken # 0
  BY DEF SkipIsTransient
<1>1. \A i \in Slots : i \in {ready, current, taken} BY DEF IInv, TypeOK, SlotsOwned, SlotsHaveOneOwner
<1>2. 1 \in Slots /\ 2 \in Slots /\ 3 \in Slots BY HandoffAssumption DEF Slots
<1> QED BY <1>1, <1>2

\* Whatever the two threads do between two sections of the mutex, every slot has
\* one owner and none is lost, polls go to updates of their window, neither thread
\* sleeps through what it waits for, and a failure reaches the caller.
THEOREM SharedStateKept == Spec => []SharedStateIsSound
<1>1. IInv => CoherentInput BY DEF IInv, InputKept, CoherentInput, CanPoll
<1>2. IInv => SharedStateIsSound
  BY <1>1, ThreeSlotsSuffice DEF IInv, SlotsOwned, FailureKept, FailureReported, SharedStateIsSound
<1> QED BY <1>2, Invariance, PTL

LEMMA RegisterStep ==
  ASSUME IInv, [Next]_vars
  PROVE  [Register!Next]_<<FrameIn(ready), FrameIn(Held), rendered>>
<1>0. SlotTypes /\ SlotsOwned /\ FramesOrdered /\ SlotsHaveOneOwner BY TypeParts DEF IInv, SlotsOwned
<1>1. CASE SimPublishes
 <2>1. /\ ready' = writable /\ writable \in Slots /\ UNCHANGED <<frame, taken, current, rendered>>
       /\ frame[writable] = updates /\ updates >= 1
       /\ \A i \in Slots : i \in {ready, current, taken} => frame[i] < updates
   BY <1>0, <1>1, HandoffAssumption DEF SlotTypes, SlotsOwned, FramesOrdered, Unpublished, SimPublishes
 <2>2. /\ FrameIn(ready)' = updates /\ FrameIn(Held)' = FrameIn(Held) /\ rendered' = rendered
   BY <2>1, HandoffAssumption DEF FrameIn, Held, Slots
 <2>3. FrameIn(ready) < updates /\ FrameIn(Held) < updates /\ updates \in Nat
   BY <1>0, <2>1, HandoffAssumption DEF FrameIn, Held, SlotTypes
 <2> QED BY <2>2, <2>3 DEF Register!Next, Register!Offer
<1>2. CASE PlatTakes
 <2>1. CASE due /\ ready # 0
  <3>1. /\ taken' = ready /\ ready' = 0 /\ UNCHANGED <<frame, current, rendered>> BY <1>2, <2>1 DEF PlatTakes
  <3>2. FrameIn(ready) # 0 BY <1>0, <2>1 DEF FrameIn, SlotTypes, FramesOrdered
  <3>3. FrameIn(Held)' = FrameIn(ready) /\ FrameIn(ready)' = 0 /\ rendered' = rendered BY <2>1, <3>1 DEF FrameIn, Held
  <3> QED BY <3>2, <3>3 DEF Register!Next, Register!Take
 <2>2. CASE ~(due /\ ready # 0)
  <3>1. UNCHANGED <<frame, ready, taken, current, rendered>> BY <1>2, <2>2 DEF PlatTakes
  <3> QED BY <3>1 DEF FrameIn, Held
 <2> QED BY <2>1, <2>2
<1>3. CASE PlatRenders
 <2>1. taken = 0 /\ UNCHANGED <<frame, ready, taken, current>> BY <1>0, <1>3 DEF PlatRenders, SlotsOwned, Leaving
 <2>2. CASE rendered' = rendered BY <2>1, <2>2 DEF FrameIn, Held
 <2>3. CASE current # 0 /\ rendered' = frame[current]
  <3>1. FrameIn(Held) # 0 /\ rendered' = FrameIn(Held) BY <1>0, <2>1, <2>3 DEF FrameIn, Held, SlotTypes, FramesOrdered
  <3>2. FrameIn(ready)' = FrameIn(ready) /\ FrameIn(Held)' = FrameIn(Held) BY <2>1 DEF FrameIn, Held
  <3> QED BY <3>1, <3>2 DEF Register!Next, Register!Show
 <2> QED BY <1>3, <2>2, <2>3 DEF PlatRenders, RenderStarts
<1>4. CASE SimWrites \/ PlatRecycles
 <2>1. /\ UNCHANGED <<ready, taken, current, rendered>>
       /\ \A i \in Slots : i \in {ready, current, taken} => frame'[i] = frame[i]
   BY <1>0, <1>4, HandoffAssumption DEF SlotTypes, SlotsOwned, SlotsHaveOneOwner, SimWrites, PlatRecycles, Slots
 <2> QED BY <1>0, <2>1 DEF FrameIn, Held, SlotTypes
<1>5. CASE PlatSwaps
 <2>1. /\ current' = taken /\ taken' = 0 /\ taken # 0 /\ UNCHANGED <<ready, rendered>>
       /\ \A i \in Slots : i # current => frame'[i] = frame[i]
   BY <1>0, <1>5 DEF SlotTypes, SlotsOwned, PlatSwaps, GiveBackCurrent
 <2>2. ready \in Slots => ready # current BY <1>0 DEF SlotsHaveOneOwner
 <2>3. taken # current BY <1>0, <2>1 DEF SlotsOwned
 <2> QED BY <1>0, <2>1, <2>2, <2>3, HandoffAssumption DEF FrameIn, Held, SlotTypes, Slots
<1>6. CASE SimPicks \/ PlatScans BY <1>6 DEF SimPicks, PlatScans, FrameIn, Held
<1>7. CASE ~SlotSteps /\ ~PlatRenders BY <1>7, SlotsElsewhere DEF FrameIn, Held
<1> QED BY <1>1, <1>2, <1>3, <1>4, <1>5, <1>6, <1>7 DEF SlotSteps

\* The handoff implements a register of one frame: the newest publication
\* replaces the last, nothing rendered goes back, and a held frame stays as it is.
THEOREM LatestFrameWins == Spec => IsLatestFrame
<1>1. Init => Register!Init BY DEF Init, Register!Init, FrameIn, Held
<1>2. IInv /\ [Next]_vars => [Register!Next]_<<FrameIn(ready), FrameIn(Held), rendered>> BY RegisterStep
<1> QED BY <1>1, <1>2, Invariance, PTL DEF Spec, IsLatestFrame, Register!Spec, Register!vars
====================
