---- MODULE AssetLoading ----
\* The asset caches, the provider they are bound to, and the Loader that
\* uploads prepared batches into them.  Loading happens on one owner, but
\* every publication calls listeners, which may load, clear or - once the
\* attempt has settled - upload again; building may fail at any entry, and
\* the graphics domain may be lost under an upload.  An attempt has no
\* roll-back: it has to say what is known of its effects.
EXTENDS Naturals, FiniteSets, SequencesExt

CONSTANTS Providers,    \* resource providers, each with its graphics domain
          Batches,      \* prepared batches: records of sets, see Items
          MaxPending,   \* the 64 outcomes that may wait to be published
          MaxAttempts, MaxLoads     \* bounds: uploads, and loads outside of uploads

VARIABLES
    domain,     \* by provider: GraphicsDomainReason
    context,    \* Cache::Context: the bound provider, and whether it is releasing
    cache,      \* the entries of all managers
    counts,     \* publications and replacements of the managers
    registry,   \* the batches whose files are registered
    upload,     \* the attempt in execution
    metadata,   \* manifests_ and shaders_: the batch they are from
    outcomes,   \* pending_events_
    publishing, \* publishing_events_, as the number of records left below the cutoff
    settled,    \* history: by attempt what it really did and what it is said to have done
    told,       \* history: attempts in the order they were notified
    loads       \* history: loads outside of uploads

assetVars == <<domain, context, cache, counts, registry, upload, metadata, outcomes,
               publishing, settled, told, loads>>
loaderVars == <<upload, metadata, outcomes, publishing, settled, told>>

Kinds == <<"program", "material", "image", "sprite">>
NoUpload == [provider |-> "none", batch |-> {}, todo |-> <<>>, replace |-> FALSE, possible |-> FALSE,
         verified |-> FALSE, before |-> <<0, 0>>, did |-> {}]

AssetInit ==
  /\ domain = [p \in Providers |-> "NotInitialized"]
  /\ context = [bound |-> "none", releasing |-> <<>>]
  /\ cache = {} /\ counts = <<0, 0>> /\ registry = {}
  /\ upload = NoUpload /\ metadata = {} /\ outcomes = <<>> /\ publishing = 0
  /\ settled = <<>> /\ told = <<>> /\ loads = 0

\* GraphicsDomainOwner: available once, then gone for good.
MakeAvailable(p) ==
  /\ domain[p] = "NotInitialized" /\ domain' = [domain EXCEPT ![p] = "Initialized"]
  /\ UNCHANGED <<context, cache, counts, registry, loaderVars, loads>>
Invalidate(p) ==
  /\ domain[p] = "Initialized"
  /\ \E reason \in {"Shutdown", "Abandoned"} : domain' = [domain EXCEPT ![p] = reason]
  /\ UNCHANGED <<context, cache, counts, registry, loaderVars, loads>>

\* verify_locked(), on the loading owner.
Verified(p) ==
  context.bound \in {"none", p} /\ context.releasing = <<>> /\ domain[p] = "Initialized"

Cached(e) == \E c \in cache : c.kind = e.kind /\ c.key = e.key
Without(e) == {c \in cache : ~(c.kind = e.kind /\ c.key = e.key)}

\* bind_provider() and publish_asset or replace_asset of a built candidate.
Put(e, p) ==
  /\ context' = [context EXCEPT !.bound = p]
  /\ cache' = Without(e) \cup {[kind |-> e.kind, key |-> e.key, provider |-> p]}
  /\ counts' = IF Cached(e) THEN <<counts[1], counts[2] + 1>> ELSE <<counts[1] + 1, counts[2]>>

\* A sprite needs its image and its material, a material its program.
Needs(e) ==
  CASE e.kind = "sprite" -> {[kind |-> "image", key |-> e.image]}
         \cup IF e.shader = "none" THEN {} ELSE {[kind |-> "material", key |-> e.shader]}
    [] e.kind = "material" -> {[kind |-> "program", key |-> e.program]}
    [] OTHER -> {}
Buildable(e) == \A n \in Needs(e) : Cached(n)

\* An application loads one entry by itself: on the owner, so in an upload
\* only from a listener, which is called when something was published, and
\* in an eviction when a manager was cleared.  Any thread may clear one.
InListener == upload = NoUpload \/ upload.did \ {"files"} # {}
LoadAlone(e, p) ==
  /\ InListener
  /\ loads < MaxLoads /\ loads' = loads + 1
  /\ Verified(p) /\ Buildable(e) /\ ~Cached(e) /\ Put(e, p)
  /\ UNCHANGED <<domain, registry, loaderVars>>
ClearManager(kind) ==
  /\ loads < MaxLoads /\ loads' = loads + 1
  /\ \E c \in cache : c.kind = kind
  /\ cache' = {c \in cache : c.kind # kind}
  /\ UNCHANGED <<domain, context, counts, registry, loaderVars>>
--------------------
\* validate_shader_definitions: identities are unique, and a batch selects
\* the programs of its materials and the materials of its sprites.
ShadersValid(batch) ==
  /\ \A m \in batch : m.kind = "material" => \E g \in batch : g.kind = "program" /\ g.key = m.program
  /\ \A s \in batch : s.kind = "sprite" /\ s.shader # "none" =>
                        \E m \in batch : m.kind = "material" /\ m.key = s.shader

\* The order in which upload() goes through a batch.
Items(batch) ==
  LET of(kind) == SetToSeq({e \in batch : e.kind = kind})
  IN FlattenSeq([i \in DOMAIN Kinds |-> of(Kinds[i])])

Attempts == Len(settled) + (IF upload = NoUpload THEN 0 ELSE 1)
BeginUpload(batch, p, replace) ==
  /\ upload = NoUpload /\ Attempts < MaxAttempts
  /\ upload' = [NoUpload EXCEPT !.provider = p, !.batch = batch, !.replace = replace,
                    !.todo = <<[kind |-> "verify"], [kind |-> "files"]>> \o Items(batch)
                                 \o <<[kind |-> "metadata"]>>]
  /\ UNCHANGED <<domain, context, cache, counts, registry, metadata, outcomes, publishing, settled, told, loads>>

Now(step) == upload.todo # <<>> /\ Head(upload.todo).kind = step
Entry == upload.todo # <<>> /\ Head(upload.todo).kind \in ToSet(Kinds)

Verify ==
  /\ Now("verify") /\ Verified(upload.provider) /\ ShadersValid(upload.batch)
  /\ upload' = [upload EXCEPT !.todo = Tail(@), !.verified = TRUE, !.before = counts]
  /\ UNCHANGED <<domain, context, cache, counts, registry, metadata, outcomes, publishing, settled, told, loads>>
RegisterFiles ==
  /\ Now("files")
  /\ registry' = registry \cup {upload.batch}
  /\ upload' = [upload EXCEPT !.todo = Tail(@), !.possible = TRUE,
                    !.did = IF upload.batch \in registry THEN @ ELSE @ \cup {"files"}]
  /\ UNCHANGED <<domain, context, cache, counts, metadata, outcomes, publishing, settled, told, loads>>
LoadEntry ==
  /\ Entry /\ Verified(upload.provider)
  /\ LET e == Head(upload.todo)
         again == upload.replace /\ e.kind \in {"program", "material"} IN
     IF Cached(e) /\ ~again
     THEN /\ upload' = [upload EXCEPT !.todo = Tail(@)]
          /\ context' = [context EXCEPT !.bound = upload.provider]
          /\ UNCHANGED <<cache, counts>>
     ELSE /\ Buildable(e) /\ Put(e, upload.provider)
          /\ upload' = [upload EXCEPT !.todo = Tail(@), !.did = @ \cup {e.kind}]
  /\ UNCHANGED <<domain, registry, metadata, outcomes, publishing, settled, told, loads>>

\* Mutant: what could have been changed is not told from what was.
OutcomeGuessed(ok) ==
  CASE ok -> "Succeeded"
    [] ~ok /\ counts # upload.before -> "Partial"
    [] OTHER -> "FailedBeforeEffects"

\* finish() and settle_upload(): what the counters prove of the attempt.
Outcome(ok) ==
  CASE ok -> "Succeeded"
    [] ~ok /\ upload.verified /\ counts # upload.before -> "Partial"
    [] ~ok /\ ~(upload.verified /\ counts # upload.before) /\ ~upload.possible -> "FailedBeforeEffects"
    [] OTHER -> "EffectsUnknown"
Settle(ok) ==
  LET n == Len(settled) + 1
      room == Len(outcomes) < MaxPending
      staged == IF room THEN Append(outcomes, n) ELSE outcomes IN
  /\ settled' = Append(settled, [outcome |-> Outcome(ok), did |-> upload.did, staged |-> room,
                                 batch |-> upload.batch])
  /\ outcomes' = staged
  /\ publishing' = IF publishing = 0 THEN Len(staged) ELSE publishing
  /\ upload' = NoUpload
  /\ UNCHANGED <<domain, context, cache, counts, registry, told, loads>>
Succeed == Now("metadata") /\ metadata' = upload.batch /\ Settle(TRUE)
Fail == upload.todo # <<>> /\ UNCHANGED metadata /\ Settle(FALSE)

\* publish_pending_events(): up to the cutoff at its entry; an upload in a
\* listener settles and leaves its outcome for a later drain.
Drain ==
  /\ upload = NoUpload /\ publishing = 0 /\ outcomes # <<>>
  /\ publishing' = Len(outcomes)
  /\ UNCHANGED <<domain, context, cache, counts, registry, upload, metadata, outcomes, settled, told, loads>>
PublishOutcome ==
  /\ upload = NoUpload /\ publishing > 0
  /\ told' = Append(told, Head(outcomes)) /\ outcomes' = Tail(outcomes)
  /\ publishing' = publishing - 1
  /\ UNCHANGED <<domain, context, cache, counts, registry, upload, metadata, settled, loads>>
--------------------
\* Mutant: what sprites share is left for the provider's destruction.
ClearOrderShort == <<"sprite", "material", "program">>

\* evict_graphics_domain(), with loading quiescent: the managers are cleared
\* one by one, and each tells its listeners, before the provider is
\* released.  ~Provider does the same in silence.
ClearOrder == <<"sprite", "material", "program", "image">>
Evict ==
  /\ upload = NoUpload /\ context.bound # "none" /\ context.releasing = <<>>
  /\ domain[context.bound] \in {"Shutdown", "Abandoned"}
  /\ context' = [context EXCEPT !.releasing = ClearOrder]
  /\ UNCHANGED <<domain, cache, counts, registry, loaderVars, loads>>
EvictManager ==
  /\ upload = NoUpload /\ context.releasing # <<>>
  /\ cache' = {c \in cache : c.kind # Head(context.releasing)}
  /\ context' = [bound |-> IF Len(context.releasing) = 1 THEN "none" ELSE context.bound,
                 releasing |-> Tail(context.releasing)]
  /\ UNCHANGED <<domain, counts, registry, loaderVars, loads>>
DestroyProvider ==
  /\ upload = NoUpload /\ context.bound # "none" /\ context.releasing = <<>>
  /\ cache' = {} /\ context' = [context EXCEPT !.bound = "none"]
  /\ UNCHANGED <<domain, counts, registry, loaderVars, loads>>

AssetNext ==
  \/ \E p \in Providers :
     \/ MakeAvailable(p) \/ Invalidate(p)
     \/ \E batch \in Batches, replace \in BOOLEAN : BeginUpload(batch, p, replace)
     \/ \E batch \in Batches : \E e \in batch : LoadAlone(e, p)
  \/ \E i \in DOMAIN Kinds : ClearManager(Kinds[i])
  \/ Verify \/ RegisterFiles \/ LoadEntry \/ Succeed \/ Fail
  \/ Drain \/ PublishOutcome \/ Evict \/ EvictManager \/ DestroyProvider

AssetSpec == AssetInit /\ [][AssetNext]_assetVars
--------------------
\* No entry of a provider that is gone is left in any cache: whatever a
\* listener loads or clears while the caches are emptied, what is cached is
\* the bound provider's, and nothing when none is bound.
CachesBelongToProvider == \A c \in cache : c.provider = context.bound

\* What an attempt says of its effects is true: "before effects" and it has
\* changed nothing, "partial" and it has published something itself.  Each
\* outcome that found room waits or is told once, in order; and the retained
\* metadata is that of the last attempt that succeeded.
OutcomesAreTrue ==
  /\ \A i \in DOMAIN settled :
       /\ settled[i].outcome = "FailedBeforeEffects" => settled[i].did = {}
       /\ settled[i].outcome = "Partial" => settled[i].did \ {"files"} # {}
  /\ told \o outcomes = SelectSeq([i \in DOMAIN settled |-> i], LAMBDA i : settled[i].staged)
  /\ LET good == {i \in DOMAIN settled : settled[i].outcome = "Succeeded"} IN
     metadata = IF good = {} THEN {} ELSE settled[CHOOSE i \in good : \A j \in good : j <= i].batch

\* The caches and what is reported of the attempts to fill them agree with
\* what has happened, whichever manager, listener or provider fails.
LoadingIsTrue == CachesBelongToProvider /\ OutcomesAreTrue

--------------------
\* ---- An asset cache (Store) and its catalogue of changes: any thread
\* publishes, replaces or clears under the one lock, stages a record of
\* the change in a bounded outbox, and then tries to drain it.  One drain
\* runs at a time; it notifies the watches outside the lock, while others
\* commit, watch and unwatch.  A watch starts from a snapshot and follows
\* the changes.
CONSTANTS Keys, Producers, Watches,
          OutboxSize,   \* capacity: of the outbox, and the attempts of one drain
          MaxRevision   \* the largest std::uint64_t of a revision

\* AssetCatalogue::capacity is a positive constant.
ASSUME CatalogueAssumption == OutboxSize \in Nat \ {0}

VARIABLES
    store,      \* AssetCatalogue::State; entries by key, 0 if there is none
    watch,      \* WatchState by watch, and the view its callback has built
    drain,      \* by producer: inside publish_notifications
    history     \* history: by revision the entries it left, and whether silently

catalogueVars == <<store, watch, drain, history>>

NoEntries == [k \in Keys |-> 0]
Absent == [active |-> FALSE, seen |-> 0, seeded |-> 0, seedLost |-> 0, knownLost |-> 0, view |-> NoEntries]
Out == [at |-> "out", left |-> 0, change |-> 0, lost |-> 0, to |-> {}]

CatalogueInit ==
  /\ store = [entries |-> NoEntries, revision |-> 0, outbox |-> <<>>, routed |-> FALSE,
              lost |-> 0, draining |-> FALSE, closed |-> FALSE]
  /\ watch = [w \in Watches |-> Absent]
  /\ drain = [p \in Producers |-> Out]
  /\ history = <<>>

Watching == {w \in Watches : watch[w].active}
Observing == store.routed \/ Watching # {}
Revisable == ~store.closed /\ store.revision < MaxRevision

\* Mutant: the oldest record makes room and is not counted.
CommittedUncounted(s, prepared) ==
  IF Observing
  THEN [s EXCEPT !.outbox = Append(IF Len(@) = OutboxSize THEN Tail(@) ELSE @, s.revision)]
  ELSE s

\* commit(): the record of the new revision is staged, or counted as lost if
\* it could not be prepared; a full outbox loses its oldest.
Committed(s, prepared) ==
  IF ~Observing THEN s
  ELSE IF ~prepared THEN [s EXCEPT !.lost = @ + 1]
  ELSE IF Len(s.outbox) = OutboxSize
       THEN [s EXCEPT !.outbox = Append(Tail(@), s.revision), !.lost = @ + 1]
       ELSE [s EXCEPT !.outbox = Append(@, s.revision)]

Revised(entries, silent) ==
  /\ history' = Append(history, [entries |-> entries, silent |-> silent])
  /\ UNCHANGED watch

\* The section of publish_asset, replace_asset and clear_assets.  Outside of
\* a callback the producer goes on to publish_notifications; in a callback
\* of its own drain that call returns at once.
Commit(p, entries) ==
  /\ Revisable /\ drain[p].at # "pump"
  /\ \E prepared \in BOOLEAN :
       store' = Committed([store EXCEPT !.entries = entries, !.revision = @ + 1], prepared)
  /\ Revised(entries, FALSE)
  /\ drain' = IF drain[p].at = "out" THEN [drain EXCEPT ![p].at = "pump"] ELSE drain
Publish(p, k) ==
  store.entries[k] = 0 /\ Commit(p, [store.entries EXCEPT ![k] = store.revision + 1])
Replace(p, k) == Commit(p, [store.entries EXCEPT ![k] = store.revision + 1])
ClearCatalogue(p) == Commit(p, NoEntries)

\* Provider teardown clears without a record; ~Store closes the source.
Dropped == [store EXCEPT !.entries = NoEntries, !.outbox = <<>>, !.lost = @ + Len(store.outbox)]
Discard ==
  /\ Revisable
  /\ store' = [Dropped EXCEPT !.revision = @ + 1]
  /\ Revised(NoEntries, TRUE) /\ UNCHANGED drain
CloseStore ==
  /\ ~store.closed
  /\ store' = [Dropped EXCEPT !.closed = TRUE]
  /\ UNCHANGED <<watch, drain, history>>
Route ==
  /\ ~store.closed /\ store' = [store EXCEPT !.routed = ~@]
  /\ UNCHANGED <<watch, drain, history>>
--------------------
\* Mutant: the seed is taken and what is seen is left to the first change.
SeedUnseen == [Absent EXCEPT !.active = TRUE, !.seeded = store.revision, !.view = store.entries,
                             !.seedLost = store.lost, !.knownLost = store.lost]

\* watch(): the seed, the registration and the revision seen are one section
\* of the source, and no change enters before the seed: the gate is held.
Seed == [active |-> TRUE, seen |-> store.revision, seeded |-> store.revision,
         seedLost |-> store.lost, knownLost |-> store.lost, view |-> store.entries]
Watch(w) ==
  /\ ~store.closed /\ ~watch[w].active /\ watch[w].seeded = 0
  /\ watch' = [watch EXCEPT ![w] = Seed]
  /\ UNCHANGED <<store, drain, history>>
Unwatch(w) ==
  /\ watch[w].active
  /\ watch' = [watch EXCEPT ![w].active = FALSE]
  /\ UNCHANGED <<store, drain, history>>

\* publish_notifications(): refused while another one drains.
Pump(p) ==
  /\ drain[p].at \in {"out", "pump"}
  /\ IF store.closed \/ store.draining
     THEN drain' = [drain EXCEPT ![p] = Out] /\ UNCHANGED store
     ELSE /\ drain' = [drain EXCEPT ![p] = [Out EXCEPT !.at = "take", !.left = OutboxSize]]
          /\ store' = [store EXCEPT !.draining = TRUE]
  /\ UNCHANGED <<watch, history>>
Take(p) ==
  /\ drain[p].at = "take"
  /\ IF store.outbox = <<>> \/ drain[p].left = 0
     THEN drain' = [drain EXCEPT ![p].at = "end"] /\ UNCHANGED store
     ELSE /\ drain' = [drain EXCEPT ![p] = [at |-> "notify", left |-> @.left - 1,
                           change |-> Head(store.outbox), lost |-> store.lost, to |-> Watching]]
          /\ store' = [store EXCEPT !.outbox = Tail(@)]
  /\ UNCHANGED <<watch, history>>
\* deliver(): behind the watch's gate; what the seed already had is ignored.
Deliver(p, w) ==
  /\ drain[p].at = "notify" /\ w \in drain[p].to
  /\ LET change == drain[p].change
         fresh == watch[w].active /\ change > watch[w].seen /\ ~store.closed
         before == IF change = 1 THEN NoEntries ELSE history[change - 1].entries
         after == history[change].entries
     IN watch' = [watch EXCEPT ![w] =
          IF ~fresh THEN @
          ELSE [@ EXCEPT !.seen = change, !.knownLost = drain[p].lost,
                   !.view = IF after = NoEntries THEN NoEntries
                            ELSE [key \in Keys |-> IF after[key] # before[key] THEN after[key] ELSE watch[w].view[key]]]]
  /\ drain' = [drain EXCEPT ![p].to = @ \ {w}]
  /\ UNCHANGED <<store, history>>
Notified(p) ==
  /\ drain[p].at = "notify" /\ drain[p].to = {}
  /\ drain' = [drain EXCEPT ![p].at = "take"]
  /\ UNCHANGED <<store, watch, history>>
EndDrain(p) ==
  /\ drain[p].at = "end"
  /\ drain' = [drain EXCEPT ![p] = Out]
  /\ store' = [store EXCEPT !.draining = FALSE]
  /\ UNCHANGED <<watch, history>>

CatalogueNext ==
  \/ \E p \in Producers :
     \/ \E k \in Keys : Publish(p, k) \/ Replace(p, k)
     \/ ClearCatalogue(p) \/ Pump(p) \/ Take(p) \/ Notified(p) \/ EndDrain(p)
     \/ \E w \in Watches : Deliver(p, w)
  \/ Discard \/ CloseStore \/ Route
  \/ \E w \in Watches : Watch(w) \/ Unwatch(w)

CatalogueSpec == CatalogueInit /\ [][CatalogueNext]_catalogueVars
--------------------
\* A watch that has been told of no loss since its seed has built exactly
\* the catalogue of the revision it has seen, whoever committed, drained,
\* overflowed or lost records meanwhile; only the silent clear of a
\* provider's teardown is excepted.
WatchFollowsCatalogue ==
  \A w \in Watches :
      LET v == watch[w] IN
      v.active /\ v.knownLost = v.seedLost
          /\ (\A r \in (v.seeded + 1)..v.seen : ~history[r].silent)
        => v.view = IF v.seen = 0 THEN NoEntries ELSE history[v.seen].entries
====================
