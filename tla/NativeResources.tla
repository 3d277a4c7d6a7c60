---- MODULE NativeResources ----
\* The OpenGL renderer's life, the native objects that live in it, and
\* what listeners hear of its graphics domain.  Handles die on any thread;
\* their names are deleted when the owner's context is next current.
\* Calls from another thread than the renderer's are refused and left out.
EXTENDS Naturals, Sequences, FiniteSets, SequencesExt

CONSTANTS Handles,      \* Handle objects
          Names,        \* names the driver gives, and gives again once deleted
          SamplerOptions,
          MaxTracked    \* bound of objects adopted

\* 0 is the name of no object.
ASSUME NativeAssumption == 0 \notin Names

VARIABLES
    phase, current,     \* "new", "ready", "stopped", "destroyed"; Context::is_current()
    lifetimeActive, entries,    \* ResourceLifetime: its slots,
    pending, free,      \*   and its two lists of slots
    stats,
    native,             \* external: names alive in the driver
    orphans,            \* of these, left to the destruction of the context
    handles,            \* by live handle its slot and name
    samplers,           \* by options the cached handle, while it lives
    domain,             \* sequence of the graphics domain
    published, telling, remaining, terminal,
    heard               \* history: sequences listeners were told

nativeVars == <<phase, current, lifetimeActive, entries, pending, free, stats, native, orphans, handles, samplers,
                domain, published, telling, remaining, terminal, heard>>
lifetimeVars == <<lifetimeActive, entries, pending, free, stats>>
tellingVars == <<published, telling, remaining, terminal, heard>>

NativeInit ==
  /\ phase = "new" /\ current = FALSE
  /\ lifetimeActive = FALSE /\ entries = <<>> /\ pending = <<>> /\ free = <<>>
  /\ stats = [tracked |-> 0, live |-> 0, pending |-> 0, deleted |-> 0, abandoned |-> 0]
  /\ native = {} /\ orphans = {} /\ handles = <<>> /\ samplers = <<>>
  /\ domain = 0 /\ published = 0 /\ telling = FALSE /\ remaining = 0 /\ terminal = 0 /\ heard = <<>>
--------------------
NoSlot == [id |-> 0, pending |-> FALSE]
\* A listener runs inside of the call that is telling it.
Callable == remaining = 0 \/ telling

\* publish_graphics_domain_changes(), run when a call of the renderer ends;
\* from inside a listener it leaves the rest to the loop that is running.
Publishes == remaining' = (IF remaining > 0 THEN remaining ELSE 2) /\ UNCHANGED <<published, telling, terminal, heard>>

\* Mutant: told of once only for each call.
PublishOnce ==
  /\ remaining > 0 /\ ~telling
  /\ IF domain <= published THEN remaining' = 0 /\ UNCHANGED <<published, telling, heard>>
     ELSE /\ published' = domain /\ heard' = Append(heard, domain)
          /\ telling' = TRUE /\ remaining' = 1
  /\ UNCHANGED <<phase, current, lifetimeVars, native, orphans, handles, samplers, domain, terminal>>

Publish ==
  /\ remaining > 0 /\ ~telling
  /\ IF domain <= published THEN remaining' = 0 /\ UNCHANGED <<published, telling, heard>>
     ELSE LET sequence == IF published = 0 /\ domain = 2 THEN 1 ELSE domain IN
          /\ published' = sequence /\ heard' = Append(heard, sequence)
          /\ telling' = TRUE /\ UNCHANGED remaining
  /\ UNCHANGED <<phase, current, lifetimeVars, native, orphans, handles, samplers, domain, terminal>>
ListenersReturn ==
  /\ telling /\ telling' = FALSE /\ remaining' = remaining - 1
  /\ UNCHANGED <<phase, current, lifetimeVars, native, orphans, handles, samplers, domain, published, terminal, heard>>
--------------------
InitializeSucceeds ==
  /\ phase = "new" /\ Callable
  /\ phase' = "ready" /\ current' = TRUE /\ lifetimeActive' = TRUE /\ domain' = 1
  /\ Publishes
  /\ UNCHANGED <<entries, pending, free, stats, native, orphans, handles, samplers>>
InitializeFails ==          \* the context is released, unless that fails too
    /\ phase = "new" /\ Callable /\ current' \in BOOLEAN
    /\ Publishes
    /\ UNCHANGED <<phase, lifetimeVars, native, orphans, handles, samplers, domain>>

\* ResourceLifetime::shutdown() and abandon().
Shutdown ==
  /\ native' = native \ {entries[s].id : s \in DOMAIN entries}
  /\ stats' = [stats EXCEPT !.deleted = @ + stats.live, !.live = 0, !.pending = 0]
  /\ lifetimeActive' = FALSE /\ entries' = <<>> /\ pending' = <<>> /\ free' = <<>>
  /\ domain' = 2 /\ UNCHANGED orphans
Abandon ==
  /\ orphans' = orphans \cup ({entries[s].id : s \in DOMAIN entries} \ {0})
  /\ stats' = [stats EXCEPT !.abandoned = @ + stats.live, !.live = 0, !.pending = 0]
  /\ lifetimeActive' = FALSE /\ entries' = <<>> /\ pending' = <<>> /\ free' = <<>>
  /\ domain' = 2 /\ UNCHANGED native
Deinitialize ==
  /\ phase = "ready" /\ Callable
  /\ phase' = "stopped" /\ current' \in BOOLEAN       \* releasing it may fail
  /\ Shutdown /\ Publishes
  /\ UNCHANGED <<handles, samplers>>
MakeCurrentFails ==
  /\ phase = "ready" /\ Callable /\ current' = FALSE
  /\ Publishes
  /\ UNCHANGED <<phase, lifetimeVars, native, orphans, handles, samplers, domain>>

\* The destructor says what it has to say through the terminal delivery,
\* which may refuse it.
Destroy ==
  /\ phase # "destroyed" /\ remaining = 0
  /\ phase' = "destroyed"
  /\ IF phase = "ready" THEN (Shutdown /\ current' = FALSE) \/ (Abandon /\ UNCHANGED current)
     ELSE UNCHANGED <<lifetimeVars, native, orphans, domain, current>>
  /\ IF domain' > published THEN published' = domain' /\ terminal' \in {0, domain'} ELSE UNCHANGED <<published, terminal>>
  /\ samplers' = <<>>
  /\ UNCHANGED <<handles, telling, remaining, heard>>
TerminalTold ==
  /\ terminal > 0 /\ terminal' = 0 /\ heard' = Append(heard, terminal)
  /\ UNCHANGED <<phase, current, lifetimeVars, native, orphans, handles, samplers, domain, published, telling, remaining>>

\* The host switches contexts, or loses this one.
ContextChanges ==
  /\ current' = ~current
  /\ UNCHANGED <<phase, lifetimeVars, native, orphans, handles, samplers, domain, tellingVars>>
--------------------
\* Handles, textures, buffers, vertex arrays, samplers and linked programs:
\* a new name is adopted, or discarded when anything fails before it is.
Usable == phase = "ready" /\ current /\ Callable
Track(h, name) ==
  /\ stats' = [stats EXCEPT !.tracked = @ + 1, !.live = @ + 1]
  /\ native' = native \cup {name}
  /\ IF free # <<>>
     THEN /\ free' = Tail(free) /\ entries' = [entries EXCEPT ![Head(free)] = [id |-> name, pending |-> FALSE]]
          /\ handles' = [g \in DOMAIN handles \cup {h} |-> IF g = h THEN [slot |-> Head(free), id |-> name] ELSE handles[g]]
     ELSE /\ entries' = Append(entries, [id |-> name, pending |-> FALSE]) /\ UNCHANGED free
          /\ handles' = [g \in DOMAIN handles \cup {h} |-> IF g = h THEN [slot |-> Len(entries) + 1, id |-> name] ELSE handles[g]]
  /\ UNCHANGED <<lifetimeActive, pending>>
Create(h, name) ==
  /\ Usable /\ h \notin DOMAIN handles /\ name \in Names \ native /\ stats.tracked < MaxTracked
  /\ Track(h, name)
  /\ UNCHANGED <<phase, current, orphans, samplers, domain, tellingVars>>
\* discard_untracked() deletes what was made, a program and its stage too,
\* but not once the context was lost.
CreationFails(names) ==
  /\ Usable /\ names \subseteq Names \ native /\ Cardinality(names) \in 1..2
  /\ current' = FALSE /\ native' = native \cup names /\ orphans' = orphans \cup names
  /\ UNCHANGED <<phase, lifetimeVars, handles, samplers, domain, tellingVars>>
CreateSampler(option, h, name) ==
  /\ Usable /\ option \notin DOMAIN samplers /\ h \notin DOMAIN handles
  /\ name \in Names \ native /\ stats.tracked < MaxTracked
  /\ Track(h, name)
  /\ samplers' = [o \in DOMAIN samplers \cup {option} |-> IF o = option THEN h ELSE samplers[o]]
  /\ UNCHANGED <<phase, current, orphans, domain, tellingVars>>

\* ResourceLifetime::retire(); nothing happens once the domain is gone.
Retire(slot) ==
  IF lifetimeActive /\ slot \in DOMAIN entries /\ ~entries[slot].pending /\ entries[slot].id # 0
  THEN /\ entries' = [entries EXCEPT ![slot].pending = TRUE] /\ pending' = <<slot>> \o pending
       /\ stats' = [stats EXCEPT !.pending = @ + 1]
       /\ UNCHANGED <<lifetimeActive, free>>
  ELSE UNCHANGED lifetimeVars
Forgotten(h) == [o \in {x \in DOMAIN samplers : samplers[x] # h} |-> samplers[o]]
Drop(h) ==
  /\ h \in DOMAIN handles /\ Retire(handles[h].slot)
  /\ handles' = [g \in DOMAIN handles \ {h} |-> handles[g]]
  /\ samplers' = Forgotten(h)
  /\ UNCHANGED <<phase, current, native, orphans, domain, tellingVars>>
\* Mutant: what a handle named before it is moved into is left behind.
MoveAssignLeaks(h, from) ==
  /\ h # from /\ {h, from} \subseteq DOMAIN handles /\ ~\E o \in DOMAIN samplers : samplers[o] \in {h, from}
  /\ handles' = [g \in DOMAIN handles \ {from} |-> IF g = h THEN handles[from] ELSE handles[g]]
  /\ UNCHANGED <<phase, current, lifetimeVars, native, orphans, samplers, domain, tellingVars>>

MoveAssign(h, from) ==
  /\ h # from /\ {h, from} \subseteq DOMAIN handles /\ ~\E o \in DOMAIN samplers : samplers[o] \in {h, from}
  /\ Retire(handles[h].slot)
  /\ handles' = [g \in DOMAIN handles \ {from} |-> IF g = h THEN handles[from] ELSE handles[g]]
  /\ UNCHANGED <<phase, current, native, orphans, samplers, domain, tellingVars>>

\* maintain_resources(): collect() pops what is pending onto the free list.
Collected == [s \in DOMAIN entries |-> IF entries[s].pending THEN NoSlot ELSE entries[s]]
Maintain ==
  /\ Usable
  /\ native' = native \ {entries[s].id : s \in ToSet(pending)}
  /\ stats' = [stats EXCEPT !.live = @ - Len(pending), !.pending = 0, !.deleted = @ + Len(pending)]
  /\ entries' = Collected /\ free' = Reverse(pending) \o free /\ pending' = <<>>
  /\ UNCHANGED <<phase, current, lifetimeActive, orphans, handles, samplers, domain, tellingVars>>

NativeNext ==
  \/ Publish \/ ListenersReturn
  \/ InitializeSucceeds \/ InitializeFails \/ Deinitialize \/ MakeCurrentFails \/ Destroy \/ TerminalTold \/ ContextChanges
  \/ \E h \in Handles, name \in Names : Create(h, name) \/ \E option \in SamplerOptions : CreateSampler(option, h, name)
  \/ \E names \in SUBSET Names : CreationFails(names)
  \/ \E h, from \in Handles : Drop(h) \/ MoveAssign(h, from)
  \/ Maintain

NativeSpec == NativeInit /\ [][NativeNext]_nativeVars
--------------------
\* Every name the driver holds belongs to one slot, or is one that only the
\* end of the context can free; a live handle still names its own object and
\* an object without one waits for its deletion; every slot is in use,
\* waiting or free and never two of these, and the diagnostics add up,
\* whatever died on whichever thread before.
NamesAccountedFor ==
  LET named == {s \in DOMAIN entries : entries[s].id # 0} IN
  /\ native = {entries[s].id : s \in named} \cup orphans
  /\ \A s, t \in named : s # t => entries[s].id # entries[t].id
  /\ lifetimeActive => \A h \in DOMAIN handles : entries[handles[h].slot] = [id |-> handles[h].id, pending |-> FALSE]
  /\ lifetimeActive => {handles[h].slot : h \in DOMAIN handles} = named \ ToSet(pending)
  /\ \A g, h \in DOMAIN handles : (lifetimeActive /\ g # h) => handles[g].slot # handles[h].slot
  /\ IsInjective(pending) /\ ToSet(pending) = {s \in named : entries[s].pending}
  /\ IsInjective(free) /\ ToSet(free) = DOMAIN entries \ named
  /\ stats.live = Cardinality(named) /\ stats.pending = Len(pending)
  /\ stats.tracked = stats.live + stats.deleted + stats.abandoned
  /\ lifetimeActive <=> phase = "ready"

\* Listeners hear that the domain is there before they hear that it is gone,
\* each once; and a renderer that is at rest has told all, also when one of
\* its own listeners shut it down.
DomainToldInOrder ==
  /\ \A i, j \in DOMAIN heard : i < j => heard[i] < heard[j]
  /\ (remaining = 0 /\ phase # "destroyed") => heard = SubSeq(<<1, 2>>, 1, domain)

\* A native object lives as long as its handle and not beyond its context,
\* whose beginning and end every listener is told of once.
NativeIsAccountedFor == NamesAccountedFor /\ DomainToldInOrder
====================
