---- MODULE WorkerSetup ----
\* How a worker pool comes by its CPUs: a settings document, a provider of
\* topology (none, hwloc's or the application's own), the pool that takes
\* the provider's snapshot and its creator's mask, the groups whose wishes
\* are resolved against both, and the mask a worker is bound to.  Each of
\* these looks at the operating system at another time, and in between it
\* may restrict the process.
EXTENDS Integers, FiniteSets, SequencesExt

CONSTANTS Machines,     \* what hwloc may report of this machine
          Snapshots,    \* what a provider of the application may report
          Documents,    \* settings documents
          GroupNames,   \* the names is_group_name() accepts
          MaxWeight, MaxPriority,   \* limits of a group's share
          MaxRestrictions   \* bound: restrictions by the operating system

VARIABLES
    machine, cpuset,    \* external: hwloc's view; what the system lets run
    mask,       \* external: mask of the creator's thread and of a worker's
    settings,   \* the loaded Configuration
    provider,   \* the TopologyProvider
    poolState,  \* PoolState: topology, capabilities, placement, capacity
    groups,     \* by name the GroupPolicy, and the options it was made of
    jobEntry,   \* history: the last job entry, and the CPUs it was bound to
    restrictions    \* history: how often the system has restricted the process

setupVars == <<machine, cpuset, mask, settings, provider, poolState, groups, jobEntry, restrictions>>

NoName == "none"
NoCache == -1
Unset == [is |-> NoName]
NoProvider == [kind |-> NoName]
NoPool == [open |-> FALSE]
NoEntry == [group |-> NoName]

SetupInit ==
  /\ machine \in Machines /\ cpuset = machine.cpus
  /\ mask = [creator |-> machine.cpus, worker |-> {}]
  /\ settings = Unset /\ provider = NoProvider /\ poolState = NoPool
  /\ groups = <<>> /\ jobEntry = NoEntry /\ restrictions = 0

\* The system takes CPUs away, now or then, and cuts every thread's mask.
SystemRestricts ==
  /\ restrictions < MaxRestrictions /\ restrictions' = restrictions + 1
  /\ \E left \in SUBSET cpuset \ {{}, cpuset} :
       /\ cpuset' = left
       /\ mask' = [t \in DOMAIN mask |-> IF mask[t] \cap left = {} THEN left ELSE mask[t] \cap left]
  /\ UNCHANGED <<machine, settings, provider, poolState, groups, jobEntry>>
--------------------
\* load_configuration(): objects have known fields only, numbers are in
\* range, and a group that is malformed rejects the document.
Numbers(range) == [is : {"number"}, v : range]
Texts(choices) == [is : {"text"}, text : choices]
Concurrencies == Texts({"auto"}) \cup Numbers(Nat \ {0})
Concurrency(v) == IF v.is = "text" THEN 0 ELSE v.v

Has(object, fields) == DOMAIN object \subseteq fields
Given(object, field, good) == field \in DOMAIN object => object[field] \in good
Or(object, field, default) == IF field \in DOMAIN object THEN object[field] ELSE default

CpuAdmitted(c) ==
  /\ Has(c, {"cpus", "strength", "cache_domain", "prefer_same_worker"})
  /\ Given(c, "cpus", [is : {"list"}, list : Seq(Nat)])
  /\ Given(c, "strength", Texts({"preferred", "required"}))
  /\ Given(c, "cache_domain", Numbers(Nat))
  /\ Given(c, "prefer_same_worker", [is : {"boolean"}, flag : BOOLEAN])
GroupAdmitted(g) ==
  /\ Has(g, {"concurrency", "weight", "priority", "locality", "cpu"})
  /\ Given(g, "concurrency", Concurrencies)
  /\ Given(g, "weight", Numbers(1..MaxWeight))
  /\ Given(g, "priority", Numbers(0..MaxPriority))
  /\ Given(g, "locality", Texts({"automatic", "reuse", "spread"}))
  /\ "cpu" \in DOMAIN g => CpuAdmitted(g.cpu)

\* The GroupOptions of a group's object.
Value(object, field, part, default) == IF field \in DOMAIN object THEN object[field][part] ELSE default
OptionsOf(g) ==
  LET c == Or(g, "cpu", <<>>) IN
  [concurrency |-> Concurrency(Or(g, "concurrency", [is |-> "text"])),
   weight |-> Value(g, "weight", "v", 1), priority |-> Value(g, "priority", "v", 0),
   locality |-> Value(g, "locality", "text", NoName), cpus |-> Value(c, "cpus", "list", <<>>),
   hard |-> Value(c, "strength", "text", "preferred") = "required", cache |-> Value(c, "cache_domain", "v", NoCache),
   numa |-> FALSE, same |-> Value(c, "prefer_same_worker", "flag", TRUE)]

\* validate_group_options(), for documents and for options made in C++.
OptionsValid(o) == o.weight \in 1..MaxWeight /\ o.priority \in 0..MaxPriority /\ IsInjective(o.cpus)

DocumentAdmitted(d) ==
  /\ ~d.duplicate /\ Has(d.root, {"version", "workers", "groups"})
  /\ "version" \in DOMAIN d.root /\ d.root.version \in Texts({"1.0"})
  /\ Given(d.root, "workers", Concurrencies)
  /\ \A name \in DOMAIN Or(d.root, "groups", <<>>) :
       LET g == d.root.groups[name] IN name \in GroupNames /\ GroupAdmitted(g) /\ OptionsValid(OptionsOf(g))

Load(d) ==
  /\ settings = Unset
  /\ settings' = IF ~DocumentAdmitted(d) THEN [is |-> "rejected"]
                 ELSE [is |-> "loaded", workers |-> Concurrency(Or(d.root, "workers", [is |-> "number", v |-> 1])),
                       groups |-> LET g == Or(d.root, "groups", <<>>) IN [name \in DOMAIN g |-> OptionsOf(g[name])]]
  /\ UNCHANGED <<machine, cpuset, mask, provider, poolState, groups, jobEntry, restrictions>>
--------------------
\* HwlocWorkerTopology(): what the machine reports of the CPUs that are both
\* allowed and inherited; an unknown mask leaves an empty snapshot.
Nonempty(records) == {r \in records : r.cpus # {}}
CutTo(records, cpus) == Nonempty({[r EXCEPT !.cpus = @ \cap cpus] : r \in records})
Inventory(eligible) ==
  [duplicate |-> FALSE, eligible |-> eligible, affinity |-> machine.binds /\ eligible # {},
   cores |-> CutTo(machine.cores, eligible), caches |-> CutTo(machine.caches, eligible)]
MakeHwloc ==
  /\ provider = NoProvider /\ ~poolState.open /\ machine.loads
  /\ provider' = [kind |-> "hwloc", snapshot |-> Inventory(IF machine.queries THEN cpuset \cap mask["creator"] ELSE {})]
  /\ UNCHANGED <<machine, cpuset, mask, settings, poolState, groups, jobEntry, restrictions>>

\* A provider of the application's own; its lists may be malformed.
MakeCustom ==
  /\ provider = NoProvider /\ ~poolState.open
  /\ \E s \in Snapshots : provider' = [kind |-> "custom", snapshot |-> s]
  /\ UNCHANGED <<machine, cpuset, mask, settings, poolState, groups, jobEntry, restrictions>>

\* current_thread_cpus() and current_affinity().
CanQuery ==
  CASE provider.kind = NoName -> machine.native
    [] provider.kind = "hwloc" -> machine.queries
    [] OTHER -> TRUE

\* What prepare_topology() rejects: a CPU listed twice, identities of cores
\* and caches that are not unique, and a CPU that would be in two cores.
DistinctIds(records) == \A r, s \in records : r.id = s.id => r = s
WellFormed(s) ==
  /\ ~s.duplicate /\ DistinctIds(s.cores) /\ DistinctIds(s.caches)
  /\ \A r \in s.caches : r.level > 0

\* Mutant: the provider's snapshot is believed as it is.
RestrictedNever(s, inherited) == s

Restricted(s, inherited) ==
  LET eligible == s.eligible \cap inherited IN
  [eligible |-> eligible, affinity |-> s.affinity /\ eligible # {},
   cores |-> CutTo(s.cores, eligible), caches |-> CutTo(s.caches, eligible)]
Disjoint(cores) == \A k, l \in cores : k # l => k.cpus \cap l.cpus = {}

\* complete_core_topology().
CompleteCores(t) == t.eligible # {} /\ UNION {k.cpus : k \in t.cores} = t.eligible

\* The pool's topology, without a provider the one of the native adapter.
Topology ==
  LET inherited == IF CanQuery THEN mask["creator"] ELSE {} IN
  IF provider.kind = NoName
  THEN [eligible |-> inherited, affinity |-> inherited # {}, cores |-> {}, caches |-> {}]
  ELSE Restricted(provider.snapshot, inherited)

\* Pool::Pool(): automatic capacity is one thread for each core, for each
\* CPU where cores are not known, and never none; make_placement() gives a
\* CPU without a known core a slot of its own.
Largest(n, m) == IF n > m THEN n ELSE m
Automatic(t) ==
  IF CompleteCores(t) THEN Cardinality(t.cores) ELSE Largest(1, Cardinality(t.eligible))
CoreOf(t) ==
  [c \in t.eligible |-> LET k == {r \in t.cores : c \in r.cpus} IN IF k = {} THEN <<"alone", c>> ELSE <<"core", (CHOOSE r \in k : TRUE).id>>]
OpenPool ==
  /\ settings.is = "loaded" /\ ~poolState.open
  /\ provider # NoProvider => WellFormed(provider.snapshot)
  /\ Disjoint(Topology.cores)
  /\ poolState' = [open |-> TRUE, topology |-> Topology, slots |-> CoreOf(Topology),
              capacity |-> IF settings.workers = 0 THEN Automatic(Topology) ELSE settings.workers]
  /\ mask' = [mask EXCEPT !["worker"] = mask["creator"]]
  /\ UNCHANGED <<machine, cpuset, settings, provider, groups, jobEntry, restrictions>>
--------------------
\* resolve_policy(), wish by wish.  A wish for CPUs: those of them that are
\* eligible, or all eligible ones when none is.
CpusGranted(o) ==
  LET allowed == ToSet(o.cpus) \cap poolState.topology.eligible IN
  IF o.cpus = <<>> \/ ~poolState.topology.affinity \/ allowed = {} THEN poolState.topology.eligible ELSE allowed
CpusRefused(o) == o.cpus # <<>> /\ (~poolState.topology.affinity \/ CpusGranted(o) # ToSet(o.cpus))
CpusImpossible(o) == o.cpus # <<>> /\ (~poolState.topology.affinity \/ ~(ToSet(o.cpus) \subseteq poolState.topology.eligible))

\* A wish for a cache: within what the wish for CPUs has left.
Domains(o) == {d \in poolState.topology.caches : d.id = o.cache /\ d.cpus \cap CpusGranted(o) # {}}
CacheGranted(o) == o.cache # NoCache /\ poolState.topology.affinity /\ Domains(o) # {}

\* Mutant: the cache's CPUs, whatever CPUs were asked for.
EffectiveByCache(o) == IF CacheGranted(o) THEN UNION {d.cpus : d \in Domains(o)} ELSE CpusGranted(o)

Effective(o) ==
  IF CacheGranted(o) THEN CpusGranted(o) \cap UNION {d.cpus : d \in Domains(o)} ELSE CpusGranted(o)

\* A wish for locality, which a provider implies: it needs CPUs to choose
\* from, and for the promise of distinct cores the core of each.
LocalityWish(o) == IF o.locality = NoName /\ provider # NoProvider THEN "automatic" ELSE o.locality
CanPlace(o) == provider # NoProvider /\ poolState.topology.affinity /\ Effective(o) # {}
CoresKnown(o) == CanPlace(o) /\ \A c \in Effective(o) : poolState.slots[c][1] = "core"

\* Mutant: a locality is granted wherever it is wished for.
PlacedAnyway(o) == LocalityWish(o) # NoName

Placed(o) == LocalityWish(o) # NoName /\ CanPlace(o)

Impossible(o) ==
  \/ o.numa \/ CpusImpossible(o) \/ (o.cache # NoCache /\ ~CacheGranted(o))
  \/ o.locality # NoName /\ ~CoresKnown(o)
Degraded(o) ==
  \/ o.numa \/ CpusRefused(o) \/ (o.cache # NoCache /\ ~CacheGranted(o))
  \/ LocalityWish(o) # NoName /\ ~CoresKnown(o)
Smallest(n, m) == IF n < m THEN n ELSE m
Policy(o) ==
  [cpus |-> Effective(o), cache |-> IF CacheGranted(o) THEN o.cache ELSE NoCache,
   locality |-> IF Placed(o) THEN LocalityWish(o) ELSE NoName,
   fallback |-> Degraded(o) /\ ~o.hard, cores |-> CoresKnown(o),
   concurrency |-> IF o.concurrency = 0 THEN poolState.capacity ELSE Smallest(o.concurrency, poolState.capacity)]

\* Pool::make_group().  NUMA is a wish that no document can express.
MakeGroup(name, numa) ==
  /\ poolState.open /\ name \notin DOMAIN groups
  /\ LET o == [settings.groups[name] EXCEPT !.numa = numa] IN
     /\ ~(o.hard /\ Impossible(o))
     /\ groups' = [n \in DOMAIN groups \cup {name} |-> IF n = name THEN [asked |-> o, policy |-> Policy(o)] ELSE groups[n]]
  /\ UNCHANGED <<machine, cpuset, mask, settings, provider, poolState, jobEntry, restrictions>>
--------------------
\* set_native_affinity() and bind_current_thread(): the system cuts the mask
\* to what it lets run, a provider refuses a CPU it has not found eligible.
Bindable(cpus) ==
  /\ cpus # {} /\ cpus \cap cpuset # {}
  /\ provider.kind = "hwloc" => provider.snapshot.affinity /\ cpus \subseteq provider.snapshot.eligible

\* apply_affinity(): the mask is read back and has to be the one asked for.
Applied(cpus) == Bindable(cpus) /\ CanQuery /\ cpus \cap cpuset = cpus

\* A worker enters a job of a group whose CPUs it is not known to be on: one
\* CPU of a placed group, all of another's; a preference may fall back.
Targets(g) == IF groups[g].policy.locality = NoName THEN {groups[g].policy.cpus} ELSE {{c} : c \in groups[g].policy.cpus}
EnterBound(g, on, outcome) ==
  /\ jobEntry' = [group |-> g, on |-> on, outcome |-> outcome]
  /\ mask' = [mask EXCEPT !["worker"] = IF outcome = "runs" THEN on ELSE @]
EnterJob(g) ==
  /\ g \in DOMAIN groups /\ poolState.topology.affinity
  /\ \E on \in Targets(g) :
       LET all == poolState.topology.eligible IN
       IF Applied(on) THEN EnterBound(g, on, "runs")
       ELSE IF ~groups[g].asked.hard /\ Applied(all) THEN EnterBound(g, all, "runs")
       ELSE EnterBound(g, {}, "fails")
  /\ UNCHANGED <<machine, cpuset, settings, provider, poolState, groups, restrictions>>

SetupNext ==
  \/ SystemRestricts \/ MakeHwloc \/ MakeCustom \/ OpenPool
  \/ \E d \in Documents : Load(d)
  \/ \E name \in DOMAIN Or(settings, "groups", <<>>), numa \in BOOLEAN : MakeGroup(name, numa)
  \/ \E g \in GroupNames : EnterJob(g)

SetupSpec == SetupInit /\ [][SetupNext]_setupVars
--------------------
\* A pool has a thread and, as long as it can bind, a CPU.  What a group
\* requires it has, what it merely prefers and has not got is reported as a
\* fallback; it has a CPU to be placed on when it has a locality, and never
\* one that its pool's creator had not.  No job is refused because the
\* provider takes its own pool's CPUs for an expansion, and a job that runs
\* runs on the CPUs required.
HasPromise(o, p) ==
  /\ o.cpus # <<>> => p.cpus \subseteq ToSet(o.cpus)
  /\ o.cache # NoCache => \E d \in poolState.topology.caches : d.id = o.cache /\ p.cpus \subseteq d.cpus
  /\ o.locality # NoName => p.locality = o.locality /\ p.cores
  /\ ~o.numa
PlacementIsHonest ==
  /\ poolState.open =>
       /\ poolState.capacity >= 1
       /\ poolState.topology.affinity => poolState.topology.eligible # {}
       /\ provider.kind = "hwloc" => poolState.topology.eligible \subseteq provider.snapshot.eligible
  /\ \A name \in DOMAIN groups :
       LET o == groups[name].asked
           p == groups[name].policy IN
       /\ p.cpus \subseteq poolState.topology.eligible /\ p.concurrency \in 1..poolState.capacity
       /\ p.locality # NoName => p.cpus # {}
       /\ poolState.topology.affinity => p.cpus # {}
       /\ ~HasPromise(o, p) => ~o.hard /\ p.fallback
       /\ p.cores => \A c, d \in p.cpus :
            poolState.slots[c] = poolState.slots[d] <=> \E k \in poolState.topology.cores : {c, d} \subseteq k.cpus
  /\ jobEntry # NoEntry =>
       /\ jobEntry.on \subseteq poolState.topology.eligible
       /\ LET g == groups[jobEntry.group] IN
          jobEntry.outcome = "runs" /\ g.asked.hard => HasPromise(g.asked, [g.policy EXCEPT !.cpus = jobEntry.on])
       /\ jobEntry.outcome = "fails" => restrictions > 0
====================
