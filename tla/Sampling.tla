------------------------------ MODULE Sampling ------------------------------
(***************************************************************************)
(* How a change of the rules file reaches the samplers of one instance:    *)
(* fileConfig.Reload, started by the watcher's ticker or by a message      *)
(* (config/file_config.go, internal/configwatcher), the collector's reload *)
(* signals (collect/), and the SamplerFactory with the dynsamplers that    *)
(* all workers share (sample/).  Decisions are made by Rules.              *)
(*                                                                         *)
(* There is one sampler key, a rules-based sampler, whose rules may have a *)
(* downstream throughput sampler.  What the files hold over time is the    *)
(* constant File; a version is a place in it.  ConfigLoad says whether a   *)
(* version loads and is valid.                                             *)
(***************************************************************************)
EXTENDS Rules, ConfigLoad

CONSTANTS
  Worker,
  File,            \* per version, [config, samplers, nested, rules]
  Configs,         \* other contents that the configuration files may have
  ProgramVersion,  \* of this Refinery
  Traces,          \* the traces a worker may be asked to decide
  MaxPeers,        \* bound: peers in the cluster
  MaxPeerChanges   \* bound: changes of their number

\* In File, config and samplers are the sources that ConfigLoad reads, and rules
\* and nested are what the rules of the sampler key say.
\* A rule is [scope, conditions, sampler]; its downstream sampler, if it has
\* one, is the only element of sampler: [goal, cluster, fields, roots, useLength].
ASSUME WorkerAssumption == Worker # {} /\ IsFiniteSet(Worker)
IsList(s) == Len(s) \in Nat /\ DOMAIN s = 1..Len(s)
ASSUME FileAssumption ==
  /\ IsList(File)
  /\ \A v \in DOMAIN File :
       /\ IsList(File[v].rules)
       /\ \A i \in DOMAIN File[v].rules :
            LET rule == File[v].rules[i] IN
              /\ \A d \in rule.sampler : rule.sampler = {d} /\ IsList(d.fields)
              /\ IsList(rule.conditions)
              /\ \A j \in DOMAIN rule.conditions : IsList(rule.conditions[j].fields)
ASSUME TracesAssumption ==
  \A t \in Traces : IsList(t.spans) /\ t.root \in 0..Len(t.spans)
ASSUME StartAssumption ==
  Len(File) > 0 /\ Outcome(File[1].config, File[1].samplers, {ProgramVersion}) # "error"
ASSUME PeersAssumption == MaxPeers \in Nat \ {0} /\ MaxPeerChanges \in Nat

VARIABLES
  \* the configuration
  file,       \* the version that the file holds
  current,    \* the version that fileConfig has installed
  reload,     \* the goroutines that may be in Reload
  \* the collector
  signal,     \* its reload channel
  restart,    \* per worker, its reload channel
  worker,     \* per worker, what it does
  samplers,   \* per worker, datasetSamplers: at most one sampler
  \* the factory
  shared,     \* sharedDynsamplers
  goals,      \* goalThroughputConfigs
  peerCount,
  sorted,     \* the field lists that newTraceKey has sorted in place
  \* the surroundings
  peers,      \* how many there are
  callback,   \* a callback of the peers is due
  changes

configVars  == <<file, current, reload>>
collectVars == <<signal, restart, worker, samplers>>
factoryVars == <<shared, goals, peerCount, sorted>>
clusterVars == <<peers, callback, changes>>
samplingVars == <<configVars, collectVars, factoryVars, clusterVars>>

NotReloading == [pc |-> "idle", version |-> 0]
Reloader == {"ticker", "message"}
Idle == [pc |-> "idle", version |-> 0, rule |-> 0, dyn |-> <<>>]

RulesOf(v) == File[v].rules
Downstream(v, i) == The(RulesOf(v)[i].sampler)

SamplingInit ==
  /\ file = 1 /\ current = 1 /\ reload = [g \in Reloader |-> NotReloading]
  /\ signal = FALSE /\ restart = [w \in Worker |-> FALSE]
  /\ worker = [w \in Worker |-> Idle] /\ samplers = [w \in Worker |-> {}]
  /\ shared = <<>> /\ goals = <<>> /\ peerCount = 1 /\ sorted = {}
  /\ peers = 1 /\ callback = FALSE /\ changes = 0

-----------------------------------------------------------------------------
(* Reload. *)

Edit ==
  /\ file < Len(File) /\ file' = file + 1
  /\ UNCHANGED <<current, reload, collectVars, factoryVars, clusterVars>>

\* newConfigAndRules
ReadFiles(g) ==
  /\ reload[g].pc = "idle"
  /\ reload' = [reload EXCEPT ![g] = [pc |-> "validate", version |-> file]]
  /\ UNCHANGED <<file, current, collectVars, factoryVars, clusterVars>>

\* What newFileConfig makes of each version: Reload does not tell it which
\* version of Refinery this is.
Status == [v \in DOMAIN File |-> Outcome(File[v].config, File[v].samplers, {})]

\* newFileConfig returns an error for warnings too, beside the configuration,
\* and Reload gives up on any error.  The hashes are compared without a lock.
newFileConfig(g) ==
  LET v == reload[g].version IN
    /\ reload[g].pc = "validate"
    /\ reload' = IF Status[v] = "valid" /\ v # current
                   THEN [reload EXCEPT ![g].pc = "install"]
                   ELSE [reload EXCEPT ![g] = NotReloading]
    /\ UNCHANGED <<file, current, collectVars, factoryVars, clusterVars>>

\* The configuration is replaced, with new lists, and the callbacks are called:
\* the collector's is sendReloadSignal.  (Nothing tells whether the signal or
\* the monitor that takes it was late.)
Reload(g) ==
  /\ reload[g].pc = "install"
  /\ current' = reload[g].version
  /\ sorted' = {list \in sorted : list[1] # current'}
  /\ signal' = TRUE
  /\ reload' = [reload EXCEPT ![g] = NotReloading]
  /\ UNCHANGED <<file, restart, worker, samplers, shared, goals, peerCount, clusterVars>>

Reloading(g) == ReadFiles(g) \/ newFileConfig(g) \/ Reload(g)

-----------------------------------------------------------------------------
(* reloadConfigs, on the monitor goroutine: the dynsamplers are stopped and  *)
(* forgotten, then the workers are told.  How late a worker is told cannot   *)
(* be told from how late it takes the signal.                                *)

Stopped(dyn) == [i \in DOMAIN dyn |-> [dyn[i] EXCEPT !.running = FALSE]]

\* Variant: a worker that is busy is passed over.
Signalled_Idle == [w \in Worker |-> restart[w] \/ worker[w].pc = "idle"]
Signalled == [w \in Worker |-> TRUE]

reloadConfigs ==
  /\ signal /\ signal' = FALSE
  /\ shared' = <<>> /\ goals' = <<>>
  /\ samplers' = [w \in Worker |-> {[s EXCEPT !.dyn = Stopped(@)] : s \in samplers[w]}]
  /\ worker' = [w \in Worker |-> [worker[w] EXCEPT !.dyn = Stopped(@)]]
  /\ restart' = Signalled
  /\ UNCHANGED <<configVars, peerCount, sorted, clusterVars>>

\* The worker's loop
WorkerReload(w) ==
  /\ restart[w] /\ worker[w].pc = "idle"
  /\ restart' = [restart EXCEPT ![w] = FALSE]
  /\ samplers' = [samplers EXCEPT ![w] = {}]
  /\ UNCHANGED <<configVars, signal, worker, factoryVars, clusterVars>>

-----------------------------------------------------------------------------
(* The factory.  A dynsampler in use is known by its key, the worker that    *)
(* created it, and whether ClearDynsamplers has stopped it since.            *)

Sorted(fields) ==
  LET places == DOMAIN fields
      order == CHOOSE p \in Permutations(places) :
                 \A i, j \in places : i < j => fields[p[i]] <= fields[p[j]]
  IN [i \in places |-> fields[order[i]]]

\* The field list of rule i's sampler, as the configuration has it now.
FieldList(v, i) ==
  IF <<v, i>> \in sorted THEN Sorted(Downstream(v, i).fields) ELSE Downstream(v, i).fields

dynsamplerKey(v, i) == [goal |-> Downstream(v, i).goal, fields |-> FieldList(v, i)]

Put(f, key, value) == [k \in DOMAIN f \cup {key} |-> IF k = key THEN value ELSE f[k]]

\* Variant: the number of peers is not looked up again.
ClusterSize_Stale == peerCount
ClusterSize == peers

\* updatePeerCounts, for every dynsampler in ds whose goal in gs is the cluster's.
updatePeerCounts(ds, gs) ==
  /\ peerCount' = ClusterSize
  /\ shared' = [k \in DOMAIN ds |->
                  IF k \in DOMAIN gs THEN [ds[k] EXCEPT !.goal = Max({gs[k] \div peerCount', 1})]
                                     ELSE ds[k]]

PeersChange ==
  /\ changes < MaxPeerChanges /\ changes' = changes + 1
  /\ peers' \in 1..MaxPeers \ {peers}
  /\ callback' = TRUE
  /\ UNCHANGED <<configVars, collectVars, factoryVars>>

PeersCallback ==
  /\ callback /\ callback' = FALSE
  /\ updatePeerCounts(shared, goals)
  /\ UNCHANGED <<configVars, collectVars, goals, sorted, peers, changes>>

-----------------------------------------------------------------------------
(* A worker without a sampler has one created.                               *)

\* Where Start of the rules-based sampler goes on after rule i; 0 at the end.
NextRule(v, i) ==
  LET rest == {j \in DOMAIN RulesOf(v) : j > i /\ RulesOf(v)[j].sampler # {}}
  IN IF rest = {} THEN 0 ELSE Min(rest)

\* GetSamplerImplementationForKey reads the configuration.
GetSamplerImplementationForKey(w) ==
  /\ worker[w].pc = "idle" /\ samplers[w] = {}
  /\ worker' = [worker EXCEPT ![w] = [pc |-> "create", version |-> current,
                                      rule |-> NextRule(current, 0), dyn |-> <<>>]]
  /\ UNCHANGED <<configVars, signal, restart, samplers, factoryVars, clusterVars>>

\* Variant: the map is not asked first.
Lookup_Always(key) == FALSE
Lookup(key) == key \in DOMAIN shared

getSharedDynsampler(w) ==
  LET v == worker[w].version
      i == worker[w].rule
      key == dynsamplerKey(v, i)
  IN
    /\ worker[w].pc = "create" /\ i # 0
    /\ shared' = IF Lookup(key) THEN shared
                 ELSE Put(shared, key, [goal |-> Downstream(v, i).goal, owner |-> w])
    /\ worker' = [worker EXCEPT ![w].pc = "start",
                                ![w].dyn = Put(@, i, [key |-> key, running |-> TRUE,
                                                      owner |-> shared'[key].owner])]
    /\ UNCHANGED <<configVars, signal, restart, samplers,
                   goals, peerCount, sorted, clusterVars>>

\* The rest of createSampler for a downstream sampler: its goal is noted if it
\* is the cluster's, Start sorts the field list of the configuration itself, and
\* the goals are updated.
StartDownstream(w) ==
  LET v == worker[w].version
      i == worker[w].rule
  IN
    /\ worker[w].pc = "start"
    /\ goals' = IF Downstream(v, i).cluster
                  THEN Put(goals, worker[w].dyn[i].key, Downstream(v, i).goal) ELSE goals
    /\ sorted' = IF FieldList(v, i) = Sorted(FieldList(v, i)) THEN sorted
                 ELSE sorted \cup {<<v, i>>}
    /\ updatePeerCounts(shared, goals')
    /\ worker' = [worker EXCEPT ![w].pc = "create", ![w].rule = NextRule(v, i)]
    /\ UNCHANGED <<configVars, signal, restart, samplers, clusterVars>>

\* The rest of createSampler for the rules-based sampler.
createSampler(w) ==
  /\ worker[w].pc = "create" /\ worker[w].rule = 0
  /\ updatePeerCounts(shared, goals)
  /\ samplers' = [samplers EXCEPT ![w] = {[version |-> worker[w].version, dyn |-> worker[w].dyn]}]
  /\ worker' = [worker EXCEPT ![w] = Idle]
  /\ UNCHANGED <<configVars, signal, restart, goals, sorted, clusterVars>>

Creating(w) == getSharedDynsampler(w) \/ StartDownstream(w) \/ createSampler(w)

\* The key that the downstream sampler of rule i counts trace t under, if the
\* rule has one.
DownstreamKey(v, i, t) ==
  {build(t, Sorted(d.fields), d.roots, d.useLength) : d \in IF i = 0 THEN {} ELSE RulesOf(v)[i].sampler}

\* What a worker whose sampler is of version v makes of trace t, if rule i is
\* the first that matches.
Verdict(v, i, t) == [rule |-> i, key |-> DownstreamKey(v, i, t)]
makeDecision(v, t) == Verdict(v, FirstMatch(t, RulesOf(v), File[v].nested), t)

-----------------------------------------------------------------------------
SamplingNext ==
  \/ Edit \/ \E g \in Reloader : Reloading(g)
  \/ reloadConfigs \/ PeersChange \/ PeersCallback
  \/ \E w \in Worker : WorkerReload(w) \/ GetSamplerImplementationForKey(w) \/ Creating(w)

SamplingSpec == SamplingInit /\ [][SamplingNext]_samplingVars

\* The ticker fires, goroutines run, and a worker's select takes the reload
\* signal some time.  Nothing makes messages or traces arrive.
SamplingFairness ==
  /\ WF_samplingVars(ReadFiles("ticker"))
  /\ \A g \in Reloader : WF_samplingVars(newFileConfig(g) \/ Reload(g))
  /\ WF_samplingVars(reloadConfigs) /\ WF_samplingVars(PeersCallback)
  /\ \A w \in Worker : SF_samplingVars(WorkerReload(w)) /\ WF_samplingVars(Creating(w))

FairSamplingSpec == SamplingSpec /\ SamplingFairness

-----------------------------------------------------------------------------
(* Properties. *)

\* The worker decides with a sampler that no reload is about to take from it.
Settled(w) == samplers[w] # {} /\ worker[w].pc = "idle" /\ ~restart[w] /\ ~signal

SamplerOf(w) == The(samplers[w])

\* createSampler's comment: "samplers with identical configurations share the
\* same underlying dynsampler instance".  Workers that decide by the same version
\* use the same dynsamplers, and no reload has stopped those.
SamplersShared ==
  \A w, x \in Worker :
    Settled(w) /\ Settled(x) /\ SamplerOf(w).version = SamplerOf(x).version =>
      /\ SamplerOf(w).dyn = SamplerOf(x).dyn
      /\ \A i \in DOMAIN SamplerOf(w).dyn : SamplerOf(w).dyn[i].running

\* Every dynsampler in use that is to share its goal with the cluster has its
\* part of it, for the number of peers there are now.
GoalsFollowCluster ==
  ~callback /\ (\A w \in Worker : worker[w].pc = "idle") =>
    \A w \in Worker : Settled(w) =>
      \A i \in DOMAIN SamplerOf(w).dyn :
        LET d == Downstream(SamplerOf(w).version, i) IN
          d.cluster => shared[SamplerOf(w).dyn[i].key].goal = Max({d.goal \div peers, 1})

\* Whether d decides trace t as the rules of version v say: a rule matches if its
\* conditions hold, the first one that matches decides, and as long as the trace
\* has few values it is counted under the key of all of them.
Agrees(v, t, d) ==
  LET rules == RulesOf(v)
      holds == {i \in DOMAIN rules : ReferenceMatches(t, rules[i], File[v].nested)}
      values(s) == ReferenceValues(t, Sorted(s.fields))
  IN
    /\ {i \in DOMAIN rules : RuleMatches(t, rules[i], File[v].nested)} = holds
    /\ d.rule = IF holds = {} THEN 0 ELSE Min(holds)
    /\ \A s \in IF d.rule = 0 THEN {} ELSE rules[d.rule].sampler :
         Cardinality(values(s)) < MaxKeyLength =>
           d.key = {KeyFrom(t, Sorted(s.fields), s.roots, s.useLength, values(s))}

Sound == {v \in DOMAIN File : \A t \in Traces : Agrees(v, t, makeDecision(v, t))}

\* The early exits of ruleMatchesTrace, ruleMatchesSpanInTrace and distinctValue
\* change no decision: whatever order the spans of a trace arrived in, a worker
\* decides it as the rules of its version say.
DecidedByReference ==
  \A w \in Worker : samplers[w] # {} => SamplerOf(w).version \in Sound

\* Whatever is accepted, now or of the other contents, gives every field the
\* value that the files, the options and the defaults should give it, and that
\* value is valid: the two passes of validation, one of which merges maps another
\* way than the struct does, let nothing else through.
Sources == Configs \cup {File[v].config : v \in DOMAIN File}
Unfaithful == {c \in Sources : ~HasErrors(validateConfigs(c, {})) /\ ~AsWritten(c)}
InUseAsWritten == \A c \in Unfaithful : c \notin Configs /\ c # File[current].config

\* Once the file holds a valid version for good, that version is installed and
\* no worker goes on deciding by another, even if two reloads overlapped.
ConfigApplied ==
  [](file = Len(File) /\ Status[file] = "valid" =>
       <>[](/\ current = file
            /\ \A w \in Worker : samplers[w] # {} => SamplerOf(w).version = file))
=============================================================================
