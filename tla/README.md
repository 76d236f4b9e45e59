# A TLA+ model of Refinery

Refinery is a tail-sampling proxy. Spans of a trace arrive one by one at any
instance of a cluster, are forwarded to the instance that owns the trace, wait
there until the trace is complete or its time is up, and are then kept or
dropped together. This project models the parts of it that run concurrently,
checks them with TLC on small instances, and proves the central invariants with
TLAPS for every size.

## The system

| Component | State | Operations | Talks to |
|---|---|---|---|
| Router (`route/`) | environment cache, HTTP and gRPC servers | `event`, `batch`, `postOTLPTrace`, `processEvent`, `environmentCache.get`, `Stop` | sharder (who owns the trace), stress relief, collector, transmissions |
| Collector worker (`collect/collector_worker.go`) | input channels, trace cache with its queue, cached samplers, sample cache | `add`, `collect`, `processSpan`, `sendExpiredTracesInCache`, `makeDecision`, `send`, `sendTracesEarly` | routers through channels, monitor through channels, `tracesToSend` |
| Collector (`collect/collect.go`) | workers, `tracesToSend`, `done`, `reload` | `monitor`, `checkAlloc`, `reloadConfigs`, `ProcessSpanImmediately`, `sendTraces`, `Stop` | all workers, health, transmission |
| Sample cache (`collect/cache/`) | LRU of kept traces, set of recent drops, queue, two cuckoo filters | `Record`, `CheckSpan`, `drain`, `Maintain`, `Resize` | worker, router goroutines under stress |
| Stress relief (`collect/stressRelief.go`) | own level, reports of the peers, thresholds, `stressed`, `stayOnUntil` | `Recalc`, `clusterStressLevel`, `onStressLevelUpdate`, `UpdateFromConfig` | pubsub, peers, metrics |
| Transmission (`transmit/direct_transmit.go`) | a batch per destination, counter of queued items, pool of senders | `EnqueueEvent`, `dispatchStaleBatches`, `sendBatch`, `Stop` | upstream API or a peer |
| Health (`internal/health/health.go`) | timeouts, countdowns and readiness of subsystems | `Register`, `Unregister`, `Ready`, `ticker`, `IsAlive`, `IsReady` | subsystems, probes |
| Peers (`internal/peer/pubsub_redis.go`) | expiring map of instances, hash of its keys | `Start`, `Ready`, `listen`, `checkHash`, `GetPeers`, `stop` | pubsub, sharder (callback) |
| Sharder (`sharder/deterministic.go`) | shard list and partitions | `Start`, `loadPeerList`, `WhichShard` | peers |
| Pubsub (`pubsub/`) | subscriptions | `Publish`, `Subscribe`, `Close` | peers, stress relief, config watcher |
| Samplers (`sample/`) | sampler per dataset, shared dynsamplers | `GetSamplerImplementationForKey`, `GetSampleRate`, `ClearDynsamplers` | worker |
| Configuration (`config/`, `internal/configwatcher/`) | current file, hashes, callbacks | `loadConfigsInto`, `validateConfigs`, `applyConfigInto`, `Reload`, `monitor`, `RegisterReloadCallback` | everybody |
| Payloads (`types/payload.go`) | per event: serialized, memoized, missing and metadata fields | `UnmarshalMsg`, `ExtractMetadata`, `MemoizeFields`, `Get`, `Exists`, `Set`, `All`, `MarshalMsg` | router, rules, collector, transmission |
| Agent (`agent/`) | last health, usage data points, remote configuration and its status | `healthCheck`, `reportUsagePeriodically`, `updateRemoteConfig`, `Stop` | health, metrics, config, OpAMP client |

What is hard about it:

- *interleaving*: a worker's `select` over four channels, routers that decide
  spans beside it under stress, the monitor that stops all workers to evict, and
  `Stop` closing channels that others may still use;
- *time*: deadlines of traces, minimum activation of stress relief, timeouts of
  peers and subsystems, stale batches;
- *unreliable messages*: announcements and stress reports are published at most
  once and handled in a goroutine each, in any order;
- *bounded memory of decisions*: the sample cache must answer for late spans
  although it forgets;
- *aliasing and stale reads*: events shared by two transmissions, lists read
  before a lock and installed under it, maps read in two steps, answers about
  health that are passed on later;
- *one thing in several representations*: a payload's fields are kept in four
  places, and a configuration is merged once to be validated and once to be used.

`PROJECT.json` lists these hazards at their lines, with the properties that
would catch each one going wrong.

## The modules

| Module | Models | Proofs |
|---|---|---|
| `CollectorWorker` | one worker, trace cache, stress-relief path, `sendTraces` | `CollectorWorkerProofs` |
| `SentCache` | the sample cache in detail | `CollectProofs` |
| `CollectorLifecycle` | what the workers share: monitor, eviction, reload, `Stop` | `CollectorLifecycleProofs` |
| `StressRelief` | stress relief of a cluster | `CollectProofs` |
| `Transmission` | batching and sending of events | `TransmissionProofs` |
| `Health` | the health registry | `ReportsProofs` |
| `Probes` | the agent's health check and the gRPC health monitor; extends `Health` | `ReportsProofs` |
| `Agent` | usage reports and remote configuration of the OpAMP agent | `ReportsProofs` |
| `Payload` | the payload of an event, from the wire to the wire | `PayloadProofs` |
| `FieldMap` | what a payload promises to be; `Payload` implements it | |
| `Membership` | peers and sharder of one instance in a cluster | `ClusterProofs` |
| `Router` | requests on all nodes: keys, environments, forwarding | `RouterProofs` |
| `Rules` | rule evaluation and trace keys, as operators | `ClusterProofs` |
| `ConfigLoad` | loading, merging and validating configurations, as operators | |
| `Sampling` | reload of the files and the sampler factory; extends `Rules` and `ConfigLoad` | `ClusterProofs` |

A module of proofs that serves two models extends both; their specifications are
still separate, and so are the theorems.

`MC<Module>` gives the constants that a configuration file cannot write. An
operator named `X_Something`, right before `X`, is a variant of `X` with a
plausible bug; the specifications never use it. Substituted for `X` it must
violate the property that `PROJECT.json` pairs it with, which shows that the
property does depend on that code.

### CollectorWorker

A trace is a record of its spans, its ticks left to `SendBy`, and what was sent;
`cache` and `queue` are the map and the priority queue of `cache.go`, kept apart
because the code has to keep them in step. `Collect` is one iteration of the
loop: a non-blocking read of `fromPeer` first, then the `select` among ticker,
both channels and the eviction request. A step that handles several traces
(ticker, eviction) is a task: the traces taken, decided one by one, so that
routers and the sender interleave with it. The sampler's verdict is a choice.
The sample cache is what `SentCache` promises: `Record` adds an ID, `Forget` may
lose one. `ProcessSpanImmediately` and `StressRecord` are the two halves of the
stress-relief path, run by router goroutines. `fate`,
`disturbed` and `relieved` are history: what became of each span, the traces whose
memory stress relief or forgetting has disturbed, and those that stress relief has
decided since the worker last did. Only the last are excepted from
`NoSecondDecision`: a trace whose record was forgotten may be decided anew, but
from then on counts as remembered again.

### SentCache

The kept LRU is a sequence in recency order; the dropped side is the recent set
with its TTL, the queue `addch`, and the filters `current` and `future` with the
points at which `Maintain` starts and rotates them. `MaintainLoad`,
`MaintainFuture` and `MaintainCycle` are the lock regions of `Maintain`; the
`Resize...` actions those of `Resize`, with its handshake with the monitor.
`since` is history: the kept IDs used since `Resize` made its copy.

### CollectorLifecycle

Spans and traces are counters per worker; the actions follow `monitor` (swap the
counters, check the allocation, ask workers to evict, wait for them), `reload`
and `Stop` step by step. `reported` is history: what the monitor has reported for
each worker, so that the metric can be compared worker by worker. The routers stop
before the collector does, as the injection graph's order has it (`RoutersStop`).

### StressRelief

Every node has its own mode, thresholds, minimum duration, reports and state;
`UpdateFromConfig` replaces the first three at any time. `promised` is history: the
minimum that was in force when the level was last at or above the deactivation
level, which is what `stayOnUntil` was computed from and what
`CalmBeforeDeactivation` speaks of. Messages under way are a
bag; the level a node measures changes by an input action. Levels are combined
with integer arithmetic on squares, as `clusterStressLevel` compares them.

### Transmission

Batches are sequences of events per host; a request is the set of its events,
since their order in it matters to nobody. `Pack` takes as many events as fit into
`apiMaxBatchSize`, and the `Post...` actions end the request, with one retry, and
settle each event with the outcome the response gives it; the server's answer is
a choice. `fate` and `received` are history. The properties speak of places: the
batch a caller holds, the one of a host, the stale one, the rest a goroutine has.
`ForwardProbe` is the router's write to an event that is already enqueued.

### Health and Probes

Time has a unit finer than the ticker, so that reports fall between two ticks.
`Probes` adds the two that pass the answers on. Each reads `IsAlive` and `IsReady`
in two steps (`CheckAlive`, `CheckReady`; `WatchAlive`, `WatchReady`) at ticks of
its own; the agent tells the server of changes only, and `Stop` tells it last.
`SetHealth` may fail, and the agent takes the health for reported all the same.
`LnS` starts the gRPC server, which calls the service without a name `SERVING`
(`NewServer`) until the monitor's first tick. `missed` and `monitored` are history:
whether the last `SetHealth` failed, and whether the monitor has spoken; they are
the two exceptions of `HearsayFresh`.

### Agent

`RecordUsage` and `Add` are the health check's loop reading two counters and
adding them one by one; `NewReport`, `SendCustomMessage` and `completeSend` are
the goroutine that reports. The OpAMP client holds one message, may be busy,
refuse a message, send it some time or be stopped. `updateRemoteConfig` is the
whole of `onMessage`; whether a configuration loads is an input, since `Sampling`
and `ConfigLoad` model that. `reported`, `failures`, `lossy` and `unhashed` are
history.

### Payload and FieldMap

A payload is a record of its serialized map (`msgpData`), `memoizedFields`,
`missingFields` and the metadata members, each a function from names to values
or `Absent`. `Receive` is the router's decoding in one of three formats with the
key fields of the moment and the request's user agent, `MemoizeFields` that of the
decision, `Forward` the trip to a peer, which orders the fields anew. The order of
fields matters to the search for the trace ID and to the root flag, and is kept as
what that pass meets (`Orders`). Values are model values of each type, with the
conversion of a JSON float to `int64` as a constant function. Clients may send any
map, the metadata of Refinery included, and any field may be a key field or be set.
`MapSpec` is the refinement: with `fields` mapped to what the wire means or
`MarshalMsg` writes, every step is a `Set` of `FieldMap` (the user agent is one) or
a stutter, or a `Reread`. A `Reread` may change only fields in `disputed`, which is
history: the metadata fields that the event contradicts itself about (`Disputed`),
and those that a field set later bears upon (`Bears`). These are an empty
`meta.trace_id` beside a trace ID, a root flag on a log or a true one beside a
parent ID, and an empty user agent; what they mean depends on the order of fields.

### Membership

One instance, `Self`, in detail; the others announce themselves. `listen`,
`ReadKeys` and `checkHash` are the steps of one message's goroutine, `LoadKeys`,
`LoadValues` and `LoadInstall` those of a reload. The hash of a key list is the
key set. The wire is a set: messages overtake each other and may be lost.
`Converges` speaks of behaviours in which no two reloads of the list overlap.

### Router

A goroutine per client request and per forwarded event goes through the steps of
its handler: `Arrive` (key check and replacement, body), `Read`, `Lock` and
`lookupEnvironment` of `environmentCache.get`, `Parse`, then `processEvent` once
per event. The surroundings are what the other modules model: `Collect` takes
spans from a bounded channel, a forwarded event is a message that arrives or is
lost, or that `sendBatch` posts again after a timeout although it may have
arrived. `Retry` makes a second event of it, taken from `Copy`, and from then on
the two go their ways: `EventsConserved` counts them one by one. Peer lists change
on each node by themselves, as in `Membership`. The hash of a trace with each
partition is a constant; the number of partitions that count depends on the length
of the list, as in `loadPeerList`. `fate` and `home` are history.

### Rules and Sampling

In `Rules` a value is a record of what each of the code's conversions makes of it
(`tryConvertToInt`, `tryConvertToFloat`, `convertToString`, `TryConvertToBool`),
with texts as ranks, so that every datatype of a condition, missing fields and
mixed types are compared as the code compares them. The loops with their early
exits are translated as the place at which they stop; the reference definitions
know neither loops nor the order of spans. Values are noted by the place of their
field in the list, as `distinctValue` does: a field listed twice counts twice.
`starts-with`, `contains` and `matches` are one operator that accepts a set of
texts.

`Sampling` follows a change of the files: read, validated and compared
outside the lock, installed, signalled to the collector, which stops and forgets
the shared dynsamplers and signals the workers. A worker without a sampler goes
through `createSampler` for the rules-based sampler and, rule by rule, for the
downstream samplers, in the lock regions of the factory. `sorted` holds the lists
that `newTraceKey` has sorted in place. The traces a worker decides leave its
state alone, so `DecidedByReference` evaluates `makeDecision` on all of them.

### ConfigLoad

A file has a format and is a function from groups to fields to values of the kinds
the format has; a group may be empty. The metadata, what each text parses as, the
environment and the command line are constants. `validateConfigs` is translated
with both its passes: the files merged as maps, and the struct with defaults and
options applied, marshalled and read as a map again. `applyConfigInto` is what is
used. A whole number is an int in YAML only (`Whole`), and JSON and TOML know the
groups of the struct by the names of its members (`Known`), since it has yaml tags
only. The recursion of `Validate` into objects is unfolded to the depth that rules
have (`MaxDepth`). The reference (`ReferenceValue`, `Meets`) says where each value
should come from and what the metadata asks of it, without a word about passes or
the order of merging. `Sampling` takes from it whether a version of the files is
valid, warned of or refused, and `InUseAsWritten` compares code and reference on
all contents.

## The runs

Bounds are small but reach every limit they name: full channels, full filters,
batches that split, an entry that expires in the unit its refresh arrives.

| Run | Bounds | Shows |
|---|---|---|
| `worker` | 2 traces, 3 spans, channels of 1, timeout 2, delay 1, span limit 1, stress, forgetting, stop | cache and queue agree; no sent trace is cached; spans are conserved; deadlines are met; a trace is decided as a whole unless stress relief or a lost record interferes, and once unless stress relief does or its record is lost; every span is settled |
| `sentcache` | 2 IDs, filter of 2, LRU of 1 or 2, queue of 1, two resizes | a drop decision is visible at once and lost only with a full filter; `Resize` keeps the newest records and completes |
| `lifecycle` | 2 workers, 1 span, 1 reload | the waiting metric is exact; nothing is used after it is closed; `Stop` completes |
| `stress` | 2 nodes, 3 levels, 2 level changes, and among them one reload (of thresholds and minimum duration or to mode `never`), loss or crash | no false alarm; stress relief ends, and only after a calm of the minimum that was in force at its last stress; live nodes keep hearing of each other |
| `transmission` | 3 events, 2 destinations, 2 senders, sizes at and above the limits, probes, a stop | events are settled once and in the end; the counter is exact; `Stop` flushes what was received and completes |
| `health` | 2 subsystems, 8 units, tick 2, intervals of 1 and 2, any `SetHealth` failing, the gRPC server starting at any time | death is declared on time; whoever is told of the health is told something recent, a failed `SetHealth` and a new gRPC server excepted |
| `agent` | 1 signal, 3 units of usage, 2 failed reports in a row, 5 remote configurations | usage is reported exactly; what is called applied is in use |
| `payload` | 4 fields, of which 2 trace ID names and a parent name, 6 metadata fields, mixtures of absent, empty, contradictory and wrongly typed values, 2 user agents, 3 key lists, ID names and metadata among them, 1 hop | a payload is a map that only `Set` and the user agent change, where the event does not contradict itself; exports agree with it |
| `membership` | 2 instances, timeout 3, interval 1, delay 1, 1 loss in a row, 2 reloads at a time | announcing instances stay, departed ones go, the shard list settles on the instances that are up |
| `router` | 2 nodes, 3 events in 2 requests and 1 copy, 1 trace, channels of 1, 2 key settings, 2 interferences | events and copies of them are conserved and settled, spans of a trace meet, peers accept forwarded keys |
| `sampling` | 2 workers, 3 versions of the files, 1 change of peers, key cap 3, 9 rules, all traces of up to 2 spans, 14400 contents of configuration files | dynsamplers are shared and running, goals follow the cluster, the last version is applied, decisions follow the reference, and so does every field of an accepted configuration |

One span is enough for the waiting metric: it can be counted before, between or
after the two swaps of a report and the end of its processing. `membership` is
small because `ClusterProofs` shows its two expiry properties for all values,
and `payload` forwards once because `PayloadProofs` covers any number of hops. The
contents that `sampling` gives to `ConfigLoad` set each of six fields to an empty,
a valid, an invalid and an expandable text or not at all, in one file or two, with
headers that are merged; the second file may be an empty group, or JSON or TOML
with a renamed group or a number; each field stands for a kind of validation that meets
defaults, options or merging in another way.

`NoFalseAlarm` and `CalmBeforeDeactivation` speak of configurations without mode
`always` (`NeverForced`), which switches stress relief on whatever the levels are
and sets no time to stay; the instance has the other two modes.

The bound on interferences in `router` is on their sum, so that every pair of them
meets: a list that changes while a message is under way, a failed lookup on a
stressed node. The rules of `sampling` use every operator, datatype and scope, and
its field lists are sorted.

One run ends in a counterexample. `sampling_unsorted` gives two workers a
downstream sampler whose field list is not sorted. The first worker's dynsampler
is stored under the list as written; `newTraceKey` then sorts the list of the
configuration in place (`sample/trace_key.go:31`), so the second worker looks
for the sorted list, finds nothing and creates another. The two workers sample
independently, although the comment of `createSampler`
(`sample/sample.go:97-102`) says that they share one dynsampler.

Deadlock is checked except where the system really stops (`Stop`, or a bounded
number of inputs used up).

### Fairness

- A goroutine that can take a step takes one: weak fairness (Go's scheduler is
  preemptive). Where the work is finite, goroutines that compete for the same
  slot share one condition: the others run out, so none needs to be preferred.
- A ready case of a `select`, a mutex or a channel slot that others compete for
  is strong fairness: `select` chooses at random among the ready cases, mutexes
  and channels queue their waiters.
- A request's goroutine (`Router`) gets the environment cache's lock some time
  (Go's mutexes do not starve a waiter), and the lookup ends (its HTTP client has a
  timeout). A worker's `select` takes the reload signal some time (`Sampling`).
- Time advances: tickers fire.
- Nothing is assumed of inputs: spans, level changes, crashes, losses and reloads
  may or may not happen. In `Membership` at most `MaxLosses` announcements in a
  row are lost; without such a bound no instance could stay listed.

## The proofs

| Theorem | States |
|---|---|
| `CollectorWorkerProofs!TypeCorrect` | type correctness of the worker |
| `CollectorWorkerProofs!CacheAlwaysCoherent` | map and queue hold the same traces with the same deadlines |
| `CollectorWorkerProofs!SentTracesLeaveCache` | no sent trace is cached when a span is processed or a trace decided |
| `CollectorWorkerProofs!DecidedAtMostOnce` | a remembered decision is never made again, unless stress relief made it since the worker last decided |
| `CollectorWorkerProofs!DeadlinesAlwaysHonoured` | a trace over the span limit is due at once, one with its root within the delay |
| `CollectorWorkerProofs!VerdictsAlwaysWhole` | without dry run, the spans of a trace are all sent or all dropped, unless stress relief or a lost record interferes |
| `CollectorWorkerProofs!SpansAlwaysConserved` | a span is in one place or has one outcome, and stays so |
| `CollectorLifecycleProofs!TypeCorrect` | type correctness; the eviction's `WaitGroup` never goes below zero |
| `CollectorLifecycleProofs!WaitingMetricAlwaysExact` | the waiting-spans metric of every worker loses and invents nothing |
| `CollectorLifecycleProofs!NeverUsedAfterClose`, `StopForwardsAll` | `Stop` closes no channel in use, and returns with every decided trace handed on |
| `TransmissionProofs!TypeCorrect` | type correctness of the transmission |
| `TransmissionProofs!EventsAlwaysConserved` | an enqueued event is in one batch or request or is settled, once |
| `TransmissionProofs!QueuedItemsAlwaysExact` | the counter of queued items is exact |
| `TransmissionProofs!StopLeavesNothing` | when `Stop` has returned, what was enqueued is settled |
| `RouterProofs!TypeCorrect` | type correctness of the routers of a cluster |
| `RouterProofs!PeersAlwaysAccept` | a key that one router accepted is accepted by every peer |
| `RouterProofs!EventsAlwaysConserved` | an event, and each copy that a repeated POST makes, is with one goroutine, in one queue or has one outcome |
| `RouterProofs!TracesAlwaysGathered` | while no list has changed, the spans of a trace meet at one collector |
| `ReportsProofs!TypeCorrect`, `DeathAlwaysOnTime` | a silent subsystem is declared dead after its timeout and a tick, none more than a tick early, for any timeouts and tick |
| `ReportsProofs!ReadyAnswersFresh`, `UnregisteredStaysUnready` | what a positive answer of `IsReady` says |
| `ReportsProofs!HearsayAlwaysFresh` | who is told of the health is told something no older than a timeout, a tick and an interval, unless `SetHealth` failed or the gRPC monitor has not spoken |
| `ReportsProofs!UsageAlwaysExact` | short of two failed reports in a row, usage is reported exactly |
| `ReportsProofs!AppliedAlwaysInstalled` | a configuration that is reported as applied is in place, part by part |
| `PayloadProofs!PayloadIsMap` | `Payload` implements `FieldMap`, for any names, values, events, key lists and hops |
| `PayloadProofs!ExportAlwaysAgrees` | what is exported is what rules read, but for an ID name that is a key field |
| `ClusterProofs!DepartedAlwaysExpire` | an instance that left is out of the map after the timeout and the longest delay |
| `ClusterProofs!AnnouncingStaysListed` | with `Margin`, an announcing instance stays in the map |
| `ClusterProofs!DecisionsAgree`, `DecisionsByReference` | every decision of a worker is what the rules of its version say, in whatever order the spans arrived |
| `ClusterProofs!SamplersAlwaysShared` | with field lists in order, workers of one version share running dynsamplers |
| `ClusterProofs!GoalsAlwaysFollow` | goals are divided by the peers there are |
| `ClusterProofs!InstalledAlwaysValid`, `StaleAlwaysTold` | only valid versions are installed, and whoever has a sampler of a replaced one is about to be told |
| `CollectProofs!CacheTypes`, `StressTypes` | type correctness of sample cache and stress relief |
| `CollectProofs!QueuedVisible` | a drop decision on its way into the filters is visible |
| `CollectProofs!DropsPersist` | a drop record is lost only with a full filter, and not if the next filter has it |
| `CollectProofs!ResizeKeeps` | `Resize` keeps the newest records that fit |
| `CollectProofs!AlarmsAreReal` | no stress relief unless some node measured an activation level |
| `CollectProofs!DeactivatesCalm` | stress relief ends only after a calm of the minimum duration in force at its last stress |

They rest on the modules' named assumptions about their constants only.

*Worker.* `CacheCoherent` alone is not inductive: while a task is under way its
traces are out of the cache and one of them may be marked sent. `TaskInv` says
so: the traces of the task are distinct, none is in the cache, and only the one
being sent has its mark. For `DecidedAtMostOnce`, `UndecidedInv` adds that a
trace in the cache or in the task has no record in the sample cache unless it is
the one being decided; `processSpan` starts a trace only after `CheckSpan` found
none. Both need `processSpan` characterised by lemmas (`processSpanType`,
`processSpanCache`, `processSpanUndecided`). `DeadlinesHonoured` needs the traces of
a task too (`InTime`). For `WholeTraceVerdict`, `OwnInv` says that a trace holds
only its own spans, and `VerdictInv` where the verdict of an undisturbed trace is
to be read: nowhere yet, or in its record, and then every span that was sent,
dropped or is on its way agrees with that record. `SpansConserved` counts the
occurrences of a span over channels, cache, task and outgoing traces. `CountInv`
adds that there are finitely many and that an eviction works on the spans of the
cached traces; a map that is divided divides the count (`Divided`), by the
library's theorems on finite sets.

*Lifecycle.* The metric needs that a span is counted once by its sender and once
by its worker, worker by worker. `NothingAfterClose` rests on who waits for whom:
`EvictionInv` says that the `WaitGroup` counts exactly the workers that still owe
an answer (`Owed`) and that there is none outside an eviction, so that the monitor
exits with no eviction under way, and `ShutdownInv` that each channel is closed
only after those who use it have exited.

*Transmission.* `Staged` gives every event a stage: not enqueued, in one list, in
one request that the server has got at most as often as it was tried before, or
settled once. `Holding` says which goroutine may hold anything at all: a caller
only while it waits for the pool, an idle goroutine nothing. Every action is shown
to have one of six effects on the lists, and the stages are kept effect by effect.
The counter follows: what is settled at a time is a finite set of events without
an account (`Counting`). `Stopping` is the order in which `Stop` finds callers,
stale batch, batches and goroutines done.

*Router.* A copy that `Retry` makes is an event of its own that is new until then.
The types carry most of the argument for keys: a request in progress has
a key that `IsAccepted` and that stays so when it is replaced (`Serves`,
`KeyStaysGood`), hence no peer refuses it. `Staged` gives every event a stage, as
above; a probe is an event that was sent upstream and may still be on its way to
its owner. `Gathering` says that queues and homes follow the owner that all nodes
name. That `WhichShard` names a node of the list at all, for any hashes, is an
induction over the partitions and over finite sets of numbers; it is made as a
search for a least counterexample (`LeastNat`), with the theorem that the order of
the naturals is well-founded.

*Health*. `Countdown` relates what is left of a subsystem's time
to its silence: their sum is the timeout, give or take where in the tick it reported.

*Probes.* What the agent told stands until its next check: the proof carries, for
each step of a check and for each unit since, how silent a subsystem may have
become, from the registry's own bound on a positive answer.

*Agent.* `UsageExact` is not inductive: a report that fails falls back on
`lastDataPoints`, which must then hold what the report had taken. `Fallback` says
that it does unless the report before it failed too, and `Reporting` that the
client's message is the one being waited for and that only a cancelled context
ends the loop. `AppliedIsInstalled` is inductive but for the shape of `remote`; it
needs that a hash determines its configuration (`RemoteAssumption`).

*Payload.* The assumptions are about types only. The invariant says that the fields
are settled wherever the event is: the trace ID and the root flag are what the other
fields say, unless they are in dispute (`Settled`). Encoding writes no metadata that
is zero or of another type (`Clean`), and a settled map that is decoded comes out as
it was written (`SentContent`, `DecodeContent`). Until it is memoized, a payload's
metadata is as serialized (`Fresh`), so that memoizing a metadata field sets it to
what it was. `ExportAgrees` needs that no field but an ID name is listed as missing
and yet in the serialized map.

*Membership.* `Senders` says who can have sent what; `Departures` that a Register
on its way is at least as old as its sender's departure and that an entry's rest
and the time since the departure stay within timeout and delay. `Refreshed` says
that an entry outlives the next announcement: one on its way, or the one that
cannot be lost any more (`Budget`).

*Rules and Sampling.* A span for which only the root counts speaks for all others:
`extractValueFromSpan` finds the same value at every span, because a field of the
span itself that came earlier in the list would have been met first
(`OnlyRootSame`). Hence leaving either loop over the spans there changes nothing
(`ConditionReference`, `SpanRuleReference`). `distinctValue` notes a value as long as
fewer than the limit have been met; if there are fewer altogether, it has noted
all of them (`DistinctReference`). The places at which loops stop are least
elements, which `LeastNat` provides. `SamplersShared` needs `SamplingInv`: a worker
that has not been told to forget its sampler, and one that is creating one, hold
only running dynsamplers that the factory still has under their keys, one for each
rule up to the one it is at; whoever has been told may hold anything. `reloadConfigs`
tells all workers in the step that stops the dynsamplers, which is what keeps it.
For `GoalsFollowCluster` the invariant says that goals are divided by the count of
the peers unless some worker is about to divide them, and that the count is the
present one unless a callback is due. `SamplersAlwaysShared` has the hypothesis
`SortedLists`, that every field list is written in order; it is exactly what
`sampling_unsorted` lacks. `GoalsAlwaysFollow` and `DecisionsByReference` need no
such hypothesis. `StaleTold` is inductive with it and is what `ConfigApplied` adds
fairness to.

*Sample cache.* `QueueInv` says that a queued ID has at most one tick of its TTL
behind it. `DropRecordsPersist` has to be shown although `Maintain` acts on a load it
has read before: `MonitorInv` says that a load read as full is not stale, because a
full filter stays full until it is replaced, and that a rotation finds a filter.
`CopyInv` says, of every kept ID while `Resize` has its copy, that the copy has it, or
it was used since, or more IDs than fit were used after it (`Covered`); the lemmas on
`Touch` and `Newest` say how the age of an ID in the LRU changes.

*Stress relief.* `NoFalseAlarm` needs that a root mean square is at most the largest
level (`ClusterLevelBound`), for any number of nodes: the sum of the squares is at
most their number times the square of the largest. That is an induction over the
number of reports, stated of the set of numbers for which it holds (`SetInduction`,
`AddingUp`). `BelowPeak` then says that whatever is under way, recorded or computed is
at most `peak`. `CalmOrStay` says that the time since the last level at or
above the deactivation level and the time still to stay add up to more than the
minimum duration that was promised then.

Only model-checked: liveness, which is out of the prover's reach with its fairness
(the safety halves of `StopFlushes`, `StopCompletes` and `ConfigApplied` are
proved); and
`InUseAsWritten`, because what the merging of files in `ConfigLoad` computes is a fold
over sequences of files and maps, an induction over data that the provers cannot
make. Nothing is proved about the number of bytes in a request either: that `Pack`
makes progress with every event that fits is part of `EveryEventSettled`.

## Other disagreements met while modelling

The model contains these behaviours; no run is spent on them.

- A worker that stops returns from its loop with traces in its cache, and nobody
  sends them; the comment of `GetAll` (`collect/cache/cache.go:23`) speaks of
  flushing.
- Under stress the router marks an event as a probe and sets its `APIHost`
  (`route/route.go:774, 788`) after the same event went to the upstream
  transmission, which reads `APIHost` when it posts
  (`transmit/direct_transmit.go:380-381`): a batch for Honeycomb may go to a peer.
- Two `loadPeerList` that overlap (`sharder/deterministic.go:143-210`) may install
  the older list last, and nothing corrects it until the next change.
- `batch` (`route/route.go:535-549`) answers with an error when the dataset or the
  environment cannot be found, and processes the events all the same, without an
  environment. `processOTLPRequest` (618-622) returns success in that case and
  drops them.
- The write lock of `environmentCache` is held during the HTTP lookup
  (`route/route.go:1042-1052`): requests with other keys wait for it, up to the
  client's timeout.
- Partitions per peer are `partitionCount / len(peers) + 1`
  (`sharder/deterministic.go:188`), so when a node leaves, traces may also move
  between two survivors.
- `Reload` gives up on warnings (`config/file_config.go:652-655`), because
  `newFileConfig` returns them as an error beside the configuration; the comment
  at 530 says "Only fail validation on errors, not warnings".
- A worker that reads the rules just before a reload puts a dynsampler of the old
  version into the cleared map; one of the new version with the same key gets it,
  with the old settings that are not part of the key.
- The nested search of `extractValueFromSpan` (`sample/rules.go:297-304`) looks in
  the span that the last field was looked up in, which may be the root.
- The string `!=` and `not-in` match a missing field, as the text of nil.
- With 100 or more distinct values, a trace's key depends on the order of its spans
  (`sample/trace_key.go:189`).
- `ProcessSpanImmediately` (`collect/collect.go:440`) consults the sample cache
  and not the trace cache, so under stress it also decides spans of a trace that
  a worker holds; its comment (424-427) says the trace is new.
- `Maintain` (`collect/cache/cuckoo.go:181-200`), when late, creates the future
  filter and rotates to it in one call, and every dropped ID is forgotten; the
  comment (29-31) calls its timing not very critical.
- `Resize` (`collect/cache/cuckooSentCache.go:289-294`) copies the LRU without a
  lock against `Record`: a decision made in between is lost although it is the
  newest.
- `Add` (`collect/cache/cuckoo.go:152-161`) drops the ID when its queue is full;
  the description of `AddQueueDepth` (45) says it blocks.
- `clusterStressLevel` (`collect/stressRelief.go:522-529`) returns a root mean
  square; its comment (495) says geometric mean.
- Mode `always` (`collect/stressRelief.go:456`) leaves `stayOnUntil` alone, so a
  reload to `monitor` may end stress relief before `MinimumActivationDuration`.
- A `MinimumActivationDuration` that is raised while the level is already calm
  (`collect/stressRelief.go:295`) is not waited for: `stayOnUntil` (471-476) was
  computed from the old one.
- A `SetHealth` that fails (`agent/agent.go:212-216`) is logged, and `lastHealth` is
  updated before it: the server keeps the old health until the next change.
- A new gRPC health server (`route/route.go:321`) calls the service without a name
  `SERVING`, and keeps to it until the first tick of the monitor.
- A POST that timed out is sent once more (`transmit/direct_transmit.go:461-512`),
  and a peer that got both collects the spans twice.
- The health ticker (`internal/health/health.go:112-120`) takes off a whole tick
  however recent the report, so death may be declared up to one tick before the
  timeout that `Register` promises; `DeathOnTime` allows for that tick.
- Of several trace ID fields the first in the event wins, in an order that is
  random after a hop through a map (`types/payload.go:325-330, 438`);
  `config.md:1053` says that the first in the list of names is used.
- A trace or parent ID name that is a key field of a sampler is used up by the search
  for IDs (`types/payload.go:326-338`), and then listed as missing (374-384): it is
  exported, and `Get` and `Exists` call it absent.
- An event with an empty `meta.trace_id` beside a trace ID, a `meta.refinery.root`
  that is true beside a parent ID or on a log, or an empty user agent is read by
  the order of its fields (`types/payload.go:302-338`), and a hop, or a key field
  that is memoized (589-648), may read it otherwise.
- `rules_complete.yaml:113` uses `trace.parent_id` in a condition, which
  `RELEASE_NOTES.md:112` calls no longer available.
- A usage report that fails for the second time in a row loses the usage of the
  first (`agent/usage_report.go:48-80`), whose comment says to keep it until it is
  known that the report was sent. `UsageExact` speaks of behaviours without two
  such failures.
- `healthCheck` (`agent/agent.go:209`) has no return for a cancelled context: it
  spins, and may tell the server that Refinery is healthy between the two steps
  of `Stop`.
- If `connect` fails there is no agent to stop, and `App.Stop` (`app/app.go:81`)
  calls it all the same.
- A remote configuration without a hash is applied and its status not reported, so
  that an earlier one, offered again, is taken for the one in use and skipped.
- `Reload` does not say which version runs, so that a field removed in an earlier
  version passes a reload and fails the next start; the comment at
  `config/validate.go:581` has a field of the current version fail, which the code
  only warns of.
- `configMeta.yaml:232` and `:1396` misspell `validations`, so that the condition
  on `AcceptOnlyListedKeys` and the conflict of `MaxAlloc` with `AvailableMemory`
  (`config.md:932`) are never checked.
- The structs of a configuration have yaml tags only (`config/file_config.go:53, 66`):
  in JSON and TOML the groups `RefineryTelemetry` and `IDFields` pass the
  validation of the merged map and are ignored. Their numbers are `float64` and
  `int64`, which `validateDatatype` (`config/validate.go:125`) refuses as an int;
  that goes for `ConfigurationVersion` too.
- `loadConfigsIntoMap` (`config/configLoadHelpers.go:379`) panics if an earlier
  file has a scalar where a later one has a group.
- Of a list given on the command line or in the environment, `ApplyTags`
  takes the first element only.
- `Router.Stop` (`route/route.go:339-346`) returns early when handlers take longer
  than a minute, without stopping the gRPC server or the monitor; a handler that
  still runs sends on channels that the collector closes.
- `SortedValues` (`generics/mapttl.go:112-124`) releases the lock between keys and
  values: a key deleted in between yields an empty address.
- Announcements are 3 s plus up to 0.6 s apart and entries live 10 s
  (`internal/peer/pubsub_redis.go:27-33, 186`): from 3.34 s on, two losses in a
  row drop a live instance, where the comment promises room for several.

## What is left out

- Bytes: msgpack, HTTP, gRPC and the OTLP translation of a library. In `Payload`
  a field occurs once in a map; in `ConfigLoad` a text is what it parses as.
- False positives of cuckoo filters and hash collisions: events of negligible
  probability that no property here is about.
- The adaptive sample rates: an external library; the verdict is a choice.
- Metrics and logs, except the waiting-spans counter the collector reports.
- In `Membership`, goroutines that take longer than a unit of time (more than
  half a second) between two of their steps, and handlers of two messages that
  overlap. The file-based peer list never changes and is not modelled.
- In `Router`, the query endpoints and `Stop`, whose one-minute timeout would let
  `CollectorLifecycle` send on closed channels; in `Sampling`, configurations with
  several sampler keys, which share nothing but the factory's lock.
- In `Agent`, identities and the effective configuration, which nobody else reads;
  with OpAMP the watcher does not start, so no other reload interferes.
- The conversion tool, the debug service, loggers and `redimem`: programs of one
  thread, output only, or code that the service does not use.

## Plan

1. An abstract collector (a trace is open, then decided once, then remembered or
   forgotten) and the refinement by `CollectorWorker`.
2. `Router.Stop` composed with the lifecycle; the local pubsub and its closing; the
   order in which the program starts and stops.
