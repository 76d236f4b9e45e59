------------------------------- MODULE Router -------------------------------
(***************************************************************************)
(* The routers of a Refinery cluster (route/, with the key settings of     *)
(* config/file_config.go and the sharder's choice of an owner).  Every     *)
(* node has one router for clients and one for its peers.  A request is    *)
(* authorised, gets the environment of its API key from a cache, is parsed *)
(* and its events are processed one by one: sent upstream, decided at once *)
(* under stress, forwarded to the owner of the trace, or handed to the     *)
(* collector.                                                              *)
(*                                                                         *)
(* The collector (CollectorWorker), the transmissions (Transmission), the  *)
(* peer lists (Membership) and Honeycomb's /1/auth are external here: a    *)
(* queue with a limit, messages that arrive, are lost or are sent twice,   *)
(* lists that change and a lookup that may fail.  A forwarded event is a   *)
(* batch of one.                                                           *)
(***************************************************************************)
EXTENDS Integers, Sequences, FiniteSets, FiniteSetsExt, SequencesExt

CONSTANTS
  Node,
  Event,
  Copy,            \* the events that come into being when a POST is sent again
  Trace,
  NoTrace,
  TraceOf,         \* the trace of every event, or NoTrace
  Request,
  Body,            \* the events of every client request
  Forms,           \* the endpoint and API key every client request may come with
  Key,             \* API keys
  Blank,           \* the missing key
  Legacy,          \* keys that belong to no environment
  AccessKeys,      \* possible settings [receive, send, mode, listedOnly]
  PartitionCount,  \* 50 in the code
  Hash,            \* per trace and node, the hashes with the node's partitions
  QueueSize,       \* capacity of the collector's channels
  MaxFaults        \* bound: changes of peer lists and of the stress state, expired
                   \* environments, failed lookups, lost and repeated POSTs, together

Endpoint == {"event", "batch", "otlp", "otlpGrpc", "logs"}
Mode == {"none", "all", "nonblank", "listedonly", "missingonly", "unlisted"}

ASSUME RequestAssumption ==
  /\ NoTrace \notin Trace /\ TraceOf \in [Event -> Trace \cup {NoTrace}]
  /\ Request \cap Event = {} /\ Body \in [Request -> Seq(Event)]
  /\ Forms \in [Request -> SUBSET (Endpoint \X Key)]
  \* every event of a client is part of one request, once
  /\ Copy \subseteq Event
  /\ \A e \in Event : e \notin Copy <=> \E r \in Request : e \in Range(Body[r])
  /\ \A q, r \in Request : \A i \in DOMAIN Body[q], j \in DOMAIN Body[r] :
       Body[q][i] = Body[r][j] => q = r /\ i = j
ASSUME KeyAssumption ==
  /\ Blank \in Key /\ Legacy \subseteq Key
  /\ AccessKeys # {}
  /\ AccessKeys \subseteq
       [receive : SUBSET Key, send : Key, mode : Mode, listedOnly : BOOLEAN]
ASSUME ShardAssumption ==
  /\ IsFiniteSet(Node) /\ PartitionCount \in Nat
  /\ \A t \in Trace, m \in Node :
       Hash[t][m] \in Seq(Nat \ {0}) /\ Len(Hash[t][m]) = PartitionCount + 1
  \* no two partitions give a trace the same hash
  /\ \A t \in Trace, m, n \in Node, i, j \in 1..PartitionCount + 1 :
       Hash[t][m][i] = Hash[t][n][j] => m = n /\ i = j
ASSUME BoundAssumption == QueueSize \in Nat \ {0} /\ MaxFaults \in Nat

VARIABLES
  access,    \* AccessKeyConfig, the same on every node
  peers,     \* per node, the sharder's list
  stressed,  \* per node, Collector.Stressed()
  \* A goroutine of net/http or gRPC per client request and per forwarded event.
  call,
  probe,     \* MetaRefineryProbe of every event
  cached,    \* per router, the keys whose environment is cached and not expired
  queue,     \* per router, the collector's channel
  \* history
  faults,    \* how often the surroundings interfered, by kind
  fate,      \* what became of every event
  home       \* the nodes whose collector took it

vars == <<access, peers, stressed, call, probe, cached, queue, faults, fate, home>>

Goroutine == Request \cup Event
Routers   == Node \X {"incoming", "peer"}
Idle      == [pc |-> "idle"]
Fault     == {"lists", "stress", "expired", "failed", "lost", "retried"}

RouterOf(p) == <<call[p].node, IF p \in Request THEN "incoming" ELSE "peer">>

-----------------------------------------------------------------------------
(* AccessKeyConfig. *)

\* Variant: only ReceiveKeys count.
IsAccepted_Listed(a, key) == a.listedOnly => key \in a.receive
IsAccepted(a, key) == a.listedOnly => key \in a.receive \/ (a.send # Blank /\ key = a.send)

\* GetReplaceKey; Blank stands for its error.
GetReplaceKey(a, key) ==
  LET replaces == CASE a.mode = "none"        -> FALSE
                    [] a.mode = "all"         -> TRUE
                    [] a.mode = "nonblank"    -> key # Blank
                    [] a.mode = "listedonly"  -> key \in a.receive
                    [] a.mode = "missingonly" -> key = Blank
                    [] a.mode = "unlisted"    -> key # Blank /\ key \notin a.receive
  IN IF a.send # Blank /\ replaces THEN a.send ELSE key

\* What the middleware of /1/ and most OTLP handlers ask of a client's key; the
\* gRPC handler for traces replaces the key before it is checked.
apiKeyProcessor(key) == IsAccepted(access, key) /\ GetReplaceKey(access, key) # Blank
customTraceExportHandler(key) ==
  GetReplaceKey(access, key) # Blank /\ IsAccepted(access, GetReplaceKey(access, key))

-----------------------------------------------------------------------------
(* DeterministicSharder. *)

\* loadPeerList gives every peer of a list the same number of partitions.
partitionsPerPeer(list) == PartitionCount \div Cardinality(list) + 1

\* The peer with the partition that gives the trace the highest hash.
Highest(list, trace) ==
  CHOOSE m \in list : \E i \in 1..partitionsPerPeer(list) :
    \A k \in list, j \in 1..partitionsPerPeer(list) : Hash[trace][m][i] >= Hash[trace][k][j]

\* Variant: a node that is in its own list prefers itself.
WhichShard_Local(n, trace) == IF n \in peers[n] THEN n ELSE Highest(peers[n], trace)
\* Variant: a node chooses among the others.
WhichShard_Others(n, trace) ==
  Highest(IF peers[n] = {n} THEN peers[n] ELSE peers[n] \ {n}, trace)
WhichShard(n, trace) == Highest(peers[n], trace)

-----------------------------------------------------------------------------
Init ==
  /\ access \in AccessKeys
  /\ peers = [n \in Node |-> Node]
  /\ stressed = [n \in Node |-> FALSE]
  /\ call = [p \in Goroutine |-> IF p \in Request \cup Copy THEN [pc |-> "new"] ELSE Idle]
  /\ probe = [e \in Event |-> FALSE]
  /\ cached = [y \in Routers |-> {}]
  /\ queue = [y \in Routers |-> <<>>]
  /\ faults = [f \in Fault |-> 0]
  /\ fate = [e \in Event |-> <<>>] /\ home = [e \in Event |-> {}]

Interferes(f) ==
  /\ MapThenSumSet(LAMBDA g : faults[g], Fault) < MaxFaults
  /\ faults' = [faults EXCEPT ![f] = @ + 1]

Settle(E, outcome) ==
  fate' = [e \in Event |-> IF e \in E THEN Append(fate[e], outcome) ELSE fate[e]]

\* What an error costs: the client of /1/ is told, the client of an OTLP
\* endpoint is not, and the transmission of a peer drops what was refused.
Cost(p) == IF p \in Request /\ call[p].kind \in {"event", "batch"} THEN "refused" ELSE "lost"

-----------------------------------------------------------------------------
(* A request arrives: the key is checked, the body read or translated. *)

Enters(n, kind, key, todo) ==
  LET used == GetReplaceKey(access, key) IN
    [pc |-> IF used \in Legacy THEN "parse" ELSE "get",
     node |-> n, kind |-> kind, key |-> used, todo |-> todo]

Arrive(r, n, kind, key, accepted) ==
  /\ call[r].pc = "new"
  /\ IF accepted
       THEN call' = [call EXCEPT ![r] = Enters(n, kind, key, Body[r])] /\ UNCHANGED fate
       ELSE call' = [call EXCEPT ![r] = Idle] /\ Settle(Range(Body[r]), "refused")
  /\ UNCHANGED <<access, peers, stressed, probe, cached, queue, faults, home>>

Post(r, n, kind, key, readable) ==
  kind \in {"event", "batch"} /\ Arrive(r, n, kind, key, apiKeyProcessor(key) /\ readable)

postOTLPTrace(r, n, kind, key, translated) ==
  kind = "otlp" /\ Arrive(r, n, kind, key, apiKeyProcessor(key) /\ translated)

ExportTraceData(r, n, kind, key, translated) ==
  kind = "otlpGrpc" /\ Arrive(r, n, kind, key, customTraceExportHandler(key) /\ translated)

\* Over HTTP and gRPC.
postOTLPLogs(r, n, kind, key, translated) ==
  kind = "logs" /\ Arrive(r, n, kind, key, apiKeyProcessor(key) /\ translated)

Underway(e) == call[e].pc \in {"transit", "resent"}

Deliver(e) ==
  /\ Underway(e)
  /\ IF apiKeyProcessor(call[e].key)
       THEN /\ call' = [call EXCEPT ![e] = Enters(@.node, "batch", @.key, <<e>>)]
            /\ UNCHANGED fate
       ELSE call' = [call EXCEPT ![e] = Idle] /\ Settle({e}, "unauthorised")
  /\ UNCHANGED <<access, peers, stressed, probe, cached, queue, faults, home>>

Lose(e) ==
  /\ Underway(e) /\ Interferes("lost")
  /\ call' = [call EXCEPT ![e] = Idle]
  /\ IF probe[e] THEN UNCHANGED fate ELSE Settle({e}, "lost")
  /\ UNCHANGED <<access, peers, stressed, probe, cached, queue, home>>

\* sendBatch posts once more when a POST has timed out, which does not mean that
\* the peer has not got it: both may arrive, in either order.
Retry(e, d) ==
  /\ call[e].pc = "transit" /\ call[d].pc = "new" /\ TraceOf[d] = TraceOf[e]
  /\ Interferes("retried")
  /\ call' = [call EXCEPT ![e].pc = "resent",
                          ![d] = [call[e] EXCEPT !.pc = "resent", !.todo = <<d>>]]
  /\ probe' = [probe EXCEPT ![d] = probe[e]]
  /\ fate' = [fate EXCEPT ![d] = fate[e]]
  /\ UNCHANGED <<access, peers, stressed, cached, queue, home>>

-----------------------------------------------------------------------------
(* environmentCache.get: a read under the read lock, then a second look and *)
(* the lookup under the write lock.                                         *)

\* The write lock is held for the whole lookup.
Unlocked(y) == ~\E q \in Goroutine : call[q].pc = "lookup" /\ RouterOf(q) = y

Read(p) ==
  /\ call[p].pc = "get" /\ Unlocked(RouterOf(p))
  /\ call' = [call EXCEPT ![p].pc = IF call[p].key \in cached[RouterOf(p)] THEN "parse" ELSE "lock"]
  /\ UNCHANGED <<access, peers, stressed, probe, cached, queue, faults, fate, home>>

AfterLock(p) == IF call[p].key \in cached[RouterOf(p)] THEN "parse" ELSE "lookup"

Lock(p) ==
  /\ call[p].pc = "lock" /\ Unlocked(RouterOf(p))
  /\ call' = [call EXCEPT ![p].pc = AfterLock(p)]
  /\ UNCHANGED <<access, peers, stressed, probe, cached, queue, faults, fate, home>>

lookupEnvironment(p) ==
  /\ call[p].pc = "lookup"
  /\ cached' = [cached EXCEPT ![RouterOf(p)] = @ \cup {call[p].key}]
  /\ call' = [call EXCEPT ![p].pc = "parse"]
  /\ UNCHANGED <<access, peers, stressed, probe, queue, faults, fate, home>>

\* The lookup fails: requestToEvent and the OTLP handlers give up (the latter
\* answer with a success), but batch answers with an error and goes on.
LookupFails(p) ==
  /\ call[p].pc = "lookup" /\ Interferes("failed")
  /\ IF call[p].kind = "batch"
       THEN call' = [call EXCEPT ![p].pc = "parse"] /\ UNCHANGED fate
       ELSE call' = [call EXCEPT ![p] = Idle] /\ Settle(Range(call[p].todo), Cost(p))
  /\ UNCHANGED <<access, peers, stressed, probe, cached, queue, home>>

Expire(y, key) ==
  /\ key \in cached[y] /\ Interferes("expired")
  /\ cached' = [cached EXCEPT ![y] = @ \ {key}]
  /\ UNCHANGED <<access, peers, stressed, call, probe, queue, fate, home>>

-----------------------------------------------------------------------------
(* Parsing and processing. *)

\* The handler goes on with the events that are left of its request, if any.
Continue(p, todo) ==
  IF todo = <<>> THEN Idle ELSE [call[p] EXCEPT !.pc = "run", !.todo = todo]

\* It has dealt with the first of them.
Advance(p) == Continue(p, Tail(call[p].todo))

\* The body of a client's request may be malformed; a peer has encoded what it
\* has decoded itself.  No event of a malformed /1/ request is processed.
Parse(p) ==
  /\ call[p].pc = "parse"
  /\ call' = [call EXCEPT ![p] = Continue(p, call[p].todo)]
  /\ UNCHANGED <<access, peers, stressed, probe, cached, queue, faults, fate, home>>

Malformed(r) ==
  /\ call[r].pc = "parse" /\ call[r].kind \in {"event", "batch"}
  /\ call' = [call EXCEPT ![r] = Idle]
  /\ Settle(Range(call[r].todo), "refused")
  /\ UNCHANGED <<access, peers, stressed, probe, cached, queue, faults, home>>

Forwarded(p, e) ==
  [[call EXCEPT ![p] = Advance(p)] EXCEPT
     ![e] = [pc |-> "transit", node |-> WhichShard(call[p].node, TraceOf[e]),
             kind |-> "batch", key |-> call[p].key, todo |-> <<e>>]]

\* Variant: probes are treated as spans.
DropsProbe_Never(e) == FALSE
DropsProbe(e) == probe[e]

\* An empty event of a batch, or one whose metadata cannot be extracted.
Invalid(r) ==
  LET e == Head(call[r].todo) IN
    /\ call[r].pc = "run"
    /\ call' = [call EXCEPT ![r] = Advance(r)]
    /\ Settle({e}, Cost(r))
    /\ UNCHANGED <<access, peers, stressed, probe, cached, queue, faults, home>>

\* processEvent up to the collector: probes end here, what is not part of a
\* trace goes upstream.
processNonSpan(p) ==
  LET e == Head(call[p].todo) IN
    /\ call[p].pc = "run" /\ (DropsProbe(e) \/ TraceOf[e] = NoTrace)
    /\ call' = [call EXCEPT ![p] = Advance(p)]
    /\ IF DropsProbe(e) THEN UNCHANGED fate ELSE Settle({e}, "upstream")
    /\ UNCHANGED <<access, peers, stressed, probe, cached, queue, faults, home>>

\* Under stress ProcessSpanImmediately decides; a kept span is sent upstream and
\* goes to the owner of its trace, if that is another node, as a probe.
processStressed(p, keep) ==
  LET e == Head(call[p].todo)
      n == call[p].node
  IN
    /\ call[p].pc = "run" /\ ~DropsProbe(e) /\ TraceOf[e] # NoTrace
    /\ stressed[n]
    /\ Settle({e}, IF keep THEN "upstream" ELSE "stress")
    /\ probe' = [probe EXCEPT ![e] = keep]
    /\ call' = IF keep /\ WhichShard(n, TraceOf[e]) # n
                 THEN Forwarded(p, e)
                 ELSE [call EXCEPT ![p] = Advance(p)]
    /\ UNCHANGED <<access, peers, stressed, cached, queue, faults, home>>

processSpan(p) ==
  LET e == Head(call[p].todo)
      n == call[p].node
      y == RouterOf(p)
  IN
    /\ call[p].pc = "run" /\ ~DropsProbe(e) /\ TraceOf[e] # NoTrace
    /\ ~stressed[n]
    /\ \/ /\ WhichShard(n, TraceOf[e]) # n
          /\ call' = Forwarded(p, e)
          /\ UNCHANGED <<queue, fate>>
       \/ /\ WhichShard(n, TraceOf[e]) = n /\ Len(queue[y]) < QueueSize
          /\ queue' = [queue EXCEPT ![y] = Append(@, e)]
          /\ call' = [call EXCEPT ![p] = Advance(p)]
          /\ UNCHANGED fate
       \/ /\ WhichShard(n, TraceOf[e]) = n /\ Len(queue[y]) = QueueSize
          /\ call' = [call EXCEPT ![p] = Advance(p)]
          /\ Settle({e}, Cost(p))
          /\ UNCHANGED queue
    /\ UNCHANGED <<access, peers, stressed, probe, cached, faults, home>>

-----------------------------------------------------------------------------
(* The surroundings. *)

\* The collector takes a span from one of its channels.
Collect(y) ==
  /\ queue[y] # <<>>
  /\ queue' = [queue EXCEPT ![y] = Tail(@)]
  /\ Settle({Head(queue[y])}, "collected")
  /\ home' = [home EXCEPT ![Head(queue[y])] = @ \cup {y[1]}]
  /\ UNCHANGED <<access, peers, stressed, call, probe, cached, faults>>

\* loadPeerList; it refuses an empty list.
loadPeerList(n, list) ==
  /\ list # {} /\ list # peers[n] /\ Interferes("lists")
  /\ peers' = [peers EXCEPT ![n] = list]
  /\ UNCHANGED <<access, stressed, call, probe, cached, queue, fate, home>>

StressChanges(n) ==
  /\ Interferes("stress")
  /\ stressed' = [stressed EXCEPT ![n] = ~@]
  /\ UNCHANGED <<access, peers, call, probe, cached, queue, fate, home>>

-----------------------------------------------------------------------------
Process(p) == processNonSpan(p) \/ (\E keep \in BOOLEAN : processStressed(p, keep)) \/ processSpan(p)

\* What a request's goroutine does unless a lock or the network holds it up.
Step(p) ==
  \/ p \in Event /\ Deliver(p)
  \/ Read(p) \/ Lock(p) \/ lookupEnvironment(p) \/ Parse(p) \/ Process(p)

Next ==
  \/ \E r \in Request, n \in Node, good \in BOOLEAN : \E f \in Forms[r] :
       \/ Post(r, n, f[1], f[2], good)
       \/ postOTLPTrace(r, n, f[1], f[2], good)
       \/ ExportTraceData(r, n, f[1], f[2], good)
       \/ postOTLPLogs(r, n, f[1], f[2], good)
  \/ \E r \in Request : Malformed(r) \/ Invalid(r)
  \/ \E e \in Event : Lose(e) \/ \E d \in Copy : Retry(e, d)
  \/ \E p \in Goroutine : Step(p) \/ LookupFails(p)
  \/ \E y \in Routers : Collect(y)
  \/ \E y \in Routers, key \in Key : Expire(y, key)
  \/ \E n \in Node : StressChanges(n)
  \/ \E n \in Node, list \in SUBSET Node : loadPeerList(n, list)

Spec == Init /\ [][Next]_vars

\* The transmission sends what it has, goroutines run, a mutex does not starve
\* one that waits for it, the HTTP client of the lookup times out, and the
\* collector takes what is in its channels.
Fairness ==
  /\ \A p \in Goroutine : SF_vars(Step(p))
  /\ WF_vars(\E y \in Routers : Collect(y))

FairSpec == Spec /\ Fairness

-----------------------------------------------------------------------------
(* Properties. *)

\* The goroutines and the queues that still have to deal with an event.
Carriers(e) == {p \in Goroutine : call[p].pc \notin {"new", "idle"} /\ e \in Range(call[p].todo)}
Queues(e)   == {y \in Routers : e \in Range(queue[y])}

\* The copies of an event; a probe is no longer one.
Pending(e) == Cardinality(Queues(e)) + IF probe[e] THEN 0 ELSE Cardinality(Carriers(e))

\* The client has sent the event, or a node has sent the copy.
Received(e) ==
  IF e \in Copy THEN call[e].pc # "new"
  ELSE \A r \in Request : e \in Range(Body[r]) => call[r].pc # "new"

\* Every event a client has sent, and every copy that a repeated POST has made of
\* one, is in one place at a time and has one outcome, however often nodes with
\* different lists forward it: only a repeated POST makes two of one.  A probe is
\* what is left of a span that stress relief has sent, and reaches no collector.
EventsConserved ==
  \A e \in Event :
    /\ Pending(e) + Len(fate[e]) = IF Received(e) THEN 1 ELSE 0
    /\ probe[e] => fate[e] = <<"upstream">>

\* A key that the first router accepted, and perhaps replaced, is accepted by
\* the apiKeyProcessor of every peer the event is forwarded to.
PeersAcceptForwarded == \A e \in Event : "unauthorised" \notin Range(fate[e])

\* As long as no node's peer list has changed, all spans of a trace that reach a
\* collector reach the same one, through whichever nodes they came.
TraceGathered ==
  faults["lists"] = 0 =>
    \A t \in Trace : Cardinality(UNION {home[e] : e \in {f \in Event : TraceOf[f] = t}}) <= 1

Agree == \A m, n \in Node : peers[m] = peers[n]

\* Once the peer lists agree for good, no event is forwarded for ever and none
\* waits for ever for a lock, a lookup or the collector.
EveryEventSettled ==
  <>[]Agree => <>[](\A e \in Event : Received(e) => fate[e] # <<>>)
=============================================================================
