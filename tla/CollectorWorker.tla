--------------------------- MODULE CollectorWorker ---------------------------
(***************************************************************************)
(* One worker of the in-memory collector (collect/collector_worker.go),    *)
(* with the trace cache and priority queue it owns (collect/cache/         *)
(* cache.go), the sample cache it shares with the router goroutines, the   *)
(* stress-relief path those goroutines take (ProcessSpanImmediately), and  *)
(* the sendTraces goroutine that forwards decided traces.                  *)
(*                                                                         *)
(* A trace ID always hashes to the same worker, so the workers of a        *)
(* process do not share traces and one of them is modelled.  What they do  *)
(* share (monitor, eviction handshake, shutdown) is CollectorLifecycle.    *)
(*                                                                         *)
(* Time is relative: a trace carries the ticks left until its SendBy,      *)
(* floored at 0, so that "SendBy is not after now" reads left = 0.         *)
(* Every span has size 1, so the DataSize of a trace is its span count.    *)
(***************************************************************************)
EXTENDS Integers, Sequences, FiniteSets, Functions

CONSTANTS
  TraceID,           \* trace IDs owned by this worker
  Span,              \* span objects; each reaches the collector at most once
  TraceOf,           \* the TraceID field of every span
  Root,              \* the spans with IsRoot set
  IncomingSize,      \* capacity of the channel incoming
  PeerSize,          \* capacity of the channel fromPeer
  OutgoingSize,      \* capacity of the channel tracesToSend
  TraceTimeout,      \* ticks a trace waits for more spans
  SendDelay,         \* ticks a trace waits after its root span
  SpanLimit,         \* spans after which a trace is sent at once; 0: no limit
  MaxExpiredTraces,  \* traces taken per ticker step; 0: no limit
  EvictBytes,        \* the amounts checkAlloc may ask the worker to free
  DryRun,            \* the configuration's dry-run mode
  StressKeep,        \* trace IDs the stress-relief hash keeps
  StressPossible,    \* whether stress relief may be activated
  Forgetful,         \* whether the bounded sample cache may lose records
  StopPossible       \* whether the collector may be stopped

ASSUME TraceOfAssumption == TraceOf \in [Span -> TraceID]
ASSUME RootAssumption    == Root \subseteq Span
ASSUME TimingAssumption  == /\ TraceTimeout \in Nat \ {0}
                            /\ SendDelay \in Nat \ {0}
ASSUME LimitAssumption   == /\ SpanLimit \in Nat
                            /\ MaxExpiredTraces \in Nat
                            /\ EvictBytes \subseteq Nat
ASSUME CapacityAssumption == /\ IncomingSize \in Nat \ {0}
                             /\ PeerSize \in Nat \ {0}
                             /\ OutgoingSize \in Nat \ {0}
ASSUME ModeAssumption    == /\ DryRun \in BOOLEAN
                            /\ StressPossible \in BOOLEAN
                            /\ Forgetful \in BOOLEAN
                            /\ StopPossible \in BOOLEAN
                            /\ StressKeep \subseteq TraceID

VARIABLES
  \* the routers' side
  fresh,      \* spans that have not reached the collector
  deciding,   \* spans in ProcessSpanImmediately between CheckSpan and Record
  \* the worker's channels
  incoming, fromPeer,
  closed,     \* the channels Stop has closed
  \* where the collect goroutine is
  pc,         \* "poll" (first select), "select" (second one), "task" or "done"
  \* the trace cache: traces by ID, and their deadlines in the priority queue
  cache, pq,
  \* the task the collect goroutine is in the middle of
  task,       \* "none", "expire" (a ticker step) or "evict" (sendTracesEarly)
  taken,      \* traces the task still has to decide
  sending,    \* <<>> or <<trace>>: decided, not yet handed over by send
  budget,     \* bytes sendTracesEarly was asked to free
  freed,      \* bytes of the traces it has sent so far
  tracesSent, \* their IDs
  \* the sample cache: remembered decisions
  kept, dropped,
  disturbed,  \* history: traces stress relief decided or the sample cache forgot
  relieved,   \* history: traces stress relief decided after the worker last did
  \* the channel tracesToSend, and what became of every span
  outgoing,
  fate

routerVars == <<fresh, deciding>>
chanVars   == <<incoming, fromPeer, closed>>
cacheVars  == <<cache, pq>>
taskVars   == <<pc, task, taken, sending, budget, freed, tracesSent>>
sentVars   == <<kept, dropped, disturbed, relieved>>
outVars    == <<outgoing, fate>>
vars == <<routerVars, chanVars, cacheVars, taskVars, sentVars, outVars>>

Trace == [spans : Seq(Span), left : Nat, hasRoot : BOOLEAN, sent : BOOLEAN]
SendReason == {"got_root", "span_limit", "expired", "ejected_memsize"}
Sendable == [id : TraceID, spans : Seq(Span), keep : BOOLEAN, reason : SendReason]
\* "sent": handed to the transmission; "dropped": by a decision; "refused": ErrWouldBlock
Outcome == {"sent", "dropped", "refused"}

-----------------------------------------------------------------------------
(* Maps. *)

Put(m, k, v) == [x \in DOMAIN m \cup {k} |-> IF x = k THEN v ELSE m[x]]
Without(m, K) == [x \in DOMAIN m \ K |-> m[x]]
IsMap(m, K, V) == DOMAIN m \subseteq K /\ m \in [DOMAIN m -> V]

\* the outcome o befalls every span of S
Befalls(S, o) ==
  fate' = [s \in Span |-> IF s \in S THEN Append(fate[s], o) ELSE fate[s]]

-----------------------------------------------------------------------------
Init ==
  /\ fresh = Span
  /\ deciding = {}
  /\ incoming = <<>> /\ fromPeer = <<>>
  /\ closed = {}
  /\ cache = [t \in {} |-> 0] /\ pq = [t \in {} |-> 0]
  /\ pc = "poll" /\ task = "none"
  /\ taken = [t \in {} |-> 0] /\ sending = <<>>
  /\ budget = 0 /\ freed = 0 /\ tracesSent = {}
  /\ kept = {} /\ dropped = {} /\ disturbed = {} /\ relieved = {}
  /\ outgoing = <<>>
  /\ fate = [s \in Span |-> <<>>]

-----------------------------------------------------------------------------
(* The routers hand spans over.  Which way a span goes depends on a read of   *)
(* StressRelief.Stressed() that may be stale by the time it is used, so both   *)
(* ways are open whenever stress relief may be active.  Once Stop has begun to *)
(* close the channels the routers are gone.                                    *)

\* Collector.AddSpan: a full queue refuses the span with ErrWouldBlock.
addSpan(s) ==
  /\ s \in fresh /\ closed = {}
  /\ fresh' = fresh \ {s}
  /\ IF Len(incoming) < IncomingSize
       THEN incoming' = Append(incoming, s) /\ UNCHANGED fate
       ELSE Befalls({s}, "refused") /\ UNCHANGED incoming
  /\ UNCHANGED <<deciding, fromPeer, closed, outgoing>>
  /\ UNCHANGED <<cacheVars, taskVars, sentVars>>

\* Collector.AddSpanFromPeer
addSpanFromPeer(s) ==
  /\ s \in fresh /\ closed = {}
  /\ fresh' = fresh \ {s}
  /\ IF Len(fromPeer) < PeerSize
       THEN fromPeer' = Append(fromPeer, s) /\ UNCHANGED fate
       ELSE Befalls({s}, "refused") /\ UNCHANGED fromPeer
  /\ UNCHANGED <<deciding, incoming, closed, outgoing>>
  /\ UNCHANGED <<cacheVars, taskVars, sentVars>>

\* Variant: CheckSpan overlooks the kept records.
Found_DroppedOnly(t) == t \in dropped
\* CheckSpan looks at the dropped records first.
Found(t)      == t \in kept \cup dropped
FoundKept(t)  == t \in kept \ dropped

\* ProcessSpanImmediately, up to its CheckSpan; a remembered trace is settled at once.
ProcessSpanImmediately(s) ==
  /\ StressPossible /\ s \in fresh /\ closed = {}
  /\ fresh' = fresh \ {s}
  /\ LET t == TraceOf[s] IN
       IF Found(t)
         THEN /\ Befalls({s}, IF FoundKept(t) THEN "sent" ELSE "dropped")
              /\ UNCHANGED deciding
         ELSE /\ deciding' = deciding \cup {s}
              /\ UNCHANGED fate
  /\ UNCHANGED outgoing
  /\ UNCHANGED <<chanVars, cacheVars, taskVars, sentVars>>

\* sampleCache.Record
Record(t, keep) ==
  IF keep THEN kept' = kept \cup {t} /\ UNCHANGED dropped
          ELSE dropped' = dropped \cup {t} /\ UNCHANGED kept

\* ProcessSpanImmediately, from its Record on.
StressRecord(s) ==
  /\ s \in deciding
  /\ deciding' = deciding \ {s}
  /\ LET t == TraceOf[s] IN
       /\ Record(t, t \in StressKeep)
       /\ Befalls({s}, IF t \in StressKeep THEN "sent" ELSE "dropped")
       /\ disturbed' = disturbed \cup {t}
       /\ relieved' = relieved \cup {t}
  /\ UNCHANGED <<fresh, outgoing>>
  /\ UNCHANGED <<chanVars, cacheVars, taskVars>>

-----------------------------------------------------------------------------
(* The collect goroutine. *)

\* dealWithSentTrace: the span of a decided trace follows the decision.
dealWithSentTrace(s, keep) ==
  Befalls({s}, IF keep \/ DryRun THEN "sent" ELSE "dropped")

OverLimit(n) == SpanLimit > 0 /\ n > SpanLimit

\* Variant: the root span does not mark the trace for sending.
WithSpan_IgnoresRoot(tr, s) ==
  [spans   |-> Append(tr.spans, s),
   left    |-> IF OverLimit(Len(tr.spans) + 1) THEN 0 ELSE tr.left,
   hasRoot |-> tr.hasRoot \/ s \in Root,
   sent    |-> tr.sent]
\* What processSpan does to the live trace tr when it adds s: the root span and
\* the span limit pull the deadline in, and nothing pushes it out.
WithSpan(tr, s) ==
  LET n       == Len(tr.spans) + 1
      mark    == s \in Root \/ OverLimit(n)
      timeout == IF OverLimit(n) THEN 0 ELSE SendDelay
  IN [spans   |-> Append(tr.spans, s),
      left    |-> IF mark /\ tr.left > timeout THEN timeout ELSE tr.left,
      hasRoot |-> tr.hasRoot \/ s \in Root,
      sent    |-> tr.sent]

NewTrace == [spans |-> <<>>, left |-> TraceTimeout, hasRoot |-> FALSE, sent |-> FALSE]

\* Variant: SendBy is moved without telling the priority queue.
AddToLiveTrace_SetOnce(t, tr, s) ==
  /\ cache' = Put(cache, t, WithSpan(tr, s))
  /\ pq' = IF t \notin DOMAIN cache THEN Put(pq, t, tr.left) ELSE pq
  /\ UNCHANGED fate
\* Variant: the trace is stored in the map only.
AddToLiveTrace_NotQueued(t, tr, s) ==
  /\ cache' = Put(cache, t, WithSpan(tr, s))
  /\ UNCHANGED <<pq, fate>>
\* processSpan calls cache.Set for a new trace and whenever it moves SendBy.
AddToLiveTrace(t, tr, s) ==
  LET new == WithSpan(tr, s) IN
    /\ cache' = Put(cache, t, new)
    /\ pq' = IF t \notin DOMAIN cache \/ new.left # tr.left
               THEN Put(pq, t, new.left) ELSE pq
    /\ UNCHANGED fate

processSpan(s) ==
  LET t == TraceOf[s] IN
    /\ IF t \notin DOMAIN cache
         THEN IF Found(t)
                THEN dealWithSentTrace(s, FoundKept(t)) /\ UNCHANGED cacheVars
                ELSE AddToLiveTrace(t, NewTrace, s)
         ELSE IF cache[t].sent
                \* an unremembered trace counts as kept here
                THEN /\ dealWithSentTrace(s, FoundKept(t) \/ ~Found(t))
                     /\ UNCHANGED cacheVars
                ELSE AddToLiveTrace(t, cache[t], s)
    /\ UNCHANGED outgoing

\* The first select takes a span from a peer before anything else ...
CollectFromPeer ==
  /\ pc = "poll" /\ fromPeer # <<>>
  /\ fromPeer' = Tail(fromPeer)
  /\ processSpan(Head(fromPeer))
  /\ UNCHANGED <<incoming, closed>>
  /\ UNCHANGED <<routerVars, taskVars, sentVars>>

\* ... and falls through to the second one only while fromPeer is open and empty.
NoPeerTraffic ==
  /\ pc = "poll" /\ fromPeer = <<>> /\ "fromPeer" \notin closed
  /\ pc' = "select"
  /\ UNCHANGED <<task, taken, sending, budget, freed, tracesSent>>
  /\ UNCHANGED <<routerVars, chanVars, cacheVars, sentVars, outVars>>

\* The second select waits for whichever of its cases is ready first.
SelectIncoming ==
  /\ pc = "select" /\ incoming # <<>>
  /\ pc' = "poll"
  /\ incoming' = Tail(incoming)
  /\ processSpan(Head(incoming))
  /\ UNCHANGED <<fromPeer, closed>>
  /\ UNCHANGED <<task, taken, sending, budget, freed, tracesSent>>
  /\ UNCHANGED <<routerVars, sentVars>>

SelectFromPeer ==
  /\ pc = "select" /\ fromPeer # <<>>
  /\ pc' = "poll"
  /\ fromPeer' = Tail(fromPeer)
  /\ processSpan(Head(fromPeer))
  /\ UNCHANGED <<incoming, closed>>
  /\ UNCHANGED <<task, taken, sending, budget, freed, tracesSent>>
  /\ UNCHANGED <<routerVars, sentVars>>

\* The IDs TakeExpiredTraces pops: from the front of the queue, until it has
\* enough, the queue is empty or the front is a cached trace that is not due.
\* An ID that is no longer cached is popped and forgotten.
Poppable(P) ==
  LET rest == DOMAIN pq \ P
      n    == Cardinality(P \cap DOMAIN cache)
      full == MaxExpiredTraces > 0 /\ n = MaxExpiredTraces
  IN /\ \A p \in P, q \in rest : pq[p] <= pq[q]
     /\ \A p \in P \cap DOMAIN cache : pq[p] = 0
     /\ MaxExpiredTraces > 0 => n <= MaxExpiredTraces
     /\ \/ full
        \/ rest = {}
        \/ \E q \in rest \cap DOMAIN cache :
             pq[q] > 0 /\ \A r \in rest : pq[q] <= pq[r]

\* The ticker: sendExpiredTracesInCache takes the traces that are due.
Ticker ==
  /\ pc = "select"
  /\ \E P \in SUBSET DOMAIN pq :
       /\ Poppable(P)
       /\ taken' = [t \in P \cap DOMAIN cache |-> cache[t]]
       /\ cache' = Without(cache, P)
       /\ pq' = Without(pq, P)
  /\ pc' = "task" /\ task' = "expire"
  /\ UNCHANGED <<sending, budget, freed, tracesSent>>
  /\ UNCHANGED <<routerVars, chanVars, sentVars, outVars>>

\* sendTracesEarly: checkAlloc asks for b bytes and every cached trace is a candidate.
SendEarly(b) ==
  /\ pc = "select"
  /\ pc' = "task" /\ task' = "evict"
  /\ taken' = cache
  /\ budget' = b /\ freed' = 0 /\ tracesSent' = {}
  /\ UNCHANGED sending
  /\ UNCHANGED <<routerVars, chanVars, cacheVars, sentVars, outVars>>

SendReasonOf(tr) ==
  CASE task = "evict"            -> "ejected_memsize"
    [] tr.hasRoot                -> "got_root"
    [] OverLimit(Len(tr.spans))  -> "span_limit"
    [] OTHER                     -> "expired"

EvictedEnough == task = "evict" /\ freed > budget

\* makeDecision: the sampler's verdict is recorded before the trace is sent.
\* Its error for a trace that is already Sent is the guard: see NoSentTraceCached.
\* The order within a task is left open: expired traces are all overdue, and
\* the eviction order follows the wall-clock age and size of the spans.
makeDecision(t, keep) ==
  /\ pc = "task" /\ sending = <<>> /\ ~EvictedEnough
  /\ t \in DOMAIN taken /\ ~taken[t].sent
  /\ Record(t, keep) /\ relieved' = relieved \ {t} /\ UNCHANGED disturbed
  /\ sending' = << [id |-> t, spans |-> taken[t].spans, keep |-> keep,
                    reason |-> SendReasonOf(taken[t])] >>
  /\ UNCHANGED <<pc, task, taken, budget, freed, tracesSent>>
  /\ UNCHANGED <<routerVars, chanVars, cacheVars, outVars>>

MarkSent(t) ==
  IF t \in DOMAIN cache THEN [cache EXCEPT ![t].sent = TRUE] ELSE cache

\* send: a dropped trace ends here, a kept one waits for room in tracesToSend.
\* The trace object is still the cache's own when it is being evicted.
send ==
  /\ sending # <<>>
  /\ LET tr == sending[1] IN
       /\ IF ~tr.keep /\ ~DryRun
            THEN Befalls(Range(tr.spans), "dropped") /\ UNCHANGED outgoing
            ELSE /\ Len(outgoing) < OutgoingSize
                 /\ outgoing' = Append(outgoing, tr)
                 /\ UNCHANGED fate
       /\ cache' = IF task = "evict" THEN MarkSent(tr.id) ELSE cache
       /\ taken' = Without(taken, {tr.id})
       /\ freed' = IF task = "evict" THEN freed + Len(tr.spans) ELSE freed
       /\ tracesSent' = IF task = "evict" THEN tracesSent \cup {tr.id} ELSE tracesSent
  /\ sending' = <<>>
  /\ UNCHANGED <<pq, pc, task, budget>>
  /\ UNCHANGED <<routerVars, chanVars, sentVars>>

\* Variants: the eviction forgets to remove what it sent, or clears the cache.
RemoveTraces_Skipped == UNCHANGED cacheVars
RemoveTraces_Everything ==
  cache' = Without(cache, DOMAIN cache) /\ pq' = Without(pq, DOMAIN pq)
\* cache.RemoveTraces(tracesSent)
RemoveTraces == cache' = Without(cache, tracesSent) /\ pq' = Without(pq, tracesSent)

\* The loop over the traces ends; an eviction removes what it sent from the cache.
FinishTask ==
  /\ pc = "task" /\ sending = <<>>
  /\ DOMAIN taken = {} \/ EvictedEnough
  /\ IF task = "evict" THEN RemoveTraces ELSE UNCHANGED cacheVars
  /\ pc' = "poll" /\ task' = "none" /\ taken' = [t \in {} |-> 0]
  /\ budget' = 0 /\ freed' = 0 /\ tracesSent' = {}
  /\ UNCHANGED sending
  /\ UNCHANGED <<routerVars, chanVars, sentVars, outVars>>

\* A receive from a channel that is closed and empty makes the loop return,
\* whatever the other channel and the trace cache still hold.
CollectReturns ==
  /\ \/ pc \in {"poll", "select"} /\ "fromPeer" \in closed /\ fromPeer = <<>>
     \/ pc = "select" /\ "incoming" \in closed /\ incoming = <<>>
  /\ pc' = "done"
  /\ UNCHANGED <<task, taken, sending, budget, freed, tracesSent>>
  /\ UNCHANGED <<routerVars, chanVars, cacheVars, sentVars, outVars>>

-----------------------------------------------------------------------------
(* The rest of the process. *)

\* sendTraces forwards the spans of one decided trace to the transmission.
sendTraces ==
  /\ outgoing # <<>>
  /\ outgoing' = Tail(outgoing)
  /\ Befalls(Range(Head(outgoing).spans), "sent")
  /\ UNCHANGED <<routerVars, chanVars, cacheVars, taskVars, sentVars>>

\* InMemCollector.Stop closes incoming, then fromPeer.
StopIncoming ==
  /\ StopPossible /\ closed = {}
  /\ closed' = {"incoming"}
  /\ UNCHANGED <<incoming, fromPeer>>
  /\ UNCHANGED <<routerVars, cacheVars, taskVars, sentVars, outVars>>

StopFromPeer ==
  /\ closed = {"incoming"}
  /\ closed' = {"incoming", "fromPeer"}
  /\ UNCHANGED <<incoming, fromPeer>>
  /\ UNCHANGED <<routerVars, cacheVars, taskVars, sentVars, outVars>>

\* The sample cache is bounded: an LRU entry is evicted (or dropped by Resize),
\* or a filter generation is discarded.
Forget(t) ==
  /\ Forgetful /\ Found(t)
  /\ \/ t \in kept /\ kept' = kept \ {t} /\ UNCHANGED dropped
     \/ t \in dropped /\ dropped' = dropped \ {t} /\ UNCHANGED kept
  /\ disturbed' = disturbed \cup {t} /\ UNCHANGED relieved
  /\ UNCHANGED <<routerVars, chanVars, cacheVars, taskVars, outVars>>

Elapse(n) == IF n > 0 THEN n - 1 ELSE 0

\* One tick of the clock.
AdvanceTime ==
  /\ \E t \in DOMAIN pq : pq[t] > 0
  /\ cache' = [t \in DOMAIN cache |-> [cache[t] EXCEPT !.left = Elapse(@)]]
  /\ pq' = [t \in DOMAIN pq |-> Elapse(pq[t])]
  /\ UNCHANGED <<routerVars, chanVars, taskVars, sentVars, outVars>>

-----------------------------------------------------------------------------
Collect ==
  \/ CollectFromPeer \/ NoPeerTraffic
  \/ SelectIncoming \/ SelectFromPeer \/ Ticker
  \/ \E b \in EvictBytes : SendEarly(b)
  \/ \E t \in TraceID, keep \in BOOLEAN : makeDecision(t, keep)
  \/ send \/ FinishTask \/ CollectReturns

Next ==
  \/ \E s \in Span : addSpan(s) \/ addSpanFromPeer(s)
  \/ \E s \in Span : ProcessSpanImmediately(s) \/ StressRecord(s)
  \/ Collect
  \/ sendTraces
  \/ StopIncoming \/ StopFromPeer
  \/ \E t \in TraceID : Forget(t)
  \/ AdvanceTime

Spec == Init /\ [][Next]_vars

\* Go's select picks among its ready cases at random, so no case that keeps
\* becoming ready is passed over for ever; goroutines that can step do.
Fairness ==
  /\ WF_vars(CollectFromPeer) /\ WF_vars(NoPeerTraffic)
  /\ SF_vars(SelectIncoming) /\ SF_vars(SelectFromPeer) /\ SF_vars(Ticker)
  /\ WF_vars(\E t \in TraceID, keep \in BOOLEAN : makeDecision(t, keep))
  /\ WF_vars(send) /\ WF_vars(FinishTask)
  /\ WF_vars(sendTraces)
  /\ \A s \in Span : WF_vars(StressRecord(s))
  /\ WF_vars(AdvanceTime)

FairSpec == Spec /\ Fairness

-----------------------------------------------------------------------------
(* Properties. *)

TypeOK ==
  /\ fresh \subseteq Span /\ deciding \subseteq Span
  /\ incoming \in Seq(Span) /\ fromPeer \in Seq(Span)
  /\ closed \subseteq {"incoming", "fromPeer"}
  /\ IsMap(cache, TraceID, Trace) /\ IsMap(pq, TraceID, Nat)
  /\ pc \in {"poll", "select", "task", "done"}
  /\ task \in {"none", "expire", "evict"}
  /\ IsMap(taken, TraceID, Trace)
  /\ sending \in Seq(Sendable) /\ Len(sending) <= 1
  /\ budget \in Nat /\ freed \in Nat
  /\ tracesSent \subseteq TraceID
  /\ kept \subseteq TraceID /\ dropped \subseteq TraceID
  /\ disturbed \subseteq TraceID /\ relieved \subseteq TraceID
  /\ outgoing \in Seq(Sendable)
  /\ fate \in [Span -> Seq(Outcome)]

\* The map and the priority queue of the trace cache always hold the same
\* traces with the same deadlines: no trace is stranded without a deadline and
\* no deadline outlives its trace (Set, TakeExpiredTraces, RemoveTraces).
CacheCoherent ==
  /\ DOMAIN pq = DOMAIN cache
  /\ \A t \in DOMAIN cache : pq[t] = cache[t].left

\* Whenever the collect loop is at one of its selects, no cached trace has been
\* sent: an eviction removes every trace it has marked Sent before the next
\* span is processed, so processSpan never takes its "already sent" branch.  Nor
\* does a task hold one, so makeDecision never returns its error.
NoSentTraceCached ==
  /\ pc # "task" => \A t \in DOMAIN cache : ~cache[t].sent
  /\ \A t \in DOMAIN taken : ~taken[t].sent

\* The places a span object is in.
Held(seq, s) == Cardinality({k \in DOMAIN seq : seq[k] = s})
Occurrences(traces, s) ==
  UNION {{<<t, k>> : k \in {i \in DOMAIN traces[t].spans : traces[t].spans[i] = s}} :
           t \in DOMAIN traces}
HeldIn(traces, s) == Cardinality(Occurrences(traces, s))

Places(s) ==
  (IF s \in fresh THEN 1 ELSE 0) + (IF s \in deciding THEN 1 ELSE 0)
  + Held(incoming, s) + Held(fromPeer, s)
  + HeldIn(Without(cache, tracesSent), s)
  + (IF task = "expire" THEN HeldIn(taken, s) ELSE 0)
  + HeldIn(outgoing, s)
  + Len(fate[s])

\* No span is lost or duplicated on its way through the collector: it is in one
\* place only, a channel, a trace, the outgoing queue, or settled exactly once.
SpansConserved == \A s \in Span : Places(s) = 1

\* A cached trace that has exceeded SpanLimit is due at once, and one that has
\* its root span is due within SendDelay, whatever order its spans came in.
DeadlinesHonoured ==
  \A t \in DOMAIN cache :
    /\ OverLimit(Len(cache[t].spans)) => cache[t].left = 0
    /\ cache[t].hasRoot => cache[t].left <= SendDelay

\* Late spans obey the decision made on their trace: without dry run, a trace
\* that stress relief has not decided and whose record has not been lost is never
\* half sent and half dropped.
WholeTraceVerdict ==
  \A s, u \in Span :
    TraceOf[s] = TraceOf[u] /\ TraceOf[s] \notin disturbed =>
      ~("sent" \in Range(fate[s]) /\ "dropped" \in Range(fate[u]))

\* makeDecision never decides a trace whose decision is still remembered, whatever
\* was forgotten before, unless a router goroutine decided the trace under stress
\* relief, while its spans were cached, after makeDecision last did.
NoSecondDecision ==
  [][\A t \in TraceID :
       sending = <<>> /\ sending' # <<>> /\ sending'[1].id = t =>
         t \notin kept \cup dropped \/ t \in relieved]_vars

\* Every span that enters the collector is eventually sent, dropped or refused,
\* unless the collector is being stopped.
EverySpanSettled ==
  \A s \in Span : s \notin fresh ~> fate[s] # <<>> \/ closed # {}
=============================================================================
