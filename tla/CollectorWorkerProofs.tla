----------------------- MODULE CollectorWorkerProofs -----------------------
(* Theorems about CollectorWorker for every value of its constants. *)
EXTENDS CollectorWorker, FiniteSetTheorems, TLAPS

-----------------------------------------------------------------------------
(* The maps of the model. *)

\* Put keeps a map a map.
LEMMA PutMap ==
  ASSUME NEW K, NEW V, NEW m, IsMap(m, K, V), NEW k \in K, NEW v \in V
  PROVE  /\ IsMap(Put(m, k, v), K, V)
         /\ DOMAIN Put(m, k, v) = DOMAIN m \cup {k}
         /\ Put(m, k, v)[k] = v
         /\ \A x \in DOMAIN m \ {k} : Put(m, k, v)[x] = m[x]
  BY DEF Put, IsMap

\* Without keeps a map a map and changes none of the values that stay.
LEMMA WithoutMap ==
  ASSUME NEW K, NEW V, NEW m, IsMap(m, K, V), NEW D
  PROVE  /\ IsMap(Without(m, D), K, V)
         /\ DOMAIN Without(m, D) = DOMAIN m \ D
         /\ \A x \in DOMAIN m \ D : Without(m, D)[x] = m[x]
  BY DEF Without, IsMap

\* Adding a span to a trace gives a trace, never with a later deadline, and
\* leaves its Sent flag alone.
LEMMA WithSpanTrace ==
  ASSUME NEW tr \in Trace, NEW s \in Span
  PROVE  /\ WithSpan(tr, s) \in Trace
         /\ WithSpan(tr, s).sent = tr.sent
         /\ WithSpan(tr, s).left <= tr.left
  BY TimingAssumption, LimitAssumption DEF WithSpan, OverLimit, Trace

\* A new trace is unsent and due after TraceTimeout.
LEMMA NewTraceTrace == NewTrace \in Trace /\ ~NewTrace.sent /\ NewTrace.left = TraceTimeout
  BY TimingAssumption DEF NewTrace, Trace

\* Settling spans only appends to their histories.
LEMMA BefallsType ==
  ASSUME fate \in [Span -> Seq(Outcome)], NEW S, NEW o \in Outcome, Befalls(S, o)
  PROVE  fate' \in [Span -> Seq(Outcome)]
  BY DEF Befalls

-----------------------------------------------------------------------------
(* Types. *)

\* processSpan keeps the trace cache and the histories well typed.
LEMMA processSpanType ==
  ASSUME TypeOK, NEW s \in Span, processSpan(s)
  PROVE  /\ IsMap(cache', TraceID, Trace) /\ IsMap(pq', TraceID, Nat)
         /\ fate' \in [Span -> Seq(Outcome)]
         /\ outgoing' = outgoing
<1> DEFINE t == TraceOf[s]
<1>1. t \in TraceID
  BY TraceOfAssumption
<1>2. outgoing' = outgoing
  BY DEF processSpan
<1>3. ASSUME NEW keep, dealWithSentTrace(s, keep), UNCHANGED cacheVars
      PROVE  /\ IsMap(cache', TraceID, Trace) /\ IsMap(pq', TraceID, Nat)
             /\ fate' \in [Span -> Seq(Outcome)]
  BY <1>3, BefallsType DEF TypeOK, dealWithSentTrace, Outcome, cacheVars
<1>4. ASSUME NEW tr \in Trace, AddToLiveTrace(t, tr, s)
      PROVE  /\ IsMap(cache', TraceID, Trace) /\ IsMap(pq', TraceID, Nat)
             /\ fate' \in [Span -> Seq(Outcome)]
  <2>1. WithSpan(tr, s) \in Trace /\ WithSpan(tr, s).left \in Nat
    BY WithSpanTrace DEF Trace
  <2>2. IsMap(cache', TraceID, Trace)
    BY <1>1, <1>4, <2>1, PutMap DEF AddToLiveTrace, TypeOK
  <2>3. IsMap(pq', TraceID, Nat)
    BY <1>1, <1>4, <2>1, PutMap DEF AddToLiveTrace, TypeOK
  <2> QED
    BY <1>4, <2>2, <2>3 DEF AddToLiveTrace, TypeOK
<1>5. t \in DOMAIN cache => cache[t] \in Trace
  BY DEF TypeOK, IsMap
<1> QED
  BY <1>2, <1>3, <1>4, <1>5, NewTraceTrace DEF processSpan

\* Every step keeps the state well typed: channels hold spans, the trace cache
\* and the task hold traces, and a span's history is a sequence of outcomes.
THEOREM TypeCorrect == Spec => []TypeOK
<1>1. Init => TypeOK
  BY DEF Init, TypeOK, IsMap
<1>2. ASSUME TypeOK, [Next]_vars
      PROVE  TypeOK'
  <2> USE <1>2
  <2>1. ASSUME NEW s \in Span, addSpan(s) \/ addSpanFromPeer(s)
        PROVE  TypeOK'
    <3>1. fate' \in [Span -> Seq(Outcome)]
      BY <2>1, BefallsType DEF addSpan, addSpanFromPeer, TypeOK, Outcome
    <3>2. incoming' \in Seq(Span) /\ fromPeer' \in Seq(Span)
      <4>1. incoming' \in {incoming, Append(incoming, s)}
        BY <2>1 DEF addSpan, addSpanFromPeer
      <4>2. fromPeer' \in {fromPeer, Append(fromPeer, s)}
        BY <2>1 DEF addSpan, addSpanFromPeer
      <4>3. incoming \in Seq(Span) /\ Append(incoming, s) \in Seq(Span)
        BY DEF TypeOK
      <4>4. fromPeer \in Seq(Span) /\ Append(fromPeer, s) \in Seq(Span)
        BY DEF TypeOK
      <4> QED
        BY <4>1, <4>2, <4>3, <4>4
    <3>3. fresh' \subseteq Span /\ UNCHANGED <<deciding, closed, outgoing>>
      BY <2>1 DEF addSpan, addSpanFromPeer, TypeOK
    <3>4. UNCHANGED <<cacheVars, taskVars, sentVars>>
      BY <2>1 DEF addSpan, addSpanFromPeer
    <3> QED
      BY <3>1, <3>2, <3>3, <3>4 DEF TypeOK, cacheVars, taskVars, sentVars
  <2>2. ASSUME NEW s \in Span, ProcessSpanImmediately(s)
        PROVE  TypeOK'
    <3>1. fate' \in [Span -> Seq(Outcome)]
      BY <2>2, BefallsType DEF ProcessSpanImmediately, TypeOK, Outcome
    <3> QED
      BY <2>2, <3>1 DEF ProcessSpanImmediately, TypeOK, chanVars, cacheVars, taskVars, sentVars
  <2>3. ASSUME NEW s \in Span, StressRecord(s)
        PROVE  TypeOK'
    <3>1. fate' \in [Span -> Seq(Outcome)]
      BY <2>3, BefallsType DEF StressRecord, TypeOK, Outcome
    <3>2. /\ kept' \subseteq TraceID /\ dropped' \subseteq TraceID
          /\ disturbed' \subseteq TraceID /\ relieved' \subseteq TraceID
      BY <2>3, TraceOfAssumption DEF StressRecord, Record, TypeOK
    <3> QED
      BY <2>3, <3>1, <3>2 DEF StressRecord, TypeOK, chanVars, cacheVars, taskVars
  <2>4. CASE CollectFromPeer
    <3>1. Head(fromPeer) \in Span
      BY <2>4 DEF CollectFromPeer, TypeOK
    <3>2. processSpan(Head(fromPeer))
      BY <2>4 DEF CollectFromPeer
    <3> QED
      BY <2>4, <3>1, <3>2, processSpanType
         DEF CollectFromPeer, TypeOK, routerVars, taskVars, sentVars
  <2>5. CASE NoPeerTraffic
    BY <2>5 DEF NoPeerTraffic, TypeOK, routerVars, chanVars, cacheVars, sentVars, outVars
  <2>6. CASE SelectIncoming
    <3>1. Head(incoming) \in Span
      BY <2>6 DEF SelectIncoming, TypeOK
    <3>2. processSpan(Head(incoming))
      BY <2>6 DEF SelectIncoming
    <3> QED
      BY <2>6, <3>1, <3>2, processSpanType DEF SelectIncoming, TypeOK, routerVars, sentVars
  <2>7. CASE SelectFromPeer
    <3>1. Head(fromPeer) \in Span
      BY <2>7 DEF SelectFromPeer, TypeOK
    <3>2. processSpan(Head(fromPeer))
      BY <2>7 DEF SelectFromPeer
    <3> QED
      BY <2>7, <3>1, <3>2, processSpanType DEF SelectFromPeer, TypeOK, routerVars, sentVars
  <2>8. CASE Ticker
    <3>1. /\ IsMap(cache', TraceID, Trace) /\ IsMap(pq', TraceID, Nat)
          /\ IsMap(taken', TraceID, Trace)
      <4>1. PICK P \in SUBSET DOMAIN pq :
               /\ taken' = [t \in P \cap DOMAIN cache |-> cache[t]]
               /\ cache' = Without(cache, P)
               /\ pq' = Without(pq, P)
        BY <2>8 DEF Ticker
      <4>2. IsMap(cache', TraceID, Trace) /\ IsMap(pq', TraceID, Nat)
        BY <4>1, WithoutMap DEF TypeOK
      <4>3. IsMap(taken', TraceID, Trace)
        BY <4>1 DEF TypeOK, IsMap
      <4> QED
        BY <4>2, <4>3
    <3> QED
      BY <2>8, <3>1 DEF Ticker, TypeOK, routerVars, chanVars, sentVars, outVars
  <2>9. ASSUME NEW b \in EvictBytes, SendEarly(b)
        PROVE  TypeOK'
    BY <2>9, LimitAssumption
       DEF SendEarly, TypeOK, routerVars, chanVars, cacheVars, sentVars, outVars
  <2>10. ASSUME NEW t \in TraceID, NEW keep \in BOOLEAN, makeDecision(t, keep)
         PROVE  TypeOK'
    <3>1. sending' \in Seq(Sendable) /\ Len(sending') <= 1
      <4>1. SendReasonOf(taken[t]) \in SendReason
        BY DEF SendReasonOf, SendReason
      <4>2. taken[t].spans \in Seq(Span)
        BY <2>10 DEF makeDecision, TypeOK, IsMap, Trace
      <4> QED
        BY <2>10, <4>1, <4>2 DEF makeDecision, Sendable
    <3>2. kept' \subseteq TraceID /\ dropped' \subseteq TraceID
      BY <2>10 DEF makeDecision, Record, TypeOK
    <3> QED
      BY <2>10, <3>1, <3>2 DEF makeDecision, TypeOK, routerVars, chanVars, cacheVars, outVars
  <2>11. CASE send
    <3> DEFINE tr == sending[1]
    <3>1. tr \in Sendable
      BY <2>11 DEF send, TypeOK
    <3>2. outgoing' \in Seq(Sendable) /\ fate' \in [Span -> Seq(Outcome)]
      <4>1. CASE Befalls(Range(tr.spans), "dropped") /\ UNCHANGED outgoing
        BY <4>1, BefallsType DEF TypeOK, Outcome
      <4>2. CASE outgoing' = Append(outgoing, tr) /\ UNCHANGED fate
        BY <3>1, <4>2 DEF TypeOK
      <4> QED
        BY <2>11, <4>1, <4>2 DEF send
    <3>3. IsMap(cache', TraceID, Trace)
      <4>1. CASE UNCHANGED cache
        BY <4>1 DEF TypeOK
      <4>2. CASE /\ tr.id \in DOMAIN cache
                 /\ cache' = [cache EXCEPT ![tr.id].sent = TRUE]
        <5>1. DOMAIN cache' = DOMAIN cache
          BY <4>2
        <5>2. ASSUME NEW t \in DOMAIN cache
              PROVE  cache'[t] \in Trace
          BY <4>2 DEF TypeOK, IsMap, Trace
        <5> QED
          BY <4>2, <5>1, <5>2 DEF TypeOK, IsMap
      <4> QED
        BY <2>11, <4>1, <4>2 DEF send, MarkSent
    <3>4. IsMap(taken', TraceID, Trace)
      BY <2>11, WithoutMap DEF send, TypeOK
    <3>5. freed' \in Nat /\ tracesSent' \subseteq TraceID
      BY <2>11, <3>1 DEF send, TypeOK, Sendable
    <3> QED
      BY <2>11, <3>2, <3>3, <3>4, <3>5 DEF send, TypeOK, routerVars, chanVars, sentVars
  <2>12. CASE FinishTask
    <3>1. IsMap(cache', TraceID, Trace) /\ IsMap(pq', TraceID, Nat)
      <4>1. CASE RemoveTraces
        BY <4>1, WithoutMap DEF RemoveTraces, TypeOK
      <4>2. CASE UNCHANGED cacheVars
        BY <4>2 DEF cacheVars, TypeOK
      <4> QED
        BY <2>12, <4>1, <4>2 DEF FinishTask
    <3> QED
      BY <2>12, <3>1 DEF FinishTask, TypeOK, IsMap, routerVars, chanVars, sentVars, outVars
  <2>13. CASE CollectReturns
    BY <2>13 DEF CollectReturns, TypeOK, routerVars, chanVars, cacheVars, sentVars, outVars
  <2>14. CASE sendTraces
    <3>1. outgoing' \in Seq(Sendable) /\ fate' \in [Span -> Seq(Outcome)]
      BY <2>14, BefallsType DEF sendTraces, TypeOK, Outcome
    <3> QED
      BY <2>14, <3>1
         DEF sendTraces, TypeOK, routerVars, chanVars, cacheVars, taskVars, sentVars
  <2>15. CASE StopIncoming \/ StopFromPeer
    BY <2>15 DEF StopIncoming, StopFromPeer, TypeOK,
                 routerVars, cacheVars, taskVars, sentVars, outVars
  <2>16. ASSUME NEW t \in TraceID, Forget(t)
         PROVE  TypeOK'
    BY <2>16 DEF Forget, TypeOK, routerVars, chanVars, cacheVars, taskVars, outVars
  <2>17. CASE AdvanceTime
    <3>1. IsMap(cache', TraceID, Trace) /\ IsMap(pq', TraceID, Nat)
      <4>1. ASSUME NEW t \in DOMAIN cache
            PROVE  [cache[t] EXCEPT !.left = Elapse(@)] \in Trace
        <5>1. cache[t] \in Trace
          BY DEF TypeOK, IsMap
        <5>2. Elapse(cache[t].left) \in Nat
          BY <5>1 DEF Trace, Elapse
        <5> QED
          BY <5>1, <5>2 DEF Trace
      <4>2. ASSUME NEW t \in DOMAIN pq
            PROVE  Elapse(pq[t]) \in Nat
        BY DEF TypeOK, IsMap, Elapse
      <4> QED
        BY <2>17, <4>1, <4>2 DEF AdvanceTime, TypeOK, IsMap
    <3> QED
      BY <2>17, <3>1 DEF AdvanceTime, TypeOK, routerVars, chanVars, taskVars, sentVars, outVars
  <2>18. CASE UNCHANGED vars
    BY <2>18 DEF vars, TypeOK, routerVars, chanVars, cacheVars, taskVars, sentVars, outVars
  <2> QED
    BY <2>1, <2>2, <2>3, <2>4, <2>5, <2>6, <2>7, <2>8, <2>9, <2>10, <2>11, <2>12,
       <2>13, <2>14, <2>15, <2>16, <2>17, <2>18 DEF Next, Collect
<1> QED
  BY <1>1, <1>2, PTL DEF Spec

-----------------------------------------------------------------------------
(* The trace cache. *)

\* Where the collect goroutine is in a task, and which cached traces are sent.
TaskInv ==
  /\ pc = "task" <=> task # "none"
  /\ task # "evict" => tracesSent = {}
  /\ task = "none" => sending = <<>> /\ DOMAIN taken = {}
  /\ \A t \in DOMAIN cache : cache[t].sent => t \in tracesSent
  /\ \A t \in DOMAIN taken : ~taken[t].sent

\* What processSpan does to the cache while no task is under way.
LEMMA processSpanCache ==
  ASSUME TypeOK, CacheCoherent, NEW s \in Span, processSpan(s)
  PROVE  /\ DOMAIN pq' = DOMAIN cache'
         /\ \A t \in DOMAIN cache' : pq'[t] = cache'[t].left
         /\ \A t \in DOMAIN cache' : cache'[t].sent => t \in DOMAIN cache /\ cache[t].sent
         /\ \A t \in DOMAIN cache : t \in DOMAIN cache' /\ cache'[t].left <= cache[t].left
<1> DEFINE t == TraceOf[s]
<1>1. t \in TraceID /\ IsMap(cache, TraceID, Trace) /\ IsMap(pq, TraceID, Nat)
  BY TraceOfAssumption DEF TypeOK
<1>2. \A u \in DOMAIN cache : cache[u] \in Trace /\ cache[u].left \in Nat
  BY <1>1 DEF IsMap, Trace
<1>3. CASE UNCHANGED cacheVars
  BY <1>2, <1>3 DEF cacheVars, CacheCoherent
<1>4. ASSUME NEW tr \in Trace, AddToLiveTrace(t, tr, s),
             t \in DOMAIN cache => tr = cache[t], ~tr.sent
      PROVE  /\ DOMAIN pq' = DOMAIN cache'
             /\ \A u \in DOMAIN cache' : pq'[u] = cache'[u].left
             /\ \A u \in DOMAIN cache' :
                  cache'[u].sent => u \in DOMAIN cache /\ cache[u].sent
             /\ \A u \in DOMAIN cache :
                  u \in DOMAIN cache' /\ cache'[u].left <= cache[u].left
  <2> DEFINE new == WithSpan(tr, s)
  <2>1. new \in Trace /\ ~new.sent /\ new.left <= tr.left /\ new.left \in Nat
    BY <1>4, WithSpanTrace DEF Trace
  <2>2. /\ DOMAIN cache' = DOMAIN cache \cup {t}
        /\ cache'[t] = new
        /\ \A u \in DOMAIN cache \ {t} : cache'[u] = cache[u]
    BY <1>1, <1>4, <2>1, PutMap DEF AddToLiveTrace
  <2>3. CASE t \notin DOMAIN cache \/ new.left # tr.left
    <3>1. /\ DOMAIN pq' = DOMAIN pq \cup {t}
          /\ pq'[t] = new.left
          /\ \A u \in DOMAIN pq \ {t} : pq'[u] = pq[u]
      <4>1. pq' = Put(pq, t, new.left)
        BY <1>4, <2>3 DEF AddToLiveTrace
      <4> HIDE DEF new, t
      <4> QED
        BY <1>1, <2>1, <4>1, PutMap
    <3> QED
      BY <1>2, <1>4, <2>1, <2>2, <3>1 DEF CacheCoherent
  <2>4. CASE ~(t \notin DOMAIN cache \/ new.left # tr.left)
    <3>1. pq' = pq
      BY <1>4, <2>4 DEF AddToLiveTrace
    <3> QED
      <4>1. t \in DOMAIN cache /\ new.left = cache[t].left
        BY <1>4, <2>4
      <4>2. DOMAIN pq' = DOMAIN cache' /\ DOMAIN cache' = DOMAIN cache
        BY <2>2, <3>1, <4>1 DEF CacheCoherent
      <4>3. \A u \in DOMAIN cache : pq'[u] = cache'[u].left /\ cache'[u].left <= cache[u].left
        BY <1>2, <2>2, <3>1, <4>1 DEF CacheCoherent
      <4>4. \A u \in DOMAIN cache : cache'[u].sent => cache[u].sent
        BY <2>1, <2>2
      <4> QED
        BY <4>2, <4>3, <4>4
  <2> QED
    BY <2>3, <2>4
<1>5. CASE t \notin DOMAIN cache /\ AddToLiveTrace(t, NewTrace, s)
  BY <1>4, <1>5, NewTraceTrace
<1>6. CASE t \in DOMAIN cache /\ ~cache[t].sent /\ AddToLiveTrace(t, cache[t], s)
  BY <1>2, <1>4, <1>6
<1> QED
  BY <1>3, <1>5, <1>6 DEF processSpan

\* One step preserves the agreement of map and queue and the task's bookkeeping.
LEMMA CacheStep ==
  ASSUME TypeOK, CacheCoherent, TaskInv, Next
  PROVE  CacheCoherent' /\ TaskInv'
<1>1. ASSUME UNCHANGED <<cacheVars, taskVars>>
      PROVE  CacheCoherent' /\ TaskInv'
  BY <1>1 DEF CacheCoherent, TaskInv, cacheVars, taskVars
<1>2. ASSUME NEW s \in Span, processSpan(s), pc \in {"poll", "select"}, pc' = "poll",
             UNCHANGED <<task, taken, sending, budget, freed, tracesSent>>
      PROVE  CacheCoherent' /\ TaskInv'
  BY <1>2, processSpanCache DEF CacheCoherent, TaskInv
<1>3. CASE CollectFromPeer
  <2>1. Head(fromPeer) \in Span /\ processSpan(Head(fromPeer)) /\ pc = "poll"
    BY <1>3 DEF CollectFromPeer, TypeOK
  <2> QED
    BY <1>2, <1>3, <2>1 DEF CollectFromPeer, taskVars
<1>4. CASE SelectFromPeer
  <2>1. Head(fromPeer) \in Span /\ processSpan(Head(fromPeer)) /\ pc = "select"
    BY <1>4 DEF SelectFromPeer, TypeOK
  <2> QED
    BY <1>2, <1>4, <2>1 DEF SelectFromPeer
<1>5. CASE SelectIncoming
  <2>1. Head(incoming) \in Span /\ processSpan(Head(incoming)) /\ pc = "select"
    BY <1>5 DEF SelectIncoming, TypeOK
  <2> QED
    BY <1>2, <1>5, <2>1 DEF SelectIncoming
<1>6. CASE NoPeerTraffic \/ CollectReturns
  <2>1. /\ pc # "task" /\ pc' # "task"
        /\ UNCHANGED <<task, taken, sending, tracesSent, cache, pq>>
    BY <1>6 DEF NoPeerTraffic, CollectReturns, cacheVars
  <2> QED
    BY <2>1 DEF CacheCoherent, TaskInv
<1>7. CASE Ticker
  <2>1. PICK P \in SUBSET DOMAIN pq :
           /\ taken' = [t \in P \cap DOMAIN cache |-> cache[t]]
           /\ cache' = Without(cache, P)
           /\ pq' = Without(pq, P)
    BY <1>7 DEF Ticker
  <2>2. CacheCoherent'
    BY <2>1 DEF CacheCoherent, Without
  <2>3. TaskInv'
    BY <1>7, <2>1 DEF Ticker, TaskInv, Without
  <2> QED
    BY <2>2, <2>3
<1>8. ASSUME NEW b \in EvictBytes, SendEarly(b)
      PROVE  CacheCoherent' /\ TaskInv'
  BY <1>8 DEF SendEarly, CacheCoherent, TaskInv, cacheVars
<1>9. ASSUME NEW t \in TraceID, NEW keep \in BOOLEAN, makeDecision(t, keep)
      PROVE  CacheCoherent' /\ TaskInv'
  BY <1>9 DEF makeDecision, CacheCoherent, TaskInv, cacheVars
<1>10. CASE send
  <2> DEFINE id == sending[1].id
  <2>1. /\ DOMAIN cache' = DOMAIN cache
        /\ \A t \in DOMAIN cache : cache'[t].left = cache[t].left
        /\ \A t \in DOMAIN cache :
             cache'[t].sent => cache[t].sent \/ (t = id /\ task = "evict")
    <3>1. CASE UNCHANGED cache
      BY <3>1
    <3>2. CASE /\ id \in DOMAIN cache /\ task = "evict"
               /\ cache' = [cache EXCEPT ![id].sent = TRUE]
      BY <3>2 DEF TypeOK, IsMap, Trace
    <3> QED
      BY <1>10, <3>1, <3>2 DEF send, MarkSent
  <2>2. CacheCoherent'
    BY <1>10, <2>1 DEF send, CacheCoherent
  <2>3. pc = "task" /\ task # "none"
    BY <1>10 DEF send, TaskInv
  <2>4. \A t \in DOMAIN taken' : t \in DOMAIN taken /\ taken'[t] = taken[t]
    BY <1>10 DEF send, Without
  <2>5. IF task = "evict" THEN tracesSent' = tracesSent \cup {id} ELSE tracesSent' = tracesSent
    BY <1>10 DEF send
  <2>6. pc' = pc /\ task' = task /\ sending' = <<>>
    BY <1>10 DEF send
  <2>7. TaskInv'
    BY <2>1, <2>3, <2>4, <2>5, <2>6 DEF TaskInv
  <2> QED
    BY <2>2, <2>7
<1>11. CASE FinishTask
  <2>1. CASE task = "evict"
    BY <1>11, <2>1 DEF FinishTask, RemoveTraces, Without, CacheCoherent, TaskInv
  <2>2. CASE task # "evict"
    BY <1>11, <2>2 DEF FinishTask, cacheVars, CacheCoherent, TaskInv
  <2> QED
    BY <2>1, <2>2
<1>12. CASE AdvanceTime
  <2>1. /\ DOMAIN cache' = DOMAIN cache /\ DOMAIN pq' = DOMAIN pq
        /\ \A t \in DOMAIN cache : /\ cache'[t].left = Elapse(cache[t].left)
                                   /\ cache'[t].sent = cache[t].sent
        /\ \A t \in DOMAIN pq : pq'[t] = Elapse(pq[t])
    BY <1>12 DEF AdvanceTime, TypeOK, IsMap, Trace
  <2>2. UNCHANGED <<pc, task, taken, sending, tracesSent>>
    BY <1>12 DEF AdvanceTime, taskVars
  <2> QED
    BY <2>1, <2>2 DEF CacheCoherent, TaskInv
<1>13. ASSUME NEW s \in Span,
              \/ addSpan(s) \/ addSpanFromPeer(s)
              \/ ProcessSpanImmediately(s) \/ StressRecord(s)
       PROVE  CacheCoherent' /\ TaskInv'
  BY <1>1, <1>13 DEF addSpan, addSpanFromPeer, ProcessSpanImmediately, StressRecord
<1>14. CASE sendTraces \/ StopIncoming \/ StopFromPeer
  BY <1>1, <1>14 DEF sendTraces, StopIncoming, StopFromPeer
<1>15. ASSUME NEW t \in TraceID, Forget(t)
       PROVE  CacheCoherent' /\ TaskInv'
  BY <1>1, <1>15 DEF Forget
<1> QED
  BY <1>3, <1>4, <1>5, <1>6, <1>7, <1>8, <1>9, <1>10, <1>11, <1>12, <1>13, <1>14, <1>15
     DEF Next, Collect

\* The inductive invariant behind the cache theorems.
LEMMA CacheInvariant == Spec => [](TypeOK /\ CacheCoherent /\ TaskInv)
<1>1. Init => CacheCoherent /\ TaskInv
  BY DEF Init, CacheCoherent, TaskInv
<1>2. TypeOK /\ CacheCoherent /\ TaskInv /\ [Next]_vars => CacheCoherent' /\ TaskInv'
  <2>1. TypeOK /\ CacheCoherent /\ TaskInv /\ UNCHANGED vars => CacheCoherent' /\ TaskInv'
    BY DEF vars, CacheCoherent, TaskInv, cacheVars, taskVars
  <2> QED
    BY <2>1, CacheStep
<1> QED
  BY <1>1, <1>2, TypeCorrect, PTL DEF Spec

\* Set, TakeExpiredTraces and RemoveTraces keep the map of the trace cache and
\* its priority queue in agreement, with any number of traces and any deadlines.
THEOREM CacheAlwaysCoherent == Spec => []CacheCoherent
  BY CacheInvariant, PTL

\* The "already sent" branch of processSpan and the error of makeDecision are
\* unreachable: no cached trace is Sent at a select, and no task holds one.
THEOREM SentTracesLeaveCache == Spec => []NoSentTraceCached
<1>1. TaskInv => NoSentTraceCached
  BY DEF TaskInv, NoSentTraceCached
<1> QED
  BY <1>1, CacheInvariant, PTL

-----------------------------------------------------------------------------
(* One decision per trace. *)

\* The remembered traces whose latest decision was not stress relief's.
Recorded == (kept \cup dropped) \ relieved

\* The trace the goroutine has decided and not yet handed over.
InHand(t) == sending # <<>> /\ sending[1].id = t

\* A trace that waits in the cache or in a task has no record yet, except the
\* one whose record has just been made.
UndecidedInv ==
  /\ relieved \subseteq disturbed
  /\ \A t \in DOMAIN cache \ tracesSent : t \in Recorded => InHand(t)
  /\ \A t \in DOMAIN taken : t \in Recorded => InHand(t)
  /\ task = "expire" => DOMAIN taken \cap DOMAIN cache = {}
  /\ task = "evict" => DOMAIN taken \subseteq DOMAIN cache /\ DOMAIN taken \cap tracesSent = {}
  /\ sending # <<>> => sending[1].id \in DOMAIN taken

\* processSpan starts a trace only when the sample cache has no record of it.
LEMMA processSpanUndecided ==
  ASSUME TypeOK, NEW s \in Span, processSpan(s)
  PROVE  \A t \in DOMAIN cache' \ DOMAIN cache : t \notin Recorded
  BY DEF processSpan, AddToLiveTrace, Put, Found, Recorded, cacheVars

\* No step makes a remembered trace live again, or decides a trace that is
\* remembered, but for the records stress relief makes beside the worker.
LEMMA UndecidedStep ==
  ASSUME TypeOK, CacheCoherent, TaskInv, UndecidedInv, Next
  PROVE  UndecidedInv'
<1> USE DEF Recorded, InHand
<1>1. ASSUME UNCHANGED <<cacheVars, taskVars, sentVars>>
      PROVE  UndecidedInv'
  BY <1>1 DEF UndecidedInv, cacheVars, taskVars, sentVars
<1>2. ASSUME NEW s \in Span, processSpan(s), pc # "task",
             UNCHANGED <<task, taken, sending, tracesSent, kept, dropped, disturbed, relieved>>
      PROVE  UndecidedInv'
  <2>1. task = "none" /\ sending = <<>> /\ DOMAIN taken = {} /\ tracesSent = {}
    BY <1>2 DEF TaskInv, TypeOK
  <2>2. \A t \in DOMAIN cache' : t \notin Recorded
    BY <1>2, <2>1, processSpanUndecided DEF UndecidedInv
  <2> QED
    BY <1>2, <2>1, <2>2 DEF UndecidedInv
<1>3. CASE CollectFromPeer
  <2>1. Head(fromPeer) \in Span /\ processSpan(Head(fromPeer)) /\ pc = "poll"
    BY <1>3 DEF CollectFromPeer, TypeOK
  <2> QED
    BY <1>2, <1>3, <2>1 DEF CollectFromPeer, taskVars, routerVars, sentVars
<1>4. CASE SelectFromPeer
  <2>1. Head(fromPeer) \in Span /\ processSpan(Head(fromPeer)) /\ pc = "select"
    BY <1>4 DEF SelectFromPeer, TypeOK
  <2> QED
    BY <1>2, <1>4, <2>1 DEF SelectFromPeer, routerVars, sentVars
<1>5. CASE SelectIncoming
  <2>1. Head(incoming) \in Span /\ processSpan(Head(incoming)) /\ pc = "select"
    BY <1>5 DEF SelectIncoming, TypeOK
  <2> QED
    BY <1>2, <1>5, <2>1 DEF SelectIncoming, routerVars, sentVars
<1>6. CASE NoPeerTraffic \/ CollectReturns
  BY <1>6 DEF NoPeerTraffic, CollectReturns, UndecidedInv, routerVars, cacheVars, sentVars
<1>7. CASE Ticker
  <2>1. PICK P \in SUBSET DOMAIN pq :
           /\ taken' = [t \in P \cap DOMAIN cache |-> cache[t]]
           /\ cache' = Without(cache, P)
    BY <1>7 DEF Ticker
  <2>2. sending = <<>> /\ tracesSent = {} /\ task' = "expire"
        /\ UNCHANGED <<sending, tracesSent, kept, dropped, disturbed, relieved>>
    BY <1>7 DEF Ticker, TaskInv, routerVars, sentVars
  <2>3. DOMAIN taken' = P \cap DOMAIN cache /\ DOMAIN cache' = DOMAIN cache \ P
    BY <2>1 DEF Without
  <2> QED
    BY <2>2, <2>3 DEF UndecidedInv
<1>8. ASSUME NEW b \in EvictBytes, SendEarly(b)
      PROVE  UndecidedInv'
  BY <1>8 DEF SendEarly, TaskInv, UndecidedInv, routerVars, cacheVars, sentVars
<1>9. ASSUME NEW t \in TraceID, NEW keep \in BOOLEAN, makeDecision(t, keep)
      PROVE  UndecidedInv'
  <2>1. sending = <<>> /\ sending' # <<>> /\ sending'[1].id = t /\ t \in DOMAIN taken
    BY <1>9 DEF makeDecision
  <2>2. /\ kept' \cup dropped' = kept \cup dropped \cup {t}
        /\ disturbed' = disturbed /\ relieved' = relieved \ {t}
    BY <1>9 DEF makeDecision, Record
  <2>3. UNCHANGED <<task, taken, tracesSent, cache>>
    BY <1>9 DEF makeDecision, routerVars, cacheVars
  <2> QED
    BY <2>1, <2>2, <2>3 DEF UndecidedInv
<1>10. CASE send
  <2> DEFINE id == sending[1].id
  <2>1. DOMAIN cache' = DOMAIN cache
    BY <1>10 DEF send, MarkSent
  <2>2. DOMAIN taken' = DOMAIN taken \ {id}
    BY <1>10 DEF send, Without
  <2>3. IF task = "evict" THEN tracesSent' = tracesSent \cup {id} ELSE tracesSent' = tracesSent
    BY <1>10 DEF send
  <2>4. /\ sending # <<>> /\ sending' = <<>>
        /\ UNCHANGED <<task, kept, dropped, disturbed, relieved>>
    BY <1>10 DEF send, routerVars, sentVars
  <2>5. task \in {"expire", "evict"} /\ id \in DOMAIN taken
    BY <2>4 DEF TaskInv, UndecidedInv, TypeOK
  <2>6. CASE task = "expire"
    BY <2>1, <2>2, <2>3, <2>4, <2>5, <2>6 DEF UndecidedInv
  <2>7. CASE task = "evict"
    BY <2>1, <2>2, <2>3, <2>4, <2>5, <2>7 DEF UndecidedInv
  <2> QED
    BY <2>5, <2>6, <2>7
<1>11. CASE FinishTask
  <2>1. /\ sending = <<>> /\ DOMAIN taken' = {} /\ tracesSent' = {} /\ task' = "none"
        /\ UNCHANGED <<sending, kept, dropped, disturbed, relieved>>
    BY <1>11 DEF FinishTask, routerVars, sentVars
  <2>2. DOMAIN cache' = DOMAIN cache \ tracesSent
    BY <1>11 DEF FinishTask, RemoveTraces, Without, cacheVars, TaskInv
  <2> QED
    BY <2>1, <2>2 DEF UndecidedInv
<1>12. CASE AdvanceTime
  <2>1. DOMAIN cache' = DOMAIN cache
    BY <1>12 DEF AdvanceTime
  <2>2. UNCHANGED <<task, taken, sending, tracesSent, kept, dropped, disturbed, relieved>>
    BY <1>12 DEF AdvanceTime, taskVars, routerVars, sentVars
  <2> QED
    BY <2>1, <2>2 DEF UndecidedInv
<1>13. ASSUME NEW s \in Span, addSpan(s) \/ addSpanFromPeer(s)
       PROVE  UndecidedInv'
  BY <1>1, <1>13 DEF addSpan, addSpanFromPeer
<1>14. ASSUME NEW s \in Span, ProcessSpanImmediately(s) \/ StressRecord(s)
       PROVE  UndecidedInv'
  <2>1. UNCHANGED <<cache, task, taken, tracesSent, sending>>
    BY <1>14 DEF ProcessSpanImmediately, StressRecord, cacheVars, taskVars
  <2>2. Recorded' \subseteq Recorded /\ relieved' \subseteq disturbed'
    BY <1>14 DEF ProcessSpanImmediately, StressRecord, Record, sentVars, UndecidedInv
  <2> QED
    BY <2>1, <2>2 DEF UndecidedInv
<1>15. CASE sendTraces \/ StopIncoming \/ StopFromPeer
  BY <1>1, <1>15 DEF sendTraces, StopIncoming, StopFromPeer, routerVars
<1>16. ASSUME NEW t \in TraceID, Forget(t)
       PROVE  UndecidedInv'
  <2>1. Recorded' \subseteq Recorded
    BY <1>16 DEF Forget
  <2> QED
    BY <1>16, <2>1 DEF Forget, UndecidedInv, routerVars, cacheVars, taskVars
<1> QED
  BY <1>3, <1>4, <1>5, <1>6, <1>7, <1>8, <1>9, <1>10, <1>11, <1>12, <1>13, <1>14,
     <1>15, <1>16 DEF Next, Collect

\* The same, with the records of the sample cache.
LEMMA UndecidedInvariant == Spec => [](TypeOK /\ CacheCoherent /\ TaskInv /\ UndecidedInv)
<1>1. Init => UndecidedInv
  BY DEF Init, UndecidedInv, Recorded, InHand
<1>2. TypeOK /\ CacheCoherent /\ TaskInv /\ UndecidedInv /\ [Next]_vars => UndecidedInv'
  <2>1. UndecidedInv /\ UNCHANGED vars => UndecidedInv'
    BY DEF vars, UndecidedInv, Recorded, InHand,
           routerVars, cacheVars, taskVars, sentVars
  <2> QED
    BY <2>1, UndecidedStep
<1> QED
  BY <1>1, <1>2, CacheInvariant, PTL DEF Spec

\* makeDecision never runs on a trace whose decision is still remembered, even if
\* the sample cache forgets records along the way: a remembered trace is neither
\* in the trace cache nor in a task.  Only a record that a router goroutine made
\* under stress relief, since the worker last decided the trace, is excepted.
THEOREM DecidedAtMostOnce == Spec => NoSecondDecision
<1> DEFINE Inv == TypeOK /\ CacheCoherent /\ TaskInv /\ UndecidedInv
           Step == \A t \in TraceID :
                     sending = <<>> /\ sending' # <<>> /\ sending'[1].id = t =>
                       t \notin kept \cup dropped \/ t \in relieved
<1>1. Inv /\ [Next]_vars => [Step]_vars
  <2> SUFFICES ASSUME Inv, Next, NEW t \in TraceID,
                      sending = <<>>, sending' # <<>>, sending'[1].id = t
               PROVE  t \notin kept \cup dropped \/ t \in relieved
    OBVIOUS
  <2>1. PICK u \in TraceID, keep \in BOOLEAN : makeDecision(u, keep)
    BY DEF Next, Collect, addSpan, addSpanFromPeer, ProcessSpanImmediately, StressRecord,
           CollectFromPeer, NoPeerTraffic, SelectIncoming, SelectFromPeer, Ticker,
           SendEarly, send, FinishTask, CollectReturns, sendTraces, StopIncoming,
           StopFromPeer, Forget, AdvanceTime, taskVars
  <2>2. u = t /\ t \in DOMAIN taken
    BY <2>1 DEF makeDecision
  <2> QED
    BY <2>2 DEF UndecidedInv, Recorded, InHand
<1> QED
  BY <1>1, UndecidedInvariant, PTL DEF Spec, NoSecondDecision

-----------------------------------------------------------------------------
(* Deadlines. *)

\* The deadline a trace must keep, whoever holds it.
InTime(tr) ==
  /\ OverLimit(Len(tr.spans)) => tr.left = 0
  /\ tr.hasRoot => tr.left <= SendDelay

\* Adding a span pulls the deadline in far enough.
LEMMA WithSpanInTime ==
  ASSUME NEW tr \in Trace, InTime(tr), NEW s \in Span
  PROVE  InTime(WithSpan(tr, s))
<1>1. tr.spans \in Seq(Span) /\ tr.left \in Nat
  BY DEF Trace
<1>2. Len(WithSpan(tr, s).spans) = Len(tr.spans) + 1 /\ Len(tr.spans) \in Nat
  BY <1>1 DEF WithSpan
<1>3. OverLimit(Len(WithSpan(tr, s).spans)) => WithSpan(tr, s).left = 0
  <2> SUFFICES ASSUME OverLimit(Len(tr.spans) + 1) PROVE WithSpan(tr, s).left = 0
    BY <1>2
  <2> QED
    BY <1>1 DEF WithSpan
<1>4. WithSpan(tr, s).hasRoot => WithSpan(tr, s).left <= SendDelay
  <2>1. CASE s \in Root
    BY <1>1, <2>1, TimingAssumption DEF WithSpan
  <2>2. CASE s \notin Root /\ tr.hasRoot
    BY <1>1, <2>2, WithSpanTrace, TimingAssumption DEF InTime, Trace
  <2> QED
    BY <2>1, <2>2 DEF WithSpan
<1> QED
  BY <1>3, <1>4 DEF InTime

\* In whichever order the spans of a trace come, and however often its deadline
\* is moved: one that has more than SpanLimit spans is due at once, and one with
\* its root span within SendDelay.
THEOREM DeadlinesAlwaysHonoured == Spec => []DeadlinesHonoured
<1>0. DeadlinesHonoured <=> \A t \in DOMAIN cache : InTime(cache[t])
  BY DEF DeadlinesHonoured, InTime
<1>1. Init => DeadlinesHonoured
  BY DEF Init, DeadlinesHonoured
<1>2. ASSUME TypeOK, DeadlinesHonoured, [Next]_vars
      PROVE  DeadlinesHonoured'
  <2> DEFINE InTimeAll(m) == \A t \in DOMAIN m : InTime(m[t])
  <2>1. InTimeAll(cache) /\ IsMap(cache, TraceID, Trace)
    BY <1>0, <1>2 DEF TypeOK
  <2>2. SUFFICES InTimeAll(cache')
    BY DEF DeadlinesHonoured, InTime
  <2>3. ASSUME cache' = cache PROVE InTimeAll(cache')
    BY <2>1, <2>3
  <2>4. ASSUME NEW s \in Span, processSpan(s) PROVE InTimeAll(cache')
    <3> DEFINE t == TraceOf[s]
    <3>1. t \in TraceID /\ (t \in DOMAIN cache => cache[t] \in Trace /\ InTime(cache[t]))
      BY <2>1, TraceOfAssumption DEF IsMap
    <3>2. InTime(NewTrace)
      BY LimitAssumption DEF InTime, NewTrace, OverLimit
    <3>3. ASSUME NEW tr \in Trace, InTime(tr), cache' = Put(cache, t, WithSpan(tr, s))
          PROVE  InTimeAll(cache')
      <4> HIDE DEF t
      <4>1. WithSpan(tr, s) \in Trace /\ InTime(WithSpan(tr, s))
        BY <3>3, WithSpanTrace, WithSpanInTime
      <4>2. /\ DOMAIN cache' = DOMAIN cache \cup {t} /\ cache'[t] = WithSpan(tr, s)
            /\ \A x \in DOMAIN cache \ {t} : cache'[x] = cache[x]
        BY <2>1, <3>1, <3>3, <4>1, PutMap
      <4> QED
        BY <2>1, <4>1, <4>2
    <3>4. \/ UNCHANGED cache
          \/ cache' = Put(cache, t, WithSpan(NewTrace, s))
          \/ t \in DOMAIN cache /\ cache' = Put(cache, t, WithSpan(cache[t], s))
      BY <2>4 DEF processSpan, AddToLiveTrace, cacheVars
    <3> HIDE DEF t
    <3> QED
      BY <2>3, <3>1, <3>2, <3>3, <3>4, NewTraceTrace
  <2>5. ASSUME NEW D, cache' = Without(cache, D) PROVE InTimeAll(cache')
    BY <2>1, <2>5 DEF Without
  <2>6. CASE CollectFromPeer \/ SelectFromPeer
    BY <1>2, <2>4, <2>6 DEF CollectFromPeer, SelectFromPeer, TypeOK
  <2>7. CASE SelectIncoming
    BY <1>2, <2>4, <2>7 DEF SelectIncoming, TypeOK
  <2>8. CASE Ticker
    BY <2>5, <2>8 DEF Ticker
  <2>9. CASE FinishTask
    BY <2>3, <2>5, <2>9 DEF FinishTask, RemoveTraces, cacheVars
  <2>10. CASE send
    <3>1. CASE cache' = cache
      BY <2>3, <3>1
    <3>2. CASE cache' = [cache EXCEPT ![sending[1].id].sent = TRUE]
      <4>1. \A t \in DOMAIN cache : /\ cache'[t].spans = cache[t].spans /\ cache'[t].left = cache[t].left
                                    /\ cache'[t].hasRoot = cache[t].hasRoot
        BY <2>1, <3>2 DEF IsMap, Trace
      <4> QED
        BY <2>1, <3>2, <4>1 DEF InTime
    <3> QED
      BY <2>10, <3>1, <3>2 DEF send, MarkSent
  <2>11. CASE AdvanceTime
    <3>1. ASSUME NEW t \in DOMAIN cache PROVE InTime([cache[t] EXCEPT !.left = Elapse(@)])
      <4>1. cache[t] \in Trace /\ InTime(cache[t])
        BY <2>1 DEF IsMap
      <4> QED
        BY <4>1, TimingAssumption DEF InTime, Trace, Elapse
    <3> QED
      BY <2>11, <3>1 DEF AdvanceTime
  <2>12. CASE UNCHANGED cache
    BY <2>3, <2>12
  <2> QED
    BY <1>2, <2>6, <2>7, <2>8, <2>9, <2>10, <2>11, <2>12
       DEF Next, Collect, addSpan, addSpanFromPeer, ProcessSpanImmediately, StressRecord,
           NoPeerTraffic, SendEarly, makeDecision, CollectReturns, sendTraces, StopIncoming,
           StopFromPeer, Forget, vars, cacheVars
<1> QED
  BY <1>1, <1>2, TypeCorrect, PTL DEF Spec

-----------------------------------------------------------------------------
(* One verdict per trace. *)

OwnSpans(tr, t) == \A k \in DOMAIN tr.spans : TraceOf[tr.spans[k]] = t

\* A trace holds its own spans only, wherever it is.
OwnInv ==
  /\ \A t \in DOMAIN cache : OwnSpans(cache[t], t)
  /\ \A t \in DOMAIN taken : OwnSpans(taken[t], t)
  /\ sending # <<>> => OwnSpans(sending[1], sending[1].id)
  /\ \A i \in DOMAIN outgoing : OwnSpans(outgoing[i], outgoing[i].id)

\* What is known of a trace that neither stress relief nor forgetting has touched.
Verdict(t) ==
  /\ ~(t \in kept /\ t \in dropped)
  /\ \A s \in Span : TraceOf[s] = t => /\ "sent" \in Range(fate[s]) => t \in kept
                                       /\ "dropped" \in Range(fate[s]) => t \in dropped
  /\ InHand(t) => t \in (IF sending[1].keep THEN kept ELSE dropped)
  /\ \A i \in DOMAIN outgoing : outgoing[i].id = t => t \in kept

VerdictInv == \A t \in TraceID \ disturbed : Verdict(t)

\* What Befalls adds to a history.
LEMMA BefallsRange ==
  ASSUME TypeOK, NEW S, NEW o \in Outcome, Befalls(S, o), NEW s \in Span
  PROVE  Range(fate'[s]) = IF s \in S THEN Range(fate[s]) \cup {o} ELSE Range(fate[s])
<1>1. fate[s] \in Seq(Outcome)
  BY DEF TypeOK
<1>2. CASE s \in S
  <2>1. fate'[s] = Append(fate[s], o)
    BY <1>2 DEF Befalls
  <2>2. Append(fate[s], o) \in Seq(Outcome) /\ Len(Append(fate[s], o)) = Len(fate[s]) + 1
        /\ (\A i \in 1..Len(fate[s]) : Append(fate[s], o)[i] = fate[s][i])
        /\ Append(fate[s], o)[Len(fate[s]) + 1] = o /\ Len(fate[s]) \in Nat
    BY <1>1
  <2>3. DOMAIN fate[s] = 1..Len(fate[s]) /\ DOMAIN fate'[s] = 1..Len(fate[s]) + 1
    BY <1>1, <2>1, <2>2
  <2> QED
    BY <1>2, <2>1, <2>2, <2>3 DEF Range
<1>3. CASE s \notin S
  BY <1>3 DEF Befalls
<1> QED
  BY <1>2, <1>3

\* A span that is settled by the record of its trace leaves the verdict alone.
LEMMA FollowsRecord ==
  ASSUME TypeOK, NEW t \in TraceID, Verdict(t), NEW S, NEW o \in {"sent", "dropped"}, Befalls(S, o),
         \A s \in S : TraceOf[s] = t => t \in (IF o = "sent" THEN kept ELSE dropped),
         UNCHANGED <<kept, dropped, sending>>, 
         \A i \in DOMAIN outgoing' : \E j \in DOMAIN outgoing : outgoing'[i] = outgoing[j]
  PROVE  Verdict(t)'
<1>1. \A s \in Span : TraceOf[s] = t => /\ "sent" \in Range(fate'[s]) => t \in kept
                                        /\ "dropped" \in Range(fate'[s]) => t \in dropped
  <2> SUFFICES ASSUME NEW s \in Span, TraceOf[s] = t
               PROVE  /\ "sent" \in Range(fate'[s]) => t \in kept
                      /\ "dropped" \in Range(fate'[s]) => t \in dropped
    OBVIOUS
  <2>1. Range(fate'[s]) = IF s \in S THEN Range(fate[s]) \cup {o} ELSE Range(fate[s])
    BY BefallsRange DEF Outcome
  <2>2. /\ "sent" \in Range(fate[s]) => t \in kept
        /\ "dropped" \in Range(fate[s]) => t \in dropped
    BY DEF Verdict
  <2> QED
    BY <2>1, <2>2
<1> QED
  BY <1>1 DEF Verdict, InHand

\* Adding one of its spans to a trace keeps its spans its own.
LEMMA WithSpanOwn ==
  ASSUME NEW tr \in Trace, NEW s \in Span, OwnSpans(tr, TraceOf[s])
  PROVE  OwnSpans(WithSpan(tr, s), TraceOf[s])
<1>1. tr.spans \in Seq(Span) /\ WithSpan(tr, s).spans = Append(tr.spans, s)
  BY DEF Trace, WithSpan
<1> QED
  BY <1>1 DEF OwnSpans

\* No step moves a span into another trace.
LEMMA OwnStep ==
  ASSUME TypeOK, OwnInv, [Next]_vars
  PROVE  OwnInv'
<1> USE DEF OwnInv
<1>1. ASSUME UNCHANGED <<cache, taken, sending, outgoing>> PROVE OwnInv'
  BY <1>1 DEF OwnSpans
<1>2. ASSUME NEW s \in Span, processSpan(s), UNCHANGED <<taken, sending>> PROVE OwnInv'
  <2> DEFINE t == TraceOf[s]
  <2>1. \/ UNCHANGED cache
        \/ cache' = Put(cache, t, WithSpan(NewTrace, s))
        \/ t \in DOMAIN cache /\ cache' = Put(cache, t, WithSpan(cache[t], s))
    BY <1>2 DEF processSpan, AddToLiveTrace, cacheVars
  <2>2. OwnSpans(NewTrace, t) /\ (t \in DOMAIN cache => cache[t] \in Trace /\ OwnSpans(cache[t], t))
    BY DEF OwnSpans, NewTrace, TypeOK, IsMap
  <2>3. OwnSpans(WithSpan(NewTrace, s), t) /\ (t \in DOMAIN cache => OwnSpans(WithSpan(cache[t], s), t))
    BY <2>2, WithSpanOwn, NewTraceTrace
  <2> HIDE DEF t
  <2>4. \A u \in DOMAIN cache' : OwnSpans(cache'[u], u)
    BY <2>1, <2>3 DEF Put
  <2> QED
    BY <1>2, <2>4 DEF processSpan
<1>3. CASE CollectFromPeer \/ SelectFromPeer
  <2>1. Head(fromPeer) \in Span /\ processSpan(Head(fromPeer)) /\ UNCHANGED <<taken, sending>>
    BY <1>3 DEF CollectFromPeer, SelectFromPeer, TypeOK, taskVars
  <2> QED
    BY <1>2, <2>1
<1>4. CASE SelectIncoming
  <2>1. Head(incoming) \in Span /\ processSpan(Head(incoming)) /\ UNCHANGED <<taken, sending>>
    BY <1>4 DEF SelectIncoming, TypeOK
  <2> QED
    BY <1>2, <2>1
<1>5. CASE Ticker
  BY <1>5 DEF Ticker, Without, outVars
<1>6. ASSUME NEW b \in EvictBytes, SendEarly(b) PROVE OwnInv'
  BY <1>6 DEF SendEarly, cacheVars, outVars
<1>7. ASSUME NEW t \in TraceID, NEW keep \in BOOLEAN, makeDecision(t, keep) PROVE OwnInv'
  <2>1. sending'[1].id = t /\ sending'[1].spans = taken[t].spans /\ t \in DOMAIN taken
    BY <1>7 DEF makeDecision
  <2>2. OwnSpans(sending'[1], sending'[1].id)
    BY <2>1 DEF OwnSpans
  <2> QED
    BY <1>7, <2>2 DEF makeDecision, cacheVars, outVars
<1>8. CASE send
  <2>1. \A t \in DOMAIN cache' : t \in DOMAIN cache /\ cache'[t].spans = cache[t].spans
    <3>1. CASE cache' = cache
      BY <3>1
    <3>2. CASE cache' = [cache EXCEPT ![sending[1].id].sent = TRUE]
      BY <3>2 DEF TypeOK, IsMap, Trace
    <3> QED
      BY <1>8, <3>1, <3>2 DEF send, MarkSent
  <2>2. \A i \in DOMAIN outgoing' : OwnSpans(outgoing'[i], outgoing'[i].id)
    <3>1. CASE UNCHANGED outgoing
      BY <3>1
    <3>2. CASE outgoing' = Append(outgoing, sending[1])
      BY <1>8, <3>2 DEF send, TypeOK
    <3> QED
      BY <1>8, <3>1, <3>2 DEF send
  <2> QED
    BY <1>8, <2>1, <2>2 DEF send, Without, OwnSpans
<1>9. CASE FinishTask
  BY <1>9 DEF FinishTask, RemoveTraces, Without, cacheVars, outVars
<1>10. CASE sendTraces
  <2>1. \A i \in DOMAIN outgoing' : OwnSpans(outgoing'[i], outgoing'[i].id)
    BY <1>10 DEF sendTraces, TypeOK
  <2> QED
    BY <1>10, <2>1 DEF sendTraces, cacheVars, taskVars
<1>11. CASE AdvanceTime
  <2>1. \A t \in DOMAIN cache' : t \in DOMAIN cache /\ cache'[t].spans = cache[t].spans
    BY <1>11 DEF AdvanceTime, TypeOK, IsMap, Trace
  <2> QED
    BY <1>11, <2>1 DEF AdvanceTime, taskVars, outVars, OwnSpans
<1> QED
  BY <1>1, <1>3, <1>4, <1>5, <1>6, <1>7, <1>8, <1>9, <1>10, <1>11
     DEF Next, Collect, addSpan, addSpanFromPeer, ProcessSpanImmediately, StressRecord,
         NoPeerTraffic, CollectReturns, StopIncoming, StopFromPeer, Forget, vars,
         cacheVars, taskVars, outVars

\* What a step of the worker or of a router does to the verdict of one trace.
LEMMA VerdictStep ==
  ASSUME ~DryRun, TypeOK, TaskInv, UndecidedInv, OwnInv, VerdictInv, [Next]_vars
  PROVE  VerdictInv'
<1> SUFFICES ASSUME NEW t \in TraceID, t \notin disturbed' PROVE Verdict(t)'
  BY DEF VerdictInv
<1>1. disturbed \subseteq disturbed'
  BY DEF Next, Collect, addSpan, addSpanFromPeer, ProcessSpanImmediately, StressRecord,
         CollectFromPeer, NoPeerTraffic, SelectIncoming, SelectFromPeer, Ticker, SendEarly,
         makeDecision, send, FinishTask, CollectReturns, sendTraces, StopIncoming,
         StopFromPeer, Forget, AdvanceTime, vars, sentVars
<1>2. Verdict(t)
  BY <1>1 DEF VerdictInv
<1>3. ASSUME UNCHANGED <<kept, dropped, sending, outgoing, fate>> PROVE Verdict(t)'
  BY <1>2, <1>3 DEF Verdict, InHand
<1>4. ASSUME NEW s \in Span, processSpan(s), pc # "task", UNCHANGED <<kept, dropped, sending>>
      PROVE  Verdict(t)'
  <2>1. \A u \in DOMAIN cache : ~cache[u].sent
    BY <1>4 DEF TaskInv
  <2>2. CASE UNCHANGED fate
    BY <1>3, <1>4, <2>2 DEF processSpan
  <2>3. CASE Found(TraceOf[s]) /\ dealWithSentTrace(s, FoundKept(TraceOf[s]))
    <3>1. PICK o \in {"sent", "dropped"} :
             Befalls({s}, o) /\ TraceOf[s] \in (IF o = "sent" THEN kept ELSE dropped)
      BY <2>3 DEF dealWithSentTrace, Found, FoundKept
    <3> QED
      BY <1>2, <1>4, <3>1, FollowsRecord DEF processSpan
  <2> QED
    BY <1>4, <2>1, <2>2, <2>3 DEF processSpan, AddToLiveTrace
<1>5. CASE CollectFromPeer \/ SelectFromPeer
  <2>1. Head(fromPeer) \in Span /\ processSpan(Head(fromPeer)) /\ pc # "task"
    BY <1>5 DEF CollectFromPeer, SelectFromPeer, TypeOK
  <2> QED
    BY <1>4, <1>5, <2>1 DEF CollectFromPeer, SelectFromPeer, taskVars, sentVars
<1>6. CASE SelectIncoming
  <2>1. Head(incoming) \in Span /\ processSpan(Head(incoming)) /\ pc # "task"
    BY <1>6 DEF SelectIncoming, TypeOK
  <2> QED
    BY <1>4, <1>6, <2>1 DEF SelectIncoming, sentVars
<1>7. ASSUME NEW s \in Span, addSpan(s) \/ addSpanFromPeer(s) PROVE Verdict(t)'
  <2>1. UNCHANGED <<kept, dropped, sending, outgoing>>
    BY <1>7 DEF addSpan, addSpanFromPeer, taskVars, sentVars
  <2>2. CASE UNCHANGED fate
    BY <1>3, <2>1, <2>2
  <2>3. CASE Befalls({s}, "refused")
    <3>1. \A u \in Span : Range(fate'[u]) \subseteq Range(fate[u]) \cup {"refused"}
      BY <2>3, BefallsRange DEF Outcome
    <3> QED
      BY <1>2, <2>1, <3>1 DEF Verdict, InHand
  <2> QED
    BY <1>7, <2>2, <2>3 DEF addSpan, addSpanFromPeer
<1>8. ASSUME NEW s \in Span, ProcessSpanImmediately(s) PROVE Verdict(t)'
  <2>1. UNCHANGED <<kept, dropped, sending, outgoing>>
    BY <1>8 DEF ProcessSpanImmediately, taskVars, sentVars
  <2>2. CASE UNCHANGED fate
    BY <1>3, <2>1, <2>2
  <2>3. CASE Found(TraceOf[s]) /\ Befalls({s}, IF FoundKept(TraceOf[s]) THEN "sent" ELSE "dropped")
    <3>1. PICK o \in {"sent", "dropped"} :
             Befalls({s}, o) /\ TraceOf[s] \in (IF o = "sent" THEN kept ELSE dropped)
      BY <2>3 DEF Found, FoundKept
    <3> QED
      BY <1>2, <2>1, <3>1, FollowsRecord
  <2> QED
    BY <1>8, <2>2, <2>3 DEF ProcessSpanImmediately
<1>9. ASSUME NEW s \in Span, StressRecord(s) PROVE Verdict(t)'
  <2>1. t # TraceOf[s] /\ UNCHANGED <<sending, outgoing>>
    BY <1>9 DEF StressRecord, taskVars
  <2>2. (t \in kept' <=> t \in kept) /\ (t \in dropped' <=> t \in dropped)
    BY <1>9, <2>1 DEF StressRecord, Record
  <2>3. \A u \in Span : TraceOf[u] = t => fate'[u] = fate[u]
    BY <1>9, <2>1 DEF StressRecord, Befalls, TypeOK
  <2> QED
    BY <1>2, <2>1, <2>2, <2>3 DEF Verdict, InHand
<1>10. ASSUME NEW u \in TraceID, NEW keep \in BOOLEAN, makeDecision(u, keep) PROVE Verdict(t)'
  <2>1. /\ sending = <<>> /\ u \in DOMAIN taken /\ UNCHANGED <<outgoing, fate, disturbed>>
        /\ sending'[1].id = u /\ sending'[1].keep = keep /\ Record(u, keep)
    BY <1>10 DEF makeDecision, outVars
  <2>2. CASE u # t
    BY <1>2, <2>1, <2>2 DEF Verdict, InHand, Record
  <2>3. CASE u = t
    <3>1. t \notin kept /\ t \notin dropped
      BY <2>1, <2>3 DEF UndecidedInv, Recorded, InHand
    <3>2. t \in (IF keep THEN kept' ELSE dropped') /\ ~(t \in kept' /\ t \in dropped')
      BY <2>1, <2>3, <3>1 DEF Record
    <3> QED
      BY <1>2, <2>1, <2>3, <3>1, <3>2 DEF Verdict, InHand
  <2> QED
    BY <2>2, <2>3
<1>11. CASE send
  <2>1. sending # <<>> /\ sending' = <<>> /\ UNCHANGED <<kept, dropped>>
    BY <1>11 DEF send, sentVars
  <2>2. InHand(t) => t \in (IF sending[1].keep THEN kept ELSE dropped)
    BY <1>2 DEF Verdict
  <2>3. CASE ~sending[1].keep /\ Befalls(Range(sending[1].spans), "dropped") /\ UNCHANGED outgoing
    <3>1. \A s \in Range(sending[1].spans) : TraceOf[s] = sending[1].id
      BY <2>1 DEF OwnInv, OwnSpans, Range
    <3>2. \A s \in Span : TraceOf[s] = t => /\ "sent" \in Range(fate'[s]) => t \in kept
                                            /\ "dropped" \in Range(fate'[s]) => t \in dropped
      <4> SUFFICES ASSUME NEW s \in Span, TraceOf[s] = t
                   PROVE  /\ "sent" \in Range(fate'[s]) => t \in kept
                          /\ "dropped" \in Range(fate'[s]) => t \in dropped
        OBVIOUS
      <4>1. Range(fate'[s]) = IF s \in Range(sending[1].spans) THEN Range(fate[s]) \cup {"dropped"}
                              ELSE Range(fate[s])
        BY <2>3, BefallsRange DEF Outcome
      <4>2. s \in Range(sending[1].spans) => t \in dropped
        BY <2>1, <2>2, <2>3, <3>1 DEF InHand
      <4> QED
        BY <1>2, <4>1, <4>2 DEF Verdict
    <3> QED
      BY <1>2, <2>1, <2>3, <3>2 DEF Verdict, InHand
  <2>4. CASE sending[1].keep /\ outgoing' = Append(outgoing, sending[1]) /\ UNCHANGED fate
    <3>1. \A i \in DOMAIN outgoing' : \/ i \in DOMAIN outgoing /\ outgoing'[i] = outgoing[i]
                                      \/ outgoing'[i] = sending[1]
      BY <2>1, <2>4 DEF TypeOK
    <3> QED
      BY <1>2, <2>1, <2>2, <2>4, <3>1 DEF Verdict, InHand
  <2> QED
    BY <1>11, <2>3, <2>4 DEF send
<1>12. CASE sendTraces
  <2>1. UNCHANGED <<kept, dropped, sending>>
    BY <1>12 DEF sendTraces, sentVars, taskVars
  <2>2. /\ Head(outgoing) = outgoing[1] /\ 1 \in DOMAIN outgoing
        /\ \A i \in DOMAIN outgoing' : i + 1 \in DOMAIN outgoing /\ outgoing'[i] = outgoing[i + 1]
    BY <1>12 DEF sendTraces, TypeOK
  <2>3. \A s \in Range(Head(outgoing).spans) : TraceOf[s] = t => t \in kept
    BY <1>2, <2>2 DEF OwnInv, OwnSpans, Range, Verdict
  <2> QED
    BY <1>2, <1>12, <2>1, <2>2, <2>3, FollowsRecord DEF sendTraces
<1>13. ASSUME NEW u \in TraceID, Forget(u) PROVE Verdict(t)'
  <2>1. t # u
    BY <1>13 DEF Forget
  <2> QED
    BY <1>2, <1>13, <2>1 DEF Forget, Verdict, InHand, taskVars, outVars
<1> QED
  BY <1>3, <1>5, <1>6, <1>7, <1>8, <1>9, <1>10, <1>11, <1>12, <1>13
     DEF Next, Collect, NoPeerTraffic, Ticker, SendEarly, FinishTask, CollectReturns,
         StopIncoming, StopFromPeer, AdvanceTime, vars, taskVars, sentVars, outVars

\* Without dry run, and for any traces, capacities and orders of events: spans of
\* a trace that stress relief has not decided and whose record has not been lost
\* are all sent or all dropped, early ones, late ones and those that a router
\* settles while the trace is on its way.
THEOREM VerdictsAlwaysWhole ==
  ASSUME ~DryRun
  PROVE  Spec => []WholeTraceVerdict
<1> DEFINE Inv == TypeOK /\ CacheCoherent /\ TaskInv /\ UndecidedInv
<1>1. Init => OwnInv /\ VerdictInv
  BY DEF Init, OwnInv, VerdictInv, Verdict, InHand, Range
<1>2. Inv /\ OwnInv /\ VerdictInv /\ [Next]_vars => OwnInv' /\ VerdictInv'
  BY OwnStep, VerdictStep
<1>3. VerdictInv => WholeTraceVerdict
  BY TraceOfAssumption DEF VerdictInv, Verdict, WholeTraceVerdict
<1> QED
  BY <1>1, <1>2, <1>3, UndecidedInvariant, PTL DEF Spec

-----------------------------------------------------------------------------
(* Counting spans. *)

\* 1 if u is in S, 0 if not.
In(u, S) == IF u \in S THEN 1 ELSE 0

\* In is a number.
LEMMA InNat == ASSUME NEW u, NEW S PROVE In(u, S) \in Nat
  BY DEF In

\* Taking an element out of a set, and putting one in.
LEMMA InChange ==
  ASSUME NEW u, NEW S, NEW s
  PROVE  /\ s \in S => In(u, S) = In(u, S \ {s}) + In(u, {s})
         /\ s \notin S => In(u, S \cup {s}) = In(u, S) + In(u, {s})
  BY DEF In

\* How often a sequence that grows or shrinks by one span holds a span.
LEMMA HeldAppend ==
  ASSUME NEW q \in Seq(Span), NEW s \in Span, NEW u
  PROVE  /\ Held(q, u) \in Nat
         /\ Held(Append(q, s), u) = Held(q, u) + In(u, {s})
<1> DEFINE at(r) == {k \in DOMAIN r : r[k] = u}
<1>1. /\ Len(q) \in Nat /\ DOMAIN q = 1..Len(q) /\ DOMAIN Append(q, s) = 1..Len(q) + 1
      /\ \A k \in 1..Len(q) : Append(q, s)[k] = q[k]
      /\ Append(q, s)[Len(q) + 1] = s
  OBVIOUS
<1>2. IsFiniteSet(at(q))
  <2>1. IsFiniteSet(1..Len(q)) /\ at(q) \in SUBSET (1..Len(q))
    BY <1>1, FS_Interval
  <2> QED
    BY <2>1, FS_Subset
<1>3. at(Append(q, s)) = IF u = s THEN at(q) \cup {Len(q) + 1} ELSE at(q)
  BY <1>1
<1>4. Len(q) + 1 \notin at(q)
  BY <1>1
<1>5. Cardinality(at(q)) \in Nat /\ Cardinality(at(q) \cup {Len(q) + 1}) = Cardinality(at(q)) + 1
  BY <1>2, <1>4, FS_CardinalityType, FS_AddElement
<1>6. Held(q, u) = Cardinality(at(q)) /\ Held(Append(q, s), u) = Cardinality(at(Append(q, s)))
  BY DEF Held
<1> HIDE DEF at
<1> QED
  BY <1>3, <1>5, <1>6 DEF In

\* A span taken off the front of a channel.
LEMMA HeldTail ==
  ASSUME NEW q \in Seq(Span), q # <<>>, NEW u
  PROVE  Held(q, u) = Held(Tail(q), u) + In(u, {Head(q)})
<1> DEFINE at(r) == {k \in DOMAIN r : r[k] = u}
           f == [k \in at(Tail(q)) |-> k + 1]
<1>1. /\ Len(q) \in Nat \ {0} /\ DOMAIN q = 1..Len(q) /\ DOMAIN Tail(q) = 1..Len(q) - 1
      /\ \A k \in 1..Len(q) - 1 : Tail(q)[k] = q[k + 1]
      /\ Head(q) = q[1]
  OBVIOUS
<1>2. IsFiniteSet(at(Tail(q)))
  <2>1. IsFiniteSet(1..Len(q) - 1) /\ at(Tail(q)) \in SUBSET (1..Len(q) - 1)
    BY <1>1, FS_Interval
  <2> QED
    BY <2>1, FS_Subset
<1>3. f \in Bijection(at(Tail(q)), at(q) \ {1})
  <2>1. f \in [at(Tail(q)) -> at(q) \ {1}]
    BY <1>1
  <2>2. \A a, b \in at(Tail(q)) : f[a] = f[b] => a = b
    BY <1>1
  <2>3. \A k \in at(q) \ {1} : \E j \in at(Tail(q)) : f[j] = k
    <3> TAKE k \in at(q) \ {1}
    <3>1. k - 1 \in at(Tail(q)) /\ f[k - 1] = k
      BY <1>1
    <3> QED
      BY <3>1
  <2> QED
    BY <2>1, <2>2, <2>3 DEF Bijection, Injection, Surjection, IsInjective
<1>4. IsFiniteSet(at(q) \ {1}) /\ Cardinality(at(q) \ {1}) = Cardinality(at(Tail(q)))
  BY <1>2, <1>3, FS_Bijection DEF ExistsBijection
<1>5. at(q) = IF u = Head(q) THEN (at(q) \ {1}) \cup {1} ELSE at(q) \ {1}
  BY <1>1
<1>6. Cardinality((at(q) \ {1}) \cup {1}) = Cardinality(at(q) \ {1}) + 1
  BY <1>4, FS_AddElement
<1>7. Cardinality(at(Tail(q))) \in Nat
  BY <1>2, FS_CardinalityType
<1>8. Held(q, u) = Cardinality(at(q)) /\ Held(Tail(q), u) = Cardinality(at(Tail(q)))
  BY DEF Held
<1> HIDE DEF at
<1>9. CASE u = Head(q)
  <2>1. Cardinality(at(q)) = Cardinality((at(q) \ {1}) \cup {1})
    BY <1>5, <1>9, Zenon
  <2> QED
    BY <1>4, <1>6, <1>7, <1>8, <1>9, <2>1 DEF In
<1>10. CASE u # Head(q)
  <2>1. Cardinality(at(q)) = Cardinality(at(q) \ {1})
    BY <1>5, <1>10, Zenon
  <2>2. Cardinality(at(q)) = Cardinality(at(Tail(q)))
    BY <1>4, <2>1, Zenon
  <2> QED
    BY <1>7, <1>8, <1>10, <2>2 DEF In
<1> QED
  BY <1>9, <1>10

\* A sequence holds the spans of its range.
LEMMA HeldNone ==
  ASSUME NEW q \in Seq(Span), NEW u
  PROVE  u \in Range(q) <=> Held(q, u) # 0
<1> DEFINE at == {k \in DOMAIN q : q[k] = u}
<1>1. IsFiniteSet(at)
  <2>1. IsFiniteSet(1..Len(q)) /\ at \in SUBSET (1..Len(q))
    BY FS_Interval
  <2> QED
    BY <2>1, FS_Subset
<1>2. Cardinality(at) = 0 <=> at = {}
  BY <1>1, FS_EmptySet
<1> QED
  BY <1>2 DEF Held, Range

\* What an occurrence is.
LEMMA OccursAt ==
  ASSUME NEW m, NEW u, NEW x
  PROVE  x \in Occurrences(m, u) <=>
           \E t \in DOMAIN m : \E k \in DOMAIN m[t].spans : m[t].spans[k] = u /\ x = <<t, k>>
  BY DEF Occurrences

\* Traces with the same spans hold the same.
LEMMA OccursSame ==
  ASSUME NEW m, NEW n, NEW u, DOMAIN m = DOMAIN n, \A t \in DOMAIN m : m[t].spans = n[t].spans
  PROVE  Occurrences(m, u) = Occurrences(n, u)
<1>1. \A x : x \in Occurrences(m, u) <=> x \in Occurrences(n, u)
  BY OccursAt
<1> QED
  BY <1>1

\* The traces of m are those of a and those of b.
Divided(m, a, b) ==
  /\ DOMAIN m = DOMAIN a \cup DOMAIN b
  /\ DOMAIN a \cap DOMAIN b = {}
  /\ \A t \in DOMAIN a : a[t].spans = m[t].spans
  /\ \A t \in DOMAIN b : b[t].spans = m[t].spans

\* Then the spans are divided in the same way.
LEMMA OccursSplit ==
  ASSUME NEW m, NEW a, NEW b, NEW u, Divided(m, a, b)
  PROVE  /\ Occurrences(m, u) = Occurrences(a, u) \cup Occurrences(b, u)
         /\ Occurrences(a, u) \cap Occurrences(b, u) = {}
<1>1. \A x : x \in Occurrences(m, u) <=> x \in Occurrences(a, u) \/ x \in Occurrences(b, u)
  BY OccursAt DEF Divided
<1>2. \A x : ~(x \in Occurrences(a, u) /\ x \in Occurrences(b, u))
  BY OccursAt DEF Divided
<1> QED
  BY <1>1, <1>2

\* Cardinalities of two disjoint sets.
LEMMA DisjointUnion ==
  ASSUME NEW A, NEW B, IsFiniteSet(A), IsFiniteSet(B), A \cap B = {}
  PROVE  /\ IsFiniteSet(A \cup B)
         /\ Cardinality(A \cup B) = Cardinality(A) + Cardinality(B)
         /\ Cardinality(A) \in Nat /\ Cardinality(B) \in Nat
<1>1. Cardinality(A) \in Nat /\ Cardinality(B) \in Nat /\ Cardinality(A \cap B) = 0
  BY FS_CardinalityType, FS_EmptySet
<1>2. /\ IsFiniteSet(A \cup B)
      /\ Cardinality(A \cup B) = Cardinality(A) + Cardinality(B) - Cardinality(A \cap B)
  BY FS_Union
<1> QED
  BY <1>1, <1>2

\* Divided traces hold as many spans together as the parts do.
LEMMA HeldSplit ==
  ASSUME NEW m, NEW a, NEW b, NEW u, Divided(m, a, b)
  PROVE  /\ IsFiniteSet(Occurrences(m, u)) <=>
              IsFiniteSet(Occurrences(a, u)) /\ IsFiniteSet(Occurrences(b, u))
         /\ IsFiniteSet(Occurrences(m, u)) => HeldIn(m, u) = HeldIn(a, u) + HeldIn(b, u)
<1>1. /\ Occurrences(m, u) = Occurrences(a, u) \cup Occurrences(b, u)
      /\ Occurrences(a, u) \cap Occurrences(b, u) = {}
  BY OccursSplit
<1>2. Occurrences(a, u) \in SUBSET Occurrences(m, u) /\ Occurrences(b, u) \in SUBSET Occurrences(m, u)
  BY <1>1
<1>3. IsFiniteSet(Occurrences(m, u)) =>
        IsFiniteSet(Occurrences(a, u)) /\ IsFiniteSet(Occurrences(b, u))
  BY <1>2, FS_Subset
<1>4. ASSUME IsFiniteSet(Occurrences(a, u)), IsFiniteSet(Occurrences(b, u))
      PROVE  IsFiniteSet(Occurrences(m, u)) /\ HeldIn(m, u) = HeldIn(a, u) + HeldIn(b, u)
  <2>1. /\ IsFiniteSet(Occurrences(a, u) \cup Occurrences(b, u))
        /\ Cardinality(Occurrences(a, u) \cup Occurrences(b, u))
             = Cardinality(Occurrences(a, u)) + Cardinality(Occurrences(b, u))
    BY <1>1, <1>4, DisjointUnion
  <2> QED
    BY <1>1, <2>1, Zenon DEF HeldIn
<1> QED
  BY <1>3, <1>4

\* A single trace.
LEMMA OccursOne ==
  ASSUME NEW m, NEW t, DOMAIN m = {t}, m[t].spans \in Seq(Span), NEW u
  PROVE  IsFiniteSet(Occurrences(m, u)) /\ HeldIn(m, u) = Held(m[t].spans, u)
<1> DEFINE q == m[t].spans
           at == {k \in DOMAIN q : q[k] = u}
           f == [k \in at |-> <<t, k>>]
<1>1. IsFiniteSet(at)
  <2>1. IsFiniteSet(1..Len(q)) /\ at \in SUBSET (1..Len(q))
    BY FS_Interval
  <2> QED
    BY <2>1, FS_Subset
<1>2. f \in Bijection(at, Occurrences(m, u))
  <2>1. \A x : x \in Occurrences(m, u) <=> \E k \in at : x = <<t, k>>
    BY OccursAt
  <2>2. f \in [at -> Occurrences(m, u)]
    BY <2>1
  <2>3. \A a, b \in at : f[a] = f[b] => a = b
    OBVIOUS
  <2>4. \A x \in Occurrences(m, u) : \E k \in at : f[k] = x
    BY <2>1
  <2> QED
    BY <2>2, <2>3, <2>4 DEF Bijection, Injection, Surjection, IsInjective
<1> QED
  BY <1>1, <1>2, FS_Bijection DEF ExistsBijection, Held, HeldIn

\* Taking one trace out of a map.
LEMMA HeldWithout ==
  ASSUME NEW m, NEW t \in DOMAIN m, m[t].spans \in Seq(Span), NEW u, IsFiniteSet(Occurrences(m, u))
  PROVE  /\ IsFiniteSet(Occurrences(Without(m, {t}), u))
         /\ HeldIn(m, u) = HeldIn(Without(m, {t}), u) + Held(m[t].spans, u)
<1> DEFINE a == Without(m, {t})
           b == [x \in {t} |-> m[x]]
<1>1. Divided(m, a, b)
  BY DEF Without, Divided
<1>2. DOMAIN b = {t} /\ b[t] = m[t]
  OBVIOUS
<1> HIDE DEF a, b
<1>3. IsFiniteSet(Occurrences(a, u)) /\ HeldIn(m, u) = HeldIn(a, u) + HeldIn(b, u)
  BY <1>1, HeldSplit
<1>4. HeldIn(b, u) = Held(m[t].spans, u)
  BY <1>2, OccursOne
<1> QED
  BY <1>3, <1>4 DEF a

\* A trace of a map that grows by one span, or a new one.
LEMMA OccursPut ==
  ASSUME NEW m, NEW t, NEW v, NEW q \in Seq(Span), NEW s \in Span, NEW u,
         v.spans = Append(q, s), IsFiniteSet(Occurrences(m, u)),
         IF t \in DOMAIN m THEN m[t].spans = q ELSE q = <<>>
  PROVE  /\ IsFiniteSet(Occurrences(Put(m, t, v), u))
         /\ HeldIn(Put(m, t, v), u) = HeldIn(m, u) + In(u, {s})
<1> DEFINE n == Put(m, t, v)
           new == <<t, Len(q) + 1>>
<1>1. /\ DOMAIN n = DOMAIN m \cup {t} /\ n[t].spans = Append(q, s)
      /\ \A x \in DOMAIN m \ {t} : n[x] = m[x]
  BY DEF Put
<1>2. /\ Len(q) \in Nat /\ DOMAIN q = 1..Len(q) /\ DOMAIN Append(q, s) = 1..Len(q) + 1
      /\ \A k \in 1..Len(q) : Append(q, s)[k] = q[k]
      /\ Append(q, s)[Len(q) + 1] = s
  OBVIOUS
<1> HIDE DEF n
<1>3. \A x : x \in Occurrences(n, u) => x \in Occurrences(m, u) \/ (u = s /\ x = new)
  <2> SUFFICES ASSUME NEW x, x \in Occurrences(n, u)
               PROVE  x \in Occurrences(m, u) \/ (u = s /\ x = new)
    OBVIOUS
  <2>1. PICK y \in DOMAIN n : \E k \in DOMAIN n[y].spans : n[y].spans[k] = u /\ x = <<y, k>>
    BY OccursAt
  <2>2. PICK k \in DOMAIN n[y].spans : n[y].spans[k] = u /\ x = <<y, k>>
    BY <2>1
  <2>3. CASE y # t
    BY <1>1, <2>1, <2>2, <2>3, OccursAt
  <2>4. CASE y = t /\ k = Len(q) + 1
    BY <1>1, <1>2, <2>2, <2>4
  <2>5. CASE y = t /\ k # Len(q) + 1
    <3>1. k \in 1..Len(q) /\ q[k] = u /\ t \in DOMAIN m /\ m[t].spans = q
      BY <1>1, <1>2, <2>2, <2>5
    <3> QED
      BY <1>2, <2>2, <2>5, <3>1, OccursAt
  <2> QED
    BY <2>3, <2>4, <2>5
<1>4. \A x : x \in Occurrences(m, u) => x \in Occurrences(n, u)
  <2> SUFFICES ASSUME NEW x, x \in Occurrences(m, u) PROVE x \in Occurrences(n, u)
    OBVIOUS
  <2>1. PICK y \in DOMAIN m : \E k \in DOMAIN m[y].spans : m[y].spans[k] = u /\ x = <<y, k>>
    BY OccursAt
  <2>2. PICK k \in DOMAIN m[y].spans : m[y].spans[k] = u /\ x = <<y, k>>
    BY <2>1
  <2>3. k \in DOMAIN n[y].spans /\ n[y].spans[k] = u /\ y \in DOMAIN n
    <3>1. CASE y = t
      <4>1. n[t].spans = Append(q, s) /\ k \in 1..Len(q) /\ q[k] = u
        BY <1>1, <1>2, <2>1, <2>2, <3>1
      <4> QED
        BY <1>1, <1>2, <3>1, <4>1
    <3>2. CASE y # t
      BY <1>1, <2>1, <2>2, <3>2
    <3> QED
      BY <3>1, <3>2
  <2> QED
    BY <2>2, <2>3, OccursAt
<1>5. u = s => new \in Occurrences(n, u)
  BY <1>1, <1>2, OccursAt
<1>6. new \notin Occurrences(m, u)
  <2> SUFFICES ASSUME new \in Occurrences(m, u) PROVE FALSE
    OBVIOUS
  <2>1. PICK y \in DOMAIN m : \E k \in DOMAIN m[y].spans : new = <<y, k>>
    BY OccursAt
  <2>2. y = t /\ Len(q) + 1 \in DOMAIN m[t].spans
    BY <2>1
  <2> QED
    BY <1>2, <2>1, <2>2
<1>7. /\ u = s => Occurrences(n, u) = Occurrences(m, u) \cup {new}
      /\ u # s => Occurrences(n, u) = Occurrences(m, u)
  <2>1. CASE u = s
    <3>1. \A x : x \in Occurrences(n, u) <=> x \in Occurrences(m, u) \/ x = new
      BY <1>3, <1>4, <1>5, <2>1, Zenon
    <3> HIDE DEF new
    <3> QED
      BY <2>1, <3>1
  <2>2. CASE u # s
    <3>1. \A x : x \in Occurrences(n, u) <=> x \in Occurrences(m, u)
      BY <1>3, <1>4, <2>2, Zenon
    <3> QED
      BY <2>2, <3>1
  <2> QED
    BY <2>1, <2>2
<1>8. Cardinality(Occurrences(m, u)) \in Nat
  BY FS_CardinalityType
<1> HIDE DEF new
<1>9. /\ IsFiniteSet(Occurrences(m, u) \cup {new})
      /\ Cardinality(Occurrences(m, u) \cup {new}) = Cardinality(Occurrences(m, u)) + 1
  BY <1>6, FS_AddElement
<1>10. CASE u = s
  <2>1. /\ IsFiniteSet(Occurrences(n, u))
        /\ Cardinality(Occurrences(n, u)) = Cardinality(Occurrences(m, u)) + 1
    BY <1>7, <1>9, <1>10, Zenon
  <2> QED
    BY <1>10, <2>1 DEF HeldIn, n, In
<1>11. CASE u # s
  <2>1. /\ IsFiniteSet(Occurrences(n, u))
        /\ Cardinality(Occurrences(n, u)) = Cardinality(Occurrences(m, u))
    BY <1>7, <1>11, Zenon
  <2> QED
    BY <1>8, <1>11, <2>1 DEF HeldIn, n, In
<1> QED
  BY <1>10, <1>11

\* A queue of traces that grows or shrinks by one.
LEMMA QueueAppend ==
  ASSUME NEW q \in Seq(Sendable), NEW tr \in Sendable, NEW u, IsFiniteSet(Occurrences(q, u))
  PROVE  /\ IsFiniteSet(Occurrences(Append(q, tr), u))
         /\ HeldIn(Append(q, tr), u) = HeldIn(q, u) + Held(tr.spans, u)
<1> DEFINE b == [x \in {Len(q) + 1} |-> tr]
           n == Append(q, tr)
<1>1. /\ Len(q) \in Nat /\ DOMAIN q = 1..Len(q) /\ DOMAIN n = 1..Len(q) + 1
      /\ \A k \in 1..Len(q) : n[k] = q[k]
      /\ n[Len(q) + 1] = tr
  OBVIOUS
<1>2. DOMAIN b = {Len(q) + 1} /\ b[Len(q) + 1] = tr /\ tr.spans \in Seq(Span)
  BY DEF Sendable
<1> HIDE DEF b, n
<1>3. Divided(n, q, b)
  BY <1>1, <1>2 DEF Divided
<1>4. IsFiniteSet(Occurrences(b, u)) /\ HeldIn(b, u) = Held(tr.spans, u)
  <2> DEFINE e == Len(q) + 1
  <2>1. DOMAIN b = {e} /\ b[e].spans = tr.spans /\ b[e].spans \in Seq(Span)
    BY <1>2
  <2> HIDE DEF e
  <2> QED
    BY <2>1, OccursOne
<1>5. IsFiniteSet(Occurrences(n, u)) /\ HeldIn(n, u) = HeldIn(q, u) + HeldIn(b, u)
  BY <1>3, <1>4, HeldSplit
<1> QED
  BY <1>4, <1>5 DEF n

\* A trace taken off the front of the queue.
LEMMA QueueTail ==
  ASSUME NEW q \in Seq(Sendable), q # <<>>, NEW u, IsFiniteSet(Occurrences(q, u))
  PROVE  /\ IsFiniteSet(Occurrences(Tail(q), u))
         /\ HeldIn(q, u) = HeldIn(Tail(q), u) + Held(Head(q).spans, u)
<1> DEFINE a == [i \in 2..Len(q) |-> q[i]]
           b == [i \in {1} |-> q[i]]
           n == Tail(q)
           f == [x \in Occurrences(a, u) |-> <<x[1] - 1, x[2]>>]
<1>1. /\ Len(q) \in Nat \ {0} /\ DOMAIN q = 1..Len(q) /\ DOMAIN n = 1..Len(q) - 1
      /\ \A k \in 1..Len(q) - 1 : n[k] = q[k + 1]
      /\ Head(q) = q[1] /\ q[1] \in Sendable
  OBVIOUS
<1>2. DOMAIN a = 2..Len(q) /\ \A i \in 2..Len(q) : a[i] = q[i]
  OBVIOUS
<1>3. DOMAIN b = {1} /\ b[1] = Head(q) /\ b[1].spans \in Seq(Span)
  BY <1>1 DEF Sendable
<1> HIDE DEF a, b, n
<1>4. Divided(q, a, b)
  BY <1>1, <1>2, <1>3 DEF Divided
<1>5. HeldIn(b, u) = Held(Head(q).spans, u)
  BY <1>3, OccursOne
<1>6. IsFiniteSet(Occurrences(a, u)) /\ HeldIn(q, u) = HeldIn(a, u) + HeldIn(b, u)
  BY <1>4, HeldSplit
<1>7. f \in Bijection(Occurrences(a, u), Occurrences(n, u))
  <2>1. ASSUME NEW x \in Occurrences(a, u)
        PROVE  /\ f[x] \in Occurrences(n, u)
               /\ x = <<x[1], x[2]>> /\ x[1] \in Int
    <3>1. PICK i \in DOMAIN a : \E k \in DOMAIN a[i].spans : a[i].spans[k] = u /\ x = <<i, k>>
      BY OccursAt
    <3>2. PICK k \in DOMAIN a[i].spans : a[i].spans[k] = u /\ x = <<i, k>>
      BY <3>1
    <3>3. i - 1 \in DOMAIN n /\ n[i - 1] = a[i] /\ f[x] = <<i - 1, k>>
      BY <1>1, <1>2, <3>1, <3>2
    <3>4. f[x] \in Occurrences(n, u)
      BY <3>2, <3>3, OccursAt
    <3> QED
      BY <1>1, <1>2, <3>2, <3>4
  <2>2. ASSUME NEW x \in Occurrences(a, u), NEW y \in Occurrences(a, u), f[x] = f[y]
        PROVE  x = y
    <3>1. x[1] - 1 = y[1] - 1 /\ x[2] = y[2]
      <4>1. f[x] = <<x[1] - 1, x[2]>> /\ f[y] = <<y[1] - 1, y[2]>>
        OBVIOUS
      <4>2. <<x[1] - 1, x[2]>> = <<y[1] - 1, y[2]>>
        BY <2>2, <4>1, Zenon
      <4> QED
        BY <4>2
    <3>2. x[1] = y[1]
      <4>1. x[1] \in Int /\ y[1] \in Int
        BY <2>1, Zenon
      <4> QED
        BY <3>1, <4>1
    <3> QED
      BY <2>1, <3>1, <3>2
  <2>3. ASSUME NEW y \in Occurrences(n, u)
        PROVE  \E x \in Occurrences(a, u) : f[x] = y
    <3>1. PICK i \in DOMAIN n : \E k \in DOMAIN n[i].spans : n[i].spans[k] = u /\ y = <<i, k>>
      BY OccursAt
    <3>2. PICK k \in DOMAIN n[i].spans : n[i].spans[k] = u /\ y = <<i, k>>
      BY <3>1
    <3>3. i + 1 \in DOMAIN a /\ a[i + 1] = n[i]
      BY <1>1, <1>2, <3>1
    <3>4. <<i + 1, k>> \in Occurrences(a, u)
      BY <3>2, <3>3, OccursAt
    <3>5. f[<<i + 1, k>>] = <<i, k>>
      BY <1>1, <3>1, <3>4
    <3> QED
      BY <3>2, <3>4, <3>5
  <2>4. f \in [Occurrences(a, u) -> Occurrences(n, u)]
    BY <2>1
  <2> HIDE DEF f
  <2> QED
    BY <2>2, <2>3, <2>4 DEF Bijection, Injection, Surjection, IsInjective
<1> HIDE DEF f
<1>8. IsFiniteSet(Occurrences(n, u)) /\ HeldIn(n, u) = HeldIn(a, u)
  BY <1>6, <1>7, FS_Bijection DEF ExistsBijection, HeldIn
<1> QED
  BY <1>5, <1>6, <1>8 DEF n

\* Every span of S settles once more.
LEMMA BefallsCount ==
  ASSUME fate \in [Span -> Seq(Outcome)], NEW S, NEW o \in Outcome, Befalls(S, o), NEW u \in Span
  PROVE  Len(fate'[u]) = Len(fate[u]) + In(u, S)
  BY DEF Befalls, In

\* What a sequence holds is a number.
LEMMA HeldNat ==
  ASSUME NEW q \in Seq(Span), NEW u
  PROVE  Held(q, u) \in Nat
<1> DEFINE at == {k \in DOMAIN q : q[k] = u}
<1>1. IsFiniteSet(1..Len(q)) /\ at \in SUBSET (1..Len(q))
  BY FS_Interval
<1>2. Cardinality(at) \in Nat
  BY <1>1, FS_Subset, FS_CardinalityType
<1> QED
  BY <1>2 DEF Held

\* A span that is held at most once is held as often as it settles.
LEMMA HeldOnce ==
  ASSUME NEW q \in Seq(Span), NEW u, Held(q, u) <= 1
  PROVE  Held(q, u) = In(u, Range(q))
<1> QED
  BY HeldNat, HeldNone DEF In

-----------------------------------------------------------------------------
(* No span is lost or duplicated. *)

\* What a span's places are made of: before the trace cache, in a trace that has
\* not been handed over, in a trace taken off the cache, on its way out, settled.
Waiting(u) ==
  In(u, fresh) + In(u, deciding) + Held(incoming, u) + Held(fromPeer, u)
Gathered(u) == HeldIn(Without(cache, tracesSent), u)
Expiring(u) == IF task = "expire" THEN HeldIn(taken, u) ELSE 0
Leaving(u)  == HeldIn(outgoing, u)
Settled(u)  == Len(fate[u])

\* Only finitely many spans are held anywhere, and what a task works on are the
\* spans of the cached traces.
CountInv ==
  /\ \A u \in Span : /\ IsFiniteSet(Occurrences(cache, u))
                     /\ IsFiniteSet(Occurrences(taken, u))
                     /\ IsFiniteSet(Occurrences(outgoing, u))
  /\ task = "evict" => \A t \in DOMAIN taken : taken[t].spans = cache[t].spans
  /\ sending # <<>> => sending[1].spans = taken[sending[1].id].spans

\* A part of a map.
LEMMA FiniteWithout ==
  ASSUME NEW m, NEW D, NEW u, IsFiniteSet(Occurrences(m, u))
  PROVE  IsFiniteSet(Occurrences(Without(m, D), u)) /\ HeldIn(Without(m, D), u) \in Nat
<1> DEFINE a == Without(m, D)
           b == [x \in DOMAIN m \cap D |-> m[x]]
<1>1. Divided(m, a, b)
  BY DEF Divided, Without
<1> HIDE DEF a, b
<1>2. IsFiniteSet(Occurrences(a, u))
  BY <1>1, HeldSplit
<1> QED
  BY <1>2, FS_CardinalityType DEF HeldIn, a

\* Removing no trace changes no count.
LEMMA WithoutNothing ==
  ASSUME NEW m, NEW u
  PROVE  HeldIn(Without(m, {}), u) = HeldIn(m, u)
<1> DEFINE a == Without(m, {})
<1>1. DOMAIN a = DOMAIN m /\ \A t \in DOMAIN a : a[t].spans = m[t].spans
  BY DEF Without
<1> HIDE DEF a
<1>2. Occurrences(a, u) = Occurrences(m, u)
  BY <1>1, OccursSame
<1> QED
  BY <1>2 DEF HeldIn, a

\* No traces hold no spans.
LEMMA HoldsNothing ==
  ASSUME NEW m, NEW u, DOMAIN m = {}
  PROVE  IsFiniteSet(Occurrences(m, u)) /\ HeldIn(m, u) = 0
<1>1. Occurrences(m, u) = {}
  BY OccursAt
<1> QED
  BY <1>1, FS_EmptySet DEF HeldIn

\* The terms of Places are natural numbers.
Countable ==
  \A u \in Span :
    /\ Held(incoming, u) \in Nat /\ Held(fromPeer, u) \in Nat
    /\ Waiting(u) \in Nat /\ Gathered(u) \in Nat /\ Expiring(u) \in Nat
    /\ Leaving(u) \in Nat /\ Settled(u) \in Nat
    /\ Places(u) = Waiting(u) + Gathered(u) + Expiring(u) + Leaving(u) + Settled(u)

\* Every place of a span can be counted, because only finitely many spans are held.
LEMMA PlacesNat == TypeOK /\ CountInv => Countable
<1> SUFFICES ASSUME TypeOK, CountInv, NEW u \in Span
             PROVE  /\ Held(incoming, u) \in Nat /\ Held(fromPeer, u) \in Nat
                    /\ Waiting(u) \in Nat /\ Gathered(u) \in Nat /\ Expiring(u) \in Nat
                    /\ Leaving(u) \in Nat /\ Settled(u) \in Nat
                    /\ Places(u) = Waiting(u) + Gathered(u) + Expiring(u) + Leaving(u) + Settled(u)
  BY DEF Countable
<1>1. Held(incoming, u) \in Nat /\ Held(fromPeer, u) \in Nat
  BY HeldAppend DEF TypeOK
<1>2. Waiting(u) \in Nat
  BY <1>1, InNat DEF Waiting
<1>3. Gathered(u) \in Nat
  BY FiniteWithout DEF Gathered, CountInv
<1>4. Expiring(u) \in Nat /\ Leaving(u) \in Nat
  BY FS_CardinalityType DEF Expiring, Leaving, HeldIn, CountInv
<1>5. Settled(u) \in Nat
  BY DEF Settled, TypeOK
<1>6. Places(u) = Waiting(u) + Gathered(u) + Expiring(u) + Leaving(u) + Settled(u)
  BY DEF Places, Waiting, Gathered, Expiring, Leaving, Settled, In
<1> QED
  BY <1>1, <1>2, <1>3, <1>4, <1>5, <1>6

\* The same of the state a step leads to.
LEMMA PlacesNatNext == TypeOK' /\ CountInv' => Countable'
  BY PlacesNat, PTL

\* processSpan puts its span into a trace, or settles it.
LEMMA processSpanCount ==
  ASSUME TypeOK, CountInv, NEW s \in Span, processSpan(s), NEW u \in Span
  PROVE  /\ IsFiniteSet(Occurrences(cache', u))
         /\ HeldIn(cache', u) + Len(fate'[u])
              = HeldIn(cache, u) + Len(fate[u]) + In(u, {s})
<1> DEFINE t == TraceOf[s]
<1>1. HeldIn(cache, u) \in Nat /\ Len(fate[u]) \in Nat
  BY FS_CardinalityType DEF HeldIn, CountInv, TypeOK
<1>2. ASSUME NEW keep, dealWithSentTrace(s, keep), UNCHANGED cacheVars
      PROVE  /\ IsFiniteSet(Occurrences(cache', u))
             /\ HeldIn(cache', u) + Len(fate'[u])
                  = HeldIn(cache, u) + Len(fate[u]) + In(u, {s})
  <2>1. Len(fate'[u]) = Len(fate[u]) + In(u, {s})
    BY <1>2, BefallsCount DEF dealWithSentTrace, TypeOK, Outcome
  <2>2. cache' = cache
    BY <1>2 DEF cacheVars
  <2>3. HeldIn(cache', u) = HeldIn(cache, u) /\ IsFiniteSet(Occurrences(cache', u))
    BY <2>2, Zenon DEF CountInv
  <2> QED
    BY <1>1, <2>1, <2>3, InNat
<1>3. ASSUME NEW tr \in Trace, AddToLiveTrace(t, tr, s),
             IF t \in DOMAIN cache THEN cache[t].spans = tr.spans ELSE tr.spans = <<>>
      PROVE  /\ IsFiniteSet(Occurrences(cache', u))
             /\ HeldIn(cache', u) + Len(fate'[u])
                  = HeldIn(cache, u) + Len(fate[u]) + In(u, {s})
  <2> DEFINE new == WithSpan(tr, s)
             q   == tr.spans
  <2>1. new.spans = Append(q, s) /\ q \in Seq(Span)
    BY DEF WithSpan, Trace
  <2>2. cache' = Put(cache, t, new) /\ fate' = fate
    BY <1>3 DEF AddToLiveTrace
  <2>3. IF t \in DOMAIN cache THEN cache[t].spans = q ELSE q = <<>>
    BY <1>3
  <2>4. IsFiniteSet(Occurrences(cache, u))
    BY DEF CountInv
  <2> HIDE DEF t, new, q
  <2>5. /\ IsFiniteSet(Occurrences(Put(cache, t, new), u))
        /\ HeldIn(Put(cache, t, new), u) = HeldIn(cache, u) + In(u, {s})
    BY <2>1, <2>3, <2>4, OccursPut
  <2> QED
    BY <1>1, <2>2, <2>5, InNat
<1>4. t \in DOMAIN cache => cache[t] \in Trace
  BY DEF TypeOK, IsMap
<1>5. NewTrace.spans = <<>>
  BY DEF NewTrace
<1> QED
  BY <1>2, <1>3, <1>4, <1>5, NewTraceTrace DEF processSpan
\* If each span changes places in one step without loss, spans are conserved.
Balanced(u) ==
  Waiting(u)' + Gathered(u)' + Expiring(u)' + Leaving(u)' + Settled(u)'
    = Waiting(u) + Gathered(u) + Expiring(u) + Leaving(u) + Settled(u)

\* Then the invariant holds after the step.
LEMMA Balance ==
  ASSUME Countable, Countable', SpansConserved, \A u \in Span : Balanced(u)
  PROVE  SpansConserved'
<1>1. \A u \in Span : Places(u)' = Places(u)
  BY DEF Countable, Balanced
<1> QED
  BY <1>1 DEF SpansConserved

\* The routers' steps only move spans within Waiting, or settle them.
LEMMA RouterCount ==
  ASSUME TypeOK, TypeOK', CountInv, SpansConserved, NEW s \in Span,
         \/ addSpan(s) \/ addSpanFromPeer(s)
         \/ ProcessSpanImmediately(s) \/ StressRecord(s)
  PROVE  CountInv' /\ SpansConserved'
<1>1. UNCHANGED <<cacheVars, taskVars, outgoing>>
  BY DEF addSpan, addSpanFromPeer, ProcessSpanImmediately, StressRecord
<1>2. CountInv' /\ Countable /\ Countable'
  <2>1. CountInv'
    BY <1>1 DEF CountInv, cacheVars, taskVars
  <2> QED
    BY <2>1, PlacesNat, PlacesNatNext
<1>3. s \in fresh => s \notin deciding
  <2>1. Waiting(s) <= 1
    <3>1. Places(s) = 1
      BY DEF SpansConserved
    <3> QED
      BY <1>2, <3>1 DEF Countable
  <2> QED
    BY <1>2, <2>1 DEF Waiting, In, Countable
<1>4. ASSUME NEW u \in Span
      PROVE  Waiting(u)' + Settled(u)' = Waiting(u) + Settled(u)
  <2> DEFINE a == In(u, fresh)      a1 == In(u, fresh')
             b == In(u, deciding)   b1 == In(u, deciding')
             c == Held(incoming, u) c1 == Held(incoming', u)
             d == Held(fromPeer, u) d1 == Held(fromPeer', u)
             e == Len(fate[u])      e1 == Len(fate'[u])
             i == In(u, {s})
  <2>1. /\ Waiting(u) = a + b + c + d /\ Waiting(u)' = a1 + b1 + c1 + d1
        /\ Settled(u) = e /\ Settled(u)' = e1
    BY DEF Waiting, Settled
  <2>2. a \in Nat /\ b \in Nat /\ i \in Nat /\ a1 \in Nat /\ b1 \in Nat
    BY InNat
  <2>3. /\ c \in Nat /\ d \in Nat /\ e \in Nat
        /\ c1 \in Nat /\ d1 \in Nat /\ e1 \in Nat
    <3>1. e \in Nat /\ e1 \in Nat
      BY DEF TypeOK
    <3>2. c \in Nat /\ d \in Nat /\ c1 \in Nat /\ d1 \in Nat
      BY HeldNat DEF TypeOK
    <3> QED
      BY <3>1, <3>2
  <2>4. ASSUME Befalls({s}, "sent") \/ Befalls({s}, "dropped") \/ Befalls({s}, "refused")
        PROVE  e1 = e + i
    <3>1. PICK o \in Outcome : Befalls({s}, o)
      BY <2>4 DEF Outcome
    <3>2. fate \in [Span -> Seq(Outcome)]
      BY DEF TypeOK
    <3> QED
      BY <3>1, <3>2, BefallsCount, Zenon
  <2>5. CASE addSpan(s)
    <3>1. a = a1 + i /\ b1 = b /\ d1 = d
      BY <2>5, InChange DEF addSpan
    <3>2. (c1 = c + i /\ e1 = e) \/ (c1 = c /\ e1 = e + i)
      <4>1. CASE incoming' = Append(incoming, s) /\ UNCHANGED fate
        <5>1. Held(Append(incoming, s), u) = c + i
          BY HeldAppend DEF TypeOK
        <5>2. e1 = e /\ c1 = Held(Append(incoming, s), u)
          BY <4>1
        <5> HIDE DEF c, c1, e, e1, i
        <5> QED
          BY <5>1, <5>2, Zenon
      <4>2. CASE Befalls({s}, "refused") /\ UNCHANGED incoming
        BY <2>4, <4>2
      <4> QED
        BY <2>5, <4>1, <4>2 DEF addSpan
    <3> HIDE DEF a, b, c, d, e, a1, b1, c1, d1, e1, i
    <3> QED
      BY <2>1, <2>2, <2>3, <3>1, <3>2
  <2>6. CASE addSpanFromPeer(s)
    <3>1. a = a1 + i /\ b1 = b /\ c1 = c
      BY <2>6, InChange DEF addSpanFromPeer
    <3>2. (d1 = d + i /\ e1 = e) \/ (d1 = d /\ e1 = e + i)
      <4>1. CASE fromPeer' = Append(fromPeer, s) /\ UNCHANGED fate
        <5>1. Held(Append(fromPeer, s), u) = d + i
          BY HeldAppend DEF TypeOK
        <5>2. e1 = e /\ d1 = Held(Append(fromPeer, s), u)
          BY <4>1
        <5> HIDE DEF d, d1, e, e1, i
        <5> QED
          BY <5>1, <5>2, Zenon
      <4>2. CASE Befalls({s}, "refused") /\ UNCHANGED fromPeer
        BY <2>4, <4>2
      <4> QED
        BY <2>6, <4>1, <4>2 DEF addSpanFromPeer
    <3> HIDE DEF a, b, c, d, e, a1, b1, c1, d1, e1, i
    <3> QED
      BY <2>1, <2>2, <2>3, <3>1, <3>2
  <2>7. CASE ProcessSpanImmediately(s)
    <3>1. a = a1 + i /\ c1 = c /\ d1 = d
      BY <2>7, InChange DEF ProcessSpanImmediately, chanVars
    <3>2. (b1 = b + i /\ e1 = e) \/ (b1 = b /\ e1 = e + i)
      <4>1. CASE deciding' = deciding \cup {s} /\ UNCHANGED fate
        <5>1. s \notin deciding
          BY <1>3, <2>7 DEF ProcessSpanImmediately
        <5>2. In(u, deciding \cup {s}) = b + i
          BY <5>1, InChange
        <5>3. e1 = e /\ b1 = In(u, deciding \cup {s})
          BY <4>1
        <5> HIDE DEF b, b1, e, e1, i
        <5> QED
          BY <5>2, <5>3, Zenon
      <4>2. CASE (Befalls({s}, "sent") \/ Befalls({s}, "dropped")) /\ UNCHANGED deciding
        BY <2>4, <4>2
      <4> QED
        BY <2>7, <4>1, <4>2 DEF ProcessSpanImmediately
    <3> HIDE DEF a, b, c, d, e, a1, b1, c1, d1, e1, i
    <3> QED
      BY <2>1, <2>2, <2>3, <3>1, <3>2
  <2>8. CASE StressRecord(s)
    <3>1. b = b1 + i /\ a1 = a /\ c1 = c /\ d1 = d
      BY <2>8, InChange DEF StressRecord, chanVars
    <3>2. e1 = e + i
      BY <2>4, <2>8 DEF StressRecord
    <3> HIDE DEF a, b, c, d, e, a1, b1, c1, d1, e1, i
    <3> QED
      BY <2>1, <2>2, <2>3, <3>1, <3>2
  <2> QED
    BY <2>5, <2>6, <2>7, <2>8
<1>5. ASSUME NEW u \in Span
      PROVE  /\ Gathered(u)' = Gathered(u) /\ Expiring(u)' = Expiring(u)
             /\ Leaving(u)' = Leaving(u)
  BY <1>1 DEF Gathered, Expiring, Leaving, cacheVars, taskVars
<1>6. ASSUME NEW u \in Span
      PROVE  Balanced(u)
  <2>1. /\ Waiting(u) \in Nat /\ Waiting(u)' \in Nat /\ Settled(u) \in Nat /\ Settled(u)' \in Nat
        /\ Gathered(u) \in Nat /\ Expiring(u) \in Nat /\ Leaving(u) \in Nat
    BY <1>2 DEF Countable
  <2>2. Waiting(u)' + Settled(u)' = Waiting(u) + Settled(u)
    BY <1>4
  <2> QED
    BY <1>5, <2>1, <2>2 DEF Balanced
<1> QED
  BY <1>2, <1>6, Balance

\* The collect goroutine moves a span from a channel into a trace, or settles it.
LEMMA CollectSpan ==
  ASSUME TypeOK, TypeOK', TaskInv, CountInv, SpansConserved,
         NEW s \in Span, processSpan(s), pc # "task",
         UNCHANGED <<task, taken, sending, tracesSent, fresh, deciding>>,
         \A u \in Span : Held(incoming, u) + Held(fromPeer, u)
                           = Held(incoming', u) + Held(fromPeer', u) + In(u, {s})
  PROVE  CountInv' /\ SpansConserved'
<1>1. task = "none" /\ sending = <<>> /\ tracesSent = {} /\ outgoing' = outgoing
  BY DEF TaskInv, TypeOK, processSpan
<1>2. CountInv' /\ Countable /\ Countable'
  <2>1. \A u \in Span : IsFiniteSet(Occurrences(cache', u))
    BY processSpanCount
  <2>2. CountInv'
    BY <1>1, <2>1 DEF CountInv
  <2> QED
    BY <2>2, PlacesNat, PlacesNatNext
<1>3. ASSUME NEW u \in Span
      PROVE  Balanced(u)
  <2> DEFINE a == In(u, fresh) + In(u, deciding)
             b == Held(incoming, u)  b1 == Held(incoming', u)
             c == Held(fromPeer, u)  c1 == Held(fromPeer', u)
             d == HeldIn(cache, u)   d1 == HeldIn(cache', u)
             e == Len(fate[u])       e1 == Len(fate'[u])
             i == In(u, {s})
  <2>1. a \in Nat /\ i \in Nat
    BY InNat
  <2>2. b \in Nat /\ b1 \in Nat /\ c \in Nat /\ c1 \in Nat
    BY HeldNat DEF TypeOK
  <2>3. e \in Nat /\ e1 \in Nat
    BY DEF TypeOK
  <2>4. /\ Waiting(u) = a + b + c /\ Waiting(u)' = a + b1 + c1
        /\ Settled(u) = e /\ Settled(u)' = e1
    BY DEF Waiting, Settled
  <2>5. Gathered(u) = d /\ Gathered(u)' = d1
    BY <1>1, WithoutNothing DEF Gathered
  <2>6. Expiring(u) = 0 /\ Expiring(u)' = 0 /\ Leaving(u)' = Leaving(u)
    BY <1>1 DEF Expiring, Leaving
  <2>7. d1 + e1 = d + e + i
    BY processSpanCount
  <2>8. d \in Nat /\ d1 \in Nat /\ Leaving(u) \in Nat
    BY <1>2, <2>5 DEF Countable
  <2>9. b + c = b1 + c1 + i
    OBVIOUS
  <2> HIDE DEF a, b, b1, c, c1, d, d1, e, e1, i
  <2> QED
    BY <2>1, <2>2, <2>3, <2>4, <2>5, <2>6, <2>7, <2>8, <2>9 DEF Balanced
<1> QED
  BY <1>2, <1>3, Balance

\* The three selects that receive a span.
LEMMA CollectCount ==
  ASSUME TypeOK, TypeOK', TaskInv, CountInv, SpansConserved,
         CollectFromPeer \/ SelectFromPeer \/ SelectIncoming
  PROVE  CountInv' /\ SpansConserved'
<1>1. ASSUME fromPeer # <<>>, fromPeer' = Tail(fromPeer), incoming' = incoming, NEW u \in Span
      PROVE  Held(incoming, u) + Held(fromPeer, u)
               = Held(incoming', u) + Held(fromPeer', u) + In(u, {Head(fromPeer)})
  <2>1. Held(fromPeer, u) = Held(Tail(fromPeer), u) + In(u, {Head(fromPeer)})
    BY <1>1, HeldTail DEF TypeOK
  <2>2. Held(incoming, u) \in Nat /\ Held(Tail(fromPeer), u) \in Nat
    BY <1>1, HeldNat DEF TypeOK
  <2>3. In(u, {Head(fromPeer)}) \in Nat
    BY InNat
  <2>4. Held(incoming', u) = Held(incoming, u) /\ Held(fromPeer', u) = Held(Tail(fromPeer), u)
    BY <1>1
  <2> QED
    BY <2>1, <2>2, <2>3, <2>4
<1>2. ASSUME incoming # <<>>, incoming' = Tail(incoming), fromPeer' = fromPeer, NEW u \in Span
      PROVE  Held(incoming, u) + Held(fromPeer, u)
               = Held(incoming', u) + Held(fromPeer', u) + In(u, {Head(incoming)})
  <2>1. Held(incoming, u) = Held(Tail(incoming), u) + In(u, {Head(incoming)})
    BY <1>2, HeldTail DEF TypeOK
  <2>2. Held(fromPeer, u) \in Nat /\ Held(Tail(incoming), u) \in Nat
    BY <1>2, HeldNat DEF TypeOK
  <2>3. In(u, {Head(incoming)}) \in Nat
    BY InNat
  <2>4. Held(fromPeer', u) = Held(fromPeer, u) /\ Held(incoming', u) = Held(Tail(incoming), u)
    BY <1>2
  <2> QED
    BY <2>1, <2>2, <2>3, <2>4
<1>3. CASE CollectFromPeer \/ SelectFromPeer
  <2>1. /\ Head(fromPeer) \in Span /\ processSpan(Head(fromPeer)) /\ pc # "task"
        /\ UNCHANGED <<task, taken, sending, tracesSent, fresh, deciding>>
        /\ fromPeer # <<>> /\ fromPeer' = Tail(fromPeer) /\ incoming' = incoming
    BY <1>3 DEF CollectFromPeer, SelectFromPeer, TypeOK, taskVars, routerVars
  <2> QED
    BY <1>1, <2>1, CollectSpan
<1>4. CASE SelectIncoming
  <2>1. /\ Head(incoming) \in Span /\ processSpan(Head(incoming)) /\ pc # "task"
        /\ UNCHANGED <<task, taken, sending, tracesSent, fresh, deciding>>
        /\ incoming # <<>> /\ incoming' = Tail(incoming) /\ fromPeer' = fromPeer
    BY <1>4 DEF SelectIncoming, TypeOK, routerVars
  <2> QED
    BY <1>2, <2>1, CollectSpan
<1> QED
  BY <1>3, <1>4

\* The ticker divides the cached traces into those it takes and those it leaves.
LEMMA TickerCount ==
  ASSUME TypeOK, TypeOK', CacheCoherent, TaskInv, CountInv, SpansConserved, Ticker
  PROVE  CountInv' /\ SpansConserved'
<1>1. PICK P \in SUBSET DOMAIN pq :
         /\ taken' = [t \in P \cap DOMAIN cache |-> cache[t]]
         /\ cache' = Without(cache, P)
  BY DEF Ticker
<1>2. /\ task = "none" /\ task' = "expire" /\ sending = <<>> /\ tracesSent = {}
      /\ UNCHANGED <<sending, tracesSent, fresh, deciding, incoming, fromPeer, outgoing, fate>>
  BY DEF Ticker, TaskInv, TypeOK, routerVars, chanVars, outVars
<1>3. Divided(cache, cache', taken')
  BY <1>1 DEF Divided, Without
<1>4. \A u \in Span : /\ IsFiniteSet(Occurrences(cache', u)) /\ IsFiniteSet(Occurrences(taken', u))
                      /\ HeldIn(cache, u) = HeldIn(cache', u) + HeldIn(taken', u)
  BY <1>3, HeldSplit DEF CountInv
<1>5. CountInv' /\ Countable /\ Countable'
  <2>1. CountInv'
    BY <1>2, <1>4 DEF CountInv
  <2> QED
    BY <2>1, PlacesNat, PlacesNatNext
<1>6. ASSUME NEW u \in Span
      PROVE  Balanced(u)
  <2>1. Gathered(u) = HeldIn(cache, u) /\ Gathered(u)' = HeldIn(cache', u)
    BY <1>2, WithoutNothing DEF Gathered
  <2>2. Expiring(u) = 0 /\ Expiring(u)' = HeldIn(taken', u)
    BY <1>2 DEF Expiring
  <2>3. Waiting(u)' = Waiting(u) /\ Leaving(u)' = Leaving(u) /\ Settled(u)' = Settled(u)
    BY <1>2 DEF Waiting, Leaving, Settled
  <2>4. Gathered(u) = Gathered(u)' + Expiring(u)'
    BY <1>4, <2>1, <2>2
  <2>5. /\ Gathered(u)' \in Nat /\ Expiring(u)' \in Nat
        /\ Waiting(u) \in Nat /\ Leaving(u) \in Nat /\ Settled(u) \in Nat
    BY <1>5 DEF Countable
  <2> QED
    BY <2>2, <2>3, <2>4, <2>5 DEF Balanced
<1> QED
  BY <1>5, <1>6, Balance

\* sendTraces settles the spans of the trace it forwards.
LEMMA ForwardCount ==
  ASSUME TypeOK, TypeOK', CountInv, SpansConserved, sendTraces
  PROVE  CountInv' /\ SpansConserved'
<1> DEFINE q == Head(outgoing).spans
<1>1. /\ outgoing # <<>> /\ outgoing' = Tail(outgoing) /\ Befalls(Range(q), "sent")
      /\ UNCHANGED <<routerVars, chanVars, cacheVars, taskVars>>
  BY DEF sendTraces
<1>2. q \in Seq(Span)
  <2>1. Head(outgoing) \in Sendable
    BY <1>1 DEF TypeOK
  <2> QED
    BY <2>1 DEF Sendable
<1>3. ASSUME NEW u \in Span
      PROVE  /\ IsFiniteSet(Occurrences(outgoing', u))
             /\ HeldIn(outgoing, u) = HeldIn(outgoing', u) + Held(q, u)
  <2>1. /\ IsFiniteSet(Occurrences(Tail(outgoing), u))
        /\ HeldIn(outgoing, u) = HeldIn(Tail(outgoing), u) + Held(q, u)
    <3>1. outgoing \in Seq(Sendable) /\ IsFiniteSet(Occurrences(outgoing, u))
      BY DEF TypeOK, CountInv
    <3> QED
      BY <1>1, <3>1, QueueTail
  <2> QED
    BY <1>1, <2>1
<1>4. CountInv' /\ Countable /\ Countable'
  <2>1. CountInv'
    BY <1>1, <1>3 DEF CountInv, cacheVars, taskVars
  <2> QED
    BY <2>1, PlacesNat, PlacesNatNext
<1> HIDE DEF q
<1>5. ASSUME NEW u \in Span
      PROVE  Balanced(u)
  <2>1. Leaving(u) = Leaving(u)' + Held(q, u)
    BY <1>3 DEF Leaving
  <2>2. /\ Waiting(u)' = Waiting(u) /\ Gathered(u)' = Gathered(u) /\ Expiring(u)' = Expiring(u)
    BY <1>1 DEF Waiting, Gathered, Expiring, routerVars, chanVars, cacheVars, taskVars
  <2>3. Settled(u)' = Settled(u) + In(u, Range(q))
    BY <1>1, BefallsCount DEF Settled, TypeOK, Outcome
  <2>4. /\ Waiting(u) \in Nat /\ Gathered(u) \in Nat /\ Expiring(u) \in Nat
        /\ Leaving(u) \in Nat /\ Leaving(u)' \in Nat /\ Settled(u) \in Nat
        /\ Waiting(u) + Gathered(u) + Expiring(u) + Leaving(u) + Settled(u) = 1
    BY <1>4 DEF Countable, SpansConserved
  <2>5. Held(q, u) \in Nat /\ Held(q, u) <= 1
    BY <1>2, <2>1, <2>4, HeldNat
  <2>6. Held(q, u) = In(u, Range(q))
    BY <1>2, <2>5, HeldOnce
  <2> QED
    BY <2>1, <2>2, <2>3, <2>4, <2>5, <2>6 DEF Balanced
<1> QED
  BY <1>4, <1>5, Balance
\* send hands a trace over: to the queue of sendTraces, or to its end.
LEMMA SendCount ==
  ASSUME TypeOK, TypeOK', TaskInv, UndecidedInv, CountInv, SpansConserved, send
  PROVE  CountInv' /\ SpansConserved'
<1> DEFINE tr == sending[1]
           id == tr.id
           q  == tr.spans
<1>1. /\ sending # <<>> /\ sending' = <<>> /\ task' = task
      /\ taken' = Without(taken, {id})
      /\ UNCHANGED <<routerVars, chanVars>>
  BY DEF send
<1>2. /\ tr \in Sendable /\ q \in Seq(Span)
      /\ task \in {"expire", "evict"} /\ id \in DOMAIN taken /\ taken[id].spans = q
  <2>1. tr \in Sendable
    BY <1>1 DEF TypeOK
  <2>2. q \in Seq(Span)
    BY <2>1 DEF Sendable
  <2>3. task \in {"expire", "evict"} /\ id \in DOMAIN taken
    BY <1>1 DEF TypeOK, TaskInv, UndecidedInv
  <2>4. taken[id].spans = q
    BY <1>1, Zenon DEF CountInv
  <2> QED
    BY <2>1, <2>2, <2>3, <2>4
<1>3. /\ DOMAIN cache' = DOMAIN cache
      /\ \A t \in DOMAIN cache : cache'[t].spans = cache[t].spans
  <2>1. CASE cache' = cache
    BY <2>1
  <2>2. CASE id \in DOMAIN cache /\ cache' = [cache EXCEPT ![id].sent = TRUE]
    BY <2>2 DEF TypeOK, IsMap, Trace
  <2> QED
    BY <2>1, <2>2 DEF send, MarkSent
<1>4. \/ Befalls(Range(q), "dropped") /\ outgoing' = outgoing
      \/ outgoing' = Append(outgoing, tr) /\ fate' = fate
  <2>1. CASE ~tr.keep /\ ~DryRun
    BY <2>1, Zenon DEF send
  <2>2. CASE ~(~tr.keep /\ ~DryRun)
    BY <2>2, Zenon DEF send
  <2> QED
    BY <2>1, <2>2
<1>5. tracesSent' = IF task = "evict" THEN tracesSent \cup {id} ELSE tracesSent
  BY DEF send
<1> HIDE DEF tr, id, q
<1>6. ASSUME NEW u \in Span
      PROVE  /\ IsFiniteSet(Occurrences(cache', u))
             /\ IsFiniteSet(Occurrences(taken', u))
             /\ IsFiniteSet(Occurrences(outgoing', u))
  <2>1. Occurrences(cache', u) = Occurrences(cache, u)
    BY <1>3, OccursSame
  <2>2. IsFiniteSet(Occurrences(taken', u))
    BY <1>1, FiniteWithout DEF CountInv
  <2>3. IsFiniteSet(Occurrences(Append(outgoing, tr), u))
    BY <1>2, QueueAppend DEF TypeOK, CountInv
  <2> QED
    BY <1>4, <2>1, <2>2, <2>3 DEF CountInv
<1>7. CountInv' /\ Countable /\ Countable'
  <2>1. task' = "evict" => \A t \in DOMAIN taken' : taken'[t].spans = cache'[t].spans
    BY <1>1, <1>3 DEF CountInv, UndecidedInv, Without
  <2>2. CountInv'
    BY <1>1, <1>6, <2>1 DEF CountInv
  <2> QED
    BY <2>2, PlacesNat, PlacesNatNext
<1>8. ASSUME NEW u \in Span
      PROVE  Balanced(u)
  <2>1. /\ Waiting(u) \in Nat /\ Gathered(u) \in Nat /\ Expiring(u) \in Nat
        /\ Leaving(u) \in Nat /\ Settled(u) \in Nat
        /\ Gathered(u)' \in Nat /\ Expiring(u)' \in Nat
        /\ Leaving(u)' \in Nat /\ Settled(u)' \in Nat
        /\ Waiting(u) + Gathered(u) + Expiring(u) + Leaving(u) + Settled(u) = 1
    BY <1>7 DEF Countable, SpansConserved
  <2>2. Waiting(u)' = Waiting(u)
    BY <1>1 DEF Waiting, routerVars, chanVars
  <2>3. Gathered(u) + Expiring(u) = Gathered(u)' + Expiring(u)' + Held(q, u)
    <3>1. CASE task = "expire"
      <4>1. /\ tracesSent = {} /\ tracesSent' = {}
            /\ Occurrences(cache', u) = Occurrences(cache, u)
        BY <1>3, <1>5, <3>1, OccursSame DEF TaskInv
      <4>2. Gathered(u)' = Gathered(u)
        BY <4>1, WithoutNothing DEF Gathered, HeldIn
      <4>3. HeldIn(taken, u) = HeldIn(Without(taken, {id}), u) + Held(q, u)
        <5>1. IsFiniteSet(Occurrences(taken, u)) /\ taken[id].spans \in Seq(Span)
          BY <1>2 DEF CountInv
        <5> QED
          BY <1>2, <5>1, HeldWithout
      <4>4. Expiring(u) = Expiring(u)' + Held(q, u)
        BY <1>1, <3>1, <4>3 DEF Expiring
      <4>5. Held(q, u) \in Nat
        BY <1>2, HeldNat
      <4> QED
        BY <2>1, <4>2, <4>4, <4>5
    <3>2. CASE task = "evict"
      <4> DEFINE m == Without(cache, tracesSent)
                 n == Without(cache', tracesSent')
      <4>1. id \in DOMAIN m /\ m[id].spans = q /\ m[id].spans \in Seq(Span)
        BY <1>2, <3>2 DEF Without, UndecidedInv, CountInv
      <4>2. DOMAIN n = DOMAIN Without(m, {id})
            /\ \A t \in DOMAIN n : n[t].spans = Without(m, {id})[t].spans
        BY <1>3, <1>5, <3>2 DEF Without
      <4>3. IsFiniteSet(Occurrences(m, u))
        BY FiniteWithout DEF CountInv
      <4>4. Gathered(u) = HeldIn(m, u) /\ Gathered(u)' = HeldIn(n, u)
        BY DEF Gathered
      <4> HIDE DEF m, n
      <4>5. HeldIn(m, u) = HeldIn(Without(m, {id}), u) + Held(q, u)
        BY <4>1, <4>3, HeldWithout
      <4>6. HeldIn(n, u) = HeldIn(Without(m, {id}), u)
        BY <4>2, OccursSame DEF HeldIn
      <4>7. Expiring(u) = 0 /\ Expiring(u)' = 0
        BY <1>1, <3>2 DEF Expiring
      <4>8. Held(q, u) \in Nat
        BY <1>2, HeldNat
      <4>9. Gathered(u) = Gathered(u)' + Held(q, u)
        BY <4>4, <4>5, <4>6
      <4> QED
        BY <2>1, <4>7, <4>8, <4>9
    <3> QED
      BY <1>2, <3>1, <3>2
  <2>4. Held(q, u) \in Nat /\ Held(q, u) <= 1
    <3>1. Held(q, u) \in Nat
      BY <1>2, HeldNat
    <3> QED
      BY <2>1, <2>3, <3>1
  <2>5. Held(q, u) = In(u, Range(q))
    BY <1>2, <2>4, HeldOnce
  <2>6. CASE Befalls(Range(q), "dropped") /\ outgoing' = outgoing
    <3>1. Leaving(u)' = Leaving(u)
      BY <2>6 DEF Leaving
    <3>2. Settled(u)' = Settled(u) + In(u, Range(q))
      BY <2>6, BefallsCount DEF Settled, TypeOK, Outcome
    <3> QED
      BY <2>1, <2>2, <2>3, <2>4, <2>5, <3>1, <3>2 DEF Balanced
  <2>7. CASE outgoing' = Append(outgoing, tr) /\ fate' = fate
    <3>1. Settled(u)' = Settled(u)
      BY <2>7 DEF Settled
    <3>2. HeldIn(Append(outgoing, tr), u) = HeldIn(outgoing, u) + Held(tr.spans, u)
      BY <1>2, QueueAppend DEF TypeOK, CountInv
    <3>3. Leaving(u)' = Leaving(u) + Held(q, u)
      BY <2>7, <3>2 DEF Leaving, q
    <3> QED
      BY <2>1, <2>2, <2>3, <2>4, <3>1, <3>3 DEF Balanced
  <2> QED
    BY <1>4, <2>6, <2>7
<1> QED
  BY <1>7, <1>8, Balance
\* The rest of a task only removes what has been handed over, and time passes.
LEMMA TaskCount ==
  ASSUME TypeOK, TypeOK', TaskInv, UndecidedInv, CountInv, SpansConserved,
         FinishTask \/ AdvanceTime \/ \E b \in EvictBytes : SendEarly(b)
  PROVE  CountInv' /\ SpansConserved'
<1>1. UNCHANGED <<fresh, deciding, incoming, fromPeer, outgoing, fate, sending>>
  BY DEF FinishTask, AdvanceTime, SendEarly, routerVars, chanVars, outVars, taskVars
<1>2. ASSUME CountInv',
             \A u \in Span : Gathered(u)' = Gathered(u) /\ Expiring(u)' = Expiring(u)
      PROVE  CountInv' /\ SpansConserved'
  <2>1. Countable /\ Countable'
    BY <1>2, PlacesNat, PlacesNatNext
  <2>2. \A u \in Span : Balanced(u)
    BY <1>1, <1>2 DEF Balanced, Waiting, Leaving, Settled
  <2> QED
    BY <1>2, <2>1, <2>2, Balance
<1>3. CASE FinishTask
  <2>1. /\ sending = <<>> /\ DOMAIN taken' = {} /\ tracesSent' = {} /\ task' = "none"
        /\ task \in {"expire", "evict"}
    BY <1>3 DEF FinishTask, TaskInv, TypeOK
  <2>2. IF task = "evict" THEN cache' = Without(cache, tracesSent)
                          ELSE cache' = cache /\ tracesSent = {} /\ DOMAIN taken = {}
    BY <1>3 DEF FinishTask, RemoveTraces, cacheVars, EvictedEnough, TaskInv
  <2>3. ASSUME NEW u \in Span
        PROVE  /\ IsFiniteSet(Occurrences(cache', u)) /\ IsFiniteSet(Occurrences(taken', u))
               /\ Gathered(u)' = Gathered(u) /\ Expiring(u)' = Expiring(u)
    <3>1. Gathered(u)' = HeldIn(cache', u)
      BY <2>1, WithoutNothing DEF Gathered
    <3>2. IsFiniteSet(Occurrences(taken', u)) /\ Expiring(u)' = 0
      BY <2>1, HoldsNothing DEF Expiring
    <3>3. IsFiniteSet(Occurrences(cache, u))
      BY DEF CountInv
    <3>4. CASE task = "evict"
      <4>1. Expiring(u) = 0
        BY <3>4 DEF Expiring
      <4>2. IsFiniteSet(Occurrences(cache', u))
        BY <2>2, <3>3, <3>4, FiniteWithout
      <4>3. Gathered(u)' = Gathered(u)
        BY <2>2, <3>1, <3>4 DEF Gathered
      <4> QED
        BY <3>2, <4>1, <4>2, <4>3
    <3>5. CASE task = "expire"
      <4>1. Expiring(u) = 0
        BY <2>2, <3>5, HoldsNothing DEF Expiring
      <4>2. IsFiniteSet(Occurrences(cache', u))
        BY <2>2, <3>3, <3>5
      <4>3. Gathered(u)' = Gathered(u)
        BY <2>2, <3>1, <3>5, WithoutNothing DEF Gathered
      <4> QED
        BY <3>2, <4>1, <4>2, <4>3
    <3> QED
      BY <2>1, <3>4, <3>5
  <2>4. CountInv'
    BY <1>1, <2>1, <2>3 DEF CountInv
  <2> QED
    BY <1>2, <2>3, <2>4
<1>4. CASE AdvanceTime
  <2>1. /\ DOMAIN cache' = DOMAIN cache
        /\ \A t \in DOMAIN cache : cache'[t].spans = cache[t].spans
    BY <1>4 DEF AdvanceTime, TypeOK, IsMap, Trace
  <2>2. UNCHANGED <<task, taken, tracesSent, sending>>
    BY <1>4 DEF AdvanceTime, taskVars
  <2>3. \A u \in Span : Occurrences(cache', u) = Occurrences(cache, u)
    BY <2>1, OccursSame
  <2>4. CountInv'
    <3>1. \A u \in Span : /\ IsFiniteSet(Occurrences(cache', u))
                          /\ IsFiniteSet(Occurrences(taken', u))
                          /\ IsFiniteSet(Occurrences(outgoing', u))
      BY <1>1, <2>2, <2>3 DEF CountInv
    <3>2. task = "evict" => \A t \in DOMAIN taken : t \in DOMAIN cache
      BY DEF UndecidedInv
    <3> QED
      BY <1>1, <2>1, <2>2, <3>1, <3>2 DEF CountInv
  <2>5. ASSUME NEW u \in Span
        PROVE  Gathered(u)' = Gathered(u) /\ Expiring(u)' = Expiring(u)
    <3> DEFINE m == Without(cache, tracesSent)
               n == Without(cache', tracesSent')
    <3>1. DOMAIN n = DOMAIN m /\ \A t \in DOMAIN n : n[t].spans = m[t].spans
      BY <2>1, <2>2 DEF Without
    <3>2. Gathered(u) = HeldIn(m, u) /\ Gathered(u)' = HeldIn(n, u)
      BY DEF Gathered
    <3> HIDE DEF m, n
    <3>3. HeldIn(n, u) = HeldIn(m, u)
      BY <3>1, OccursSame DEF HeldIn
    <3>4. Expiring(u)' = Expiring(u)
      BY <2>2 DEF Expiring
    <3> QED
      BY <3>2, <3>3, <3>4
  <2> QED
    BY <1>2, <2>4, <2>5
<1>5. CASE \E b \in EvictBytes : SendEarly(b)
  <2>1. /\ task = "none" /\ task' = "evict" /\ tracesSent = {} /\ tracesSent' = {}
        /\ taken' = cache /\ cache' = cache /\ sending = <<>>
    BY <1>5 DEF SendEarly, TaskInv, TypeOK, cacheVars
  <2>2. CountInv'
    BY <1>1, <2>1 DEF CountInv
  <2>3. \A u \in Span : Gathered(u)' = Gathered(u) /\ Expiring(u)' = Expiring(u)
    BY <2>1 DEF Gathered, Expiring
  <2> QED
    BY <1>2, <2>2, <2>3
<1> QED
  BY <1>3, <1>4, <1>5

\* Every step preserves the bookkeeping and leaves every span in one place.
LEMMA CountStep ==
  ASSUME TypeOK, TypeOK', CacheCoherent, TaskInv, UndecidedInv, CountInv, SpansConserved,
         [Next]_vars
  PROVE  CountInv' /\ SpansConserved'
<1>1. ASSUME UNCHANGED <<fresh, deciding, incoming, fromPeer, cache, task, taken, tracesSent,
                         outgoing, fate>>,
             sending' # <<>> => sending'[1].spans = taken[sending'[1].id].spans
      PROVE  CountInv' /\ SpansConserved'
  <2>1. CountInv'
    BY <1>1 DEF CountInv
  <2>2. SpansConserved'
    BY <1>1 DEF SpansConserved, Places
  <2> QED
    BY <2>1, <2>2
<1>2. sending # <<>> => sending[1].spans = taken[sending[1].id].spans
  BY DEF CountInv
<1>3. CASE UNCHANGED vars
  BY <1>1, <1>2, <1>3 DEF vars, routerVars, chanVars, cacheVars, taskVars, outVars
<1>4. CASE NoPeerTraffic \/ CollectReturns
  BY <1>1, <1>2, <1>4 DEF NoPeerTraffic, CollectReturns, routerVars, chanVars, cacheVars, outVars
<1>5. CASE StopIncoming \/ StopFromPeer
  BY <1>1, <1>2, <1>5 DEF StopIncoming, StopFromPeer, routerVars, cacheVars, taskVars, outVars
<1>6. ASSUME NEW t \in TraceID, Forget(t)
      PROVE  CountInv' /\ SpansConserved'
  BY <1>1, <1>2, <1>6 DEF Forget, routerVars, chanVars, cacheVars, taskVars, outVars
<1>7. ASSUME NEW t \in TraceID, NEW keep \in BOOLEAN, makeDecision(t, keep)
      PROVE  CountInv' /\ SpansConserved'
  <2>1. sending'[1].spans = taken[sending'[1].id].spans
    BY <1>7 DEF makeDecision
  <2> QED
    BY <1>1, <1>7, <2>1 DEF makeDecision, routerVars, chanVars, cacheVars, outVars
<1>8. ASSUME NEW s \in Span,
             \/ addSpan(s) \/ addSpanFromPeer(s)
             \/ ProcessSpanImmediately(s) \/ StressRecord(s)
      PROVE  CountInv' /\ SpansConserved'
  BY <1>8, RouterCount
<1>9. CASE CollectFromPeer \/ SelectFromPeer \/ SelectIncoming
  BY <1>9, CollectCount
<1>10. CASE Ticker
  BY <1>10, TickerCount
<1>11. CASE send
  BY <1>11, SendCount
<1>12. CASE FinishTask \/ AdvanceTime \/ \E b \in EvictBytes : SendEarly(b)
  BY <1>12, TaskCount
<1>13. CASE sendTraces
  BY <1>13, ForwardCount
<1> QED
  BY <1>3, <1>4, <1>5, <1>6, <1>7, <1>8, <1>9, <1>10, <1>11, <1>12, <1>13 DEF Next, Collect

\* A span object is always in exactly one place, through any interleaving of the
\* routers, the worker and sendTraces: a channel, one trace of the cache or of a
\* task, the queue of decided traces, or its end, which it meets once.  Eviction,
\* expiry and refusal lose no span and settle none twice.
THEOREM SpansAlwaysConserved == Spec => []SpansConserved
<1> DEFINE Before == TypeOK /\ CacheCoherent /\ TaskInv /\ UndecidedInv
           Inv    == CountInv /\ SpansConserved
<1>1. Init => Inv
  <2> SUFFICES ASSUME Init PROVE CountInv /\ SpansConserved
    OBVIOUS
  <2>1. ASSUME NEW u \in Span, NEW m, DOMAIN m = {}
        PROVE  IsFiniteSet(Occurrences(m, u)) /\ HeldIn(m, u) = 0
    BY <2>1, HoldsNothing
  <2>2. DOMAIN cache = {} /\ DOMAIN taken = {} /\ DOMAIN outgoing = {}
    BY DEF Init
  <2>3. CountInv
    BY <2>1, <2>2 DEF CountInv, Init
  <2>4. ASSUME NEW u \in Span PROVE Places(u) = 1
    <3>1. DOMAIN Without(cache, tracesSent) = {}
      BY <2>2 DEF Without
    <3>2. HeldIn(Without(cache, tracesSent), u) = 0 /\ HeldIn(outgoing, u) = 0
      BY <2>1, <2>2, <3>1
    <3>3. Held(<<>>, u) = 0
      <4>1. {k \in DOMAIN <<>> : <<>>[k] = u} = {}
        OBVIOUS
      <4> QED
        BY <4>1, FS_EmptySet DEF Held
    <3>4. Held(incoming, u) = 0 /\ Held(fromPeer, u) = 0
      BY <3>3 DEF Init
    <3>5. Len(fate[u]) = 0 /\ u \in fresh /\ u \notin deciding /\ task # "expire"
      BY DEF Init
    <3> QED
      BY <3>2, <3>4, <3>5 DEF Places
  <2> QED
    BY <2>3, <2>4 DEF SpansConserved
<1>2. Before /\ TypeOK' /\ Inv /\ [Next]_vars => Inv'
  BY CountStep
<1> QED
  BY <1>1, <1>2, UndecidedInvariant, PTL DEF Spec

=============================================================================
