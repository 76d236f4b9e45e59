---------------------- MODULE CollectorLifecycleProofs ----------------------
(***************************************************************************)
(* Proofs about CollectorLifecycle, for any number of workers, any queue   *)
(* sizes and any number of spans and configurations.                       *)
(***************************************************************************)
EXTENDS CollectorLifecycle, FiniteSetTheorems, TLAPS

\* The workers that still owe the monitor a wg.Done: those it has yet to ask,
\* those it has asked and those that are evicting.
Owed == {w \in Worker : (monitor = "alloc" /\ w \in todo) \/ sendEarly[w] \/ worker[w] = "evict"}

\* The WaitGroup counts them, each of them once, and outside an eviction there
\* are none.
EvictionInv ==
  /\ wg = Cardinality(Owed)
  /\ \A w \in Worker :
       /\ sendEarly[w] => worker[w] # "evict" /\ ~(monitor = "alloc" /\ w \in todo)
       /\ worker[w] = "evict" => ~(monitor = "alloc" /\ w \in todo)
  /\ monitor \in {"select", "report", "exited"} => Owed = {}

\* Stop waits for what it closes the channels of.
ShutdownInv ==
  /\ ChannelsClosed => monitor = "exited"
  /\ \A w \in Worker : worker[w] = "exited" => ChannelsClosed
  /\ OutgoingClosed => \A w \in Worker : worker[w] = "exited"
  /\ sender = "exited" => OutgoingClosed /\ outgoing = 0
  /\ stop = "stopped" => sender = "exited"

\* The types, but for the WaitGroup.
Types ==
  /\ routers \in {"up", "down"} /\ arrived \in 0..MaxSpans
  /\ config \in 0..MaxConfig /\ notify \in BOOLEAN
  /\ worker \in [Worker -> {"loop", "span", "evict", "exited"}]
  /\ queue \in [Worker -> 0..QueueSize]
  /\ uncounted \in [Worker -> Nat]
  /\ waiting \in [Worker -> Int]
  /\ sampler \in [Worker -> {NoSampler} \cup 0..MaxConfig]
  /\ reload \in [Worker -> BOOLEAN] /\ sendEarly \in [Worker -> BOOLEAN]
  /\ monitor \in {"select", "report", "alloc", "wait", "exited"}
  /\ todo \subseteq Worker
  /\ reported \in [Worker -> Int] /\ reloadAll \in BOOLEAN
  /\ stop \in {"no", "monitor", "workers", "sender", "stopped"}
  /\ outgoing \in 0..OutgoingSize /\ sender \in {"run", "exited"}

IInv == Types /\ EvictionInv /\ ShutdownInv /\ WaitingMetricExact

-----------------------------------------------------------------------------
(* The workers that owe an answer are finitely many. *)

\* The count of the eviction's WaitGroup is bounded by the number of workers.
LEMMA OwedFinite ==
  /\ IsFiniteSet(Owed) /\ Cardinality(Owed) \in 0..Cardinality(Worker)
  /\ IsFiniteSet(Owed') /\ Cardinality(Owed') \in 0..Cardinality(Worker)
<1>1. IsFiniteSet(Worker) /\ Owed \subseteq Worker /\ Owed' \subseteq Worker
  BY LifecycleAssumption DEF Owed
<1>2. Cardinality(Worker) \in Nat
  BY <1>1, FS_CardinalityType
<1>3. ASSUME NEW S, S \subseteq Worker
      PROVE  IsFiniteSet(S) /\ Cardinality(S) \in 0..Cardinality(Worker)
  <2>1. IsFiniteSet(S) /\ Cardinality(S) <= Cardinality(Worker)
    BY <1>1, <1>3, FS_Subset
  <2>2. Cardinality(S) \in Nat
    BY <2>1, FS_CardinalityType
  <2> QED
    BY <1>2, <2>1, <2>2
<1> HIDE DEF Owed
<1> QED
  BY <1>1, <1>3

\* One worker less, one Done less.
LEMMA OwedLess ==
  ASSUME NEW w \in Owed, Owed' = Owed \ {w}
  PROVE  Cardinality(Owed') = Cardinality(Owed) - 1
  BY OwedFinite, FS_RemoveElement

\* The same workers owe an answer as before.
LEMMA OwedSame ==
  ASSUME UNCHANGED <<worker, sendEarly, monitor, todo>>
  PROVE  Owed' = Owed
  BY DEF Owed

-----------------------------------------------------------------------------
\* The invariant holds once Start has launched the goroutines.
LEMMA InvInit == Init => IInv
<1> SUFFICES ASSUME Init PROVE IInv
  OBVIOUS
<1>1. Owed = {}
  BY DEF Init, Owed
<1>2. Cardinality({}) = 0 /\ Cardinality(Worker) \in Nat
  BY LifecycleAssumption, FS_EmptySet, FS_CardinalityType
<1>3. EvictionInv
  BY <1>1, <1>2 DEF Init, EvictionInv
<1>4. ShutdownInv
  BY DEF Init, ShutdownInv, ChannelsClosed, OutgoingClosed
<1>5. Types
  <2>1. /\ 0 \in 0..MaxSpans /\ 0 \in 0..MaxConfig /\ 0 \in 0..QueueSize /\ 0 \in 0..OutgoingSize
        /\ 0 \in Nat /\ 0 \in Int
    BY LifecycleAssumption
  <2> QED
    BY <2>1 DEF Init, Types
<1>6. WaitingMetricExact
  BY DEF Init, WaitingMetricExact
<1> QED
  BY <1>3, <1>4, <1>5, <1>6 DEF IInv

\* What a worker's step does.
LEMMA WorkerTypes ==
  ASSUME IInv, NEW w \in Worker, AddSpan(w) \/ CountSpan(w) \/ WorkerNext(w)
  PROVE  Types'
<1> USE LifecycleAssumption
<1>1. Types
  BY DEF IInv
<1>2. CASE AddSpan(w)
  BY <1>1, <1>2 DEF AddSpan, Types, monitorVars, outVars
<1>3. CASE CountSpan(w)
  BY <1>1, <1>3 DEF CountSpan, Types, inputVars, monitorVars, outVars
<1>4. CASE TakeSpan(w)
  BY <1>1, <1>4 DEF TakeSpan, Types, inputVars, monitorVars, outVars
<1>5. CASE SpanProcessed(w)
  BY <1>1, <1>5 DEF SpanProcessed, Types, inputVars, monitorVars, outVars
<1>6. ASSUME NEW n \in {0, 1}, Decide(w, n)
      PROVE  sampler' \in [Worker -> {NoSampler} \cup 0..MaxConfig] /\ outgoing' \in 0..OutgoingSize
  BY <1>1, <1>6 DEF Decide, SamplerFor, Types
<1>7. CASE SendExpired(w)
  BY <1>1, <1>6, <1>7 DEF SendExpired, Types, inputVars, monitorVars
<1>8. CASE TakeSendEarly(w)
  BY <1>1, <1>8 DEF TakeSendEarly, Types, inputVars, monitorVars, outVars
<1>9. CASE EvictDone(w)
  BY <1>1, <1>6, <1>9 DEF EvictDone, Types, inputVars
<1>10. CASE WorkerReload(w)
  BY <1>1, <1>10 DEF WorkerReload, Types, inputVars, monitorVars, outVars
<1>11. CASE WorkerReturns(w)
  BY <1>1, <1>11 DEF WorkerReturns, Types, inputVars, monitorVars, outVars
<1> QED
  BY <1>2, <1>3, <1>4, <1>5, <1>7, <1>8, <1>9, <1>10, <1>11 DEF WorkerNext

\* What a step of the others does.
LEMMA OtherTypes ==
  ASSUME IInv, RoutersStop \/ ConfigChange \/ sendReloadSignal \/ MonitorNext \/ StopNext
  PROVE  Types'
<1> USE LifecycleAssumption
<1>1. Types
  BY DEF IInv
<1>2. CASE RoutersStop
  BY <1>1, <1>2 DEF RoutersStop, Types, workerVars, monitorVars, outVars
<1>3. CASE ConfigChange
  BY <1>1, <1>3 DEF ConfigChange, Types, workerVars, monitorVars, outVars
<1>4. CASE sendReloadSignal
  BY <1>1, <1>4 DEF sendReloadSignal, Types, workerVars, outVars
<1>5. CASE MonitorTick
  BY <1>1, <1>5 DEF MonitorTick, Types, inputVars, workerVars, outVars
<1>6. CASE CheckAlloc
  BY <1>1, <1>6 DEF CheckAlloc, Types, inputVars, workerVars, outVars
<1>7. CASE EvictionOver
  BY <1>1, <1>7 DEF EvictionOver, Types, inputVars, workerVars, outVars
<1>8. CASE reloadConfigs
  BY <1>1, <1>8 DEF reloadConfigs, Types, inputVars, outVars
<1>9. CASE MonitorReturns
  BY <1>1, <1>9 DEF MonitorReturns, Types, inputVars, workerVars, outVars
<1>10. ASSUME NEW w \in Worker, SwapCounter(w) PROVE Types'
  BY <1>1, <1>10 DEF SwapCounter, Types, inputVars, outVars
<1>11. ASSUME NEW w \in Worker, AskToEvict(w) PROVE Types'
  BY <1>1, <1>11 DEF AskToEvict, Types, inputVars, outVars
<1>12. CASE StopBegins \/ StopClosesChannels \/ StopClosesOutgoing \/ StopReturns
  BY <1>1, <1>12 DEF StopBegins, StopClosesChannels, StopClosesOutgoing, StopReturns, Types,
       inputVars, workerVars, monitorVars, outVars
<1>13. CASE sendTraces
  BY <1>1, <1>13 DEF sendTraces, Types, inputVars, workerVars, monitorVars
<1>14. CASE SenderReturns
  BY <1>1, <1>14 DEF SenderReturns, Types, inputVars, workerVars, monitorVars
<1> QED
  BY <1>2, <1>3, <1>4, <1>5, <1>6, <1>7, <1>8, <1>9, <1>10, <1>11, <1>12, <1>13, <1>14
     DEF MonitorNext, StopNext

-----------------------------------------------------------------------------
(* The waiting-spans metric. *)

\* Only these steps touch what the metric is about.
LEMMA MetricStep ==
  ASSUME IInv, [Next]_vars
  PROVE  WaitingMetricExact'
<1> DEFINE Busy(w) == IF worker[w] = "span" THEN 1 ELSE 0
<1>1. /\ \A w \in Worker : reported[w] + waiting[w] = queue[w] + Busy(w) - uncounted[w]
      /\ worker \in [Worker -> {"loop", "span", "evict", "exited"}]
      /\ queue \in [Worker -> Int] /\ uncounted \in [Worker -> Int]
      /\ waiting \in [Worker -> Int] /\ reported \in [Worker -> Int]
  <2>1. 0..QueueSize \subseteq Int
    BY LifecycleAssumption
  <2> QED
    BY <2>1 DEF IInv, Types, WaitingMetricExact
<1>2. CASE UNCHANGED <<worker, queue, uncounted, waiting, reported>>
  BY <1>1, <1>2 DEF WaitingMetricExact
<1>3. ASSUME NEW w \in Worker, AddSpan(w) PROVE WaitingMetricExact'
  BY <1>1, <1>3 DEF AddSpan, WaitingMetricExact, monitorVars
<1>4. ASSUME NEW w \in Worker, CountSpan(w) PROVE WaitingMetricExact'
  BY <1>1, <1>4 DEF CountSpan, WaitingMetricExact, monitorVars
<1>5. ASSUME NEW w \in Worker, TakeSpan(w) PROVE WaitingMetricExact'
  BY <1>1, <1>5 DEF TakeSpan, WaitingMetricExact, monitorVars
<1>6. ASSUME NEW w \in Worker, SpanProcessed(w) PROVE WaitingMetricExact'
  BY <1>1, <1>6 DEF SpanProcessed, WaitingMetricExact, monitorVars
<1>7. ASSUME NEW w \in Worker, TakeSendEarly(w) \/ EvictDone(w) \/ WorkerReturns(w)
      PROVE  WaitingMetricExact'
  BY <1>1, <1>7 DEF TakeSendEarly, EvictDone, WorkerReturns, WaitingMetricExact, monitorVars
<1>8. ASSUME NEW w \in Worker, SendExpired(w) \/ WorkerReload(w) PROVE WaitingMetricExact'
  BY <1>2, <1>8 DEF SendExpired, WorkerReload, monitorVars
<1>9. ASSUME NEW w \in Worker, SwapCounter(w) PROVE WaitingMetricExact'
  BY <1>1, <1>9 DEF SwapCounter, WaitingMetricExact
<1>10. ASSUME NEW w \in Worker, AskToEvict(w) PROVE WaitingMetricExact'
  BY <1>2, <1>10 DEF AskToEvict
<1>11. CASE RoutersStop \/ ConfigChange \/ sendReloadSignal
  BY <1>2, <1>11 DEF RoutersStop, ConfigChange, sendReloadSignal, workerVars, monitorVars
<1>12. CASE MonitorTick \/ CheckAlloc \/ EvictionOver \/ reloadConfigs \/ MonitorReturns
  BY <1>2, <1>12 DEF MonitorTick, CheckAlloc, EvictionOver, reloadConfigs, MonitorReturns,
       workerVars, monitorVars
<1>13. CASE StopNext
  BY <1>2, <1>13 DEF StopNext, StopBegins, StopClosesChannels, StopClosesOutgoing, StopReturns,
       sendTraces, SenderReturns, workerVars, monitorVars
<1>14. CASE UNCHANGED vars
  BY <1>2, <1>14 DEF vars, workerVars, monitorVars
<1> QED
  BY <1>3, <1>4, <1>5, <1>6, <1>7, <1>8, <1>9, <1>10, <1>11, <1>12, <1>13, <1>14
     DEF Next, WorkerNext, MonitorNext

-----------------------------------------------------------------------------
(* The eviction and the shutdown. *)

\* Every step keeps the WaitGroup at the number of workers that still owe an answer.
LEMMA EvictionStep ==
  ASSUME IInv, Types', [Next]_vars
  PROVE  EvictionInv'
<1>1. /\ wg = Cardinality(Owed)
      /\ \A w \in Worker :
           /\ sendEarly[w] => worker[w] # "evict" /\ ~(monitor = "alloc" /\ w \in todo)
           /\ worker[w] = "evict" => ~(monitor = "alloc" /\ w \in todo)
      /\ monitor \in {"select", "report", "exited"} => Owed = {}
      /\ worker \in [Worker -> {"loop", "span", "evict", "exited"}]
      /\ sendEarly \in [Worker -> BOOLEAN] /\ todo \subseteq Worker
  BY DEF IInv, EvictionInv, Types
<1>2. CASE UNCHANGED <<worker, sendEarly, monitor, todo, wg>>
  BY <1>1, <1>2, OwedSame DEF EvictionInv
<1>3. ASSUME NEW w \in Worker, TakeSpan(w) \/ SpanProcessed(w) \/ WorkerReturns(w)
      PROVE  EvictionInv'
  <2>1. /\ UNCHANGED <<sendEarly, monitor, todo, wg>>
        /\ worker[w] # "evict"
        /\ \E x \in {"loop", "span", "exited"} : worker' = [worker EXCEPT ![w] = x]
    BY <1>3 DEF TakeSpan, SpanProcessed, WorkerReturns, monitorVars
  <2>2. \A v \in Worker : worker'[v] = "evict" <=> worker[v] = "evict"
    BY <1>1, <2>1
  <2>3. Owed' = Owed
    BY <2>1, <2>2 DEF Owed
  <2> QED
    BY <1>1, <2>1, <2>2, <2>3 DEF EvictionInv
<1>4. ASSUME NEW w \in Worker, TakeSendEarly(w) PROVE EvictionInv'
  <2>1. /\ UNCHANGED <<monitor, todo, wg>> /\ sendEarly[w]
        /\ worker' = [worker EXCEPT ![w] = "evict"]
        /\ sendEarly' = [sendEarly EXCEPT ![w] = FALSE]
    BY <1>4 DEF TakeSendEarly, monitorVars
  <2>2. /\ \A v \in Worker : v # w => worker'[v] = worker[v] /\ sendEarly'[v] = sendEarly[v]
        /\ worker'[w] = "evict" /\ ~sendEarly'[w]
    BY <1>1, <2>1
  <2>3. Owed' = Owed
    <3>1. ASSUME NEW v \in Worker PROVE v \in Owed' <=> v \in Owed
      BY <2>1, <2>2 DEF Owed
    <3> QED
      BY <3>1 DEF Owed
  <2> QED
    BY <1>1, <2>1, <2>2, <2>3 DEF EvictionInv
<1>5. ASSUME NEW w \in Worker, EvictDone(w) PROVE EvictionInv'
  <2>1. /\ UNCHANGED <<monitor, todo, sendEarly>> /\ worker[w] = "evict" /\ wg' = wg - 1
        /\ worker' = [worker EXCEPT ![w] = "loop"]
    BY <1>5 DEF EvictDone
  <2>2. \A v \in Worker : worker'[v] = IF v = w THEN "loop" ELSE worker[v]
    BY <1>1, <2>1
  <2>3. w \in Owed /\ Owed' = Owed \ {w}
    BY <1>1, <2>1, <2>2 DEF Owed
  <2>4. wg' = Cardinality(Owed')
    BY <1>1, <2>1, <2>3, OwedLess
  <2> QED
    BY <1>1, <2>1, <2>2, <2>3, <2>4 DEF EvictionInv
<1>6. ASSUME NEW w \in Worker, AddSpan(w) \/ CountSpan(w) \/ SendExpired(w) \/ WorkerReload(w)
      PROVE  EvictionInv'
  BY <1>2, <1>6 DEF AddSpan, CountSpan, SendExpired, WorkerReload, monitorVars
<1>7. ASSUME NEW w \in Worker, SwapCounter(w) PROVE EvictionInv'
  <2>1. /\ UNCHANGED <<worker, sendEarly, monitor, wg>> /\ monitor = "report"
    BY <1>7 DEF SwapCounter
  <2>2. Owed' = Owed
    BY <2>1 DEF Owed
  <2> QED
    BY <1>1, <2>1, <2>2 DEF EvictionInv
<1>8. CASE MonitorTick
  <2>1. /\ UNCHANGED <<worker, sendEarly, wg>> /\ monitor = "select" /\ monitor' = "report"
    BY <1>8 DEF MonitorTick, workerVars
  <2>2. Owed' = Owed
    BY <2>1 DEF Owed
  <2> QED
    BY <1>1, <2>1, <2>2 DEF EvictionInv
<1>9. CASE CheckAlloc
  <2>1. /\ UNCHANGED <<worker, sendEarly>> /\ monitor = "report"
    BY <1>9 DEF CheckAlloc, workerVars
  <2>2. \A v \in Worker : ~sendEarly[v] /\ worker[v] # "evict"
    BY <1>1, <2>1 DEF Owed
  <2>3. CASE monitor' = "select" /\ UNCHANGED <<todo, wg>>
    <3>1. Owed' = Owed
      BY <2>1, <2>3 DEF Owed
    <3> QED
      BY <1>1, <2>1, <2>3, <3>1 DEF EvictionInv
  <2>4. CASE monitor' = "alloc" /\ todo' = Worker /\ wg' = Cardinality(Worker)
    <3>1. Owed' = Worker
      BY <2>4 DEF Owed
    <3> QED
      BY <2>1, <2>2, <2>4, <3>1 DEF EvictionInv
  <2> QED
    BY <1>9, <2>3, <2>4 DEF CheckAlloc
<1>10. ASSUME NEW w \in Worker, AskToEvict(w) PROVE EvictionInv'
  <2>1. /\ UNCHANGED <<worker, wg>> /\ monitor = "alloc" /\ w \in todo
        /\ sendEarly' = [sendEarly EXCEPT ![w] = TRUE] /\ todo' = todo \ {w}
        /\ monitor' = IF todo = {w} THEN "wait" ELSE "alloc"
    BY <1>10 DEF AskToEvict
  <2>2. \A v \in Worker : sendEarly'[v] = IF v = w THEN TRUE ELSE sendEarly[v]
    BY <1>1, <2>1
  <2>3. Owed' = Owed
    <3>1. ASSUME NEW v \in Worker PROVE v \in Owed' <=> v \in Owed
      BY <1>1, <2>1, <2>2 DEF Owed
    <3> QED
      BY <3>1 DEF Owed
  <2>4. worker[w] # "evict"
    BY <1>1, <2>1
  <2> QED
    BY <1>1, <2>1, <2>2, <2>3, <2>4 DEF EvictionInv
<1>11. CASE EvictionOver
  <2>1. /\ UNCHANGED <<worker, sendEarly, wg>> /\ monitor = "wait" /\ monitor' = "select" /\ wg = 0
    BY <1>11 DEF EvictionOver, workerVars
  <2>2. Owed' = Owed
    BY <2>1 DEF Owed
  <2>3. Owed = {}
    BY <1>1, <2>1, OwedFinite, FS_EmptySet
  <2> QED
    BY <1>1, <2>1, <2>2, <2>3 DEF EvictionInv
<1>12. CASE reloadConfigs
  BY <1>2, <1>12 DEF reloadConfigs
<1>13. CASE MonitorReturns
  <2>1. /\ UNCHANGED <<worker, sendEarly, wg>> /\ monitor = "select" /\ monitor' = "exited"
    BY <1>13 DEF MonitorReturns, workerVars
  <2>2. Owed' = Owed
    BY <2>1 DEF Owed
  <2> QED
    BY <1>1, <2>1, <2>2 DEF EvictionInv
<1>14. CASE RoutersStop \/ ConfigChange \/ sendReloadSignal
  BY <1>2, <1>14 DEF RoutersStop, ConfigChange, sendReloadSignal, workerVars, monitorVars
<1>15. CASE StopNext
  BY <1>2, <1>15 DEF StopNext, StopBegins, StopClosesChannels, StopClosesOutgoing, StopReturns,
       sendTraces, SenderReturns, workerVars, monitorVars
<1>16. CASE UNCHANGED vars
  BY <1>2, <1>16 DEF vars, workerVars, monitorVars
<1> QED
  BY <1>3, <1>4, <1>5, <1>6, <1>7, <1>8, <1>9, <1>10, <1>11, <1>12, <1>13, <1>14, <1>15, <1>16
     DEF Next, WorkerNext, MonitorNext

\* Every step keeps the order of the shutdown: the monitor, the workers, the sender.
LEMMA ShutdownStep ==
  ASSUME IInv, [Next]_vars
  PROVE  ShutdownInv'
<1>1. /\ ShutdownInv /\ Types
      /\ worker \in [Worker -> {"loop", "span", "evict", "exited"}]
      /\ stop \in {"no", "monitor", "workers", "sender", "stopped"}
      /\ outgoing \in Nat
  BY LifecycleAssumption DEF IInv, Types
<1>2. CASE UNCHANGED <<worker, monitor, stop, outgoing, sender>>
  BY <1>1, <1>2 DEF ShutdownInv, ChannelsClosed, OutgoingClosed
<1>3. ASSUME NEW w \in Worker, TakeSpan(w) \/ SpanProcessed(w) \/ TakeSendEarly(w)
      PROVE  ShutdownInv'
  <2>1. /\ UNCHANGED <<monitor, stop, outgoing, sender>> /\ worker[w] # "exited"
        /\ \E x \in {"loop", "span", "evict"} : worker' = [worker EXCEPT ![w] = x]
    BY <1>3 DEF TakeSpan, SpanProcessed, TakeSendEarly, monitorVars, outVars
  <2>2. \A v \in Worker : worker'[v] = "exited" <=> worker[v] = "exited"
    BY <1>1, <2>1
  <2> QED
    BY <1>1, <2>1, <2>2 DEF ShutdownInv, ChannelsClosed, OutgoingClosed
<1>4. ASSUME NEW w \in Worker, SendExpired(w) \/ EvictDone(w) PROVE ShutdownInv'
  <2>1. /\ UNCHANGED <<monitor, stop, sender>> /\ worker[w] # "exited"
        /\ \A v \in Worker : worker'[v] = "exited" <=> worker[v] = "exited"
    BY <1>1, <1>4 DEF SendExpired, EvictDone, monitorVars
  <2>2. ~OutgoingClosed /\ sender # "exited"
    BY <1>1, <2>1 DEF ShutdownInv
  <2> QED
    BY <1>1, <2>1, <2>2 DEF ShutdownInv, ChannelsClosed, OutgoingClosed
<1>5. ASSUME NEW w \in Worker, WorkerReturns(w) PROVE ShutdownInv'
  <2>1. /\ UNCHANGED <<monitor, stop, outgoing, sender>> /\ ChannelsClosed
        /\ worker' = [worker EXCEPT ![w] = "exited"]
    BY <1>5 DEF WorkerReturns, monitorVars, outVars
  <2>2. \A v \in Worker : worker[v] = "exited" => worker'[v] = "exited"
    BY <1>1, <2>1
  <2> QED
    BY <1>1, <2>1, <2>2 DEF ShutdownInv, ChannelsClosed, OutgoingClosed
<1>6. ASSUME NEW w \in Worker, AddSpan(w) \/ CountSpan(w) \/ WorkerReload(w) PROVE ShutdownInv'
  BY <1>2, <1>6 DEF AddSpan, CountSpan, WorkerReload, monitorVars, outVars
<1>7. CASE MonitorNext
  <2>1. UNCHANGED <<worker, stop, outgoing, sender>> /\ monitor # "exited"
    BY <1>7 DEF MonitorNext, MonitorTick, CheckAlloc, EvictionOver, reloadConfigs, MonitorReturns,
         SwapCounter, AskToEvict, workerVars, outVars
  <2>2. ~ChannelsClosed
    BY <1>1, <2>1 DEF ShutdownInv
  <2> QED
    BY <1>1, <2>1, <2>2 DEF ShutdownInv, ChannelsClosed, OutgoingClosed
<1>8. CASE RoutersStop \/ ConfigChange \/ sendReloadSignal
  BY <1>2, <1>8 DEF RoutersStop, ConfigChange, sendReloadSignal, workerVars, monitorVars, outVars
<1>9. CASE StopBegins \/ StopClosesChannels \/ StopClosesOutgoing \/ StopReturns
  BY <1>1, <1>9 DEF StopBegins, StopClosesChannels, StopClosesOutgoing, StopReturns, ShutdownInv,
       ChannelsClosed, OutgoingClosed, workerVars, monitorVars, outVars
<1>10. CASE sendTraces
  BY <1>1, <1>10 DEF sendTraces, ShutdownInv, ChannelsClosed, OutgoingClosed, workerVars, monitorVars
<1>11. CASE SenderReturns
  BY <1>1, <1>11 DEF SenderReturns, ShutdownInv, ChannelsClosed, OutgoingClosed, workerVars,
       monitorVars
<1>12. CASE UNCHANGED vars
  BY <1>2, <1>12 DEF vars, workerVars, monitorVars, outVars
<1> QED
  BY <1>3, <1>4, <1>5, <1>6, <1>7, <1>8, <1>9, <1>10, <1>11, <1>12
     DEF Next, WorkerNext, StopNext

-----------------------------------------------------------------------------
\* Every step keeps the inductive invariant.
LEMMA InvStep ==
  ASSUME IInv, [Next]_vars
  PROVE  IInv'
<1>1. Types'
  <2>1. CASE Next
    BY <2>1, WorkerTypes, OtherTypes DEF Next
  <2>2. CASE UNCHANGED vars
    BY <2>2 DEF IInv, Types, vars, inputVars, workerVars, monitorVars, outVars
  <2> QED
    BY <2>1, <2>2
<1> QED
  BY <1>1, EvictionStep, ShutdownStep, MetricStep DEF IInv

\* The inductive invariant of the collector's goroutines, whatever the number of
\* workers: types, the eviction handshake, the order of Stop, and the exact metric.
THEOREM Invariance == Spec => []IInv
<1>1. IInv /\ [Next]_vars => IInv'
  BY InvStep
<1> QED
  BY <1>1, InvInit, PTL DEF Spec

\* Every reachable state is well typed; the eviction's WaitGroup never goes below
\* zero, which would panic (checkAlloc, sendTracesEarly).
THEOREM TypeCorrect == Spec => []TypeOK
<1>1. IInv => TypeOK
  BY OwedFinite DEF IInv, Types, EvictionInv, TypeOK
<1> QED
  BY <1>1, Invariance, PTL

\* The spans_waiting metric loses and invents no span (monitor, addSpan, processSpan).
THEOREM WaitingMetricAlwaysExact == Spec => []WaitingMetricExact
<1>1. IInv => WaitingMetricExact
  BY DEF IInv
<1> QED
  BY <1>1, Invariance, PTL

\* Stop closes no channel that is still in use: no eviction is under way once the
\* workers' channels are closed, no trace is sent once tracesToSend is.
THEOREM NeverUsedAfterClose == Spec => NothingAfterClose
<1> DEFINE A == /\ outgoing' > outgoing => ~OutgoingClosed
                /\ ChannelsClosed' => wg' = 0 /\ \A w \in Worker : ~sendEarly'[w] /\ worker'[w] # "evict"
<1>1. ASSUME IInv, IInv', [Next]_vars PROVE [A]_vars
  <2>1. ChannelsClosed' => wg' = 0 /\ \A w \in Worker : ~sendEarly'[w] /\ worker'[w] # "evict"
    <3> SUFFICES ASSUME ChannelsClosed'
                 PROVE  wg' = 0 /\ \A w \in Worker : ~sendEarly'[w] /\ worker'[w] # "evict"
      OBVIOUS
    <3>1. monitor' = "exited" /\ EvictionInv'
      BY <1>1 DEF IInv, ShutdownInv
    <3>2. Owed' = {} /\ wg' = Cardinality(Owed')
      BY <3>1 DEF EvictionInv
    <3>3. wg' = 0
      BY <3>2, FS_EmptySet
    <3> QED
      BY <3>2, <3>3 DEF Owed
  <2>2. outgoing' > outgoing => ~OutgoingClosed
    <3> SUFFICES ASSUME OutgoingClosed PROVE ~(outgoing' > outgoing)
      OBVIOUS
    <3>1. outgoing \in Nat /\ \A w \in Worker : worker[w] = "exited"
      BY <1>1, LifecycleAssumption DEF IInv, Types, ShutdownInv
    <3>2. CASE UNCHANGED outgoing
      BY <3>1, <3>2
    <3>3. ASSUME NEW w \in Worker, AddSpan(w) \/ CountSpan(w) \/ WorkerNext(w)
          PROVE  UNCHANGED outgoing
      BY <3>1, <3>3 DEF WorkerNext, AddSpan, CountSpan, TakeSpan, SpanProcessed, SendExpired,
           TakeSendEarly, EvictDone, WorkerReload, WorkerReturns, outVars
    <3>4. CASE RoutersStop \/ ConfigChange \/ sendReloadSignal
      BY <3>2, <3>4 DEF RoutersStop, ConfigChange, sendReloadSignal, outVars
    <3>5. CASE MonitorNext
      BY <3>2, <3>5 DEF MonitorNext, MonitorTick, CheckAlloc, EvictionOver, reloadConfigs,
           MonitorReturns, SwapCounter, AskToEvict, outVars
    <3>6. CASE StopNext
      BY <3>1, <3>6 DEF StopNext, StopBegins, StopClosesChannels, StopClosesOutgoing, StopReturns,
           sendTraces, SenderReturns, outVars
    <3>7. CASE UNCHANGED vars
      BY <3>2, <3>7 DEF vars, outVars
    <3> QED
      BY <1>1, <3>2, <3>3, <3>4, <3>5, <3>6, <3>7 DEF Next
  <2> QED
    BY <2>1, <2>2
<1> HIDE DEF A
<1>2. IInv /\ IInv' /\ [Next]_vars => [A]_vars
  BY <1>1
<1>3. Spec => [][A]_vars
  BY <1>2, Invariance, PTL DEF Spec
<1> QED
  BY <1>3 DEF NothingAfterClose, A

\* When Stop has returned, every decided trace has been handed to the transmission.
THEOREM StopForwardsAll == Spec => [](stop = "stopped" => outgoing = 0)
<1>1. IInv => (stop = "stopped" => outgoing = 0)
  BY DEF IInv, ShutdownInv
<1> QED
  BY <1>1, Invariance, PTL
=============================================================================
