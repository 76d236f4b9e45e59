------------------------- MODULE CollectorLifecycle -------------------------
(***************************************************************************)
(* What the workers of one InMemCollector share (collect/collect.go): the  *)
(* monitor goroutine with its metrics, its eviction handshake and its      *)
(* reload fan-out; the tracesToSend channel and the sendTraces goroutine;  *)
(* and the shutdown protocol of Stop.                                      *)
(*                                                                         *)
(* Spans and traces are counted, not told apart: what a worker does with   *)
(* them is CollectorWorker.  The sampler a worker has cached is the        *)
(* version of the configuration it was built from.                         *)
(***************************************************************************)
EXTENDS Integers, FiniteSets

CONSTANTS
  Worker,
  QueueSize,     \* capacity of a worker's input channels
  OutgoingSize,  \* capacity of tracesToSend
  MaxConfig,     \* bound: configuration changes
  MaxSpans       \* bound: spans that arrive

ASSUME LifecycleAssumption ==
  /\ IsFiniteSet(Worker) /\ Worker # {}
  /\ QueueSize \in Nat \ {0} /\ OutgoingSize \in Nat \ {0}
  /\ MaxConfig \in Nat /\ MaxSpans \in Nat

VARIABLES
  \* routers and configuration
  routers,    \* "up" until every handler has returned
  arrived,    \* spans handed over so far
  config,     \* version of the loaded configuration
  notify,     \* a reload callback is due
  \* per worker
  worker,     \* "loop", "span", "evict" or "exited"
  queue,      \* spans in its channels
  uncounted,  \* spans sent to its channels, the counter not yet incremented
  waiting,    \* localSpansWaiting
  sampler,    \* version its cached samplers were built from; -1: none cached
  reload,     \* pending signal in its reload channel
  sendEarly,  \* pending request in its sendEarly channel
  \* the monitor
  monitor,    \* "select", "report", "alloc", "wait" or "exited"
  todo,       \* workers its current loop has still to visit
  wg,         \* WaitGroup of the eviction
  reported,   \* what it has reported as spans_waiting, by the worker it was counted for
  reloadAll,  \* pending signal in the collector's reload channel
  \* shutdown
  stop,       \* "no", "monitor", "workers", "sender" or "stopped"
  outgoing,   \* traces in tracesToSend
  sender      \* "run" or "exited": the sendTraces goroutine

inputVars   == <<routers, arrived, config, notify>>
workerVars  == <<worker, queue, uncounted, waiting, sampler, reload, sendEarly>>
monitorVars == <<monitor, todo, wg, reported, reloadAll>>
outVars     == <<outgoing, sender>>
vars == <<inputVars, workerVars, monitorVars, stop, outVars>>

NoSampler == -1

\* Stop has closed done, the workers' channels, tracesToSend.
DoneClosed     == stop # "no"
ChannelsClosed == stop \in {"workers", "sender", "stopped"}
OutgoingClosed == stop \in {"sender", "stopped"}

-----------------------------------------------------------------------------
Init ==
  /\ routers = "up" /\ arrived = 0 /\ config = 0 /\ notify = FALSE
  /\ worker = [w \in Worker |-> "loop"]
  /\ queue = [w \in Worker |-> 0]
  /\ uncounted = [w \in Worker |-> 0]
  /\ waiting = [w \in Worker |-> 0]
  /\ sampler = [w \in Worker |-> NoSampler]
  /\ reload = [w \in Worker |-> FALSE]
  /\ sendEarly = [w \in Worker |-> FALSE]
  /\ monitor = "select" /\ todo = {} /\ wg = 0
  /\ reported = [w \in Worker |-> 0] /\ reloadAll = FALSE
  /\ stop = "no"
  /\ outgoing = 0 /\ sender = "run"

-----------------------------------------------------------------------------
(* Routers and configuration. *)

\* addSpan and addSpanFromPeer put the span into the channel ...
AddSpan(w) ==
  /\ routers = "up" /\ arrived < MaxSpans /\ queue[w] < QueueSize
  /\ arrived' = arrived + 1
  /\ queue' = [queue EXCEPT ![w] = @ + 1]
  /\ uncounted' = [uncounted EXCEPT ![w] = @ + 1]
  /\ UNCHANGED <<routers, config, notify, worker, waiting, sampler, reload, sendEarly>>
  /\ UNCHANGED <<monitorVars, stop, outVars>>

\* ... and only then count it; the worker may have processed it in between.
CountSpan(w) ==
  /\ uncounted[w] > 0
  /\ uncounted' = [uncounted EXCEPT ![w] = @ - 1]
  /\ waiting' = [waiting EXCEPT ![w] = @ + 1]
  /\ UNCHANGED <<worker, queue, sampler, reload, sendEarly>>
  /\ UNCHANGED <<inputVars, monitorVars, stop, outVars>>

\* The routers are shut down before the collector: every handler has returned.
RoutersStop ==
  /\ routers = "up" /\ \A w \in Worker : uncounted[w] = 0
  /\ routers' = "down"
  /\ UNCHANGED <<arrived, config, notify, workerVars, monitorVars, stop, outVars>>

\* A new configuration is in place before the reload callbacks are called.
ConfigChange ==
  /\ config < MaxConfig /\ ~notify
  /\ config' = config + 1 /\ notify' = TRUE
  /\ UNCHANGED <<routers, arrived, workerVars, monitorVars, stop, outVars>>

\* sendReloadSignal: a signal that is already pending stands for this one too.
sendReloadSignal ==
  /\ notify
  /\ notify' = FALSE /\ reloadAll' = TRUE
  /\ UNCHANGED <<routers, arrived, config, workerVars, stop, outVars>>
  /\ UNCHANGED <<monitor, todo, wg, reported>>

-----------------------------------------------------------------------------
(* The workers. *)

TakeSpan(w) ==
  /\ worker[w] = "loop" /\ queue[w] > 0
  /\ worker' = [worker EXCEPT ![w] = "span"]
  /\ queue' = [queue EXCEPT ![w] = @ - 1]
  /\ UNCHANGED <<uncounted, waiting, sampler, reload, sendEarly>>
  /\ UNCHANGED <<inputVars, monitorVars, stop, outVars>>

\* the deferred function of processSpan
SpanProcessed(w) ==
  /\ worker[w] = "span"
  /\ worker' = [worker EXCEPT ![w] = "loop"]
  /\ waiting' = [waiting EXCEPT ![w] = @ - 1]
  /\ UNCHANGED <<queue, uncounted, sampler, reload, sendEarly>>
  /\ UNCHANGED <<inputVars, monitorVars, stop, outVars>>

\* makeDecision builds and caches the sampler it needs.
SamplerFor(w) == IF sampler[w] = NoSampler THEN config ELSE sampler[w]

\* n traces are decided and sent; send waits for room in tracesToSend.
Decide(w, n) ==
  /\ outgoing + n <= OutgoingSize
  /\ outgoing' = outgoing + n
  /\ sampler' = IF n > 0 THEN [sampler EXCEPT ![w] = SamplerFor(w)] ELSE sampler

\* the ticker: an expired trace
SendExpired(w) ==
  /\ worker[w] = "loop"
  /\ Decide(w, 1)
  /\ UNCHANGED <<worker, queue, uncounted, waiting, reload, sendEarly, sender>>
  /\ UNCHANGED <<inputVars, monitorVars, stop>>

TakeSendEarly(w) ==
  /\ worker[w] = "loop" /\ sendEarly[w]
  /\ worker' = [worker EXCEPT ![w] = "evict"]
  /\ sendEarly' = [sendEarly EXCEPT ![w] = FALSE]
  /\ UNCHANGED <<queue, uncounted, waiting, sampler, reload>>
  /\ UNCHANGED <<inputVars, monitorVars, stop, outVars>>

\* Variant: a worker with nothing to evict does not report back.
EvictDone_Silent(w) ==
  /\ worker[w] = "evict"
  /\ \E n \in {0, 1} : Decide(w, n) /\ wg' = wg - n
  /\ worker' = [worker EXCEPT ![w] = "loop"]
  /\ UNCHANGED <<queue, uncounted, waiting, reload, sendEarly, sender>>
  /\ UNCHANGED <<inputVars, stop, monitor, todo, reported, reloadAll>>
\* sendTracesEarly with or without a trace to send, then wg.Done.
EvictDone(w) ==
  /\ worker[w] = "evict"
  /\ \E n \in {0, 1} : Decide(w, n)
  /\ wg' = wg - 1
  /\ worker' = [worker EXCEPT ![w] = "loop"]
  /\ UNCHANGED <<queue, uncounted, waiting, reload, sendEarly, sender>>
  /\ UNCHANGED <<inputVars, stop, monitor, todo, reported, reloadAll>>

WorkerReload(w) ==
  /\ worker[w] = "loop" /\ reload[w]
  /\ reload' = [reload EXCEPT ![w] = FALSE]
  /\ sampler' = [sampler EXCEPT ![w] = NoSampler]
  /\ UNCHANGED <<worker, queue, uncounted, waiting, sendEarly>>
  /\ UNCHANGED <<inputVars, monitorVars, stop, outVars>>

\* A closed channel ends the loop, even if the other one still holds spans.
WorkerReturns(w) ==
  /\ worker[w] = "loop" /\ ChannelsClosed
  /\ worker' = [worker EXCEPT ![w] = "exited"]
  /\ UNCHANGED <<queue, uncounted, waiting, sampler, reload, sendEarly>>
  /\ UNCHANGED <<inputVars, monitorVars, stop, outVars>>

-----------------------------------------------------------------------------
(* The monitor. *)

MonitorTick ==
  /\ monitor = "select"
  /\ monitor' = "report" /\ todo' = Worker
  /\ UNCHANGED <<wg, reported, reloadAll>>
  /\ UNCHANGED <<inputVars, workerVars, stop, outVars>>

\* Variant: the counter is read and then reset to what the queue holds.
SwapCounter_Resets(w) ==
  /\ monitor = "report" /\ w \in todo
  /\ reported' = [reported EXCEPT ![w] = @ + waiting[w]]
  /\ waiting' = [waiting EXCEPT ![w] = queue[w]]
  /\ todo' = todo \ {w}
  /\ UNCHANGED <<monitor, wg, reloadAll>>
  /\ UNCHANGED <<worker, queue, uncounted, sampler, reload, sendEarly>>
  /\ UNCHANGED <<inputVars, stop, outVars>>
\* localSpansWaiting.Swap(0), one worker after the other
SwapCounter(w) ==
  /\ monitor = "report" /\ w \in todo
  /\ reported' = [reported EXCEPT ![w] = @ + waiting[w]]
  /\ waiting' = [waiting EXCEPT ![w] = 0]
  /\ todo' = todo \ {w}
  /\ UNCHANGED <<monitor, wg, reloadAll>>
  /\ UNCHANGED <<worker, queue, uncounted, sampler, reload, sendEarly>>
  /\ UNCHANGED <<inputVars, stop, outVars>>

\* checkAlloc: memory is within budget, or every worker has to evict.
CheckAlloc ==
  /\ monitor = "report" /\ todo = {}
  /\ \/ monitor' = "select" /\ UNCHANGED <<todo, wg>>
     \/ monitor' = "alloc" /\ todo' = Worker /\ wg' = Cardinality(Worker)
  /\ UNCHANGED <<reported, reloadAll>>
  /\ UNCHANGED <<inputVars, workerVars, stop, outVars>>

\* the send blocks while an earlier request is still in the channel
AskToEvict(w) ==
  /\ monitor = "alloc" /\ w \in todo /\ ~sendEarly[w]
  /\ sendEarly' = [sendEarly EXCEPT ![w] = TRUE]
  /\ todo' = todo \ {w}
  /\ monitor' = IF todo = {w} THEN "wait" ELSE "alloc"
  /\ UNCHANGED <<wg, reported, reloadAll>>
  /\ UNCHANGED <<worker, queue, uncounted, waiting, sampler, reload>>
  /\ UNCHANGED <<inputVars, stop, outVars>>

EvictionOver ==
  /\ monitor = "wait" /\ wg = 0
  /\ monitor' = "select"
  /\ UNCHANGED <<todo, wg, reported, reloadAll>>
  /\ UNCHANGED <<inputVars, workerVars, stop, outVars>>

\* reloadConfigs: a worker that has a signal pending is not signalled again.
reloadConfigs ==
  /\ monitor = "select" /\ reloadAll
  /\ reloadAll' = FALSE
  /\ reload' = [w \in Worker |-> TRUE]
  /\ UNCHANGED <<monitor, todo, wg, reported>>
  /\ UNCHANGED <<worker, queue, uncounted, waiting, sampler, sendEarly>>
  /\ UNCHANGED <<inputVars, stop, outVars>>

MonitorReturns ==
  /\ monitor = "select" /\ DoneClosed
  /\ monitor' = "exited"
  /\ UNCHANGED <<todo, wg, reported, reloadAll>>
  /\ UNCHANGED <<inputVars, workerVars, stop, outVars>>

-----------------------------------------------------------------------------
(* Stop, and the sendTraces goroutine. *)

\* close(done)
StopBegins ==
  /\ routers = "down" /\ stop = "no"
  /\ stop' = "monitor"
  /\ UNCHANGED <<inputVars, workerVars, monitorVars, outVars>>

\* Variant: the workers' channels are closed without waiting for the monitor.
StopClosesChannels_NoWait ==
  /\ stop = "monitor"
  /\ stop' = "workers"
  /\ UNCHANGED <<inputVars, workerVars, monitorVars, outVars>>
\* monitorWG.Wait, then the workers' channels are closed
StopClosesChannels ==
  /\ stop = "monitor" /\ monitor = "exited"
  /\ stop' = "workers"
  /\ UNCHANGED <<inputVars, workerVars, monitorVars, outVars>>

\* workersWG.Wait, then tracesToSend is closed
StopClosesOutgoing ==
  /\ stop = "workers" /\ \A w \in Worker : worker[w] = "exited"
  /\ stop' = "sender"
  /\ UNCHANGED <<inputVars, workerVars, monitorVars, outVars>>

\* sendTracesWG.Wait
StopReturns ==
  /\ stop = "sender" /\ sender = "exited"
  /\ stop' = "stopped"
  /\ UNCHANGED <<inputVars, workerVars, monitorVars, outVars>>

sendTraces ==
  /\ sender = "run" /\ outgoing > 0
  /\ outgoing' = outgoing - 1
  /\ UNCHANGED <<inputVars, workerVars, monitorVars, stop, sender>>

\* range over a closed channel ends when it is empty
SenderReturns ==
  /\ sender = "run" /\ OutgoingClosed /\ outgoing = 0
  /\ sender' = "exited"
  /\ UNCHANGED <<inputVars, workerVars, monitorVars, stop, outgoing>>

-----------------------------------------------------------------------------
WorkerNext(w) ==
  \/ TakeSpan(w) \/ SpanProcessed(w) \/ SendExpired(w)
  \/ TakeSendEarly(w) \/ EvictDone(w) \/ WorkerReload(w) \/ WorkerReturns(w)

MonitorNext ==
  \/ MonitorTick \/ CheckAlloc \/ EvictionOver \/ reloadConfigs \/ MonitorReturns
  \/ \E w \in Worker : SwapCounter(w) \/ AskToEvict(w)

StopNext ==
  \/ StopBegins \/ StopClosesChannels \/ StopClosesOutgoing \/ StopReturns
  \/ sendTraces \/ SenderReturns

Next ==
  \/ \E w \in Worker : AddSpan(w) \/ CountSpan(w) \/ WorkerNext(w)
  \/ RoutersStop \/ ConfigChange \/ sendReloadSignal
  \/ MonitorNext
  \/ StopNext

Spec == Init /\ [][Next]_vars

\* A goroutine that can step does, and a select that is reached again and again
\* passes none of its ready cases over for ever.  Nothing forces a shutdown to
\* begin, a span to arrive or be taken, a trace to expire or memory to run short.
Fairness ==
  /\ WF_vars(\E w \in Worker : CountSpan(w))
  /\ \A w \in Worker :
       /\ WF_vars(SpanProcessed(w) \/ EvictDone(w) \/ TakeSendEarly(w) \/ WorkerReturns(w))
       /\ SF_vars(WorkerReload(w))
  /\ WF_vars(CheckAlloc \/ EvictionOver \/ \E w \in Worker : SwapCounter(w) \/ AskToEvict(w))
  /\ SF_vars(reloadConfigs) /\ SF_vars(MonitorReturns)
  /\ WF_vars(sendReloadSignal)
  /\ WF_vars(StopClosesChannels \/ StopClosesOutgoing \/ StopReturns)
  /\ WF_vars(sendTraces \/ SenderReturns)

FairSpec == Spec /\ Fairness

-----------------------------------------------------------------------------
(* Properties. *)

TypeOK ==
  /\ routers \in {"up", "down"} /\ arrived \in 0..MaxSpans
  /\ config \in 0..MaxConfig /\ notify \in BOOLEAN
  /\ worker \in [Worker -> {"loop", "span", "evict", "exited"}]
  /\ queue \in [Worker -> 0..QueueSize]
  /\ uncounted \in [Worker -> Nat]
  /\ waiting \in [Worker -> Int]
  /\ sampler \in [Worker -> {NoSampler} \cup 0..MaxConfig]
  /\ reload \in [Worker -> BOOLEAN] /\ sendEarly \in [Worker -> BOOLEAN]
  /\ monitor \in {"select", "report", "alloc", "wait", "exited"}
  /\ todo \subseteq Worker /\ wg \in 0..Cardinality(Worker)
  /\ reported \in [Worker -> Int] /\ reloadAll \in BOOLEAN
  /\ stop \in {"no", "monitor", "workers", "sender", "stopped"}
  /\ outgoing \in 0..OutgoingSize /\ sender \in {"run", "exited"}

\* The spans_waiting metric is exact, worker by worker and so in total: what was
\* reported plus the counter not yet reported is the number of spans in the
\* channels and in processSpan, less those whose sender has not counted them yet,
\* however the swaps interleave.
WaitingMetricExact ==
  \A w \in Worker :
    reported[w] + waiting[w] =
      queue[w] + (IF worker[w] = "span" THEN 1 ELSE 0) - uncounted[w]

\* Once the workers' channels are closed no eviction is pending or running (Stop
\* waits for the monitor, "to make sure we don't start a checkAlloc after shutting
\* down the workers"), and once tracesToSend is closed no worker sends a trace into
\* it, which would panic.
NothingAfterClose ==
  [][/\ outgoing' > outgoing => ~OutgoingClosed
     /\ ChannelsClosed' => wg' = 0 /\ \A w \in Worker : ~sendEarly'[w] /\ worker'[w] # "evict"]_vars

\* Stop always returns, with every decided trace handed to the transmission: no
\* goroutine it waits for is stuck on a channel or on the eviction's WaitGroup.
StopCompletes ==
  /\ stop # "no" ~> stop = "stopped"
  /\ [](stop = "stopped" => outgoing = 0)
=============================================================================
