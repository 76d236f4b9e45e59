---------------------------- MODULE Transmission ----------------------------
(***************************************************************************)
(* DirectTransmission (transmit/direct_transmit.go): events are collected  *)
(* in one batch per destination, full batches and stale ones are handed to *)
(* a bounded pool of goroutines, and each of those packs its batch into    *)
(* one or more POST requests that are retried once.                        *)
(*                                                                         *)
(* A destination (API host, key and dataset) is its host.  An event's host *)
(* is a field of the shared event object, not a copy: the router changes   *)
(* it when it forwards a span that stress relief has already enqueued.     *)
(* The server is external: it answers, refuses or times out at will.       *)
(***************************************************************************)
EXTENDS Integers, Sequences, FiniteSets, SequencesExt

CONSTANTS
  Event,
  Host,
  HostOf,           \* the APIHost every event is created with
  Size,             \* bytes of every encoded event
  Peer,             \* the peer a probe is forwarded to
  MaxEventSize,     \* apiMaxEventSize
  MaxBatchBytes,    \* apiMaxBatchSize
  MaxBatchSize,     \* events per batch
  BatchTimeout,     \* ticks after which a batch is stale
  Slot,             \* goroutines of the dispatch pool
  BadHost,          \* hosts no request URL can be built from
  ProbesPossible,   \* whether stress relief may turn events into probes
  StopPossible

ASSUME EventAssumption == /\ HostOf \in [Event -> Host] /\ Size \in [Event -> Nat \ {0}]
                          /\ Peer \in Host /\ BadHost \subseteq Host
ASSUME BatchAssumption == /\ {MaxEventSize, MaxBatchBytes, MaxBatchSize, BatchTimeout}
                                \subseteq Nat \ {0}
                          /\ MaxEventSize <= MaxBatchBytes
                          /\ IsFiniteSet(Slot) /\ Slot # {}
ASSUME SwitchAssumption == ProbesPossible \in BOOLEAN /\ StopPossible \in BOOLEAN

VARIABLES
  caller,    \* per event, the goroutine in EnqueueEvent: "idle", "dispatch", "count" or "done"
  handed,    \* the full batch a caller in "dispatch" holds
  host,      \* the APIHost field of every event
  batches,   \* eventBatches: events and age by host
  stale,     \* the batch dispatchStaleBatches holds, or <<>>
  job,       \* per goroutine of the pool: its pc, wholeBatch, the events of subBatch, ...
  queued,    \* the up-down counter of queued items
  received,  \* the hosts that have received each event
  fate,      \* per event, how sendBatch accounted for it
  stop       \* "no", "closing", "flush", "wait" or "stopped"

vars == <<caller, handed, host, batches, stale, job, queued, received, fate, stop>>

Verdict == {"accepted", "error"}
EmptyBatch == [events |-> <<>>, age |-> 0]
IdleJob == [pc |-> "idle", whole |-> <<>>, sub |-> {}, dest |-> Peer, try |-> 0]
Packing(events) == [pc |-> "pack", whole |-> events, sub |-> {}, dest |-> Peer, try |-> 0]

-----------------------------------------------------------------------------
Init ==
  /\ caller = [e \in Event |-> "idle"] /\ handed = [e \in Event |-> <<>>]
  /\ host = HostOf
  /\ batches = [h \in Host |-> EmptyBatch]
  /\ stale = <<>>
  /\ job = [j \in Slot |-> IdleJob]
  /\ queued = 0
  /\ received = [e \in Event |-> <<>>] /\ fate = [e \in Event |-> <<>>]
  /\ stop = "no"

-----------------------------------------------------------------------------
(* EnqueueEvent. *)

\* The event joins the batch of its destination; the caller that fills the
\* batch takes it.
EnqueueEvent(e) ==
  LET h      == host[e]
      old    == batches[h]
      events == Append(old.events, e)
      full   == Len(events) >= MaxBatchSize
  IN /\ caller[e] = "idle" /\ stop = "no"
     /\ batches' = [batches EXCEPT ![h] =
                      IF full THEN EmptyBatch
                      ELSE [events |-> events, age |-> IF old.events = <<>> THEN 0 ELSE old.age]]
     /\ handed' = [handed EXCEPT ![e] = IF full THEN events ELSE <<>>]
     /\ caller' = [caller EXCEPT ![e] = IF full THEN "dispatch" ELSE "count"]
     /\ UNCHANGED <<host, stale, job, queued, received, fate, stop>>

\* pool.Go waits for a free goroutine, without holding a lock.
DispatchFull(e, j) ==
  /\ caller[e] = "dispatch" /\ job[j].pc = "idle"
  /\ job' = [job EXCEPT ![j] = Packing(handed[e])]
  /\ handed' = [handed EXCEPT ![e] = <<>>]
  /\ caller' = [caller EXCEPT ![e] = "count"]
  /\ UNCHANGED <<host, batches, stale, queued, received, fate, stop>>

\* The event is counted last; it may have been sent by then.
CountUp(e) ==
  /\ caller[e] = "count"
  /\ caller' = [caller EXCEPT ![e] = "done"]
  /\ queued' = queued + 1
  /\ UNCHANGED <<handed, host, batches, stale, job, received, fate, stop>>

\* processEvent: a span that stress relief has kept and enqueued is sent to its
\* peer as a probe, by way of the same event object.
ForwardProbe(e) ==
  /\ ProbesPossible /\ caller[e] = "done" /\ host[e] # Peer
  /\ host' = [host EXCEPT ![e] = Peer]
  /\ UNCHANGED <<caller, handed, batches, stale, job, queued, received, fate, stop>>

-----------------------------------------------------------------------------
(* dispatchStaleBatches. *)

\* Variant: only full batches are taken.
Stale_OnlyFull(h) == Len(batches[h].events) >= MaxBatchSize
Stale(h) == batches[h].events # <<>> /\ batches[h].age >= BatchTimeout

TakeStale(h) ==
  /\ stop \in {"no", "closing"} /\ stale = <<>> /\ Stale(h)
  /\ stale' = batches[h].events
  /\ batches' = [batches EXCEPT ![h] = EmptyBatch]
  /\ UNCHANGED <<caller, handed, host, job, queued, received, fate, stop>>

DispatchStale(j) ==
  /\ stale # <<>> /\ job[j].pc = "idle"
  /\ job' = [job EXCEPT ![j] = Packing(stale)]
  /\ stale' = <<>>
  /\ UNCHANGED <<caller, handed, host, batches, queued, received, fate, stop>>

Tick ==
  /\ \E h \in Host : batches[h].events # <<>> /\ batches[h].age < BatchTimeout
  /\ batches' = [h \in Host |->
       IF batches[h].events # <<>> /\ batches[h].age < BatchTimeout
         THEN [batches[h] EXCEPT !.age = @ + 1] ELSE batches[h]]
  /\ UNCHANGED <<caller, handed, host, stale, job, queued, received, fate, stop>>

-----------------------------------------------------------------------------
(* sendBatch. *)

Fits(e) == Size[e] <= MaxEventSize
Good(events) == {e \in ToSet(events) : Fits(e)}
Bytes(E) == MapThenSumSet(LAMBDA e : Size[e], E)

\* The packing loop gets through n events: as many as fit into one request, those
\* too large to be sent at all not counted.
Packed(events, n) ==
  /\ Bytes(Good(SubSeq(events, 1, n))) <= MaxBatchBytes
  /\ n < Len(events) => Bytes(Good(SubSeq(events, 1, n + 1))) > MaxBatchBytes

\* Every event of S is settled and leaves the queue count.
Settle(S, verdict) ==
  /\ fate' = [e \in Event |-> IF e \in S THEN Append(fate[e], verdict[e]) ELSE fate[e]]
  /\ queued' = queued - Cardinality(S)

AllFail == [e \in Event |-> "error"]

\* Variants: an event that cannot be sent stays in the list; leftovers are forgotten.
Pack_KeepsBad(j) ==
  LET whole == job[j].whole
  IN /\ job[j].pc = "pack" /\ whole # <<>>
     /\ \E n \in 0..Len(whole) :
          LET front == SubSeq(whole, 1, n)
          IN /\ Packed(whole, n)
             /\ Settle(ToSet(front) \ Good(front), AllFail)
             /\ job' = [job EXCEPT ![j] =
                          [pc |-> "send", whole |-> SubSeq(whole, n + 1, Len(whole)),
                           sub |-> ToSet(front), dest |-> host[whole[1]], try |-> 0]]
     /\ UNCHANGED <<caller, handed, host, batches, stale, received, stop>>
Pack_OneRequest(j) ==
  LET whole == job[j].whole
  IN /\ job[j].pc = "pack" /\ whole # <<>>
     /\ \E n \in 0..Len(whole) :
          LET front == SubSeq(whole, 1, n)
              sub   == Good(front)
          IN /\ Packed(whole, n)
             /\ Settle(ToSet(front) \ sub, AllFail)
             /\ job' = [job EXCEPT ![j] =
                          IF sub = {} THEN Packing(<<>>)
                          ELSE [pc |-> "send", whole |-> <<>>, sub |-> sub,
                                dest |-> host[whole[1]], try |-> 0]]
     /\ UNCHANGED <<caller, handed, host, batches, stale, received, stop>>
\* One turn of the loop up to the request: the destination is the one of the
\* first event left; events that cannot be sent are settled on the way.
Pack(j) ==
  LET whole == job[j].whole
      dest  == host[whole[1]]
  IN /\ job[j].pc = "pack" /\ whole # <<>>
     /\ \E n \in 0..Len(whole) :
          LET front == SubSeq(whole, 1, n)
              rest  == SubSeq(whole, n + 1, Len(whole))
              sub   == IF dest \in BadHost THEN {} ELSE Good(front)
          IN /\ Packed(whole, n)
             /\ Settle(ToSet(front) \ sub, AllFail)
             /\ job' = [job EXCEPT ![j] =
                          IF sub = {} THEN Packing(rest)
                          ELSE [pc |-> "send", whole |-> rest, sub |-> sub,
                                dest |-> dest, try |-> 0]]
     /\ UNCHANGED <<caller, handed, host, batches, stale, received, stop>>

\* The server has received the request.
Reaches(j) ==
  received' = [e \in Event |-> IF e \in job[j].sub
                                 THEN Append(received[e], job[j].dest) ELSE received[e]]

\* Status 200: every event is settled by its own response; one without is an error.
PostAnswered(j) ==
  /\ job[j].pc = "send"
  /\ Reaches(j)
  /\ \E A \in SUBSET job[j].sub :
       Settle(job[j].sub, [e \in Event |-> IF e \in A THEN "accepted" ELSE "error"])
  /\ job' = [job EXCEPT ![j] = Packing(job[j].whole)]
  /\ UNCHANGED <<caller, handed, host, batches, stale, stop>>

\* Any other final status, or an error of the connection.
PostFailed(j) ==
  /\ job[j].pc = "send"
  /\ Reaches(j) \/ UNCHANGED received
  /\ Settle(job[j].sub, AllFail)
  /\ job' = [job EXCEPT ![j] = Packing(job[j].whole)]
  /\ UNCHANGED <<caller, handed, host, batches, stale, stop>>

CanRetry(j) == job[j].try + 1 < 2

\* 429 or 503 with a short Retry-After, or a timeout, which does not tell
\* whether the server got the request.
PostRetried(j) ==
  /\ job[j].pc = "send" /\ CanRetry(j)
  /\ Reaches(j) \/ UNCHANGED received
  /\ job' = [job EXCEPT ![j].try = @ + 1]
  /\ UNCHANGED <<caller, handed, host, batches, stale, queued, fate, stop>>

\* Variant: the goroutine is not given back to the pool once Stop has begun.
SendBatchReturns_NotReleased(j) ==
  /\ job[j].pc = "pack" /\ job[j].whole = <<>> /\ stop = "no"
  /\ job' = [job EXCEPT ![j] = IdleJob]
  /\ UNCHANGED <<caller, handed, host, batches, stale, queued, received, fate, stop>>
SendBatchReturns(j) ==
  /\ job[j].pc = "pack" /\ job[j].whole = <<>>
  /\ job' = [job EXCEPT ![j] = IdleJob]
  /\ UNCHANGED <<caller, handed, host, batches, stale, queued, received, fate, stop>>

-----------------------------------------------------------------------------
(* Stop; the callers of EnqueueEvent have gone by then. *)

StopBegins ==
  /\ StopPossible /\ stop = "no" /\ \A e \in Event : caller[e] \in {"idle", "done"}
  /\ stop' = "closing"
  /\ UNCHANGED <<caller, handed, host, batches, stale, job, queued, received, fate>>

\* the stale-batch goroutine returns to its select and sees the closed channel
StopDispatcher ==
  /\ stop = "closing" /\ stale = <<>>
  /\ stop' = "flush"
  /\ UNCHANGED <<caller, handed, host, batches, stale, job, queued, received, fate>>

StopFlush(h, j) ==
  /\ stop = "flush" /\ batches[h].events # <<>> /\ job[j].pc = "idle"
  /\ job' = [job EXCEPT ![j] = Packing(batches[h].events)]
  /\ batches' = [batches EXCEPT ![h] = EmptyBatch]
  /\ UNCHANGED <<caller, handed, host, stale, queued, received, fate, stop>>

StopWaits ==
  /\ stop = "flush" /\ \A h \in Host : batches[h].events = <<>>
  /\ stop' = "wait"
  /\ UNCHANGED <<caller, handed, host, batches, stale, job, queued, received, fate>>

StopReturns ==
  /\ stop = "wait" /\ \A j \in Slot : job[j].pc = "idle"
  /\ stop' = "stopped"
  /\ UNCHANGED <<caller, handed, host, batches, stale, job, queued, received, fate>>

-----------------------------------------------------------------------------
SendBatch(j) ==
  Pack(j) \/ PostAnswered(j) \/ PostFailed(j) \/ PostRetried(j) \/ SendBatchReturns(j)

Next ==
  \/ \E e \in Event : EnqueueEvent(e) \/ CountUp(e) \/ ForwardProbe(e)
  \/ \E e \in Event, j \in Slot : DispatchFull(e, j)
  \/ \E h \in Host : TakeStale(h)
  \/ \E j \in Slot : DispatchStale(j) \/ SendBatch(j)
  \/ \E h \in Host, j \in Slot : StopFlush(h, j)
  \/ StopBegins \/ StopDispatcher \/ StopWaits \/ StopReturns
  \/ Tick

Spec == Init /\ [][Next]_vars

\* A free goroutine of the pool is given to one of its waiters.
Dispatch ==
  \E j \in Slot : \/ \E e \in Event : DispatchFull(e, j)
                  \/ DispatchStale(j)
                  \/ \E h \in Host : StopFlush(h, j)

\* Goroutines that can step do, and every request ends.  No waiter is preferred:
\* there are finitely many events, so the others run out.
Fairness ==
  /\ WF_vars(Tick)
  /\ WF_vars(\E e \in Event : CountUp(e))
  /\ WF_vars(\E h \in Host : TakeStale(h))
  /\ WF_vars(Dispatch)
  /\ WF_vars(\E j \in Slot : SendBatch(j))
  /\ WF_vars(StopDispatcher \/ StopWaits \/ StopReturns)

FairSpec == Spec /\ Fairness

-----------------------------------------------------------------------------
(* Properties. *)

TypeOK ==
  /\ caller \in [Event -> {"idle", "dispatch", "count", "done"}]
  /\ handed \in [Event -> Seq(Event)] /\ stale \in Seq(Event)
  /\ host \in [Event -> Host]
  /\ batches \in [Host -> [events : Seq(Event), age : 0..BatchTimeout]]
  /\ \A h \in Host : Len(batches[h].events) < MaxBatchSize
  /\ job \in [Slot -> [pc : {"idle", "pack", "send"}, whole : Seq(Event), sub : SUBSET Event,
                       dest : Host, try : {0, 1}]]
  /\ queued \in Int
  /\ received \in [Event -> Seq(Host)] /\ fate \in [Event -> Seq(Verdict)]
  /\ stop \in {"no", "closing", "flush", "wait", "stopped"}

\* The places where a list of events can be, and the list that is there.
Place == ({"handed"} \X Event) \cup ({"batch"} \X Host) \cup ({"whole"} \X Slot)
         \cup {<<"stale", Peer>>}
ListAt(x) ==
  CASE x[1] = "handed" -> handed[x[2]]
    [] x[1] = "batch"  -> batches[x[2]].events
    [] x[1] = "whole"  -> job[x[2]].whole
    [] x[1] = "stale"  -> stale
Listed(e) == {x \in Place : e \in ToSet(ListAt(x))}
Posted(e) == {j \in Slot : e \in job[j].sub}

\* An event that has been enqueued is in one batch or one request, or settled,
\* and settled once only: none is forgotten when a batch is split into several
\* requests, none is twice in a batch, and none is accounted for twice when it
\* cannot be sent.  No server gets it more often than it is tried, and one that
\* counts as accepted got there.
EventsConserved ==
  /\ \A x \in Place : IsInjective(ListAt(x))
  /\ \A e \in Event :
       /\ Cardinality(Listed(e)) + Cardinality(Posted(e)) + Len(fate[e])
            = (IF caller[e] = "idle" THEN 0 ELSE 1)
       /\ Len(received[e]) <= 2
       /\ "accepted" \in ToSet(fate[e]) => received[e] # <<>>

\* The queued-items counter is exact: it is the number of counted events that
\* are not settled yet, less those settled before their caller counted them.
QueuedItemsExact ==
  queued = Cardinality({e \in Event : caller[e] = "done"})
           - Cardinality({e \in Event : fate[e] # <<>>})

\* Every enqueued event is eventually settled, in a batch of any size.
EveryEventSettled == <>[](\A e \in Event : caller[e] # "idle" => fate[e] # <<>>)

\* Stop returns, whatever the pool and the stale-batch goroutine are doing, with
\* every event settled that was enqueued.
Flushed == stop = "stopped" => \A e \in Event : caller[e] # "idle" => fate[e] # <<>>
StopFlushes == (stop # "no" ~> stop = "stopped") /\ []Flushed
=============================================================================
