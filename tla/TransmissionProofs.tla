------------------------- MODULE TransmissionProofs -------------------------
(***************************************************************************)
(* Proofs about DirectTransmission, for any events, sizes, limits and      *)
(* number of sending goroutines.                                           *)
(***************************************************************************)
EXTENDS Transmission, TLAPS, FiniteSetTheorems, SequenceTheorems

-----------------------------------------------------------------------------
(* Lists of events. *)

\* The empty list holds nothing.
LEMMA EmptyList == ToSet(<<>>) = {} /\ IsInjective(<<>>)
BY DEF ToSet, IsInjective

\* Appending an event to a list that does not hold it.
LEMMA AppendedList ==
  ASSUME NEW s \in Seq(Event), NEW e \in Event
  PROVE  /\ Append(s, e) \in Seq(Event) /\ Len(Append(s, e)) = Len(s) + 1
         /\ ToSet(Append(s, e)) = ToSet(s) \cup {e}
         /\ IsInjective(s) /\ e \notin ToSet(s) => IsInjective(Append(s, e))
<1> DEFINE t == Append(s, e)
<1>1. t \in Seq(Event) /\ Len(t) = Len(s) + 1 /\ Len(s) \in Nat
  OBVIOUS
<1>2. /\ DOMAIN t = 1..(Len(s) + 1) /\ DOMAIN s = 1..Len(s)
      /\ \A i \in 1..Len(s) : t[i] = s[i]
      /\ t[Len(s) + 1] = e
  OBVIOUS
<1> HIDE DEF t
<1>3. ToSet(t) = ToSet(s) \cup {e}
  <2>1. ASSUME NEW i \in DOMAIN t PROVE t[i] \in ToSet(s) \cup {e}
    <3>1. CASE i = Len(s) + 1
      BY <3>1, <1>2
    <3>2. CASE i \in 1..Len(s)
      BY <3>2, <1>2 DEF ToSet
    <3> QED
      BY <3>1, <3>2, <1>1, <1>2
  <2>2. e \in ToSet(t)
    BY <1>1, <1>2 DEF ToSet
  <2>3. ASSUME NEW i \in DOMAIN s PROVE s[i] \in ToSet(t)
    <3>1. i \in DOMAIN t /\ t[i] = s[i]
      BY <1>1, <1>2
    <3> QED
      BY <3>1 DEF ToSet
  <2> QED
    BY <2>1, <2>2, <2>3 DEF ToSet
<1>4. ASSUME IsInjective(s), e \notin ToSet(s) PROVE IsInjective(t)
  <2>1. ASSUME NEW a \in DOMAIN t, NEW b \in DOMAIN t, t[a] = t[b] PROVE a = b
    <3>1. \A i \in DOMAIN s : s[i] # e
      BY <1>4 DEF ToSet
    <3>2. CASE a = Len(s) + 1 \/ b = Len(s) + 1
      BY <3>1, <3>2, <2>1, <1>1, <1>2
    <3>3. CASE a \in DOMAIN s /\ b \in DOMAIN s
      BY <3>3, <2>1, <1>2, <1>4 DEF IsInjective
    <3> QED
      BY <3>2, <3>3, <1>1, <1>2
  <2> QED
    BY <2>1 DEF IsInjective
<1> QED
  BY <1>1, <1>3, <1>4 DEF t

\* Splitting a list after n events: nothing is lost, and nothing is in both parts.
LEMMA SplitList ==
  ASSUME NEW s \in Seq(Event), NEW n \in 0..Len(s)
  PROVE  LET front == SubSeq(s, 1, n)
             rest  == SubSeq(s, n + 1, Len(s))
         IN /\ front \in Seq(Event) /\ rest \in Seq(Event)
            /\ ToSet(s) = ToSet(front) \cup ToSet(rest)
            /\ IsInjective(s) => IsInjective(rest) /\ ToSet(front) \cap ToSet(rest) = {}
<1> DEFINE front == SubSeq(s, 1, n)
           rest  == SubSeq(s, n + 1, Len(s))
<1>1. Len(s) \in Nat /\ n \in Nat /\ n <= Len(s) /\ DOMAIN s = 1..Len(s)
  OBVIOUS
<1>2. /\ front \in Seq(Event) /\ DOMAIN front = 1..n
      /\ \A i \in 1..n : front[i] = s[i]
  BY <1>1, SubSeqProperties
<1>3. /\ rest \in Seq(Event) /\ DOMAIN rest = 1..(Len(s) - n)
      /\ \A i \in 1..(Len(s) - n) : rest[i] = s[n + i]
  <2>1. CASE ~(n < Len(s))
    BY <2>1, <1>1, SubSeqProperties
  <2>2. CASE n < Len(s)
    BY <2>2, <1>1, SubSeqProperties
  <2> QED
    BY <2>1, <2>2, Zenon
<1> HIDE DEF front, rest
<1>4. ToSet(s) = ToSet(front) \cup ToSet(rest)
  <2>1. ASSUME NEW i \in DOMAIN s PROVE s[i] \in ToSet(front) \cup ToSet(rest)
    <3>1. CASE i <= n
      BY <3>1, <1>1, <1>2 DEF ToSet
    <3>2. CASE i > n
      <4>1. i - n \in DOMAIN rest /\ rest[i - n] = s[i]
        BY <3>2, <1>1, <1>3
      <4> QED
        BY <4>1 DEF ToSet
    <3> QED
      BY <3>1, <3>2, <1>1
  <2>2. ASSUME NEW i \in DOMAIN front PROVE front[i] \in ToSet(s)
    BY <1>1, <1>2 DEF ToSet
  <2>3. ASSUME NEW i \in DOMAIN rest PROVE rest[i] \in ToSet(s)
    <3>1. n + i \in DOMAIN s /\ rest[i] = s[n + i]
      BY <1>1, <1>3
    <3> QED
      BY <3>1 DEF ToSet
  <2> QED
    BY <2>1, <2>2, <2>3 DEF ToSet
<1>5. ASSUME IsInjective(s) PROVE IsInjective(rest) /\ ToSet(front) \cap ToSet(rest) = {}
  <2>1. ASSUME NEW a \in DOMAIN rest, NEW b \in DOMAIN rest, rest[a] = rest[b] PROVE a = b
    <3>1. n + a \in DOMAIN s /\ n + b \in DOMAIN s /\ s[n + a] = s[n + b]
      BY <2>1, <1>1, <1>3
    <3>2. n + a = n + b
      BY <3>1, <1>5 DEF IsInjective
    <3> QED
      BY <3>2, <1>1, <1>3
  <2>2. ASSUME NEW a \in DOMAIN front, NEW b \in DOMAIN rest PROVE front[a] # rest[b]
    <3>1. n + b \in DOMAIN s /\ a \in DOMAIN s /\ a # n + b
      BY <1>1, <1>2, <1>3
    <3>2. s[a] # s[n + b]
      BY <3>1, <1>5 DEF IsInjective
    <3> QED
      BY <3>2, <1>2, <1>3
  <2> QED
    BY <2>1, <2>2 DEF IsInjective, ToSet
<1> QED
  BY <1>2, <1>3, <1>4, <1>5 DEF front, rest

-----------------------------------------------------------------------------
(* Types. *)

Job == [pc : {"idle", "pack", "send"}, whole : Seq(Event), sub : SUBSET Event,
        dest : Host, try : {0, 1}]
BatchRecord == [events : Seq(Event), age : 0..BatchTimeout]

\* Every step keeps the types.  That what is settled is a finite set, which makes
\* its number a number, is the hypothesis the invariant below discharges.
LEMMA TypeStep ==
  ASSUME TypeOK, [Next]_vars, queued' \in Int
  PROVE  TypeOK'
<1> USE EventAssumption, BatchAssumption
<1> DEFINE Nil == <<>>
<1>0. Nil \in Seq(Event)
  OBVIOUS
<1> HIDE DEF Nil
<1>1. ASSUME NEW e \in Event, EnqueueEvent(e) PROVE TypeOK'
  <2> DEFINE h == host[e]
             events == Append(batches[h].events, e)
  <2>1. /\ h \in Host /\ batches[h] \in BatchRecord /\ batches[h].events \in Seq(Event)
        /\ batches[h].age \in 0..BatchTimeout
    BY DEF TypeOK, BatchRecord
  <2>2. events \in Seq(Event) /\ Len(events) \in Nat
    BY <2>1
  <2>3. EmptyBatch \in BatchRecord /\ EmptyBatch.events = <<>> /\ Len(EmptyBatch.events) = 0
    BY DEF EmptyBatch, BatchRecord
  <2> DEFINE new == IF Len(events) >= MaxBatchSize THEN EmptyBatch
                    ELSE [events |-> events,
                          age |-> IF batches[h].events = <<>> THEN 0 ELSE batches[h].age]
  <2>4. new \in BatchRecord /\ Len(new.events) < MaxBatchSize
    BY <2>1, <2>2, <2>3 DEF BatchRecord
  <2>5. batches' = [batches EXCEPT ![h] = new]
    BY <1>1 DEF EnqueueEvent
  <2> HIDE DEF new, events
  <2>6. /\ batches' \in [Host -> BatchRecord]
        /\ \A g \in Host : Len(batches'[g].events) < MaxBatchSize
    BY <2>1, <2>4, <2>5 DEF TypeOK, BatchRecord
  <2>7. handed' \in [Event -> Seq(Event)]
    <3> DEFINE list == IF Len(events) >= MaxBatchSize THEN events ELSE <<>>
    <3>1. handed' = [handed EXCEPT ![e] = list]
      BY <1>1 DEF EnqueueEvent, events
    <3>2. list \in Seq(Event)
      BY <2>2
    <3> HIDE DEF list
    <3> QED
      BY <3>1, <3>2 DEF TypeOK
  <2>8. caller' \in [Event -> {"idle", "dispatch", "count", "done"}]
    BY <1>1 DEF EnqueueEvent, TypeOK
  <2> QED
    BY <2>6, <2>7, <2>8, <1>1 DEF EnqueueEvent, TypeOK, BatchRecord
<1>2. ASSUME NEW events \in Seq(Event) PROVE Packing(events) \in Job /\ IdleJob \in Job
  BY DEF Packing, IdleJob, Job
<1>3. ASSUME NEW e \in Event, NEW j \in Slot, DispatchFull(e, j) PROVE TypeOK'
  <2>1. handed[e] \in Seq(Event)
    BY DEF TypeOK
  <2>2. job' \in [Slot -> Job]
    BY <2>1, <1>2, <1>3 DEF DispatchFull, TypeOK, Job
  <2>3. handed' \in [Event -> Seq(Event)]
    <3>1. handed' = [handed EXCEPT ![e] = Nil]
      BY <1>3 DEF DispatchFull, Nil
    <3> QED
      BY <3>1, <1>0 DEF TypeOK
  <2> QED
    BY <2>2, <2>3, <1>3 DEF DispatchFull, TypeOK, Job
<1>4. ASSUME NEW e \in Event, CountUp(e) PROVE TypeOK'
  BY <1>4 DEF CountUp, TypeOK
<1>5. ASSUME NEW e \in Event, ForwardProbe(e) PROVE TypeOK'
  BY <1>5 DEF ForwardProbe, TypeOK
<1>6. EmptyBatch \in BatchRecord /\ EmptyBatch.events = <<>> /\ Len(<<>>) = 0
  BY DEF EmptyBatch, BatchRecord
<1>7. ASSUME NEW h \in Host, batches' = [batches EXCEPT ![h] = EmptyBatch]
      PROVE  /\ batches' \in [Host -> BatchRecord]
             /\ \A g \in Host : Len(batches'[g].events) < MaxBatchSize
  BY <1>6, <1>7 DEF TypeOK, BatchRecord
<1>8. ASSUME NEW h \in Host, TakeStale(h) PROVE TypeOK'
  BY <1>8, <1>7 DEF TakeStale, TypeOK, BatchRecord
<1>9. ASSUME NEW j \in Slot, DispatchStale(j) PROVE TypeOK'
  <2>1. stale \in Seq(Event)
    BY DEF TypeOK
  <2>2. job' \in [Slot -> Job]
    BY <2>1, <1>2, <1>9 DEF DispatchStale, TypeOK, Job
  <2>3. stale' \in Seq(Event)
    BY <1>9, <1>0 DEF DispatchStale, Nil
  <2> QED
    BY <2>2, <2>3, <1>9 DEF DispatchStale, TypeOK, Job
<1>10. CASE Tick
  <2>1. ASSUME NEW h \in Host
        PROVE  /\ batches'[h] \in BatchRecord /\ batches'[h].events = batches[h].events
    <3>1. batches[h] \in BatchRecord
      BY DEF TypeOK, BatchRecord
    <3>2. CASE batches[h].events # <<>> /\ batches[h].age < BatchTimeout
      <4>1. batches'[h] = [batches[h] EXCEPT !.age = @ + 1]
        BY <3>2, <1>10 DEF Tick
      <4>2. batches[h].age + 1 \in 0..BatchTimeout
        BY <3>1, <3>2 DEF BatchRecord
      <4>3. ASSUME NEW t \in 0..BatchTimeout
            PROVE  /\ [batches[h] EXCEPT !.age = t] \in BatchRecord
                   /\ [batches[h] EXCEPT !.age = t].events = batches[h].events
        BY <3>1 DEF BatchRecord
      <4> QED
        BY <4>1, <4>2, <4>3
    <3>3. CASE ~(batches[h].events # <<>> /\ batches[h].age < BatchTimeout)
      BY <3>1, <3>3, <1>10 DEF Tick
    <3> QED
      BY <3>2, <3>3
  <2>2. batches' = [h \in Host |-> batches'[h]]
    BY <1>10 DEF Tick
  <2>3. /\ batches' \in [Host -> BatchRecord]
        /\ \A g \in Host : Len(batches'[g].events) < MaxBatchSize
    BY <2>1, <2>2 DEF TypeOK
  <2> QED
    BY <2>3, <1>10 DEF Tick, TypeOK, BatchRecord
<1>11. ASSUME NEW S, NEW v \in [Event -> Verdict], Settle(S, v)
       PROVE  fate' \in [Event -> Seq(Verdict)]
  <2>1. ASSUME NEW e \in Event
        PROVE  (IF e \in S THEN Append(fate[e], v[e]) ELSE fate[e]) \in Seq(Verdict)
    BY DEF TypeOK
  <2> QED
    BY <2>1, <1>11 DEF Settle
<1>12. AllFail \in [Event -> Verdict]
  BY DEF AllFail, Verdict
<1>13. ASSUME NEW j \in Slot, Pack(j) PROVE TypeOK'
  <2>1. job[j] \in Job /\ job[j].whole \in Seq(Event) /\ job[j].whole # <<>>
    BY <1>13 DEF TypeOK, Job, Pack
  <2> DEFINE whole == job[j].whole
             dest  == host[whole[1]]
             front(n) == SubSeq(whole, 1, n)
             rest(n)  == SubSeq(whole, n + 1, Len(whole))
             sub(n)   == IF dest \in BadHost THEN {} ELSE Good(front(n))
  <2>2. PICK n \in 0..Len(whole) :
          /\ Settle(ToSet(front(n)) \ sub(n), AllFail)
          /\ job' = [job EXCEPT ![j] =
                       IF sub(n) = {} THEN Packing(rest(n))
                       ELSE [pc |-> "send", whole |-> rest(n), sub |-> sub(n),
                             dest |-> dest, try |-> 0]]
    BY <1>13 DEF Pack
  <2>3. dest \in Host
    <3>1. whole[1] \in Event
      BY <2>1
    <3> QED
      BY <3>1 DEF TypeOK
  <2>4. /\ front(n) \in Seq(Event) /\ rest(n) \in Seq(Event)
        /\ ToSet(whole) = ToSet(front(n)) \cup ToSet(rest(n))
    BY <2>1, SplitList
  <2>5. ToSet(front(n)) \subseteq Event
    BY <2>4 DEF ToSet
  <2>6. sub(n) \subseteq Event
    BY <2>5 DEF Good
  <2> DEFINE next == IF sub(n) = {} THEN Packing(rest(n))
                     ELSE [pc |-> "send", whole |-> rest(n), sub |-> sub(n),
                           dest |-> dest, try |-> 0]
  <2>7. fate' \in [Event -> Seq(Verdict)]
    BY <2>2, <1>11, <1>12
  <2> HIDE DEF whole, dest, front, rest, sub
  <2>8. next \in Job
    BY <2>3, <2>4, <2>6, <1>2 DEF Job
  <2>9. job' = [job EXCEPT ![j] = next]
    BY <2>2
  <2> HIDE DEF next
  <2>10. job' \in [Slot -> Job]
    BY <2>8, <2>9 DEF TypeOK, Job
  <2> QED
    BY <2>7, <2>10, <1>13 DEF Pack, TypeOK, Job
<1>14. ASSUME NEW j \in Slot, Reaches(j) PROVE received' \in [Event -> Seq(Host)]
  <2>1. job[j].dest \in Host
    BY DEF TypeOK
  <2>2. ASSUME NEW e \in Event
        PROVE  (IF e \in job[j].sub THEN Append(received[e], job[j].dest) ELSE received[e])
                 \in Seq(Host)
    BY <2>1 DEF TypeOK
  <2> QED
    BY <2>2, <1>14 DEF Reaches
<1>15. ASSUME NEW j \in Slot, PostAnswered(j) PROVE TypeOK'
  <2>1. PICK A \in SUBSET job[j].sub :
          Settle(job[j].sub, [e \in Event |-> IF e \in A THEN "accepted" ELSE "error"])
    BY <1>15 DEF PostAnswered
  <2>2. [e \in Event |-> IF e \in A THEN "accepted" ELSE "error"] \in [Event -> Verdict]
    BY DEF Verdict
  <2>3. fate' \in [Event -> Seq(Verdict)]
    BY <2>1, <2>2, <1>11
  <2>4. received' \in [Event -> Seq(Host)]
    BY <1>14, <1>15 DEF PostAnswered
  <2>5. job[j].whole \in Seq(Event)
    BY DEF TypeOK
  <2> QED
    BY <2>3, <2>4, <2>5, <1>15, <1>2 DEF PostAnswered, TypeOK, Job
<1>16. ASSUME NEW j \in Slot, PostFailed(j) PROVE TypeOK'
  <2>1. fate' \in [Event -> Seq(Verdict)]
    BY <1>16, <1>11, <1>12 DEF PostFailed
  <2>2. received' \in [Event -> Seq(Host)]
    BY <1>14, <1>16 DEF PostFailed, TypeOK
  <2>3. job[j].whole \in Seq(Event)
    BY DEF TypeOK
  <2> QED
    BY <2>1, <2>2, <2>3, <1>16, <1>2 DEF PostFailed, TypeOK, Job
<1>17. ASSUME NEW j \in Slot, PostRetried(j) PROVE TypeOK'
  <2>1. received' \in [Event -> Seq(Host)]
    BY <1>14, <1>17 DEF PostRetried, TypeOK
  <2>2. job' \in [Slot -> Job]
    <3>1. job[j] \in Job /\ job[j].try + 1 < 2 /\ job' = [job EXCEPT ![j].try = @ + 1]
      BY <1>17 DEF PostRetried, CanRetry, TypeOK, Job
    <3>2. [job[j] EXCEPT !.try = @ + 1] \in Job
      <4>1. job[j].try + 1 \in {0, 1}
        BY <3>1 DEF Job
      <4>2. ASSUME NEW t \in {0, 1} PROVE [job[j] EXCEPT !.try = t] \in Job
        BY <3>1 DEF Job
      <4> QED
        BY <4>1, <4>2
    <3>3. job' = [job EXCEPT ![j] = [job[j] EXCEPT !.try = @ + 1]]
      BY <3>1
    <3> QED
      BY <3>2, <3>3 DEF TypeOK, Job
  <2> QED
    BY <2>1, <2>2, <1>17 DEF PostRetried, TypeOK, Job
<1>18. ASSUME NEW j \in Slot, SendBatchReturns(j) PROVE TypeOK'
  <2>1. IdleJob \in Job
    BY DEF IdleJob, Job
  <2> QED
    BY <2>1, <1>18 DEF SendBatchReturns, TypeOK, Job
<1>19. ASSUME NEW h \in Host, NEW j \in Slot, StopFlush(h, j) PROVE TypeOK'
  <2>1. batches[h].events \in Seq(Event)
    BY DEF TypeOK
  <2>2. job' \in [Slot -> Job]
    BY <2>1, <1>2, <1>19 DEF StopFlush, TypeOK, Job
  <2> QED
    BY <2>2, <1>19, <1>7 DEF StopFlush, TypeOK, Job, BatchRecord
<1>20. CASE StopBegins \/ StopDispatcher \/ StopWaits \/ StopReturns
  BY <1>20 DEF StopBegins, StopDispatcher, StopWaits, StopReturns, TypeOK
<1>21. CASE UNCHANGED vars
  BY <1>21 DEF vars, TypeOK
<1> QED
  BY <1>1, <1>3, <1>4, <1>5, <1>8, <1>9, <1>10, <1>13, <1>15, <1>16, <1>17, <1>18, <1>19, <1>20,
     <1>21, Zenon DEF Next, SendBatch

-----------------------------------------------------------------------------
(* The inductive invariant. *)

\* What is held where: a caller only while it waits for a goroutine, and a
\* goroutine only while it sends.
Holding ==
  /\ \A c \in Event : caller[c] # "dispatch" => handed[c] = <<>>
  /\ \A j \in Slot : /\ job[j].pc = "idle" => job[j].whole = <<>>
                     /\ job[j].pc # "send" => job[j].sub = {}

\* The life of an event: not enqueued, in one list, in one request, settled.
Fresh(e) == /\ caller[e] = "idle" /\ Listed(e) = {} /\ Posted(e) = {}
            /\ fate[e] = <<>> /\ received[e] = <<>>
Queued(e) == /\ caller[e] # "idle" /\ (\E x \in Place : Listed(e) = {x}) /\ Posted(e) = {}
             /\ fate[e] = <<>> /\ received[e] = <<>>
Sending(e) == /\ caller[e] # "idle" /\ Listed(e) = {} /\ fate[e] = <<>>
              /\ \E j \in Slot : Posted(e) = {j} /\ Len(received[e]) <= job[j].try
Settled(e) == /\ caller[e] # "idle" /\ Listed(e) = {} /\ Posted(e) = {}
              /\ Len(received[e]) <= 2
              /\ \E v \in Verdict : fate[e] = <<v>> /\ (v = "accepted" => received[e] # <<>>)
Stage(e) == Fresh(e) \/ Queued(e) \/ Sending(e) \/ Settled(e)

Staged == (\A x \in Place : IsInjective(ListAt(x))) /\ (\A e \in Event : Stage(e))

\* The counter of queued items, over sets that stay finite.
Enqueued == {e \in Event : caller[e] # "idle"}
Counted == {e \in Event : caller[e] = "done"}
Accounted == {e \in Event : fate[e] # <<>>}
Counting == IsFiniteSet(Enqueued) /\ QueuedItemsExact

\* Stop: the callers have gone, then the stale batch, then the batches, then the
\* goroutines.
Stopping ==
  /\ stop # "no" => \A e \in Event : caller[e] \in {"idle", "done"}
  /\ stop \in {"flush", "wait", "stopped"} => stale = <<>>
  /\ stop \in {"wait", "stopped"} => \A h \in Host : batches[h].events = <<>>
  /\ stop = "stopped" => \A j \in Slot : job[j].pc = "idle"

IInv == TypeOK /\ Holding /\ Staged /\ Counting /\ Stopping

-----------------------------------------------------------------------------
(* Places. *)

HandedBy(c) == <<"handed", c>>
BatchFor(h) == <<"batch", h>>
WholeOf(j) == <<"whole", j>>
StaleBatch == <<"stale", Peer>>

\* Every list is at its place, before and after a step.
LEMMA ListsAtPlaces ==
  /\ \A c \in Event : HandedBy(c) \in Place /\ ListAt(HandedBy(c)) = handed[c]
                       /\ ListAt(HandedBy(c))' = handed'[c]
  /\ \A h \in Host : BatchFor(h) \in Place /\ ListAt(BatchFor(h)) = batches[h].events
                      /\ ListAt(BatchFor(h))' = batches'[h].events
  /\ \A j \in Slot : WholeOf(j) \in Place /\ ListAt(WholeOf(j)) = job[j].whole
                      /\ ListAt(WholeOf(j))' = job'[j].whole
  /\ StaleBatch \in Place /\ ListAt(StaleBatch) = stale /\ ListAt(StaleBatch)' = stale'
<1>1. ASSUME NEW c \in Event
      PROVE  HandedBy(c) \in Place /\ ListAt(HandedBy(c)) = handed[c]
             /\ ListAt(HandedBy(c))' = handed'[c]
  BY DEF HandedBy, Place, ListAt
<1>2. ASSUME NEW h \in Host
      PROVE  BatchFor(h) \in Place /\ ListAt(BatchFor(h)) = batches[h].events
             /\ ListAt(BatchFor(h))' = batches'[h].events
  BY DEF BatchFor, Place, ListAt
<1>3. ASSUME NEW j \in Slot
      PROVE  WholeOf(j) \in Place /\ ListAt(WholeOf(j)) = job[j].whole
             /\ ListAt(WholeOf(j))' = job'[j].whole
  BY DEF WholeOf, Place, ListAt
<1>4. StaleBatch \in Place /\ ListAt(StaleBatch) = stale /\ ListAt(StaleBatch)' = stale'
  BY DEF StaleBatch, Place, ListAt
<1> QED
  BY <1>1, <1>2, <1>3, <1>4

\* There are four kinds of places.
LEMMA PlaceKinds ==
  ASSUME NEW x \in Place
  PROVE  \/ \E c \in Event : x = HandedBy(c)
         \/ \E h \in Host : x = BatchFor(h)
         \/ \E j \in Slot : x = WholeOf(j)
         \/ x = StaleBatch
BY DEF Place, HandedBy, BatchFor, WholeOf, StaleBatch

\* Different lists have different places.
LEMMA PlacesDiffer ==
  ASSUME NEW c, NEW d
  PROVE  /\ HandedBy(c) = HandedBy(d) => c = d
         /\ BatchFor(c) = BatchFor(d) => c = d
         /\ WholeOf(c) = WholeOf(d) => c = d
         /\ HandedBy(c) # BatchFor(d) /\ HandedBy(c) # WholeOf(d) /\ BatchFor(c) # WholeOf(d)
         /\ HandedBy(c) # StaleBatch /\ BatchFor(c) # StaleBatch /\ WholeOf(c) # StaleBatch
<1>1. /\ HandedBy(c) = HandedBy(d) => c = d
      /\ BatchFor(c) = BatchFor(d) => c = d
      /\ WholeOf(c) = WholeOf(d) => c = d
  BY DEF HandedBy, BatchFor, WholeOf
<1>2. /\ HandedBy(c) # BatchFor(d) /\ HandedBy(c) # WholeOf(d) /\ BatchFor(c) # WholeOf(d)
      /\ HandedBy(c) # StaleBatch /\ BatchFor(c) # StaleBatch /\ WholeOf(c) # StaleBatch
  BY DEF HandedBy, BatchFor, WholeOf, StaleBatch
<1> QED
  BY <1>1, <1>2

-----------------------------------------------------------------------------
(* What the actions do to the lists. *)

\* The list at x is now at y.
Moved(x, y) ==
  /\ x \in Place /\ y \in Place /\ x # y
  /\ ListAt(y) = <<>> /\ ListAt(y)' = ListAt(x) /\ ListAt(x)' = <<>>
  /\ \A z \in Place \ {x, y} : ListAt(z)' = ListAt(z)

\* The list at x, with e at its end, is now at y, which may be x.
Added(e, x, y) ==
  /\ x \in Place /\ y \in Place
  /\ ListAt(y)' = Append(ListAt(x), e)
  /\ x # y => ListAt(y) = <<>> /\ ListAt(x)' = <<>>
  /\ \A z \in Place \ {x, y} : ListAt(z)' = ListAt(z)

\* The first n events have left the list at x.
Shortened(x, n) ==
  /\ x \in Place /\ n \in 0..Len(ListAt(x))
  /\ ListAt(x)' = SubSeq(ListAt(x), n + 1, Len(ListAt(x)))
  /\ \A z \in Place \ {x} : ListAt(z)' = ListAt(z)

ListsKept == \A z \in Place : ListAt(z)' = ListAt(z)

\* Nothing else changes for any event.
OutsideKept ==
  /\ fate' = fate /\ received' = received
  /\ \A e \in Event : caller'[e] = "idle" <=> caller[e] = "idle"
  /\ \A j \in Slot : job'[j].sub = job[j].sub /\ (job[j].sub # {} => job'[j].try = job[j].try)

\* EnqueueEvent hands a full batch to a goroutine of the pool.
LEMMA DispatchFullMoves ==
  ASSUME TypeOK, Holding, NEW e \in Event, NEW j \in Slot, DispatchFull(e, j)
  PROVE  Moved(HandedBy(e), WholeOf(j)) /\ OutsideKept /\ Holding'
<1>1. /\ caller[e] = "dispatch" /\ job[j].pc = "idle"
      /\ job' = [job EXCEPT ![j] = Packing(handed[e])]
      /\ handed' = [handed EXCEPT ![e] = <<>>]
      /\ caller' = [caller EXCEPT ![e] = "count"]
      /\ UNCHANGED <<host, batches, stale, queued, received, fate, stop>>
  BY DEF DispatchFull
<1>2. /\ DOMAIN job = Slot /\ DOMAIN handed = Event /\ DOMAIN caller = Event
      /\ job[j].whole = <<>> /\ job[j].sub = {}
  BY <1>1 DEF TypeOK, Holding
<1>3. /\ job'[j] = Packing(handed[e]) /\ \A k \in Slot \ {j} : job'[k] = job[k]
      /\ handed'[e] = <<>> /\ \A c \in Event \ {e} : handed'[c] = handed[c]
      /\ caller'[e] = "count" /\ \A c \in Event \ {e} : caller'[c] = caller[c]
  BY <1>1, <1>2
<1>4. Packing(handed[e]).whole = handed[e] /\ Packing(handed[e]).sub = {}
      /\ Packing(handed[e]).pc = "pack"
  BY DEF Packing
<1>5. ASSUME NEW z \in Place \ {HandedBy(e), WholeOf(j)} PROVE ListAt(z)' = ListAt(z)
  <2>1. CASE \E c \in Event : z = HandedBy(c)
    BY <2>1, <1>3, <1>5, ListsAtPlaces
  <2>2. CASE \E k \in Slot : z = WholeOf(k)
    BY <2>2, <1>3, <1>5, ListsAtPlaces
  <2>3. CASE (\E h \in Host : z = BatchFor(h)) \/ z = StaleBatch
    BY <2>3, <1>1, ListsAtPlaces
  <2> QED
    BY <2>1, <2>2, <2>3, PlaceKinds
<1>6. Moved(HandedBy(e), WholeOf(j))
  <2>1. HandedBy(e) \in Place /\ WholeOf(j) \in Place /\ HandedBy(e) # WholeOf(j)
    BY ListsAtPlaces, PlacesDiffer
  <2>2. /\ ListAt(WholeOf(j)) = <<>> /\ ListAt(WholeOf(j))' = ListAt(HandedBy(e))
        /\ ListAt(HandedBy(e))' = <<>>
    BY <1>2, <1>3, <1>4, ListsAtPlaces
  <2> QED
    BY <2>1, <2>2, <1>5 DEF Moved
<1>7. OutsideKept
  BY <1>1, <1>2, <1>3, <1>4 DEF OutsideKept
<1>8. Holding'
  BY <1>1, <1>3, <1>4 DEF Holding
<1> QED
  BY <1>6, <1>7, <1>8

\* dispatchStaleBatches takes the batch of a destination.
LEMMA TakeStaleMoves ==
  ASSUME TypeOK, Holding, NEW h \in Host, TakeStale(h)
  PROVE  Moved(BatchFor(h), StaleBatch) /\ OutsideKept /\ Holding'
<1>1. /\ stale = <<>> /\ stale' = batches[h].events
      /\ batches' = [batches EXCEPT ![h] = EmptyBatch]
      /\ UNCHANGED <<caller, handed, host, job, queued, received, fate, stop>>
  BY DEF TakeStale
<1>2. /\ batches'[h] = EmptyBatch /\ \A g \in Host \ {h} : batches'[g] = batches[g]
      /\ EmptyBatch.events = <<>>
  BY <1>1 DEF TypeOK, EmptyBatch
<1>3. ASSUME NEW z \in Place \ {BatchFor(h), StaleBatch} PROVE ListAt(z)' = ListAt(z)
  <2>1. CASE (\E c \in Event : z = HandedBy(c)) \/ (\E k \in Slot : z = WholeOf(k))
    BY <2>1, <1>1, ListsAtPlaces
  <2>2. CASE \E g \in Host : z = BatchFor(g)
    BY <2>2, <1>2, <1>3, ListsAtPlaces
  <2> QED
    BY <2>1, <2>2, <1>3, PlaceKinds
<1>4. Moved(BatchFor(h), StaleBatch)
  <2>1. BatchFor(h) \in Place /\ StaleBatch \in Place /\ BatchFor(h) # StaleBatch
    BY ListsAtPlaces, PlacesDiffer
  <2>2. /\ ListAt(StaleBatch) = <<>> /\ ListAt(StaleBatch)' = ListAt(BatchFor(h))
        /\ ListAt(BatchFor(h))' = <<>>
    BY <1>1, <1>2, ListsAtPlaces
  <2> QED
    BY <2>1, <2>2, <1>3 DEF Moved
<1>5. OutsideKept /\ Holding'
  BY <1>1 DEF OutsideKept, Holding
<1> QED
  BY <1>4, <1>5

\* ... and hands it to a goroutine of the pool.
LEMMA DispatchStaleMoves ==
  ASSUME TypeOK, Holding, NEW j \in Slot, DispatchStale(j)
  PROVE  Moved(StaleBatch, WholeOf(j)) /\ OutsideKept /\ Holding'
<1>1. /\ job[j].pc = "idle" /\ job' = [job EXCEPT ![j] = Packing(stale)] /\ stale' = <<>>
      /\ UNCHANGED <<caller, handed, host, batches, queued, received, fate, stop>>
  BY DEF DispatchStale
<1>2. /\ job'[j] = Packing(stale) /\ \A k \in Slot \ {j} : job'[k] = job[k]
      /\ job[j].whole = <<>> /\ job[j].sub = {}
  BY <1>1 DEF TypeOK, Holding
<1>3. Packing(stale).whole = stale /\ Packing(stale).sub = {} /\ Packing(stale).pc = "pack"
  BY DEF Packing
<1>4. ASSUME NEW z \in Place \ {StaleBatch, WholeOf(j)} PROVE ListAt(z)' = ListAt(z)
  <2>1. CASE (\E c \in Event : z = HandedBy(c)) \/ (\E g \in Host : z = BatchFor(g))
    BY <2>1, <1>1, ListsAtPlaces
  <2>2. CASE \E k \in Slot : z = WholeOf(k)
    BY <2>2, <1>2, <1>4, ListsAtPlaces
  <2> QED
    BY <2>1, <2>2, <1>4, PlaceKinds
<1>5. Moved(StaleBatch, WholeOf(j))
  <2>1. StaleBatch \in Place /\ WholeOf(j) \in Place /\ StaleBatch # WholeOf(j)
    BY ListsAtPlaces, PlacesDiffer
  <2>2. /\ ListAt(WholeOf(j)) = <<>> /\ ListAt(WholeOf(j))' = ListAt(StaleBatch)
        /\ ListAt(StaleBatch)' = <<>>
    BY <1>1, <1>2, <1>3, ListsAtPlaces
  <2> QED
    BY <2>1, <2>2, <1>4 DEF Moved
<1>6. OutsideKept
  BY <1>1, <1>2, <1>3 DEF OutsideKept
<1>7. Holding'
  BY <1>1, <1>2, <1>3 DEF Holding
<1> QED
  BY <1>5, <1>6, <1>7

\* Stop hands the batch of a destination to a goroutine of the pool.
LEMMA StopFlushMoves ==
  ASSUME TypeOK, Holding, NEW h \in Host, NEW j \in Slot, StopFlush(h, j)
  PROVE  Moved(BatchFor(h), WholeOf(j)) /\ OutsideKept /\ Holding'
<1> DEFINE events == batches[h].events
<1>1. /\ job[j].pc = "idle" /\ job' = [job EXCEPT ![j] = Packing(events)]
      /\ batches' = [batches EXCEPT ![h] = EmptyBatch]
      /\ UNCHANGED <<caller, handed, host, stale, queued, received, fate, stop>>
  BY DEF StopFlush
<1>2. /\ job'[j] = Packing(events) /\ \A k \in Slot \ {j} : job'[k] = job[k]
      /\ job[j].whole = <<>> /\ job[j].sub = {}
      /\ batches'[h] = EmptyBatch /\ \A g \in Host \ {h} : batches'[g] = batches[g]
      /\ EmptyBatch.events = <<>>
  BY <1>1 DEF TypeOK, Holding, EmptyBatch
<1>3. Packing(events).whole = events /\ Packing(events).sub = {} /\ Packing(events).pc = "pack"
  BY DEF Packing
<1>4. ASSUME NEW z \in Place \ {BatchFor(h), WholeOf(j)} PROVE ListAt(z)' = ListAt(z)
  <2>1. CASE (\E c \in Event : z = HandedBy(c)) \/ z = StaleBatch
    BY <2>1, <1>1, ListsAtPlaces
  <2>2. CASE \E k \in Slot : z = WholeOf(k)
    BY <2>2, <1>2, <1>4, ListsAtPlaces
  <2>3. CASE \E g \in Host : z = BatchFor(g)
    BY <2>3, <1>2, <1>4, ListsAtPlaces
  <2> QED
    BY <2>1, <2>2, <2>3, <1>4, PlaceKinds
<1>5. Moved(BatchFor(h), WholeOf(j))
  <2>1. BatchFor(h) \in Place /\ WholeOf(j) \in Place /\ BatchFor(h) # WholeOf(j)
    BY ListsAtPlaces, PlacesDiffer
  <2>2. /\ ListAt(WholeOf(j)) = <<>> /\ ListAt(WholeOf(j))' = ListAt(BatchFor(h))
        /\ ListAt(BatchFor(h))' = <<>>
    BY <1>1, <1>2, <1>3, ListsAtPlaces
  <2> QED
    BY <2>1, <2>2, <1>4 DEF Moved
<1>6. OutsideKept
  BY <1>1, <1>2, <1>3 DEF OutsideKept
<1>7. Holding'
  BY <1>1, <1>2, <1>3 DEF Holding
<1> QED
  BY <1>5, <1>6, <1>7

\* EnqueueEvent adds its event to the batch, and takes the batch that is full.
LEMMA EnqueueEventAdds ==
  ASSUME TypeOK, Holding, NEW e \in Event, EnqueueEvent(e)
  PROVE  /\ \E x, y \in Place : Added(e, x, y)
         /\ caller[e] = "idle" /\ caller'[e] # "idle"
         /\ \A c \in Event \ {e} : caller'[c] = caller[c]
         /\ fate' = fate /\ received' = received /\ job' = job /\ Holding'
<1>0. PICK h \in Host : h = host[e]
  BY DEF TypeOK
<1> DEFINE events == Append(batches[h].events, e)
           full   == Len(events) >= MaxBatchSize
<1>1. /\ caller[e] = "idle"
      /\ handed' = [handed EXCEPT ![e] = IF full THEN events ELSE <<>>]
      /\ caller' = [caller EXCEPT ![e] = IF full THEN "dispatch" ELSE "count"]
      /\ UNCHANGED <<host, stale, job, queued, received, fate, stop>>
  BY <1>0 DEF EnqueueEvent
<1>2. h \in Host /\ DOMAIN batches = Host /\ DOMAIN handed = Event /\ DOMAIN caller = Event
  BY DEF TypeOK
<1>3. /\ batches'[h].events = (IF full THEN <<>> ELSE events)
      /\ \A g \in Host \ {h} : batches'[g] = batches[g]
  BY <1>0, <1>2 DEF EnqueueEvent, EmptyBatch
<1> HIDE DEF events, full
<1>4. /\ handed'[e] = (IF full THEN events ELSE <<>>) /\ handed[e] = <<>>
      /\ \A c \in Event \ {e} : handed'[c] = handed[c]
      /\ caller'[e] = (IF full THEN "dispatch" ELSE "count")
      /\ \A c \in Event \ {e} : caller'[c] = caller[c]
  BY <1>1, <1>2 DEF Holding
<1>5. events = Append(ListAt(BatchFor(h)), e)
  BY <1>2, ListsAtPlaces DEF events
<1>6. ASSUME NEW z \in Place \ {BatchFor(h), HandedBy(e)} PROVE ListAt(z)' = ListAt(z)
  <2>1. CASE (\E k \in Slot : z = WholeOf(k)) \/ z = StaleBatch
    BY <2>1, <1>1, ListsAtPlaces
  <2>2. CASE \E c \in Event : z = HandedBy(c)
    BY <2>2, <1>4, <1>6, ListsAtPlaces
  <2>3. CASE \E g \in Host : z = BatchFor(g)
    BY <2>3, <1>3, <1>6, ListsAtPlaces
  <2> QED
    BY <2>1, <2>2, <2>3, <1>6, PlaceKinds
<1>7. HandedBy(e) \in Place /\ BatchFor(h) \in Place /\ HandedBy(e) # BatchFor(h)
  BY <1>2, ListsAtPlaces, PlacesDiffer
<1>8. CASE full
  <2>1. /\ ListAt(HandedBy(e)) = <<>> /\ ListAt(HandedBy(e))' = Append(ListAt(BatchFor(h)), e)
        /\ ListAt(BatchFor(h))' = <<>>
    BY <1>2, <1>3, <1>4, <1>5, <1>8, ListsAtPlaces
  <2>2. Added(e, BatchFor(h), HandedBy(e))
    BY <2>1, <1>6, <1>7 DEF Added
  <2>3. Holding'
    BY <1>1, <1>4, <1>8 DEF Holding
  <2>4. \E x, y \in Place : Added(e, x, y)
    BY <2>2, <1>7, Zenon
  <2>5. caller'[e] # "idle"
    BY <1>4, <1>8
  <2> QED
    BY <2>3, <2>4, <2>5, <1>1, <1>4
<1>9. CASE ~full
  <2>1. /\ ListAt(HandedBy(e))' = ListAt(HandedBy(e))
        /\ ListAt(BatchFor(h))' = Append(ListAt(BatchFor(h)), e)
    BY <1>2, <1>3, <1>4, <1>5, <1>9, ListsAtPlaces
  <2>2. Added(e, BatchFor(h), BatchFor(h))
    BY <2>1, <1>6, <1>7 DEF Added
  <2>3. Holding'
    BY <1>1, <1>4, <1>9 DEF Holding
  <2>4. \E x, y \in Place : Added(e, x, y)
    BY <2>2, <1>7, Zenon
  <2>5. caller'[e] # "idle"
    BY <1>4, <1>9
  <2> QED
    BY <2>3, <2>4, <2>5, <1>1, <1>4
<1> QED
  BY <1>8, <1>9

\* The goroutine j packs n events: B of them are its request, the others settled.
PackedAs(j, n, B) ==
  /\ Shortened(WholeOf(j), n) /\ B \subseteq ToSet(SubSeq(job[j].whole, 1, n))
  /\ job[j].sub = {} /\ job'[j].sub = B /\ job'[j].try = 0
  /\ \A k \in Slot \ {j} : job'[k] = job[k]
  /\ Settle(ToSet(SubSeq(job[j].whole, 1, n)) \ B, AllFail)
  /\ caller' = caller /\ received' = received

\* sendBatch, one turn up to the request.
LEMMA PackSplits ==
  ASSUME TypeOK, Holding, NEW j \in Slot, Pack(j)
  PROVE  (\E n \in Nat, B \in SUBSET Event : PackedAs(j, n, B)) /\ Holding'
<1>1. /\ job[j] \in Job /\ job[j].whole \in Seq(Event) /\ job[j].pc = "pack"
      /\ UNCHANGED <<caller, handed, host, batches, stale, received, stop>>
  BY DEF TypeOK, Job, Pack
<1> DEFINE whole == job[j].whole
           dest  == host[whole[1]]
           front(n) == SubSeq(whole, 1, n)
           rest(n)  == SubSeq(whole, n + 1, Len(whole))
           sub(n)   == IF dest \in BadHost THEN {} ELSE Good(front(n))
           next(n)  == IF sub(n) = {} THEN Packing(rest(n))
                       ELSE [pc |-> "send", whole |-> rest(n), sub |-> sub(n),
                             dest |-> dest, try |-> 0]
<1>2. PICK n \in 0..Len(whole) :
        Settle(ToSet(front(n)) \ sub(n), AllFail) /\ job' = [job EXCEPT ![j] = next(n)]
  BY DEF Pack
<1>3. /\ front(n) \in Seq(Event)
      /\ sub(n) \subseteq ToSet(front(n))
  BY <1>1, SplitList DEF Good
<1>4. sub(n) \in SUBSET Event
  BY <1>3 DEF ToSet
<1>5. PICK B \in SUBSET Event : B = sub(n)
  BY <1>4
<1>6. /\ next(n).sub = sub(n) /\ next(n).try = 0 /\ next(n).whole = rest(n)
      /\ next(n).pc # "idle" /\ (next(n).pc # "send" => sub(n) = {})
  BY DEF Packing
<1> HIDE DEF front, rest, sub, next
<1>7. job'[j] = next(n) /\ \A k \in Slot \ {j} : job'[k] = job[k]
  BY <1>2 DEF TypeOK
<1>8. Shortened(WholeOf(j), n)
  <2>1. ListAt(WholeOf(j)) = whole /\ ListAt(WholeOf(j))' = rest(n) /\ WholeOf(j) \in Place
    BY <1>6, <1>7, ListsAtPlaces
  <2>2. ASSUME NEW z \in Place \ {WholeOf(j)} PROVE ListAt(z)' = ListAt(z)
    <3>1. CASE \E k \in Slot : z = WholeOf(k)
      BY <3>1, <2>2, <1>7, ListsAtPlaces
    <3>2. CASE ~(\E k \in Slot : z = WholeOf(k))
      BY <3>2, <1>1, ListsAtPlaces, PlaceKinds
    <3> QED
      BY <3>1, <3>2
  <2> QED
    BY <2>1, <2>2, <1>2 DEF Shortened, rest
<1>9. Holding'
  BY <1>1, <1>6, <1>7 DEF Holding
<1>10. job[j].sub = {}
  BY <1>1 DEF Holding
<1>11. PackedAs(j, n, B)
  <2>1. B \subseteq ToSet(SubSeq(job[j].whole, 1, n))
    BY <1>3, <1>5 DEF front
  <2>2. Settle(ToSet(SubSeq(job[j].whole, 1, n)) \ B, AllFail)
    BY <1>2, <1>5 DEF front
  <2>3. job'[j].sub = B /\ job'[j].try = 0
    BY <1>5, <1>6, <1>7
  <2> QED
    BY <2>1, <2>2, <2>3, <1>1, <1>7, <1>8, <1>10 DEF PackedAs
<1>12. n \in Nat
  BY <1>1, <1>2
<1> QED
  BY <1>9, <1>11, <1>12, Zenon

\* Lists stay when nothing but the requests of the goroutines changes.
LEMMA ListsStay ==
  ASSUME UNCHANGED <<handed, batches, stale>>, \A j \in Slot : job'[j].whole = job[j].whole
  PROVE  ListsKept
<1>1. ASSUME NEW z \in Place PROVE ListAt(z)' = ListAt(z)
  <2>1. CASE \E k \in Slot : z = WholeOf(k)
    BY <2>1, ListsAtPlaces
  <2>2. CASE ~(\E k \in Slot : z = WholeOf(k))
    BY <2>2, ListsAtPlaces, PlaceKinds
  <2> QED
    BY <2>1, <2>2
<1> QED
  BY <1>1 DEF ListsKept

\* The request of j is over and its events are settled by v.
Answered(j, v) ==
  /\ ListsKept /\ Settle(job[j].sub, v) /\ job'[j].sub = {}
  /\ \A k \in Slot \ {j} : job'[k] = job[k]
  /\ Reaches(j) \/ (received' = received /\ \A e \in Event : v[e] = "error")
  /\ caller' = caller

\* sendBatch, the end of a request.
LEMMA PostEnds ==
  ASSUME TypeOK, Holding, NEW j \in Slot, PostAnswered(j) \/ PostFailed(j)
  PROVE  (\E v \in [Event -> Verdict] : Answered(j, v)) /\ Holding'
<1>1. /\ job' = [job EXCEPT ![j] = Packing(job[j].whole)]
      /\ UNCHANGED <<caller, handed, host, batches, stale, stop>>
  BY DEF PostAnswered, PostFailed
<1>2. job'[j] = Packing(job[j].whole) /\ \A k \in Slot \ {j} : job'[k] = job[k]
  BY <1>1 DEF TypeOK
<1>3. /\ Packing(job[j].whole).whole = job[j].whole /\ Packing(job[j].whole).sub = {}
      /\ Packing(job[j].whole).pc = "pack"
  BY DEF Packing
<1>4. ListsKept
  BY <1>1, <1>2, <1>3, ListsStay
<1>5. Holding'
  BY <1>1, <1>2, <1>3 DEF Holding
<1>6. \E v \in [Event -> Verdict] :
        /\ Settle(job[j].sub, v)
        /\ Reaches(j) \/ (received' = received /\ \A e \in Event : v[e] = "error")
  <2>1. CASE PostAnswered(j)
    <3>1. PICK A \in SUBSET job[j].sub :
            Settle(job[j].sub, [e \in Event |-> IF e \in A THEN "accepted" ELSE "error"])
      BY <2>1 DEF PostAnswered
    <3>2. [e \in Event |-> IF e \in A THEN "accepted" ELSE "error"] \in [Event -> Verdict]
      BY DEF Verdict
    <3>3. Reaches(j)
      BY <2>1 DEF PostAnswered
    <3> QED
      BY <3>1, <3>2, <3>3, Zenon
  <2>2. CASE PostFailed(j)
    <3>1. AllFail \in [Event -> Verdict] /\ \A e \in Event : AllFail[e] = "error"
      BY DEF AllFail, Verdict
    <3>2. Settle(job[j].sub, AllFail) /\ (Reaches(j) \/ received' = received)
      BY <2>2 DEF PostFailed
    <3> QED
      BY <3>1, <3>2, Zenon
  <2> QED
    BY <2>1, <2>2
<1>7. PICK v \in [Event -> Verdict] :
        /\ Settle(job[j].sub, v)
        /\ Reaches(j) \/ (received' = received /\ \A e \in Event : v[e] = "error")
  BY <1>6
<1>8. Answered(j, v)
  BY <1>1, <1>2, <1>3, <1>4, <1>7 DEF Answered
<1> QED
  BY <1>5, <1>8, Zenon

\* The request of j is tried once more.
Repeated(j) ==
  /\ ListsKept /\ job[j].try = 0 /\ job'[j].try = 1
  /\ \A k \in Slot : job'[k].sub = job[k].sub /\ (k # j => job'[k] = job[k])
  /\ Reaches(j) \/ received' = received
  /\ caller' = caller /\ fate' = fate /\ queued' = queued

\* sendBatch, a retry.
LEMMA PostRepeats ==
  ASSUME TypeOK, Holding, NEW j \in Slot, PostRetried(j)
  PROVE  Repeated(j) /\ Holding'
<1>1. /\ job' = [job EXCEPT ![j].try = @ + 1] /\ job[j].try + 1 < 2
      /\ UNCHANGED <<caller, handed, host, batches, stale, queued, fate, stop>>
      /\ Reaches(j) \/ received' = received
  BY DEF PostRetried, CanRetry
<1>2. job[j] \in Job /\ job[j].try = 0
  BY <1>1 DEF TypeOK, Job
<1>3. job'[j] = [job[j] EXCEPT !.try = @ + 1] /\ \A k \in Slot \ {j} : job'[k] = job[k]
  BY <1>1 DEF TypeOK
<1>4. /\ job'[j].pc = job[j].pc /\ job'[j].whole = job[j].whole /\ job'[j].sub = job[j].sub
      /\ job'[j].try = 1
  BY <1>2, <1>3 DEF Job
<1>5. \A k \in Slot : /\ job'[k].pc = job[k].pc /\ job'[k].whole = job[k].whole
                      /\ job'[k].sub = job[k].sub
  BY <1>3, <1>4
<1>6. ListsKept
  BY <1>1, <1>5, ListsStay
<1>7. Holding'
  BY <1>1, <1>5 DEF Holding
<1> QED
  BY <1>1, <1>2, <1>3, <1>4, <1>5, <1>6, <1>7 DEF Repeated

\* The other steps leave the events where they are.
Quiet == \/ \E e \in Event : CountUp(e) \/ ForwardProbe(e)
         \/ \E j \in Slot : SendBatchReturns(j)
         \/ StopBegins \/ StopDispatcher \/ StopWaits \/ StopReturns
         \/ Tick \/ UNCHANGED vars

\* Counting, forwarding, ticking, stopping and returning move no event.
LEMMA QuietSteps ==
  ASSUME TypeOK, Holding, Quiet
  PROVE  ListsKept /\ OutsideKept /\ Holding'
<1>1. ASSUME UNCHANGED <<handed, batches, stale, job, received, fate>>,
             \A e \in Event : \/ caller'[e] = caller[e]
                              \/ caller[e] = "count" /\ caller'[e] = "done"
      PROVE  ListsKept /\ OutsideKept /\ Holding'
  <2>1. ListsKept
    BY <1>1, ListsStay
  <2>2. OutsideKept
    BY <1>1 DEF OutsideKept
  <2>3. Holding'
    BY <1>1 DEF Holding
  <2> QED
    BY <2>1, <2>2, <2>3
<1>2. ASSUME NEW e \in Event, CountUp(e) PROVE ListsKept /\ OutsideKept /\ Holding'
  <2>1. \A c \in Event : caller'[c] = caller[c] \/ (caller[c] = "count" /\ caller'[c] = "done")
    BY <1>2 DEF CountUp, TypeOK
  <2> QED
    BY <2>1, <1>1, <1>2 DEF CountUp
<1>3. ASSUME NEW e \in Event, ForwardProbe(e) PROVE ListsKept /\ OutsideKept /\ Holding'
  BY <1>1, <1>3 DEF ForwardProbe
<1>4. CASE StopBegins \/ StopDispatcher \/ StopWaits \/ StopReturns
  BY <1>1, <1>4 DEF StopBegins, StopDispatcher, StopWaits, StopReturns
<1>5. CASE UNCHANGED vars
  BY <1>1, <1>5 DEF vars
<1>6. CASE Tick
  <2>1. /\ UNCHANGED <<caller, handed, stale, job, received, fate>>
        /\ \A h \in Host : batches'[h].events = batches[h].events
    BY <1>6 DEF Tick, TypeOK
  <2>2. ASSUME NEW z \in Place PROVE ListAt(z)' = ListAt(z)
    BY <2>1, ListsAtPlaces, PlaceKinds
  <2> QED
    BY <2>1, <2>2 DEF ListsKept, OutsideKept, Holding
<1>7. ASSUME NEW j \in Slot, SendBatchReturns(j) PROVE ListsKept /\ OutsideKept /\ Holding'
  <2>1. /\ job[j].pc = "pack" /\ job[j].whole = <<>> /\ job' = [job EXCEPT ![j] = IdleJob]
        /\ UNCHANGED <<caller, handed, host, batches, stale, queued, received, fate, stop>>
    BY <1>7 DEF SendBatchReturns
  <2>2. /\ job'[j] = IdleJob /\ \A k \in Slot \ {j} : job'[k] = job[k]
        /\ job[j].sub = {} /\ IdleJob.whole = <<>> /\ IdleJob.sub = {}
    BY <2>1 DEF TypeOK, Holding, IdleJob
  <2>3. ListsKept
    BY <2>1, <2>2, ListsStay
  <2>4. OutsideKept
    BY <2>1, <2>2 DEF OutsideKept
  <2>5. Holding'
    BY <2>1, <2>2 DEF Holding
  <2> QED
    BY <2>3, <2>4, <2>5
<1> QED
  BY <1>2, <1>3, <1>4, <1>5, <1>6, <1>7 DEF Quiet

-----------------------------------------------------------------------------
(* What that means for an event. *)

\* A list that moves takes its events along.
LEMMA MovedListed ==
  ASSUME NEW x \in Place, NEW y \in Place, Moved(x, y), NEW e \in Event
  PROVE  Listed(e)' = IF x \in Listed(e) THEN (Listed(e) \ {x}) \cup {y} ELSE Listed(e)
<1>1. /\ x # y /\ ToSet(ListAt(y)) = {} /\ ToSet(ListAt(y)') = ToSet(ListAt(x))
      /\ ToSet(ListAt(x)') = {}
      /\ \A z \in Place \ {x, y} : ToSet(ListAt(z)') = ToSet(ListAt(z))
  BY EmptyList DEF Moved
<1>2. ASSUME NEW z \in Place
      PROVE  e \in ToSet(ListAt(z)') <=>
               z \in (IF x \in Listed(e) THEN (Listed(e) \ {x}) \cup {y} ELSE Listed(e))
  <2>1. CASE z = x
    BY <2>1, <1>1 DEF Listed
  <2>2. CASE z = y
    BY <2>2, <1>1 DEF Listed
  <2>3. CASE z \in Place \ {x, y}
    BY <2>3, <1>1 DEF Listed
  <2> QED
    BY <2>1, <2>2, <2>3
<1>3. Listed(e)' = {z \in Place : e \in ToSet(ListAt(z)')}
  BY DEF Listed, ToSet
<1> QED
  BY <1>2, <1>3 DEF Listed

\* Lists that stay keep their events.
LEMMA KeptListed ==
  ASSUME ListsKept, NEW e \in Event
  PROVE  Listed(e)' = Listed(e)
BY DEF ListsKept, Listed, ToSet

\* A step that changes nothing for e but, perhaps, the list it is in.
SameFor(e) ==
  /\ fate'[e] = fate[e] /\ received'[e] = received[e] /\ Posted(e)' = Posted(e)
  /\ caller'[e] = "idle" <=> caller[e] = "idle"
  /\ \A j \in Posted(e) : job'[j].try = job[j].try

\* An event that is moved, at most, from one list to another keeps its stage.
LEMMA StageKept ==
  ASSUME NEW e \in Event, Stage(e), SameFor(e),
         Listed(e) = {} => Listed(e)' = {},
         (\E x \in Place : Listed(e) = {x}) => \E x \in Place : Listed(e)' = {x}
  PROVE  Stage(e)'
<1>1. Posted(e)' = Posted(e) /\ fate'[e] = fate[e] /\ received'[e] = received[e]
      /\ (caller'[e] = "idle" <=> caller[e] = "idle")
      /\ \A j \in Posted(e) : job'[j].try = job[j].try
  BY DEF SameFor
<1>2. CASE Fresh(e)
  BY <1>1, <1>2 DEF Fresh, Stage
<1>3. CASE Queued(e)
  <2>1. \E x \in Place : Listed(e)' = {x}
    BY <1>3 DEF Queued
  <2> QED
    BY <2>1, <1>1, <1>3 DEF Queued, Stage
<1>4. CASE Sending(e)
  BY <1>1, <1>4 DEF Sending, Stage
<1>5. CASE Settled(e)
  BY <1>1, <1>5 DEF Settled, Stage
<1> QED
  BY <1>2, <1>3, <1>4, <1>5 DEF Stage

\* Nothing changes for any event.
LEMMA OutsideSame ==
  ASSUME OutsideKept, NEW e \in Event
  PROVE  SameFor(e)
BY DEF OutsideKept, SameFor, Posted

\* A move keeps every stage, and no list gets an event twice.
LEMMA MovedStaged ==
  ASSUME TypeOK, Staged, OutsideKept, NEW x \in Place, NEW y \in Place, Moved(x, y)
  PROVE  Staged'
<1>1. ASSUME NEW e \in Event PROVE Stage(e)'
  <2>1. Listed(e)' = IF x \in Listed(e) THEN (Listed(e) \ {x}) \cup {y} ELSE Listed(e)
    BY MovedListed
  <2>2. Listed(e) = {} => Listed(e)' = {}
    BY <2>1
  <2>3. ASSUME NEW z \in Place, Listed(e) = {z} PROVE Listed(e)' = {z} \/ Listed(e)' = {y}
    BY <2>1, <2>3
  <2>4. Stage(e)
    BY DEF Staged
  <2>5. (\E z \in Place : Listed(e) = {z}) => \E z \in Place : Listed(e)' = {z}
    BY <2>3
  <2> QED
    BY <2>2, <2>4, <2>5, StageKept, OutsideSame
<1>2. ASSUME NEW z \in Place PROVE IsInjective(ListAt(z)')
  BY EmptyList DEF Moved, Staged
<1>3. \A z \in Place : IsInjective(ListAt(z))'
  BY <1>2 DEF IsInjective
<1> QED
  BY <1>1, <1>3 DEF Staged

\* So does a step that moves nothing.
LEMMA KeptStaged ==
  ASSUME TypeOK, Staged, OutsideKept, ListsKept
  PROVE  Staged'
<1>1. ASSUME NEW e \in Event PROVE Stage(e)'
  <2>1. Listed(e)' = Listed(e)
    BY KeptListed
  <2>2. Stage(e)
    BY DEF Staged
  <2> QED
    BY <2>1, <2>2, StageKept, OutsideSame
<1>2. \A z \in Place : IsInjective(ListAt(z))'
  BY DEF ListsKept, Staged, IsInjective
<1> QED
  BY <1>1, <1>2 DEF Staged

\* What is in the lists are events.
LEMMA ListTypes ==
  ASSUME TypeOK, NEW x \in Place
  PROVE  ListAt(x) \in Seq(Event) /\ ToSet(ListAt(x)) \subseteq Event
<1>1. ListAt(x) \in Seq(Event)
  <2>1. \A c \in Event : ListAt(HandedBy(c)) \in Seq(Event)
    BY ListsAtPlaces DEF TypeOK
  <2>2. \A h \in Host : ListAt(BatchFor(h)) \in Seq(Event)
    BY ListsAtPlaces DEF TypeOK
  <2>3. \A j \in Slot : ListAt(WholeOf(j)) \in Seq(Event)
    BY ListsAtPlaces DEF TypeOK
  <2>4. ListAt(StaleBatch) \in Seq(Event)
    BY ListsAtPlaces DEF TypeOK
  <2> QED
    BY <2>1, <2>2, <2>3, <2>4, PlaceKinds
<1> QED
  BY <1>1 DEF ToSet

\* EnqueueEvent: the new event is in one list, and nothing else changes its stage.
LEMMA AddedStaged ==
  ASSUME TypeOK, Staged, NEW e \in Event, NEW x \in Place, NEW y \in Place, Added(e, x, y),
         caller[e] = "idle", caller'[e] # "idle", \A c \in Event \ {e} : caller'[c] = caller[c],
         fate' = fate, received' = received, job' = job
  PROVE  Staged'
<1>1. Fresh(e)
  BY DEF Staged, Stage, Queued, Sending, Settled
<1>2. \A z \in Place : e \notin ToSet(ListAt(z))
  BY <1>1 DEF Fresh, Listed
<1>3. /\ ListAt(x) \in Seq(Event) /\ IsInjective(ListAt(x))
      /\ ListAt(y)' = Append(ListAt(x), e)
      /\ x # y => ListAt(y) = <<>> /\ ListAt(x)' = <<>>
      /\ \A z \in Place \ {x, y} : ListAt(z)' = ListAt(z)
  BY ListTypes DEF Added, Staged
<1>4. ToSet(ListAt(y)') = ToSet(ListAt(x)) \cup {e} /\ IsInjective(ListAt(y)')
  BY <1>2, <1>3, AppendedList
<1>5. x # y => ToSet(ListAt(y)) = {} /\ ToSet(ListAt(x)') = {} /\ IsInjective(ListAt(x)')
  BY <1>3, EmptyList
<1>6. \A z \in Place \ {x, y} : ToSet(ListAt(z)') = ToSet(ListAt(z))
  BY <1>3
<1>7. \A z \in Place : IsInjective(ListAt(z))'
  <2>1. ASSUME NEW z \in Place PROVE IsInjective(ListAt(z)')
    BY <1>3, <1>4, <1>5 DEF Staged
  <2> QED
    BY <2>1 DEF IsInjective
<1>8. \A d \in Event : Listed(d)' = {z \in Place : d \in ToSet(ListAt(z)')}
  BY DEF Listed, ToSet
<1>9. Stage(e)'
  <2>1. Listed(e)' = {y}
    <3>1. ASSUME NEW z \in Place PROVE e \in ToSet(ListAt(z)') <=> z = y
      BY <1>2, <1>4, <1>5, <1>6
    <3> QED
      BY <3>1, <1>8
  <2>2. Posted(e)' = {} /\ fate'[e] = <<>> /\ received'[e] = <<>>
    BY <1>1 DEF Fresh, Posted
  <2> QED
    BY <2>1, <2>2 DEF Stage, Queued
<1>10. ASSUME NEW d \in Event \ {e} PROVE Stage(d)'
  <2>1. ASSUME NEW z \in Place
        PROVE  d \in ToSet(ListAt(z)') <=>
                 z \in (IF x \in Listed(d) THEN (Listed(d) \ {x}) \cup {y} ELSE Listed(d))
    <3>1. CASE z = y
      BY <3>1, <1>4, <1>5 DEF Listed
    <3>2. CASE z # y /\ z = x
      BY <3>2, <1>4, <1>5 DEF Listed
    <3>3. CASE z \in Place \ {x, y}
      BY <3>3, <1>6 DEF Listed
    <3> QED
      BY <3>1, <3>2, <3>3
  <2>2. Listed(d)' = IF x \in Listed(d) THEN (Listed(d) \ {x}) \cup {y} ELSE Listed(d)
    BY <2>1, <1>8 DEF Listed
  <2>3. Listed(d) = {} => Listed(d)' = {}
    BY <2>2
  <2>4. ASSUME NEW z \in Place, Listed(d) = {z} PROVE Listed(d)' = {z} \/ Listed(d)' = {y}
    BY <2>2, <2>4
  <2>5. (\E z \in Place : Listed(d) = {z}) => \E z \in Place : Listed(d)' = {z}
    BY <2>4
  <2>6. SameFor(d)
    BY DEF SameFor, Posted
  <2>7. Stage(d)
    BY DEF Staged
  <2> QED
    BY <2>3, <2>5, <2>6, <2>7, StageKept
<1> QED
  BY <1>7, <1>9, <1>10 DEF Staged

\* sendBatch settles an event that has no account yet: what Settle writes.
LEMMA SettleWrites ==
  ASSUME TypeOK, NEW S, NEW v \in [Event -> Verdict], Settle(S, v), NEW e \in Event
  PROVE  /\ e \in S /\ fate[e] = <<>> => fate'[e] = <<v[e]>>
         /\ e \notin S => fate'[e] = fate[e]
<1>1. fate'[e] = IF e \in S THEN Append(fate[e], v[e]) ELSE fate[e]
  BY DEF Settle
<1>2. Append(<<>>, v[e]) = <<v[e]>>
  OBVIOUS
<1> QED
  BY <1>1, <1>2

\* sendBatch: each of the packed events is posted or settled, the others stay.
LEMMA PackedStaged ==
  ASSUME TypeOK, Staged, NEW j \in Slot, NEW n \in Nat, NEW B \in SUBSET Event,
         PackedAs(j, n, B)
  PROVE  Staged'
<1> DEFINE x == WholeOf(j)
           front == SubSeq(job[j].whole, 1, n)
           rest  == SubSeq(job[j].whole, n + 1, Len(job[j].whole))
<1>1. /\ x \in Place /\ ListAt(x) = job[j].whole /\ job[j].whole \in Seq(Event)
      /\ n \in 0..Len(job[j].whole) /\ IsInjective(job[j].whole)
      /\ ListAt(x)' = rest /\ \A z \in Place \ {x} : ListAt(z)' = ListAt(z)
  <2>1. x \in Place /\ ListAt(x) = job[j].whole
    BY ListsAtPlaces
  <2>2. /\ n \in 0..Len(ListAt(x)) /\ ListAt(x)' = SubSeq(ListAt(x), n + 1, Len(ListAt(x)))
        /\ \A z \in Place \ {x} : ListAt(z)' = ListAt(z)
    BY DEF PackedAs, Shortened
  <2>3. ListAt(x) \in Seq(Event) /\ IsInjective(ListAt(x))
    BY <2>1, ListTypes DEF Staged
  <2> QED
    BY <2>1, <2>2, <2>3, Zenon
<1>2. /\ B \subseteq ToSet(front) /\ job[j].sub = {} /\ job'[j].sub = B /\ job'[j].try = 0
      /\ \A k \in Slot \ {j} : job'[k] = job[k]
      /\ Settle(ToSet(front) \ B, AllFail) /\ caller' = caller /\ received' = received
  BY DEF PackedAs
<1>3. /\ ToSet(job[j].whole) = ToSet(front) \cup ToSet(rest)
      /\ ToSet(front) \cap ToSet(rest) = {} /\ IsInjective(rest)
  BY <1>1, SplitList
<1> HIDE DEF x, front, rest
<1>4. \A z \in Place : IsInjective(ListAt(z))'
  <2>1. ASSUME NEW z \in Place PROVE IsInjective(ListAt(z)')
    BY <1>1, <1>3 DEF Staged
  <2> QED
    BY <2>1 DEF IsInjective
<1>5. ASSUME NEW e \in Event
      PROVE  Listed(e)' = IF e \in ToSet(front) THEN Listed(e) \ {x} ELSE Listed(e)
  <2>1. \A z \in Place \ {x} : ToSet(ListAt(z)') = ToSet(ListAt(z))
    BY <1>1
  <2>2. ToSet(ListAt(x)') = ToSet(rest)
    BY <1>1
  <2>3. Listed(e)' = {z \in Place : e \in ToSet(ListAt(z)')}
    BY DEF Listed, ToSet
  <2>4. e \in ToSet(ListAt(x)) <=> e \in ToSet(front) \/ e \in ToSet(rest)
    BY <1>1, <1>3
  <2>5. e \in ToSet(front) => e \notin ToSet(rest)
    BY <1>3
  <2>6. ASSUME NEW z \in Place
        PROVE  e \in ToSet(ListAt(z)') <=>
                 z \in (IF e \in ToSet(front) THEN Listed(e) \ {x} ELSE Listed(e))
    <3>1. CASE z = x
      BY <3>1, <2>2, <2>4, <2>5 DEF Listed
    <3>2. CASE z # x
      BY <3>2, <2>1 DEF Listed
    <3> QED
      BY <3>1, <3>2
  <2> QED
    BY <2>3, <2>6 DEF Listed
<1>6. AllFail \in [Event -> Verdict] /\ \A e \in Event : AllFail[e] = "error"
  BY DEF AllFail, Verdict
<1>7. ASSUME NEW e \in Event, e \in ToSet(front) PROVE Stage(e)'
  <2>1. x \in Listed(e)
    BY <1>1, <1>3, <1>7 DEF Listed
  <2>2. Queued(e)
    BY <2>1 DEF Staged, Stage, Fresh, Sending, Settled
  <2>3. Listed(e) = {x}
    BY <2>1, <2>2 DEF Queued
  <2>4. Listed(e)' = {}
    BY <2>3, <1>5, <1>7
  <2>5. /\ fate[e] = <<>> /\ received'[e] = <<>> /\ caller'[e] # "idle" /\ Posted(e) = {}
    BY <2>2, <1>2 DEF Queued
  <2>6. \A k \in Slot \ {j} : e \notin job'[k].sub
    BY <2>5, <1>2 DEF Posted
  <2>7. CASE e \in B
    <3>1. Posted(e)' = {j}
      BY <2>6, <2>7, <1>2 DEF Posted
    <3>2. fate'[e] = <<>>
      BY <2>5, <2>7, <1>2, <1>6, SettleWrites
    <3>3. Len(received'[e]) <= job'[j].try
      BY <2>5, <1>2
    <3> QED
      BY <3>1, <3>2, <3>3, <2>4, <2>5 DEF Stage, Sending
  <2>8. CASE e \notin B
    <3>1. Posted(e)' = {}
      BY <2>6, <2>8, <1>2 DEF Posted
    <3>2. fate'[e] = <<"error">>
      BY <2>5, <2>8, <1>2, <1>6, <1>7, SettleWrites
    <3>3. Len(received'[e]) <= 2
      BY <2>5
    <3>4. "error" \in Verdict /\ "error" # "accepted"
      BY DEF Verdict
    <3>5. Settled(e)'
      BY <3>1, <3>2, <3>3, <3>4, <2>4, <2>5 DEF Settled
    <3> QED
      BY <3>5 DEF Stage
  <2> QED
    BY <2>7, <2>8
<1>8. ASSUME NEW e \in Event, e \notin ToSet(front) PROVE Stage(e)'
  <2>1. Listed(e)' = Listed(e)
    BY <1>5, <1>8
  <2>2. \A k \in Slot : e \in job'[k].sub <=> e \in job[k].sub
    BY <1>2, <1>8
  <2>3. Posted(e)' = Posted(e) /\ j \notin Posted(e)
    BY <2>2, <1>2 DEF Posted
  <2>4. fate'[e] = fate[e]
    BY <1>2, <1>6, <1>8, SettleWrites
  <2>5. SameFor(e)
    BY <2>3, <2>4, <1>2 DEF SameFor, Posted
  <2> QED
    BY <2>1, <2>5, StageKept DEF Staged
<1> QED
  BY <1>4, <1>7, <1>8 DEF Staged

\* sendBatch: a request that ends settles its events, each by its own verdict.
LEMMA AnsweredStaged ==
  ASSUME TypeOK, Staged, NEW j \in Slot, NEW v \in [Event -> Verdict], Answered(j, v)
  PROVE  Staged'
<1>1. /\ ListsKept /\ Settle(job[j].sub, v) /\ job'[j].sub = {}
      /\ \A k \in Slot \ {j} : job'[k] = job[k]
      /\ Reaches(j) \/ (received' = received /\ \A e \in Event : v[e] = "error")
      /\ caller' = caller
  BY DEF Answered
<1>2. \A z \in Place : IsInjective(ListAt(z))'
  BY <1>1 DEF ListsKept, Staged, IsInjective
<1>3. ASSUME NEW e \in Event, e \in job[j].sub PROVE Stage(e)'
  <2>1. j \in Posted(e)
    BY <1>3 DEF Posted
  <2>2. Sending(e)
    BY <2>1 DEF Staged, Stage, Fresh, Queued, Settled
  <2>3. Posted(e) = {j} /\ Len(received[e]) <= job[j].try
    BY <2>1, <2>2 DEF Sending
  <2>4. Listed(e)' = {} /\ fate[e] = <<>> /\ caller'[e] # "idle"
    BY <2>2, <1>1, KeptListed DEF Sending
  <2>5. Posted(e)' = {}
    BY <2>3, <1>1 DEF Posted
  <2>6. fate'[e] = <<v[e]>> /\ v[e] \in Verdict
    BY <2>4, <1>1, <1>3, SettleWrites
  <2>7. received[e] \in Seq(Host) /\ job[j].dest \in Host /\ job[j].try \in {0, 1}
    BY DEF TypeOK
  <2>8. Len(received'[e]) <= 2 /\ (v[e] = "accepted" => received'[e] # <<>>)
    <3>1. CASE Reaches(j)
      <4>1. received'[e] = Append(received[e], job[j].dest)
        BY <3>1, <1>3 DEF Reaches
      <4>2. Len(received'[e]) = Len(received[e]) + 1 /\ received'[e] # <<>>
        BY <4>1, <2>7
      <4> QED
        BY <4>2, <2>3, <2>7
    <3>2. CASE received' = received /\ \A d \in Event : v[d] = "error"
      BY <3>2, <2>3, <2>7
    <3> QED
      BY <3>1, <3>2, <1>1
  <2>9. Settled(e)'
    BY <2>4, <2>5, <2>6, <2>8 DEF Settled
  <2> QED
    BY <2>9 DEF Stage
<1>4. ASSUME NEW e \in Event, e \notin job[j].sub PROVE Stage(e)'
  <2>1. Listed(e)' = Listed(e)
    BY <1>1, KeptListed
  <2>2. Posted(e)' = Posted(e) /\ j \notin Posted(e)
    BY <1>1, <1>4 DEF Posted
  <2>3. fate'[e] = fate[e]
    BY <1>1, <1>4, SettleWrites
  <2>4. received'[e] = received[e]
    BY <1>1, <1>4 DEF Reaches
  <2>5. SameFor(e)
    BY <2>2, <2>3, <2>4, <1>1 DEF SameFor, Posted
  <2> QED
    BY <2>1, <2>5, StageKept DEF Staged
<1> QED
  BY <1>2, <1>3, <1>4 DEF Staged

\* sendBatch: a retry may have reached the server, and will not be repeated.
LEMMA RepeatedStaged ==
  ASSUME TypeOK, Staged, NEW j \in Slot, Repeated(j)
  PROVE  Staged'
<1>1. /\ ListsKept /\ job[j].try = 0 /\ job'[j].try = 1
      /\ \A k \in Slot : job'[k].sub = job[k].sub /\ (k # j => job'[k] = job[k])
      /\ Reaches(j) \/ received' = received
      /\ caller' = caller /\ fate' = fate
  BY DEF Repeated
<1>2. \A z \in Place : IsInjective(ListAt(z))'
  BY <1>1 DEF ListsKept, Staged, IsInjective
<1>3. ASSUME NEW e \in Event PROVE Posted(e)' = Posted(e) /\ Listed(e)' = Listed(e)
  BY <1>1, KeptListed DEF Posted
<1>4. ASSUME NEW e \in Event, e \in job[j].sub PROVE Stage(e)'
  <2>1. j \in Posted(e)
    BY <1>4 DEF Posted
  <2>2. Sending(e)
    BY <2>1 DEF Staged, Stage, Fresh, Queued, Settled
  <2>3. Posted(e) = {j} /\ Len(received[e]) <= job[j].try
    BY <2>1, <2>2 DEF Sending
  <2>4. received[e] \in Seq(Host) /\ job[j].dest \in Host
    BY DEF TypeOK
  <2>5. Len(received'[e]) <= job'[j].try
    <3>1. CASE Reaches(j)
      <4>1. received'[e] = Append(received[e], job[j].dest)
        BY <3>1, <1>4 DEF Reaches
      <4>2. Len(received'[e]) = Len(received[e]) + 1
        BY <4>1, <2>4
      <4> QED
        BY <4>2, <2>3, <2>4, <1>1
    <3>2. CASE received' = received
      BY <3>2, <2>3, <2>4, <1>1
    <3> QED
      BY <3>1, <3>2, <1>1
  <2>6. Sending(e)'
    BY <2>2, <2>3, <2>5, <1>1, <1>3 DEF Sending
  <2> QED
    BY <2>6 DEF Stage
<1>5. ASSUME NEW e \in Event, e \notin job[j].sub PROVE Stage(e)'
  <2>1. received'[e] = received[e]
    BY <1>1, <1>5 DEF Reaches
  <2>2. j \notin Posted(e)
    BY <1>5 DEF Posted
  <2>3. SameFor(e)
    BY <2>1, <2>2, <1>1, <1>3 DEF SameFor, Posted
  <2> QED
    BY <2>3, <1>3, StageKept DEF Staged
<1> QED
  BY <1>2, <1>4, <1>5 DEF Staged

-----------------------------------------------------------------------------
(* The invariant. *)

\* Every step is one of the effects above.
LEMMA Effects ==
  ASSUME TypeOK, Holding, [Next]_vars
  PROVE  /\ Holding'
         /\ \/ \E e \in Event : EnqueueEvent(e)
            \/ OutsideKept /\ \E x, y \in Place : Moved(x, y)
            \/ OutsideKept /\ ListsKept
            \/ \E j \in Slot, n \in Nat, B \in SUBSET Event : PackedAs(j, n, B)
            \/ \E j \in Slot, v \in [Event -> Verdict] : Answered(j, v)
            \/ \E j \in Slot : Repeated(j)
<1> DEFINE Effect == \/ \E e \in Event : EnqueueEvent(e)
                     \/ OutsideKept /\ \E x, y \in Place : Moved(x, y)
                     \/ OutsideKept /\ ListsKept
                     \/ \E j \in Slot, n \in Nat, B \in SUBSET Event : PackedAs(j, n, B)
                     \/ \E j \in Slot, v \in [Event -> Verdict] : Answered(j, v)
                     \/ \E j \in Slot : Repeated(j)
<1> SUFFICES Holding' /\ Effect
  OBVIOUS
<1>1. ASSUME NEW e \in Event, EnqueueEvent(e) PROVE Holding' /\ Effect
  BY <1>1, EnqueueEventAdds
<1>2. ASSUME NEW x, NEW y, Moved(x, y), OutsideKept PROVE Effect
  <2>1. x \in Place /\ y \in Place
    BY <1>2 DEF Moved
  <2> QED
    BY <2>1, <1>2
<1>3. CASE Quiet
  BY <1>3, QuietSteps
<1>4. ASSUME NEW e \in Event, NEW j \in Slot, DispatchFull(e, j) PROVE Holding' /\ Effect
  BY <1>2, <1>4, DispatchFullMoves
<1>5. ASSUME NEW h \in Host, TakeStale(h) PROVE Holding' /\ Effect
  BY <1>2, <1>5, TakeStaleMoves
<1>6. ASSUME NEW j \in Slot, DispatchStale(j) PROVE Holding' /\ Effect
  BY <1>2, <1>6, DispatchStaleMoves
<1>7. ASSUME NEW h \in Host, NEW j \in Slot, StopFlush(h, j) PROVE Holding' /\ Effect
  BY <1>2, <1>7, StopFlushMoves
<1>8. ASSUME NEW j \in Slot, Pack(j) PROVE Holding' /\ Effect
  BY <1>8, PackSplits, Zenon
<1>9. ASSUME NEW j \in Slot, PostAnswered(j) \/ PostFailed(j) PROVE Holding' /\ Effect
  BY <1>9, PostEnds, Zenon
<1>10. ASSUME NEW j \in Slot, PostRetried(j) PROVE Holding' /\ Effect
  BY <1>10, PostRepeats
<1> HIDE DEF Effect
<1> QED
  BY <1>1, <1>3, <1>4, <1>5, <1>6, <1>7, <1>8, <1>9, <1>10, Zenon DEF Next, SendBatch, Quiet

\* Every step keeps the stages.
LEMMA StagedStep ==
  ASSUME TypeOK, Holding, Staged, [Next]_vars
  PROVE  Staged'
<1>1. ASSUME NEW e \in Event, EnqueueEvent(e) PROVE Staged'
  <2>1. /\ \E x, y \in Place : Added(e, x, y)
        /\ caller[e] = "idle" /\ caller'[e] # "idle"
        /\ \A c \in Event \ {e} : caller'[c] = caller[c]
        /\ fate' = fate /\ received' = received /\ job' = job
    BY <1>1, EnqueueEventAdds
  <2>2. PICK x \in Place, y \in Place : Added(e, x, y)
    BY <2>1
  <2> QED
    BY <2>1, <2>2, AddedStaged
<1> QED
  BY <1>1, Effects, MovedStaged, KeptStaged, PackedStaged, AnsweredStaged, RepeatedStaged, Zenon

\* The counter follows what is settled: events that had no account, each once.
LEMMA SettleCounts ==
  ASSUME TypeOK, Counting, NEW S \in SUBSET Event, NEW v \in [Event -> Verdict], Settle(S, v),
         \A e \in S : fate[e] = <<>> /\ caller[e] # "idle",
         Accounted \subseteq Enqueued, caller' = caller
  PROVE  Counting'
<1>1. /\ Enqueued' = Enqueued /\ Counted' = Counted
      /\ S \subseteq Enqueued /\ Counted \subseteq Enqueued
  BY DEF Enqueued, Counted
<1>2. IsFiniteSet(S) /\ IsFiniteSet(Accounted) /\ IsFiniteSet(Counted)
  BY <1>1, FS_Subset DEF Counting
<1>3. S \cap Accounted = {}
  BY DEF Accounted
<1>4. Accounted' = Accounted \cup S
  <2>1. \A e \in S : fate'[e] = <<v[e]>>
    BY SettleWrites
  <2>2. \A e \in Event \ S : fate'[e] = fate[e]
    BY SettleWrites
  <2>3. \A e \in S : fate'[e] # <<>>
    BY <2>1
  <2> QED
    BY <2>2, <2>3 DEF Accounted
<1>5. Cardinality(Accounted \cup S) = Cardinality(Accounted) + Cardinality(S)
  <2>1. Cardinality(Accounted \cup S)
          = Cardinality(Accounted) + Cardinality(S) - Cardinality(Accounted \cap S)
    BY <1>2, FS_Union
  <2>2. Cardinality(Accounted \cap S) = 0
    <3>1. Accounted \cap S = {}
      BY <1>3
    <3> QED
      BY <3>1, FS_EmptySet
  <2>3. Cardinality(Accounted) \in Nat /\ Cardinality(S) \in Nat
    BY <1>2, FS_CardinalityType
  <2> QED
    BY <2>1, <2>2, <2>3
<1>6. queued' = queued - Cardinality(S)
  BY DEF Settle
<1>7. queued = Cardinality(Counted) - Cardinality(Accounted)
  BY DEF Counting, QueuedItemsExact, Counted, Accounted
<1>8. Cardinality(Accounted) \in Nat /\ Cardinality(S) \in Nat /\ Cardinality(Counted) \in Nat
  BY <1>2, FS_CardinalityType
<1>9. queued' = Cardinality(Counted') - Cardinality(Accounted')
  BY <1>1, <1>4, <1>5, <1>6, <1>7, <1>8
<1> QED
  BY <1>1, <1>9 DEF Counting, QueuedItemsExact, Counted, Accounted

\* Every step keeps the counter exact.
LEMMA CountingStep ==
  ASSUME TypeOK, Holding, Staged, Counting, [Next]_vars
  PROVE  Counting'
<1>1. Accounted \subseteq Enqueued
  BY DEF Accounted, Enqueued, Staged, Stage, Fresh, Queued, Sending, Settled
<1>2. /\ IsFiniteSet(Enqueued) /\ queued = Cardinality(Counted) - Cardinality(Accounted)
      /\ Counted \subseteq Enqueued
  BY DEF Counting, QueuedItemsExact, Counted, Accounted, Enqueued
<1>3. /\ IsFiniteSet(Counted) /\ IsFiniteSet(Accounted)
      /\ Cardinality(Counted) \in Nat /\ Cardinality(Accounted) \in Nat
  BY <1>1, <1>2, FS_Subset, FS_CardinalityType
<1>4. ASSUME IsFiniteSet(Enqueued'), queued' = Cardinality(Counted') - Cardinality(Accounted')
      PROVE  Counting'
  BY <1>4 DEF Counting, QueuedItemsExact, Counted, Accounted
<1>5. ASSUME UNCHANGED <<fate, queued>>, Enqueued' = Enqueued, Counted' = Counted
      PROVE  Counting'
  <2>1. Accounted' = Accounted
    BY <1>5 DEF Accounted
  <2> QED
    BY <2>1, <1>2, <1>4, <1>5
<1>6. ASSUME NEW e \in Event, EnqueueEvent(e) PROVE Counting'
  <2>1. /\ caller[e] = "idle" /\ UNCHANGED <<fate, queued>>
        /\ caller' = [caller EXCEPT ![e] = "dispatch"] \/ caller' = [caller EXCEPT ![e] = "count"]
    BY <1>6 DEF EnqueueEvent
  <2>2. Enqueued' = Enqueued \cup {e} /\ Counted' = Counted /\ Accounted' = Accounted
    BY <2>1 DEF TypeOK, Enqueued, Counted, Accounted
  <2>3. IsFiniteSet(Enqueued')
    BY <2>2, <1>2, FS_AddElement
  <2> QED
    BY <2>1, <2>2, <2>3, <1>2, <1>4
<1>7. ASSUME NEW e \in Event, CountUp(e) PROVE Counting'
  <2>1. /\ caller[e] = "count" /\ queued' = queued + 1 /\ fate' = fate
        /\ caller' = [caller EXCEPT ![e] = "done"]
    BY <1>7 DEF CountUp
  <2>2. /\ Enqueued' = Enqueued /\ Counted' = Counted \cup {e} /\ Accounted' = Accounted
        /\ e \notin Counted
    BY <2>1 DEF TypeOK, Enqueued, Counted, Accounted
  <2>3. Cardinality(Counted') = Cardinality(Counted) + 1
    BY <2>2, <1>3, FS_AddElement
  <2> QED
    BY <2>1, <2>2, <2>3, <1>2, <1>3, <1>4
<1>8. ASSUME NEW e \in Event, NEW j \in Slot, DispatchFull(e, j) PROVE Counting'
  <2>1. /\ caller[e] = "dispatch" /\ UNCHANGED <<fate, queued>>
        /\ caller' = [caller EXCEPT ![e] = "count"]
    BY <1>8 DEF DispatchFull
  <2>2. Enqueued' = Enqueued /\ Counted' = Counted
    BY <2>1 DEF TypeOK, Enqueued, Counted
  <2> QED
    BY <2>1, <2>2, <1>5
<1>9. ASSUME UNCHANGED <<caller, fate, queued>> PROVE Counting'
  BY <1>5, <1>9 DEF Enqueued, Counted
<1>10. ASSUME NEW j \in Slot, Pack(j) PROVE Counting'
  <2>1. PICK n \in Nat, B \in SUBSET Event : PackedAs(j, n, B)
    BY <1>10, PackSplits
  <2> DEFINE front == SubSeq(job[j].whole, 1, n)
             S == ToSet(front) \ B
  <2>2. Settle(S, AllFail) /\ caller' = caller
    BY <2>1 DEF PackedAs
  <2>3. /\ WholeOf(j) \in Place /\ ListAt(WholeOf(j)) = job[j].whole
        /\ job[j].whole \in Seq(Event) /\ n \in 0..Len(job[j].whole)
    <3>1. WholeOf(j) \in Place /\ ListAt(WholeOf(j)) = job[j].whole
      BY ListsAtPlaces
    <3>2. job[j].whole \in Seq(Event)
      BY DEF TypeOK
    <3>3. n \in 0..Len(ListAt(WholeOf(j)))
      BY <2>1 DEF PackedAs, Shortened
    <3> QED
      BY <3>1, <3>2, <3>3
  <2>4. ToSet(front) \subseteq ToSet(job[j].whole) /\ ToSet(job[j].whole) \subseteq Event
    <3>1. ToSet(front) \subseteq ToSet(job[j].whole)
      BY <2>3, SplitList
    <3> QED
      BY <3>1, <2>3 DEF ToSet
  <2> HIDE DEF front
  <2>5. ASSUME NEW e \in S PROVE e \in Event /\ fate[e] = <<>> /\ caller[e] # "idle"
    <3>1. e \in Event /\ WholeOf(j) \in Listed(e)
      BY <2>3, <2>4, <2>5 DEF Listed
    <3> QED
      BY <3>1 DEF Staged, Stage, Fresh, Queued, Sending, Settled
  <2>6. S \in SUBSET Event /\ \A e \in S : fate[e] = <<>> /\ caller[e] # "idle"
    BY <2>5
  <2>7. AllFail \in [Event -> Verdict]
    BY DEF AllFail, Verdict
  <2> HIDE DEF S
  <2> QED
    BY <2>2, <2>6, <2>7, <1>1, SettleCounts
<1>11. ASSUME NEW j \in Slot, PostAnswered(j) \/ PostFailed(j) PROVE Counting'
  <2>1. PICK v \in [Event -> Verdict] : Answered(j, v)
    BY <1>11, PostEnds
  <2>2. Settle(job[j].sub, v) /\ caller' = caller
    BY <2>1 DEF Answered
  <2>3. job[j].sub \in SUBSET Event
    BY DEF TypeOK
  <2>4. ASSUME NEW e \in job[j].sub PROVE fate[e] = <<>> /\ caller[e] # "idle"
    <3>1. e \in Event /\ j \in Posted(e)
      BY <2>3, <2>4 DEF Posted
    <3> QED
      BY <3>1 DEF Staged, Stage, Fresh, Queued, Sending, Settled
  <2> QED
    BY <2>2, <2>3, <2>4, <1>1, SettleCounts
<1>12. ASSUME NEW e \in Event, ForwardProbe(e) PROVE Counting'
  BY <1>9, <1>12 DEF ForwardProbe
<1>13. ASSUME NEW h \in Host, TakeStale(h) PROVE Counting'
  BY <1>9, <1>13 DEF TakeStale
<1>14. ASSUME NEW j \in Slot, DispatchStale(j) \/ PostRetried(j) \/ SendBatchReturns(j) PROVE Counting'
  BY <1>9, <1>14 DEF DispatchStale, PostRetried, SendBatchReturns
<1>15. ASSUME NEW h \in Host, NEW j \in Slot, StopFlush(h, j) PROVE Counting'
  BY <1>9, <1>15 DEF StopFlush
<1>16. CASE StopBegins \/ StopDispatcher \/ StopWaits \/ StopReturns
  BY <1>9, <1>16 DEF StopBegins, StopDispatcher, StopWaits, StopReturns
<1>17. CASE Tick \/ UNCHANGED vars
  BY <1>9, <1>17 DEF Tick, vars
<1> QED
  BY <1>6, <1>7, <1>8, <1>10, <1>11, <1>12, <1>13, <1>14, <1>15, <1>16, <1>17, Zenon
     DEF Next, SendBatch

\* An exact counter is a number.
LEMMA CounterIsNumber == Counting /\ Staged => queued \in Int
<1> SUFFICES ASSUME Counting, Staged PROVE queued \in Int
  OBVIOUS
<1>1. /\ Counted \subseteq Enqueued /\ Accounted \subseteq Enqueued
      /\ IsFiniteSet(Enqueued) /\ queued = Cardinality(Counted) - Cardinality(Accounted)
  BY DEF Counting, QueuedItemsExact, Counted, Accounted, Enqueued,
         Staged, Stage, Fresh, Queued, Sending, Settled
<1>2. Cardinality(Counted) \in Nat /\ Cardinality(Accounted) \in Nat
  BY <1>1, FS_Subset, FS_CardinalityType
<1> QED
  BY <1>1, <1>2

\* Every step keeps the order of Stop.
LEMMA StoppingStep ==
  ASSUME TypeOK, Holding, Stopping, [Next]_vars
  PROVE  Stopping'
<1>1. /\ stop \in {"no", "closing", "flush", "wait", "stopped"}
      /\ caller \in [Event -> {"idle", "dispatch", "count", "done"}]
      /\ DOMAIN job = Slot /\ DOMAIN batches = Host
  BY DEF TypeOK
<1>2. ASSUME NEW e \in Event, EnqueueEvent(e) PROVE Stopping'
  BY <1>2 DEF EnqueueEvent, Stopping
<1>3. ASSUME NEW e \in Event, CountUp(e) PROVE Stopping'
  BY <1>1, <1>3 DEF CountUp, Stopping
<1>4. ASSUME NEW e \in Event, ForwardProbe(e) PROVE Stopping'
  BY <1>4 DEF ForwardProbe, Stopping
<1>5. ASSUME NEW e \in Event, NEW j \in Slot, DispatchFull(e, j) PROVE Stopping'
  <2>1. stop = "no" /\ stop' = stop
    BY <1>5 DEF DispatchFull, Stopping
  <2> QED
    BY <2>1 DEF Stopping
<1>6. ASSUME NEW h \in Host, TakeStale(h) PROVE Stopping'
  BY <1>6 DEF TakeStale, Stopping
<1>7. ASSUME NEW j \in Slot, DispatchStale(j) PROVE Stopping'
  BY <1>7 DEF DispatchStale, Stopping
<1>8. ASSUME NEW j \in Slot, SendBatch(j) PROVE Stopping'
  <2>1. /\ UNCHANGED <<caller, batches, stale, stop>> /\ job[j].pc # "idle"
    BY <1>8 DEF SendBatch, Pack, PostAnswered, PostFailed, PostRetried, SendBatchReturns
  <2> QED
    BY <2>1 DEF Stopping
<1>9. ASSUME NEW h \in Host, NEW j \in Slot, StopFlush(h, j) PROVE Stopping'
  BY <1>9 DEF StopFlush, Stopping
<1>10. CASE StopBegins
  BY <1>10 DEF StopBegins, Stopping
<1>11. CASE StopDispatcher
  BY <1>11 DEF StopDispatcher, Stopping
<1>12. CASE StopWaits
  BY <1>12 DEF StopWaits, Stopping
<1>13. CASE StopReturns
  BY <1>13 DEF StopReturns, Stopping
<1>14. CASE Tick
  <2>1. UNCHANGED <<caller, stale, job, stop>> /\ \A h \in Host : batches'[h].events = batches[h].events
    BY <1>14 DEF Tick, TypeOK
  <2> QED
    BY <2>1 DEF Stopping
<1>15. CASE UNCHANGED vars
  BY <1>15 DEF vars, Stopping
<1> QED
  BY <1>2, <1>3, <1>4, <1>5, <1>6, <1>7, <1>8, <1>9, <1>10, <1>11, <1>12, <1>13, <1>14, <1>15,
     Zenon DEF Next

\* The invariant holds at Start: nothing is anywhere and nothing is counted.
LEMMA InvInit == Init => IInv
<1> SUFFICES ASSUME Init PROVE IInv
  OBVIOUS
<1> USE EventAssumption, BatchAssumption
<1>1. /\ EmptyBatch \in BatchRecord /\ EmptyBatch.events = <<>> /\ Len(EmptyBatch.events) = 0
      /\ IdleJob \in Job /\ IdleJob.pc = "idle" /\ IdleJob.whole = <<>> /\ IdleJob.sub = {}
  BY DEF EmptyBatch, BatchRecord, IdleJob, Job
<1>2. TypeOK
  <2>1. batches \in [Host -> BatchRecord] /\ \A h \in Host : Len(batches[h].events) < MaxBatchSize
    BY <1>1 DEF Init
  <2>2. job \in [Slot -> Job]
    BY <1>1 DEF Init
  <2>3. /\ caller \in [Event -> {"idle", "dispatch", "count", "done"}] /\ host \in [Event -> Host]
        /\ queued \in Int /\ stop = "no"
    BY DEF Init
  <2>4. /\ handed \in [Event -> Seq(Event)] /\ stale \in Seq(Event)
        /\ received \in [Event -> Seq(Host)] /\ fate \in [Event -> Seq(Verdict)]
    BY DEF Init
  <2> QED
    BY <2>1, <2>2, <2>3, <2>4 DEF TypeOK, BatchRecord, Job
<1>3. Holding
  BY <1>1 DEF Init, Holding
<1>4. ASSUME NEW x \in Place PROVE ListAt(x) = <<>>
  <2>1. /\ \A c \in Event : handed[c] = <<>>
        /\ \A h \in Host : batches[h].events = <<>>
        /\ \A j \in Slot : job[j].whole = <<>>
        /\ stale = <<>>
    BY <1>1 DEF Init
  <2> QED
    BY <2>1, PlaceKinds, ListsAtPlaces
<1>5. Staged
  <2>1. \A x \in Place : IsInjective(ListAt(x)) /\ ToSet(ListAt(x)) = {}
    BY <1>4, EmptyList
  <2>2. ASSUME NEW e \in Event PROVE Fresh(e)
    <3>1. Listed(e) = {}
      BY <2>1 DEF Listed
    <3>2. Posted(e) = {}
      BY <1>1 DEF Init, Posted
    <3> QED
      BY <3>1, <3>2 DEF Init, Fresh
  <2> QED
    BY <2>1, <2>2 DEF Staged, Stage
<1>6. Counting
  <2>1. Enqueued = {} /\ Counted = {} /\ Accounted = {}
    BY DEF Init, Enqueued, Counted, Accounted
  <2>2. queued = Cardinality(Counted) - Cardinality(Accounted)
    BY <2>1, FS_EmptySet DEF Init
  <2> QED
    BY <2>1, <2>2, FS_EmptySet DEF Counting, QueuedItemsExact, Counted, Accounted
<1>7. Stopping
  BY DEF Init, Stopping
<1> QED
  BY <1>2, <1>3, <1>5, <1>6, <1>7 DEF IInv

\* The inductive invariant of DirectTransmission, whatever the events, the limits,
\* the number of goroutines and the answers of the servers.
THEOREM Invariance == Spec => []IInv
<1>0. (Counting /\ Staged => queued \in Int)'
  BY CounterIsNumber, PTL
<1>1. ASSUME IInv, [Next]_vars PROVE IInv'
  <2>1. TypeOK /\ Holding /\ Staged /\ Counting /\ Stopping
    BY <1>1 DEF IInv
  <2>2. Holding'
    BY <2>1, <1>1, Effects
  <2>3. Staged'
    BY <2>1, <1>1, StagedStep
  <2>4. Counting'
    BY <2>1, <1>1, CountingStep
  <2>5. Stopping'
    BY <2>1, <1>1, StoppingStep
  <2>6. queued' \in Int
    BY <2>3, <2>4, <1>0
  <2>7. TypeOK'
    BY <2>1, <2>6, <1>1, TypeStep
  <2> QED
    BY <2>2, <2>3, <2>4, <2>5, <2>7 DEF IInv
<1> QED
  BY <1>1, InvInit, PTL DEF Spec

\* Every reachable state is well typed; in particular no batch is ever left with
\* as many events as fill it, and no request is tried a third time.
THEOREM TypeCorrect == Spec => []TypeOK
BY Invariance, PTL DEF IInv

\* The stages say that an event is in one place.
LEMMA StagesConserve ==
  ASSUME IInv
  PROVE  EventsConserved
<1>1. ASSUME NEW e \in Event
      PROVE  /\ Cardinality(Listed(e)) + Cardinality(Posted(e)) + Len(fate[e])
                  = (IF caller[e] = "idle" THEN 0 ELSE 1)
             /\ Len(received[e]) <= 2
             /\ "accepted" \in ToSet(fate[e]) => received[e] # <<>>
  <2>1. Cardinality({}) = 0 /\ \A x : Cardinality({x}) = 1
    BY FS_EmptySet, FS_Singleton
  <2>2. Len(<<>>) = 0 /\ "accepted" \notin ToSet(<<>>)
    BY EmptyList
  <2>3. CASE Fresh(e)
    BY <2>1, <2>2, <2>3 DEF Fresh
  <2>4. CASE Queued(e)
    <3>1. PICK x \in Place : Listed(e) = {x}
      BY <2>4 DEF Queued
    <3>2. Cardinality(Listed(e)) = 1 /\ Cardinality(Posted(e)) = 0 /\ Len(fate[e]) = 0
      BY <3>1, <2>1, <2>2, <2>4 DEF Queued
    <3>3. caller[e] # "idle" /\ Len(received[e]) = 0 /\ "accepted" \notin ToSet(fate[e])
      BY <2>2, <2>4 DEF Queued
    <3> QED
      BY <3>2, <3>3
  <2>5. CASE Sending(e)
    <3>1. PICK j \in Slot : Posted(e) = {j} /\ Len(received[e]) <= job[j].try
      BY <2>5 DEF Sending
    <3>2. job[j].try \in {0, 1} /\ Len(received[e]) \in Nat
      BY DEF IInv, TypeOK
    <3>3. Cardinality(Listed(e)) = 0 /\ Cardinality(Posted(e)) = 1 /\ Len(fate[e]) = 0
      BY <3>1, <2>1, <2>2, <2>5 DEF Sending
    <3>4. caller[e] # "idle" /\ "accepted" \notin ToSet(fate[e])
      BY <2>2, <2>5 DEF Sending
    <3>5. Len(received[e]) <= 2
      BY <3>1, <3>2
    <3> QED
      BY <3>3, <3>4, <3>5
  <2>6. CASE Settled(e)
    <3>1. PICK v \in Verdict : fate[e] = <<v>> /\ (v = "accepted" => received[e] # <<>>)
      BY <2>6 DEF Settled
    <3>2. Len(<<v>>) = 1 /\ ("accepted" \in ToSet(<<v>>) => v = "accepted")
      BY DEF ToSet
    <3>3. Cardinality(Listed(e)) = 0 /\ Cardinality(Posted(e)) = 0 /\ Len(fate[e]) = 1
      BY <3>1, <3>2, <2>1, <2>6 DEF Settled
    <3>4. caller[e] # "idle" /\ Len(received[e]) <= 2
      BY <2>6 DEF Settled
    <3>5. "accepted" \in ToSet(fate[e]) => received[e] # <<>>
      BY <3>1, <3>2
    <3> QED
      BY <3>3, <3>4, <3>5
  <2> QED
    BY <2>3, <2>4, <2>5, <2>6 DEF IInv, Staged, Stage
<1> QED
  BY <1>1 DEF EventsConserved, IInv, Staged

\* EnqueueEvent, dispatchStaleBatches, sendBatch and Stop neither lose an event nor
\* settle it twice, in any interleaving and whatever the servers answer.
THEOREM EventsAlwaysConserved == Spec => []EventsConserved
BY Invariance, StagesConserve, PTL

\* The up-down counter of queued items is exact although an event is counted only
\* after its batch may have been sent.
THEOREM QueuedItemsAlwaysExact == Spec => []QueuedItemsExact
BY Invariance, PTL DEF IInv, Counting

\* When Stop has returned nothing is left: every event that was enqueued is settled.
\* (That Stop returns is liveness.)
THEOREM StopLeavesNothing == Spec => []Flushed
<1>1. ASSUME IInv PROVE Flushed
  <2> SUFFICES ASSUME stop = "stopped", NEW e \in Event, caller[e] # "idle"
               PROVE  fate[e] # <<>>
    BY DEF Flushed
  <2>1. /\ \A c \in Event : handed[c] = <<>>
        /\ \A h \in Host : batches[h].events = <<>>
        /\ \A j \in Slot : job[j].whole = <<>>
        /\ stale = <<>>
    BY <1>1 DEF IInv, Stopping, Holding
  <2>2. ASSUME NEW x \in Place PROVE ListAt(x) = <<>>
    BY <2>1, PlaceKinds, ListsAtPlaces
  <2>3. Listed(e) = {}
    BY <2>2, EmptyList DEF Listed
  <2>4. Posted(e) = {}
    BY <1>1 DEF IInv, Stopping, Holding, Posted
  <2>5. Settled(e)
    BY <1>1, <2>3, <2>4 DEF IInv, Staged, Stage, Fresh, Queued, Sending
  <2> QED
    BY <2>5 DEF Settled
<1> QED
  BY <1>1, Invariance, PTL

=============================================================================
