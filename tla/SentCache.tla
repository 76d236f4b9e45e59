----------------------------- MODULE SentCache -----------------------------
(***************************************************************************)
(* The sample cache of a collector worker: an LRU of kept traces, and for  *)
(* dropped traces a short-lived set in front of a rotating pair of cuckoo  *)
(* filters fed through a queue (collect/cache/cuckooSentCache.go,          *)
(* collect/cache/cuckoo.go, generics/setttl.go).                           *)
(*                                                                         *)
(* Record and CheckSpan are called by the worker and, under stress, by     *)
(* router goroutines; Resize by the worker on a config reload; the drain   *)
(* goroutine and the monitor goroutine run beside them.                    *)
(*                                                                         *)
(* CollectorWorker uses the abstraction of this module: two sets of        *)
(* remembered IDs that Record extends and that may lose members.           *)
(***************************************************************************)
EXTENDS Integers, Sequences, FiniteSets, SequencesExt

CONSTANTS
  TraceID,
  KeptSizes,      \* the values KeptSize may be configured to, per worker
  DroppedSizes,   \* the values DroppedSize may be configured to, per worker
  AddQueueDepth,  \* capacity of the channel addch
  TTL,            \* ticks an ID stays in recentDroppedIDs after its last use
  Reloads         \* bound: how many config reloads resize the cache

ASSUME SizesAssumption == /\ KeptSizes \subseteq Nat \ {0} /\ KeptSizes # {}
                          /\ DroppedSizes \subseteq Nat \ {0} /\ DroppedSizes # {}
                          /\ AddQueueDepth \in Nat \ {0}
                          /\ Reloads \in Nat
\* The drain goroutine wakes every 100us and empties the queue, the TTL is 3s:
\* an entry never waits for as long as the TTL.
ASSUME TTLAssumption == TTL \in Nat /\ TTL >= 2

VARIABLES
  kept,      \* [ids, cap]: the LRU, least recently used first
  recent,    \* recentDroppedIDs: ticks left by ID; absent IDs have 0
  addch,     \* queue of dropped IDs on their way into the filters
  waited,    \* how many entries of addch were already there at the last tick
  current,   \* [ids, cap]: the filter lookups use
  future,    \* <<>> or <<filter>>: the one that will replace it
  capacity,  \* the capacity of the next filter
  monitor,   \* "wait", "future", "cycle" (inside Maintain) or "exited"
  load,      \* the load factor Maintain has read: "low", "half" or "full"
  resize,    \* "idle", "copied" or "swapped": how far Resize has come
  copy,      \* the LRU Resize has built
  since,     \* history: kept IDs that were used since Resize made its copy
  reloads    \* config reloads so far

dropVars   == <<recent, addch, waited, current, future, capacity>>
resizeVars == <<resize, copy, since, reloads>>
vars == <<kept, dropVars, monitor, load, resizeVars>>

NewFilter(n) == [ids |-> {}, cap |-> n]

-----------------------------------------------------------------------------
Init ==
  /\ \E n \in KeptSizes : kept = [ids |-> <<>>, cap |-> n]
  /\ recent = [t \in TraceID |-> 0]
  /\ addch = <<>> /\ waited = 0
  /\ capacity \in DroppedSizes
  /\ current = NewFilter(capacity)
  /\ future = <<>>
  /\ monitor = "wait" /\ load = "low"
  /\ resize = "idle" /\ copy = kept /\ since = {} /\ reloads = 0

-----------------------------------------------------------------------------
(* Record and CheckSpan. *)

\* the last n elements: what an LRU of capacity n retains
Newest(seq, n) == IF Len(seq) > n THEN SubSeq(seq, Len(seq) - n + 1, Len(seq)) ELSE seq

\* lru.Cache: using an entry makes it the newest; an ID is in it at most once.
Touch(seq, t) == Append(RemoveFirst(seq, t), t)

\* The use of a kept ID, while Resize is or is not at work.
Using(t) ==
  /\ since' = IF resize = "copied" THEN since \cup {t} ELSE since
  /\ UNCHANGED <<resize, copy, reloads>>

RecordKept(t) ==
  /\ kept' = [kept EXCEPT !.ids = Newest(Touch(@, t), kept.cap)]
  /\ Using(t)
  /\ UNCHANGED <<dropVars, monitor, load>>

\* Variant: the ID is only queued for the filter.
RecordDropped_QueueOnly(t) ==
  /\ addch' = IF Len(addch) < AddQueueDepth THEN Append(addch, t) ELSE addch
  /\ UNCHANGED <<recent, waited, current, future, capacity>>
  /\ UNCHANGED <<kept, monitor, load, resizeVars>>
\* A full queue loses the ID: only recentDroppedIDs knows it then.
RecordDropped(t) ==
  /\ recent' = [recent EXCEPT ![t] = TTL]
  /\ addch' = IF Len(addch) < AddQueueDepth THEN Append(addch, t) ELSE addch
  /\ UNCHANGED <<waited, current, future, capacity>>
  /\ UNCHANGED <<kept, monitor, load, resizeVars>>

Dropped(t) == recent[t] > 0 \/ t \in current.ids
Found(t)   == Dropped(t) \/ Contains(kept.ids, t)

\* A hit refreshes the entry it finds; dropped records are looked at first.
CheckSpan(t) ==
  /\ Found(t)
  /\ IF Dropped(t)
       THEN recent' = [recent EXCEPT ![t] = TTL] /\ UNCHANGED <<kept, resizeVars>>
       ELSE kept' = [kept EXCEPT !.ids = Touch(@, t)] /\ Using(t) /\ UNCHANGED recent
  /\ UNCHANGED <<addch, waited, current, future, capacity>>
  /\ UNCHANGED <<monitor, load>>

-----------------------------------------------------------------------------
(* The filters. *)

\* The cuckoo filter library: a full filter loses an entry, the new one or another.
Insert(f, t) ==
  IF t \in f.ids \/ Cardinality(f.ids) < f.cap
    THEN {[f EXCEPT !.ids = @ \cup {t}]}
    ELSE {f} \cup {[f EXCEPT !.ids = (@ \ {v}) \cup {t}] : v \in f.ids}

LoadFactor(f) ==
  LET n == Cardinality(f.ids) IN
    CASE n = f.cap                   -> "full"  \* above 0.99
      [] n # f.cap /\ 2 * n > f.cap  -> "half"  \* above 0.5
      [] OTHER                       -> "low"

\* drain moves the entry at the head of the queue into both filters; it may be
\* cut short after any entry, so one entry at a time gives the same states.
DrainOne ==
  /\ addch # <<>>
  /\ addch' = Tail(addch)
  /\ waited' = IF waited > 0 THEN waited - 1 ELSE 0
  /\ current' \in Insert(current, Head(addch))
  /\ IF future = <<>> THEN UNCHANGED future
                      ELSE \E f \in Insert(future[1], Head(addch)) : future' = <<f>>
  /\ UNCHANGED <<recent, capacity>>

\* The drain goroutine, or the drain at the start of Maintain.
drain == DrainOne /\ UNCHANGED <<kept, monitor, load, resizeVars>>

\* Maintain, once its drain is over: read the load factor ...
MaintainLoad ==
  /\ monitor = "wait"
  /\ load' = LoadFactor(current)
  /\ monitor' = "future"
  /\ UNCHANGED <<kept, dropVars, resizeVars>>

\* ... start the future filter when the current one is half full ...
MaintainFuture ==
  /\ monitor = "future"
  /\ future' = IF future = <<>> /\ load # "low" THEN <<NewFilter(capacity)>> ELSE future
  /\ monitor' = "cycle"
  /\ UNCHANGED <<recent, addch, waited, current, capacity>>
  /\ UNCHANGED <<kept, load, resizeVars>>

\* Variant: the future filter is created anew before it takes over.
Cycled_Empty == current' = NewFilter(capacity) /\ future' = <<NewFilter(capacity)>>
Cycled == current' = future[1] /\ future' = <<NewFilter(capacity)>>

\* ... and replace the current filter by the future one when it is full.
MaintainCycle ==
  /\ monitor = "cycle"
  /\ IF load = "full" THEN Cycled ELSE UNCHANGED <<current, future>>
  /\ monitor' = "wait" /\ load' = "low"
  /\ UNCHANGED <<recent, addch, waited, capacity>>
  /\ UNCHANGED <<kept, resizeVars>>

-----------------------------------------------------------------------------
(* Resize, run by the worker while other goroutines go on. *)

\* Variant: the first keys are taken, which are the oldest.
ResizeCopy_Oldest(n) ==
  /\ resize = "idle" /\ reloads < Reloads
  /\ resize' = "copied" /\ reloads' = reloads + 1
  /\ copy' = [ids |-> IF Len(kept.ids) > n THEN SubSeq(kept.ids, 1, n) ELSE kept.ids, cap |-> n]
  /\ UNCHANGED <<kept, dropVars, monitor, load, since>>
\* copy the newest entries into a new LRU
ResizeCopy(n) ==
  /\ resize = "idle" /\ reloads < Reloads
  /\ resize' = "copied" /\ reloads' = reloads + 1
  /\ copy' = [ids |-> Newest(kept.ids, n), cap |-> n]
  /\ UNCHANGED <<kept, dropVars, monitor, load, since>>

\* install it, and set the capacity of filters to come
ResizeSwap(n) ==
  /\ resize = "copied"
  /\ resize' = "swapped"
  /\ kept' = copy
  /\ capacity' = n
  /\ copy' = [copy EXCEPT !.ids = <<>>] /\ since' = {}
  /\ UNCHANGED <<recent, addch, waited, current, future, monitor, load, reloads>>

\* c.done <- : the old monitor takes the signal when it is back at its select
ResizeStopMonitor ==
  /\ resize = "swapped" /\ monitor = "wait"
  /\ monitor' = "exited"
  /\ UNCHANGED <<kept, dropVars, load, resizeVars>>

\* Variant: no new monitor is started.
ResizeStartMonitor_Forgotten ==
  /\ resize = "swapped" /\ monitor = "exited"
  /\ resize' = "idle"
  /\ UNCHANGED <<kept, dropVars, monitor, load, copy, since, reloads>>
\* a new monitor is started once the old one has gone
ResizeStartMonitor ==
  /\ resize = "swapped" /\ monitor = "exited"
  /\ monitor' = "wait" /\ resize' = "idle"
  /\ UNCHANGED <<kept, dropVars, load, copy, since, reloads>>

-----------------------------------------------------------------------------
\* A tick of the clock, long against the period of the drain goroutine: what
\* was queued at the last tick is in the filters by now.
Tick ==
  /\ waited = 0
  /\ \E t \in TraceID : recent[t] > 0
  /\ recent' = [t \in TraceID |-> IF recent[t] > 0 THEN recent[t] - 1 ELSE 0]
  /\ waited' = Len(addch)
  /\ UNCHANGED <<addch, current, future, capacity>>
  /\ UNCHANGED <<kept, monitor, load, resizeVars>>

Next ==
  \/ \E t \in TraceID : RecordKept(t) \/ RecordDropped(t) \/ CheckSpan(t)
  \/ drain
  \/ MaintainLoad \/ MaintainFuture \/ MaintainCycle
  \/ \E n \in KeptSizes : ResizeCopy(n)
  \/ \E n \in DroppedSizes : ResizeSwap(n)
  \/ ResizeStopMonitor \/ ResizeStartMonitor
  \/ Tick

Spec == Init /\ [][Next]_vars

\* The goroutines step when they can; the worker's send on done waits for a
\* monitor that is at its select again and again.
Fairness ==
  /\ WF_vars(drain)
  /\ WF_vars(MaintainLoad) /\ WF_vars(MaintainFuture) /\ WF_vars(MaintainCycle)
  /\ WF_vars(\E n \in DroppedSizes : ResizeSwap(n))
  /\ SF_vars(ResizeStopMonitor) /\ WF_vars(ResizeStartMonitor)

FairSpec == Spec /\ Fairness

-----------------------------------------------------------------------------
(* Properties. *)

\* No ID twice, and no more than fit.
LRU == {c \in [ids : Seq(TraceID), cap : KeptSizes] : IsInjective(c.ids) /\ Len(c.ids) <= c.cap}
Filter == {f \in [ids : SUBSET TraceID, cap : DroppedSizes] :
             IsFiniteSet(f.ids) /\ Cardinality(f.ids) <= f.cap}

TypeOK ==
  /\ kept \in LRU /\ copy \in LRU
  /\ recent \in [TraceID -> 0..TTL]
  /\ addch \in Seq(TraceID) /\ Len(addch) <= AddQueueDepth
  /\ waited \in 0..Len(addch)
  /\ current \in Filter /\ future \in {<<>>} \cup {<<f>> : f \in Filter}
  /\ capacity \in DroppedSizes
  /\ monitor \in {"wait", "future", "cycle", "exited"}
  /\ load \in {"low", "half", "full"}
  /\ resize \in {"idle", "copied", "swapped"}
  /\ since \subseteq TraceID /\ reloads \in 0..Reloads

\* A dropped trace that is still queued for the filters is already answered as
\* dropped: recentDroppedIDs covers the time until the drain goroutine gets to it.
QueuedDropsVisible == \A t \in ToSet(addch) : Dropped(t)

\* A drop record that is queued or in the filter is lost only when the current
\* filter is full, and one that is in the future filter survives the rotation.
DropRecordsPersist ==
  [][\A t \in TraceID :
       Dropped(t) /\ ~Dropped(t)' =>
         \/ t \notin current.ids \cup ToSet(addch)
         \/ /\ LoadFactor(current) = "full"
            /\ monitor' # monitor => t \notin future[1].ids]_vars

\* Resize forgets a kept trace only if it was used while Resize copied (routers
\* record stress-relief decisions in the LRU that is being replaced) or if as
\* many as fit into the new one were used after it: "if it's larger than what
\* will fit in the new one, discard the oldest ones".
ResizeKeepsNewest ==
  [][\A i \in DOMAIN kept.ids :
       /\ resize = "copied" /\ resize' = "swapped"
       /\ ~Contains(kept'.ids, kept.ids[i])
       => kept.ids[i] \in since \/ Len(kept.ids) - i >= kept'.cap]_vars

\* Resize always gets past its handshake with the monitor goroutine, and there
\* is a monitor again afterwards.
ResizeCompletes == resize # "idle" ~> (resize = "idle" /\ monitor # "exited")
=============================================================================
