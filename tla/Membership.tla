----------------------------- MODULE Membership -----------------------------
(***************************************************************************)
(* How one instance, Self, learns which instances the cluster has and      *)
(* which of them owns a trace: internal/peer/pubsub_redis.go, the map with *)
(* expiring entries it keeps (generics/mapttl.go), the Redis subscription  *)
(* that runs every message in a goroutine of its own                       *)
(* (pubsub/pubsub_goredis.go), and the shard list rebuilt from the map     *)
(* (sharder/deterministic.go).                                             *)
(*                                                                         *)
(* A hash of a key list is the key set itself: collisions are left out.    *)
(* A shard list is the number of times it holds each address, which is all *)
(* a sorted list has.  A message in `wire' is on its way, or in a          *)
(* goroutine that has not run yet: messages overtake each other.           *)
(***************************************************************************)
EXTENDS Integers, FiniteSets

CONSTANTS
  Id,           \* InstanceIDs: one process each, never reused
  Self,         \* the instance modelled in detail
  Address,
  AddrOf,       \* a restarted process has a new id and its old address
  NoAddress,    \* the zero value "" of an address
  TTL,          \* PeerEntryTimeout
  Interval,     \* the possible refresh intervals, with their jitter
  MaxDelay,     \* bound: units a message takes to be handled
  MaxLosses,    \* bound: announcements of one instance lost in a row
  Handlers,     \* bound: goroutines running listen at once
  Loads,        \* bound: goroutines running loadPeerList at once
  MaxTries      \* times Start looks for itself in the list

ASSUME MembershipAssumption ==
  /\ IsFiniteSet(Id) /\ Self \in Id /\ AddrOf \in [Id -> Address] /\ NoAddress \notin Address
  /\ TTL \in Nat \ {0} /\ Interval \subseteq Nat \ {0} /\ IsFiniteSet(Interval)
  /\ MaxDelay \in Nat /\ MaxLosses \in Nat
  /\ Handlers \in Nat \ {0} /\ Loads \in Nat \ {0} /\ MaxTries \in Nat \ {0}

VARIABLES
  \* the processes
  status,    \* "new", "up" from Ready, "gone" after a stop or a crash
  every,     \* interval of the refresh ticker
  timer,     \* units to its next tick
  wire,      \* announcements not handled by Self yet
  \* Self: RedisPubsubPeers
  life,      \* units left of an entry, Expired, or Absent
  hash,      \* keys of the last change seen, or NoHash
  handler,   \* goroutines in listen, after their Set or Delete
  \* Self: DeterministicSharder
  boot,      \* progress of Start
  tries,
  load,      \* goroutines in loadPeerList
  shards,
  \* history
  lost,      \* announcements of an instance lost in a row
  heard,     \* instances whose Register was handled
  away       \* units since an instance left, up to a cap

procVars == <<status, every, timer, lost>>
peerVars == <<life, hash, handler>>
shardVars == <<boot, tries, load, shards>>
vars == <<status, every, timer, wire, life, hash, handler, boot, tries, load,
          shards, lost, heard, away>>

\* What is published: the address is a function of the id.
peerCommand == [act : {"R", "U"}, id : Id, age : 0..MaxDelay]

Expired == -1
Absent == -2
NoHash == {NoAddress}
AwayCap == TTL + MaxDelay + 1

\* The list made of the values of these keys.
ListOf(keys, AddressAt(_)) ==
  [a \in Address \cup {NoAddress} |-> Cardinality({k \in keys : AddressAt(k) = a})]
MyAddress(k) == AddrOf[Self]
EmptyList == ListOf({}, MyAddress)
IdleLoad == [pc |-> "idle", keys |-> {}, list |-> EmptyList]

Init ==
  /\ status = [i \in Id |-> "new"]
  /\ every = [i \in Id |-> 0] /\ timer = [i \in Id |-> 0]
  /\ wire = {}
  /\ life = [i \in Id |-> Absent] /\ hash = NoHash
  /\ handler = [h \in 1..Handlers |-> [pc |-> "idle", keys |-> {}]]
  /\ boot = "subscribed" /\ tries = 0
  /\ load = [l \in 1..Loads |-> IdleLoad]
  /\ shards = EmptyList
  /\ lost = [i \in Id |-> 0] /\ heard = {} /\ away = [i \in Id |-> 0]

-----------------------------------------------------------------------------
(* The map with expiring entries. *)

\* Variant: an entry that expires this instant is gone already.
Aged_Early(n) == IF n > 1 THEN n - 1 ELSE IF n = Absent THEN Absent ELSE Expired
\* What a unit of time does to an entry.  It has expired when its
\* expiration is strictly before now.
Aged(n) == IF n >= 0 THEN n - 1 ELSE n

\* Variant: expired entries stay.
cleanup_Keeps(f) == f
cleanup(f) == [i \in Id |-> IF f[i] = Expired THEN Absent ELSE f[i]]

Keys(f) == {i \in Id : cleanup(f)[i] # Absent}

\* The address stored under a key; the zero value when it is no longer there.
ValueAt(k) == IF life[k] = Absent THEN NoAddress ELSE AddrOf[k]

-----------------------------------------------------------------------------
(* The processes that announce themselves. *)

Ready(i) ==
  /\ status[i] = "new"
  /\ i = Self => boot = "started"
  /\ \E n \in Interval :
       /\ every' = [every EXCEPT ![i] = n]
       /\ timer' = [timer EXCEPT ![i] = n]
  /\ status' = [status EXCEPT ![i] = "up"]
  /\ UNCHANGED <<wire, peerVars, shardVars, lost, heard, away>>

\* Variant: the goroutine does not return after stop.
Publish_AfterStop(i) ==
  /\ status[i] # "new" /\ timer[i] = 0
  /\ timer' = [timer EXCEPT ![i] = every[i]]
  /\ wire' = wire \cup {[act |-> "R", id |-> i, age |-> 0]}
  /\ lost' = [lost EXCEPT ![i] = 0]
  /\ UNCHANGED <<status, every, peerVars, shardVars, heard, away>>
\* The refresh ticker fires: publish, which may fail or reach nobody.
Publish(i) ==
  /\ status[i] = "up" /\ timer[i] = 0
  /\ timer' = [timer EXCEPT ![i] = every[i]]
  /\ \/ /\ wire' = wire \cup {[act |-> "R", id |-> i, age |-> 0]}
        /\ lost' = [lost EXCEPT ![i] = 0]
     \/ /\ lost[i] < MaxLosses
        /\ lost' = [lost EXCEPT ![i] = @ + 1]
        /\ UNCHANGED wire
  /\ UNCHANGED <<status, every, peerVars, shardVars, heard, away>>

\* Done is closed: unregister.  The message may be lost like any other.
stop(i) ==
  /\ status[i] = "up"
  /\ status' = [status EXCEPT ![i] = "gone"]
  /\ wire' \in {wire, wire \cup {[act |-> "U", id |-> i, age |-> 0]}}
  /\ UNCHANGED <<every, timer, lost, peerVars, shardVars, heard, away>>

-----------------------------------------------------------------------------
(* Self: RedisPubsubPeers. *)

\* The end of Start: its own entry, after the subscription.
PeersStart ==
  /\ boot = "subscribed"
  /\ boot' = "entered"
  /\ life' = [life EXCEPT ![Self] = TTL]
  /\ UNCHANGED <<procVars, wire, hash, handler, tries, load, shards, heard, away>>

\* A goroutine of the subscription runs listen, up to checkHash.
listen(h, msg) ==
  /\ handler[h].pc = "idle" /\ msg \in wire
  /\ wire' = wire \ {msg}
  /\ life' = [life EXCEPT ![msg.id] = IF msg.act = "R" THEN TTL ELSE Absent]
  /\ handler' = [handler EXCEPT ![h] = [pc |-> "read", keys |-> {}]]
  /\ heard' = IF msg.act = "R" THEN heard \cup {msg.id} ELSE heard
  /\ UNCHANGED <<procVars, hash, shardVars, away>>

\* checkHash reads the keys ...
ReadKeys(h) ==
  /\ handler[h].pc = "read"
  /\ life' = cleanup(life)
  /\ handler' = [handler EXCEPT ![h] = [pc |-> "compare", keys |-> Keys(life)]]
  /\ UNCHANGED <<procVars, wire, hash, shardVars, heard, away>>

\* checkHash: the keys read are compared with hash, which no lock protects:
\* another goroutine may have compared newer or older keys in the meantime.
\* A change starts the callback in a goroutine of its own.
checkHash(h) ==
  /\ handler[h].pc = "compare"
  /\ handler' = [handler EXCEPT ![h] = [pc |-> "idle", keys |-> {}]]
  /\ hash' = handler[h].keys
  /\ \/ /\ \/ hash = handler[h].keys
           \/ boot \in {"subscribed", "entered"}  \* no callback registered yet
        /\ UNCHANGED load
     \/ /\ hash # handler[h].keys /\ boot \notin {"subscribed", "entered"}
        /\ \E l \in 1..Loads :
             /\ load[l].pc = "idle"
             /\ load' = [load EXCEPT ![l].pc = "keys"]
  /\ UNCHANGED <<procVars, wire, life, boot, tries, shards, heard, away>>

-----------------------------------------------------------------------------
(* Self: DeterministicSharder. *)

\* Start: register the callback, then load the list; the load is the
\* goroutine 1.
SharderStart ==
  /\ boot = "entered" /\ load[1].pc = "idle"
  /\ boot' = "loading"
  /\ load' = [load EXCEPT ![1].pc = "keys"]
  /\ UNCHANGED <<procVars, wire, peerVars, tries, shards, heard, away>>

\* Start: look for itself, sleeping after a miss, until MaxTries misses.
FindSelf ==
  /\ boot = "loading" /\ load[1].pc = "idle"
  /\ IF shards[AddrOf[Self]] > 0
       THEN boot' = "started" /\ UNCHANGED tries
       ELSE /\ tries' = tries + 1
            /\ boot' = IF tries' = MaxTries THEN "failed" ELSE boot
  /\ UNCHANGED <<procVars, wire, peerVars, load, shards, heard, away>>

\* loadPeerList: GetPeers reads the keys ...
LoadKeys(l) ==
  /\ load[l].pc = "keys"
  /\ life' = cleanup(life)
  /\ load' = [load EXCEPT ![l].pc = "values", ![l].keys = Keys(life)]
  /\ UNCHANGED <<procVars, wire, hash, handler, boot, tries, shards, heard, away>>

\* GetPeers, from the keys it has read, with SortedValues: never an empty
\* list: without peers there is this instance.
GetPeers(keys) ==
  IF keys = {} THEN ListOf({Self}, MyAddress) ELSE ListOf(keys, ValueAt)

\* ... releases the lock, takes it again and reads the values.
LoadValues(l) ==
  /\ load[l].pc = "values"
  /\ load' = [load EXCEPT ![l].pc = "install", ![l].keys = {},
                          ![l].list = GetPeers(load[l].keys)]
  /\ UNCHANGED <<procVars, wire, peerVars, boot, tries, shards, heard, away>>

\* An empty list is refused; a list equal to the installed one changes
\* nothing.  The comparison and the assignment hold the lock separately, but
\* assigning an equal list changes nothing either.
LoadInstall(l) ==
  /\ load[l].pc = "install"
  /\ load' = [load EXCEPT ![l] = IdleLoad]
  /\ shards' = IF load[l].list = EmptyList THEN shards ELSE load[l].list
  /\ UNCHANGED <<procVars, wire, peerVars, boot, tries, heard, away>>

-----------------------------------------------------------------------------
(* Time passes.  A ticker that is due is served, a message that has been   *)
(* on its way for MaxDelay handled, and a goroutine that has begun done,   *)
(* before the next unit (a unit is more than half a second).               *)

Tick ==
  /\ \A i \in Id : status[i] = "up" => timer[i] > 0
  /\ \A msg \in wire : msg.age < MaxDelay
  /\ \A h \in 1..Handlers : handler[h].pc = "idle"
  /\ \A l \in 1..Loads : load[l].pc = "idle"
  /\ timer' = [i \in Id |-> IF status[i] = "up" THEN timer[i] - 1 ELSE timer[i]]
  /\ wire' = {[msg EXCEPT !.age = @ + 1] : msg \in wire}
  /\ life' = [i \in Id |-> Aged(life[i])]
  /\ away' = [i \in Id |-> IF status[i] = "gone" /\ away[i] < AwayCap
                             THEN away[i] + 1 ELSE away[i]]
  /\ UNCHANGED <<status, every, hash, handler, shardVars, lost, heard>>

Next ==
  \/ \E i \in Id : Ready(i) \/ Publish(i) \/ stop(i)
  \/ PeersStart \/ SharderStart \/ FindSelf
  \/ \E h \in 1..Handlers :
       (\E msg \in wire : listen(h, msg)) \/ ReadKeys(h) \/ checkHash(h)
  \/ \E l \in 1..Loads : LoadKeys(l) \/ LoadValues(l) \/ LoadInstall(l)
  \/ Tick

Spec == Init /\ [][Next]_vars

\* The clock advances, tickers are served, and goroutines are scheduled.
Fairness ==
  /\ WF_vars(Tick) /\ WF_vars(PeersStart) /\ WF_vars(SharderStart)
  /\ WF_vars(FindSelf) /\ WF_vars(Ready(Self))
  /\ \A i \in Id : WF_vars(Publish(i))
  /\ \A h \in 1..Handlers :
       /\ WF_vars(\E msg \in wire : listen(h, msg))
       /\ WF_vars(ReadKeys(h)) /\ WF_vars(checkHash(h))
  /\ \A l \in 1..Loads :
       WF_vars(LoadKeys(l)) /\ WF_vars(LoadValues(l)) /\ WF_vars(LoadInstall(l))

FairSpec == Spec /\ Fairness

-----------------------------------------------------------------------------
(* Properties *)

List == [Address \cup {NoAddress} -> 0..Cardinality(Id)]

ProcType ==
  /\ status \in [Id -> {"new", "up", "gone"}]
  /\ every \in [Id -> Interval \cup {0}]
  /\ timer \in [Id -> Nat] /\ \A i \in Id : timer[i] <= every[i]
  /\ lost \in [Id -> 0..MaxLosses]
MapType ==
  /\ wire \subseteq peerCommand
  /\ life \in [Id -> Absent..TTL]
  /\ heard \subseteq Id
  /\ away \in [Id -> 0..AwayCap]
HandlerType ==
  /\ hash \in (SUBSET Id) \cup {NoHash}
  /\ handler \in [1..Handlers -> [pc : {"idle", "read", "compare"}, keys : SUBSET Id]]
LoadType ==
  [pc : {"idle", "keys", "values", "install"}, keys : SUBSET Id, list : List]
SharderType ==
  /\ boot \in {"subscribed", "entered", "loading", "started", "failed"}
  /\ tries \in 0..MaxTries /\ (boot # "failed" => tries < MaxTries)
  /\ load \in [1..Loads -> LoadType]
  /\ shards \in List

\* The state has its type; in particular an entry never lives longer than
\* PeerEntryTimeout, and a Start that still looks for itself has a try left.
TypeOK == ProcType /\ MapType /\ HandlerType /\ SharderType

\* MaxLosses lost announcements and the delay of the next one fit into the
\* timeout, whatever jitter is drawn.
Margin == \A n \in Interval : (MaxLosses + 1) * n + MaxDelay <= TTL

\* An instance that announces itself stays in the map from its first
\* announcement on, although MaxLosses announcements in a row are lost and
\* each takes up to MaxDelay.
LiveStaysListed ==
  \A i \in heard : status[i] = "up" => life[i] >= 0

\* A Register that arrives after the Unregister it was sent before brings a
\* stopped instance back, and a crashed one never unregisters: both are out
\* of the map once PeerEntryTimeout has passed after the last message.
DepartedExpires ==
  \A i \in Id : away[i] > TTL + MaxDelay => life[i] < 0

Up == {i \in Id : status[i] = "up"}
\* Every process keeps its address, or a restarted one takes it over: the
\* list owns exactly the addresses of the instances that are up.
OwnersAreUp == {a \in DOMAIN shards : shards[a] > 0} = {AddrOf[i] : i \in Up}

\* Two goroutines are in loadPeerList: the one that read the older list may be
\* the last to install it, and as the hash is current nothing repairs that.
Overlap == \E k, l \in 1..Loads : k # l /\ load[k].pc # "idle" /\ load[l].pc # "idle"

\* Whatever joined, left, crashed or was lost before, this instance ends up with
\* the owners that are up, and keeps them while nothing changes, as long as no
\* two reloads of its list overlap.
Converges == []~Overlap => <>[](status[Self] = "up" => OwnersAreUp)
=============================================================================
