---------------------------- MODULE ClusterProofs ----------------------------
(***************************************************************************)
(* Proofs about what an instance makes of its cluster and of its rules.    *)
(*                                                                         *)
(* Membership, for any instances, timeout, intervals, delays, losses and   *)
(* numbers of concurrent goroutines: what the lists of peers hold, and     *)
(* that callbacks follow every change.                                     *)
(*                                                                         *)
(* Sampling, with Rules below it, for any workers, versions of the files,  *)
(* rules, field lists, traces and numbers of peers: the decisions are the  *)
(* rules', the workers share their dynsamplers, and the goals are divided  *)
(* by the peers there are.                                                 *)
(***************************************************************************)
EXTENDS Membership, Sampling, FiniteSetTheorems, NaturalsInduction, WellFoundedInduction, TLAPS

\* A list made of keys counts each address at most once per instance.
LEMMA ListType ==
  ASSUME NEW keys \in SUBSET Id, NEW AddressAt(_)
  PROVE  ListOf(keys, AddressAt) \in List
<1>1. ASSUME NEW a PROVE Cardinality({k \in keys : AddressAt(k) = a}) \in 0..Cardinality(Id)
  <2>1. {k \in keys : AddressAt(k) = a} \subseteq Id
    OBVIOUS
  <2>2. QED
    BY <2>1, FS_Subset, FS_CardinalityType, MembershipAssumption
<1>2. QED
  BY <1>1 DEF ListOf, List

\* What the map's operators make of an entry.
LEMMA EntryType ==
  ASSUME life \in [Id -> Absent..TTL]
  PROVE  /\ cleanup(life) \in [Id -> Absent..TTL]
         /\ Keys(life) \in SUBSET Id
         /\ \A i \in Id : Aged(life[i]) \in Absent..TTL
         /\ \A i \in Id : life[i] >= 0 => Aged(life[i]) = life[i] - 1 /\ cleanup(life)[i] = life[i]
         /\ \A i \in Id : life[i] < 0 => Aged(life[i]) < 0 /\ cleanup(life)[i] < 0
  BY MembershipAssumption DEF cleanup, Keys, Aged, Absent, Expired

\* A ticker's interval is a number of units, 0 before Ready.
LEMMA IntervalType ==
  ASSUME ProcType, NEW i \in Id
  PROVE  every[i] \in Nat /\ (every[i] = 0 \/ every[i] \in Interval)
<1>1. every[i] \in Interval \/ every[i] = 0
  BY DEF ProcType
<1>2. \A n \in Interval : n \in Nat
  BY MembershipAssumption
<1>3. QED
  BY <1>1, <1>2

\* The state stays well typed.
THEOREM TypeCorrect == Spec => []TypeOK
<1>0. EmptyList \in List
  BY ListType DEF EmptyList
<1>1. Init => TypeOK
  BY <1>0, MembershipAssumption
  DEF Init, TypeOK, ProcType, MapType, HandlerType, SharderType, LoadType,
      IdleLoad, NoHash, Absent, AwayCap
<1>2. ASSUME TypeOK, [Next]_vars PROVE TypeOK'
  <2> USE <1>2, MembershipAssumption DEF TypeOK
  <2>1. ProcType'
    <3> USE DEF ProcType
    <3>1. ASSUME NEW i \in Id, Ready(i) PROVE ProcType'
      BY <3>1 DEF Ready
    <3>2. ASSUME NEW i \in Id, Publish(i) PROVE ProcType'
      <4>1. lost' \in [Id -> 0..MaxLosses]
        BY <3>2 DEF Publish
      <4>2. every[i] \in Nat
        BY IntervalType
      <4>3. timer' = [timer EXCEPT ![i] = every[i]] /\ UNCHANGED <<status, every>>
        BY <3>2 DEF Publish
      <4>4. QED
        BY <4>1, <4>2, <4>3
    <3>3. ASSUME NEW i \in Id, stop(i) PROVE ProcType'
      BY <3>3 DEF stop
    <3>4. ASSUME Tick PROVE ProcType'
      BY <3>4 DEF Tick
    <3>5. CASE UNCHANGED procVars
      BY <3>5 DEF procVars
    <3>6. QED
      BY <3>1, <3>2, <3>3, <3>4, <3>5
      DEF Next, vars, procVars, PeersStart, SharderStart, FindSelf, listen,
          ReadKeys, checkHash, LoadKeys, LoadValues, LoadInstall
  <2>2. MapType'
    <3> USE DEF MapType
    <3>1. ASSUME NEW i \in Id, Ready(i) \/ Publish(i) \/ stop(i) PROVE MapType'
      BY <3>1 DEF Ready, Publish, stop, peerVars, peerCommand
    <3>2. ASSUME PeersStart PROVE MapType'
      BY <3>2 DEF PeersStart, Absent
    <3>3. ASSUME NEW h \in 1..Handlers, NEW msg \in wire, listen(h, msg) PROVE MapType'
      <4>1. msg.id \in Id
        BY DEF peerCommand
      <4>2. QED
        BY <3>3, <4>1 DEF listen, Absent
    <3>4. ASSUME NEW h \in 1..Handlers, ReadKeys(h) PROVE MapType'
      BY <3>4, EntryType DEF ReadKeys
    <3>5. ASSUME NEW l \in 1..Loads, LoadKeys(l) PROVE MapType'
      BY <3>5, EntryType DEF LoadKeys
    <3>6. ASSUME Tick PROVE MapType'
      <4>1. life' \in [Id -> Absent..TTL]
        BY <3>6, EntryType DEF Tick
      <4>2. away' \in [Id -> 0..AwayCap]
        BY <3>6 DEF Tick, AwayCap
      <4>3. wire' \subseteq peerCommand
        BY <3>6 DEF Tick, peerCommand
      <4>4. QED
        BY <3>6, <4>1, <4>2, <4>3 DEF Tick
    <3>7. CASE UNCHANGED <<wire, life, heard, away>>
      BY <3>7
    <3>8. QED
      BY <3>1, <3>2, <3>3, <3>4, <3>5, <3>6, <3>7
      DEF Next, vars, peerVars, SharderStart, FindSelf, checkHash, LoadValues, LoadInstall
  <2>3. HandlerType'
    <3> USE DEF HandlerType
    <3>1. ASSUME NEW h \in 1..Handlers, NEW msg \in wire, listen(h, msg) PROVE HandlerType'
      BY <3>1 DEF listen
    <3>2. ASSUME NEW h \in 1..Handlers, ReadKeys(h) PROVE HandlerType'
      BY <3>2, EntryType DEF ReadKeys, MapType
    <3>3. ASSUME NEW h \in 1..Handlers, checkHash(h) PROVE HandlerType'
      BY <3>3 DEF checkHash
    <3>4. CASE UNCHANGED <<hash, handler>>
      BY <3>4
    <3>5. QED
      BY <3>1, <3>2, <3>3, <3>4
      DEF Next, vars, peerVars, Ready, Publish, stop, PeersStart, SharderStart,
          FindSelf, LoadKeys, LoadValues, LoadInstall, Tick
  <2>4. SharderType'
    <3> USE DEF SharderType
    <3>1. ASSUME SharderStart PROVE SharderType'
      <4>1. load' \in [1..Loads -> LoadType]
        BY <3>1 DEF SharderStart, LoadType
      <4>2. QED
        BY <3>1, <4>1 DEF SharderStart
    <3>2. ASSUME FindSelf PROVE SharderType'
      BY <3>2 DEF FindSelf
    <3>3. ASSUME NEW h \in 1..Handlers, checkHash(h) PROVE SharderType'
      <4>1. load' \in [1..Loads -> LoadType]
        <5>1. CASE UNCHANGED load
          BY <5>1
        <5>2. ASSUME NEW l \in 1..Loads, load' = [load EXCEPT ![l].pc = "keys"]
              PROVE  load' \in [1..Loads -> LoadType]
          BY <5>2 DEF LoadType
        <5>3. QED
          BY <3>3, <5>1, <5>2 DEF checkHash
      <4>2. QED
        BY <3>3, <4>1 DEF checkHash
    <3>4. ASSUME NEW l \in 1..Loads, LoadKeys(l) PROVE SharderType'
      BY <3>4, EntryType DEF LoadKeys, MapType, LoadType
    <3>5. ASSUME NEW l \in 1..Loads, LoadValues(l) PROVE SharderType'
      <4>1. load[l].keys \in SUBSET Id
        BY DEF LoadType
      <4>2. ListOf({Self}, MyAddress) \in List /\ ListOf(load[l].keys, ValueAt) \in List
        BY <4>1, ListType
      <4>3. GetPeers(load[l].keys) \in List
        BY <4>2 DEF GetPeers
      <4>4. QED
        BY <3>5, <4>3 DEF LoadValues, LoadType
    <3>6. ASSUME NEW l \in 1..Loads, LoadInstall(l) PROVE SharderType'
      BY <1>0, <3>6 DEF LoadInstall, IdleLoad, LoadType
    <3>7. ASSUME PeersStart PROVE SharderType'
      BY <3>7 DEF PeersStart
    <3>8. CASE UNCHANGED shardVars
      BY <3>8 DEF shardVars
    <3>9. QED
      BY <3>1, <3>2, <3>3, <3>4, <3>5, <3>6, <3>7, <3>8
      DEF Next, vars, shardVars, Ready, Publish, stop, listen, ReadKeys, Tick
  <2>5. QED
    BY <2>1, <2>2, <2>3, <2>4
<1>3. QED
  BY <1>1, <1>2, PTL DEF Spec

\* Who sent what: only an instance that was up, and only one that is gone
\* unregisters; this instance announces itself after Start has returned.  A
\* ticker that runs has an interval.
Senders ==
  /\ \A msg \in wire : status[msg.id] # "new" /\ (msg.act = "U" => status[msg.id] = "gone")
  /\ \A i \in heard : status[i] # "new"
  /\ status[Self] # "new" => boot = "started"
  /\ \A i \in Id : status[i] = "up" => every[i] # 0

\* Every step keeps Senders.
LEMMA SendersStep ==
  ASSUME TypeOK, Senders, [Next]_vars
  PROVE  Senders'
<1> USE DEF TypeOK, ProcType, MapType, peerCommand, Senders
<1>1. ASSUME NEW i \in Id, Ready(i) PROVE Senders'
  BY <1>1, MembershipAssumption DEF Ready, shardVars
<1>2. ASSUME NEW i \in Id, Publish(i) PROVE Senders'
  BY <1>2 DEF Publish, shardVars
<1>3. ASSUME NEW i \in Id, stop(i) PROVE Senders'
  BY <1>3 DEF stop, shardVars
<1>4. ASSUME NEW h \in 1..Handlers, NEW msg \in wire, listen(h, msg) PROVE Senders'
  BY <1>4 DEF listen, procVars, shardVars
<1>5. ASSUME Tick PROVE Senders'
  BY <1>5 DEF Tick, shardVars
<1>6. ASSUME PeersStart \/ SharderStart \/ FindSelf PROVE Senders'
  BY <1>6 DEF PeersStart, SharderStart, FindSelf, procVars
<1>7. CASE UNCHANGED <<wire, heard, status, every, boot>>
  BY <1>7
<1>8. QED
  BY <1>1, <1>2, <1>3, <1>4, <1>5, <1>6, <1>7
  DEF Next, vars, procVars, shardVars, ReadKeys, checkHash, LoadKeys, LoadValues, LoadInstall

\* A Register of a departed instance was on its way when it left, so it is at
\* least as old as the departure; whatever is left of its entry adds up.
Departures ==
  /\ \A i \in Id : away[i] > 0 => status[i] = "gone"
  /\ \A msg \in wire : msg.act = "R" => away[msg.id] <= msg.age
  /\ \A i \in Id : life[i] >= 0 => away[i] + life[i] <= TTL + MaxDelay

\* Every step keeps Departures.
LEMMA DeparturesStep ==
  ASSUME TypeOK, Senders, Departures, [Next]_vars
  PROVE  Departures'
<1> USE MembershipAssumption DEF TypeOK, ProcType, MapType, peerCommand, Departures
<1>1. ASSUME NEW i \in Id, Ready(i) PROVE Departures'
  BY <1>1 DEF Ready, peerVars
<1>2. ASSUME NEW i \in Id, Publish(i) PROVE Departures'
  BY <1>2 DEF Publish, peerVars, AwayCap
<1>3. ASSUME NEW i \in Id, stop(i) PROVE Departures'
  BY <1>3 DEF stop, peerVars, AwayCap
<1>4. ASSUME PeersStart PROVE Departures'
  BY <1>4 DEF PeersStart, procVars, Senders, AwayCap
<1>5. ASSUME NEW h \in 1..Handlers, NEW msg \in wire, listen(h, msg) PROVE Departures'
  <2>1. msg.id \in Id /\ msg.age \in 0..MaxDelay /\ away[msg.id] \in Nat
    BY DEF AwayCap
  <2>2. ASSUME NEW i \in Id, life'[i] >= 0 PROVE away[i] + life'[i] <= TTL + MaxDelay
    <3>1. CASE i = msg.id
      BY <1>5, <2>1, <2>2, <3>1 DEF listen, Absent
    <3>2. CASE i # msg.id
      BY <1>5, <2>1, <2>2, <3>2 DEF listen
    <3>3. QED
      BY <3>1, <3>2
  <2>3. QED
    BY <1>5, <2>2 DEF listen, procVars
<1>6. ASSUME life' = cleanup(life), UNCHANGED <<status, wire, away>> PROVE Departures'
  BY <1>6, EntryType
<1>7. ASSUME Tick PROVE Departures'
  <2>1. \A i \in Id : /\ away[i] \in Nat
                      /\ away'[i] \in Nat /\ away'[i] <= away[i] + 1
                      /\ away'[i] > 0 => status[i] = "gone"
    BY <1>7 DEF Tick, AwayCap
  <2>2. \A i \in Id : life'[i] >= 0 => life[i] >= 0 /\ life'[i] = life[i] - 1 /\ life[i] \in Int
    BY <1>7, EntryType DEF Tick, Absent
  <2>3. ASSUME NEW msg \in wire', msg.act = "R" PROVE away'[msg.id] <= msg.age
    <3>1. PICK old \in wire : msg = [old EXCEPT !.age = @ + 1]
      BY <1>7, <2>3 DEF Tick
    <3>2. old.act = "R" /\ msg.id = old.id /\ msg.age = old.age + 1 /\ old.id \in Id /\ old.age \in Int
      <4>1. old \in [act : {"R", "U"}, id : Id, age : 0..MaxDelay]
        OBVIOUS
      <4>2. QED
        BY <2>3, <3>1, <4>1
    <3>3. away[old.id] <= old.age
      BY <3>2
    <3>4. PICK i \in Id : i = old.id
      BY <3>2
    <3>5. away'[i] <= old.age + 1
      <4>1. away[i] \in Nat /\ away'[i] \in Nat /\ away'[i] <= away[i] + 1
        BY <2>1
      <4>2. QED
        BY <3>2, <3>3, <3>4, <4>1
    <3>6. QED
      BY <3>2, <3>4, <3>5
  <2>4. QED
    BY <1>7, <2>1, <2>2, <2>3 DEF Tick
<1>8. CASE UNCHANGED <<status, wire, life, away>>
  BY <1>8
<1>9. QED
  BY <1>1, <1>2, <1>3, <1>4, <1>5, <1>6, <1>7, <1>8
  DEF Next, vars, procVars, peerVars, SharderStart, FindSelf, ReadKeys, checkHash,
      LoadKeys, LoadValues, LoadInstall

\* An instance that left is out of the map once the timeout and the longest
\* delay have passed, although a Register may overtake its Unregister.
THEOREM DepartedAlwaysExpire == Spec => []DepartedExpires
<1>1. Init => Senders /\ Departures
  BY MembershipAssumption DEF Init, Senders, Departures, Absent
<1>2. TypeOK /\ Departures => DepartedExpires
  BY MembershipAssumption DEF TypeOK, MapType, Departures, DepartedExpires, AwayCap, Absent
<1>3. QED
  BY <1>1, <1>2, SendersStep, DeparturesStep, TypeCorrect, PTL DEF Spec

-----------------------------------------------------------------------------
\* Units until an announcement of i is handled at the latest, if none is on
\* its way and every loss that may still happen does.
Budget(i) == timer[i] + (MaxLosses - lost[i]) * every[i] + MaxDelay

\* An entry in use outlives the next announcement: one on its way, or the one
\* that cannot be lost any more.
Covered(i) ==
  \/ life[i] >= Budget(i)
  \/ \E msg \in wire : msg.id = i /\ msg.act = "R" /\ life[i] >= MaxDelay - msg.age

Refreshed == \A i \in heard : status[i] = "up" => life[i] >= 0 /\ Covered(i)

\* A fresh entry covers any run of losses, when the timeout has the margin.
LEMMA BudgetBound ==
  ASSUME Margin, TypeOK, NEW i \in Id
  PROVE  Budget(i) \in Nat /\ Budget(i) >= MaxDelay + timer[i]
         /\ (every[i] # 0 => Budget(i) <= TTL)
<1> DEFINE e == every[i]
           k == MaxLosses - lost[i]
<1>1. e \in Nat /\ timer[i] \in Nat /\ timer[i] <= e /\ MaxDelay \in Nat /\ MaxLosses \in Nat
  BY IntervalType, MembershipAssumption DEF TypeOK, ProcType
<1>2. k \in Nat /\ k <= MaxLosses
  BY MembershipAssumption DEF TypeOK, ProcType
<1>3. k * e \in Nat /\ k * e <= MaxLosses * e
  <2> HIDE DEF e, k
  <2>1. k * e \in Nat
    BY <1>1, <1>2
  <2>2. (MaxLosses - k) * e >= 0
    <3> DEFINE d == MaxLosses - k
    <3>1. d \in Nat
      BY <1>1, <1>2
    <3>2. d * e \in Nat
      <4> HIDE DEF d
      <4>1. QED
        BY <1>1, <3>1
    <3>3. QED
      BY <3>2
  <2>3. (MaxLosses - k) * e = MaxLosses * e - k * e
    BY <1>1, <1>2
  <2>4. MaxLosses * e \in Int
    BY <1>1
  <2>5. QED
    BY <2>1, <2>2, <2>3, <2>4
<1>4. e # 0 => MaxLosses * e + e + MaxDelay <= TTL
  <2> HAVE e # 0
  <2>1. (MaxLosses + 1) * e + MaxDelay <= TTL
    BY IntervalType DEF Margin, TypeOK
  <2>2. (MaxLosses + 1) * e = MaxLosses * e + e
    <3> HIDE DEF e
    <3>1. QED
      BY <1>1
  <2>3. QED
    BY <2>1, <2>2
<1>5. Budget(i) = timer[i] + k * e + MaxDelay
  BY DEF Budget
<1>6. MaxLosses * e \in Int /\ TTL \in Int
  <2> HIDE DEF e
  <2>1. QED
    BY <1>1, MembershipAssumption
<1>7. QED
  <2> DEFINE p == k * e
             q == MaxLosses * e
  <2>1. p \in Nat /\ p <= q /\ q \in Int /\ Budget(i) = timer[i] + p + MaxDelay
        /\ (every[i] # 0 => q + every[i] + MaxDelay <= TTL)
    BY <1>3, <1>4, <1>5, <1>6
  <2> HIDE DEF p, q, e, k
  <2>2. every[i] \in Nat /\ timer[i] \in Nat /\ timer[i] <= every[i] /\ TTL \in Int
    BY <1>1, <1>6 DEF e
  <2>3. QED
    BY <1>1, <2>1, <2>2

\* Every step keeps Refreshed, when the timeout has the margin.
LEMMA RefreshedStep ==
  ASSUME Margin, TypeOK, TypeOK', Senders, Refreshed, [Next]_vars
  PROVE  Refreshed'
<1> USE MembershipAssumption DEF TypeOK, ProcType, MapType, peerCommand
<1> SUFFICES ASSUME NEW i \in heard', status'[i] = "up"
             PROVE  (life[i] >= 0 /\ Covered(i))'
  BY DEF Refreshed
<1>0. i \in Id /\ timer[i] \in Nat /\ every[i] \in Nat /\ life[i] \in Int
      /\ MaxLosses - lost[i] \in Nat
  BY IntervalType DEF Absent
<1>1. ASSUME NEW j \in Id, Ready(j) PROVE (life[i] >= 0 /\ Covered(i))'
  <2>1. i \in heard /\ status[i] # "new"
    BY <1>1 DEF Ready, Senders
  <2>2. i # j
    BY <1>1, <2>1 DEF Ready
  <2>3. status[i] = "up" /\ timer'[i] = timer[i] /\ every'[i] = every[i]
    BY <1>0, <1>1, <2>2 DEF Ready
  <2>4. QED
    BY <1>1, <2>1, <2>3 DEF Ready, Refreshed, Covered, Budget, peerVars
<1>2. ASSUME NEW j \in Id, Publish(j) PROVE (life[i] >= 0 /\ Covered(i))'
  <2>1. i \in heard /\ status[i] = "up" /\ life' = life /\ life[i] >= 0 /\ Covered(i)
    BY <1>2 DEF Publish, Refreshed, peerVars
  <2>2. CASE i # j
    BY <1>0, <1>2, <2>1, <2>2 DEF Publish, Covered, Budget
  <2>3. CASE i = j /\ \E msg \in wire : msg.id = i /\ msg.act = "R" /\ life[i] >= MaxDelay - msg.age
    BY <1>2, <2>1, <2>3 DEF Publish, Covered
  <2>4. CASE i = j /\ life[i] >= Budget(i) /\ [act |-> "R", id |-> i, age |-> 0] \in wire'
    <3> DEFINE new == [act |-> "R", id |-> i, age |-> 0]
    <3>1. life[i] >= MaxDelay
      BY <1>0, <2>4, BudgetBound
    <3>2. new \in wire' /\ new.id = i /\ new.act = "R" /\ life[i] >= MaxDelay - new.age
      BY <2>4, <3>1
    <3>3. QED
      BY <2>1, <3>2 DEF Covered
  <2>5. CASE i = j /\ life[i] >= Budget(i) /\ lost'[i] = lost[i] + 1
    <3>1. timer[i] = 0 /\ timer'[i] = every[i] /\ every'[i] = every[i]
      BY <1>0, <1>2, <2>5 DEF Publish
    <3> DEFINE e == every[i]
               k == MaxLosses - lost[i]
    <3>2. Budget(i) = k * e + MaxDelay /\ Budget(i)' = e + (k - 1) * e + MaxDelay
      <4>1. MaxLosses - lost'[i] = k - 1
        BY <1>0, <2>5
      <4>2. Budget(i) = 0 + k * e + MaxDelay
        BY <3>1 DEF Budget
      <4>3. Budget(i)' = e + (k - 1) * e + MaxDelay
        BY <3>1, <4>1 DEF Budget
      <4>4. k * e \in Int
        <5>1. k \in Int /\ e \in Int
          BY <1>0
        <5> HIDE DEF k, e
        <5>2. QED
          BY <5>1
      <4> HIDE DEF k, e
      <4>5. QED
        BY <4>2, <4>3, <4>4
    <3>3. e + (k - 1) * e = k * e
      <4>1. k \in Int /\ e \in Int
        BY <1>0
      <4> HIDE DEF k, e
      <4>2. QED
        BY <4>1
    <3>4. Budget(i)' = Budget(i)
      <4> HIDE DEF k, e
      <4>1. QED
        BY <3>2, <3>3
    <3>5. QED
      BY <2>1, <2>5, <3>4 DEF Covered
  <2>6. QED
    BY <1>0, <1>2, <2>1, <2>2, <2>3, <2>4, <2>5 DEF Publish, Covered
<1>3. ASSUME NEW j \in Id, stop(j) PROVE (life[i] >= 0 /\ Covered(i))'
  <2>1. i \in heard /\ status[i] = "up" /\ UNCHANGED <<life, timer, every, lost>> /\ wire \subseteq wire'
    BY <1>0, <1>3 DEF stop, peerVars
  <2>2. QED
    BY <2>1 DEF Refreshed, Covered, Budget
<1>4. ASSUME PeersStart PROVE (life[i] >= 0 /\ Covered(i))'
  <2>1. i \in heard /\ status[i] = "up" /\ UNCHANGED <<timer, every, lost, wire>>
    BY <1>4 DEF PeersStart, procVars
  <2>2. i # Self
    BY <1>4, <2>1 DEF PeersStart, Senders
  <2>3. life'[i] = life[i]
    BY <1>0, <1>4, <2>2 DEF PeersStart
  <2>4. QED
    BY <2>1, <2>3 DEF Refreshed, Covered, Budget
<1>5. ASSUME NEW h \in 1..Handlers, NEW msg \in wire, listen(h, msg)
      PROVE  (life[i] >= 0 /\ Covered(i))'
  <2>1. UNCHANGED <<timer, every, lost, status>> /\ msg.id \in Id
        /\ (msg.act = "U" => status[msg.id] = "gone") /\ msg.act \in {"R", "U"}
    BY <1>5 DEF listen, procVars, Senders
  <2>2. CASE i = msg.id
    <3>1. msg.act = "R" /\ life'[i] = TTL
      BY <1>0, <1>5, <2>1, <2>2 DEF listen
    <3>2. every[i] # 0
      BY <1>0, <2>1 DEF Senders
    <3>3. Budget(i) <= TTL /\ Budget(i)' = Budget(i)
      BY <1>0, <2>1, <3>2, BudgetBound DEF Budget
    <3>4. QED
      BY <3>1, <3>3 DEF Covered
  <2>3. CASE i # msg.id
    <3>1. life'[i] = life[i] /\ i \in heard
      BY <1>0, <1>5, <2>1, <2>3 DEF listen
    <3>2. \A m \in wire : m.id = i => m \in wire'
      BY <1>5, <2>3 DEF listen
    <3>3. QED
      BY <2>1, <3>1, <3>2 DEF Refreshed, Covered, Budget
  <2>4. QED
    BY <2>2, <2>3
<1>6. ASSUME life' = cleanup(life), UNCHANGED <<status, wire, timer, every, lost, heard>>
      PROVE  (life[i] >= 0 /\ Covered(i))'
  <2>1. life'[i] = life[i]
    BY <1>0, <1>6, EntryType DEF Refreshed
  <2>2. QED
    BY <1>6, <2>1 DEF Refreshed, Covered, Budget
<1>7. ASSUME Tick PROVE (life[i] >= 0 /\ Covered(i))'
  <2>1. i \in heard /\ status[i] = "up" /\ life[i] >= 0 /\ Covered(i)
        /\ timer[i] > 0 /\ timer'[i] = timer[i] - 1 /\ UNCHANGED <<every, lost>>
    BY <1>0, <1>7 DEF Tick, Refreshed
  <2>2. life'[i] = life[i] - 1
    BY <1>0, <1>7, <2>1, EntryType DEF Tick
  <2>3. CASE life[i] >= Budget(i)
    <3> DEFINE p == (MaxLosses - lost[i]) * every[i]
    <3>1. Budget(i) = timer[i] + p + MaxDelay /\ Budget(i)' = (timer[i] - 1) + p + MaxDelay
      BY <2>1 DEF Budget
    <3>2. p \in Int
      BY <1>0
    <3>3. Budget(i) \in Nat /\ Budget(i) >= MaxDelay + timer[i]
      BY <1>0, BudgetBound
    <3> HIDE DEF p
    <3>4. life'[i] >= Budget(i)' /\ life'[i] >= 0
      BY <1>0, <2>1, <2>2, <2>3, <3>1, <3>2, <3>3
    <3>5. QED
      BY <3>4 DEF Covered
  <2>4. ASSUME NEW msg \in wire, msg.id = i, msg.act = "R", life[i] >= MaxDelay - msg.age
        PROVE  (life[i] >= 0 /\ Covered(i))'
    <3> DEFINE older == [msg EXCEPT !.age = @ + 1]
    <3>1. older \in wire' /\ msg.age < MaxDelay
      BY <1>7 DEF Tick
    <3>2. older.id = i /\ older.act = "R" /\ older.age = msg.age + 1 /\ msg.age \in Int
      <4>1. msg \in [act : {"R", "U"}, id : Id, age : 0..MaxDelay]
        OBVIOUS
      <4>2. QED
        BY <2>4, <4>1
    <3>3. life'[i] >= MaxDelay - older.age /\ life'[i] >= 0
      BY <1>0, <2>2, <2>4, <3>1, <3>2
    <3>4. QED
      BY <3>1, <3>2, <3>3 DEF Covered
  <2>5. QED
    BY <2>1, <2>3, <2>4 DEF Covered
<1>8. CASE UNCHANGED <<status, every, timer, lost, wire, life, heard>>
  BY <1>8 DEF Refreshed, Covered, Budget
<1>9. QED
  BY <1>1, <1>2, <1>3, <1>4, <1>5, <1>6, <1>7, <1>8
  DEF Next, vars, procVars, peerVars, SharderStart, FindSelf, ReadKeys, checkHash,
      LoadKeys, LoadValues, LoadInstall

\* With the margin, an announcing instance stays in the map from its first
\* announcement on, whichever MaxLosses announcements in a row are lost.
THEOREM AnnouncingStaysListed ==
  ASSUME Margin
  PROVE  Spec => []LiveStaysListed
<1>1. Init => Senders /\ Refreshed
  BY MembershipAssumption DEF Init, Senders, Refreshed
<1>2. TypeOK /\ TypeOK' /\ Senders /\ Refreshed /\ [Next]_vars => Senders' /\ Refreshed'
  BY SendersStep, RefreshedStep
<1>3. Refreshed => LiveStaysListed
  BY DEF Refreshed, LiveStaysListed
<1>4. QED
  BY <1>1, <1>2, <1>3, TypeCorrect, PTL DEF Spec

-----------------------------------------------------------------------------
(* The least of a set of numbers, which Min is and every search of the rules finds. *)

Less == {ss \in Nat \X Nat : ss[1] < ss[2]}

\* A set of natural numbers has a least element.
LEMMA LeastNat ==
  ASSUME NEW T, T \subseteq Nat, T # {}
  PROVE  \E x \in T : \A y \in T : x <= y
<1>1. IsWellFoundedOn(Less, Nat)
  <2>1. Less = OpToRel(<, Nat)
    BY DEF Less, OpToRel
  <2> QED
    BY <2>1, NatLessThanWellFounded
<1>2. PICK x \in T : \A y \in T : ~(<<y, x>> \in Less)
  BY <1>1, WFMin
<1>3. \A y \in T : x <= y
  <2> SUFFICES ASSUME NEW y \in T PROVE x <= y
    OBVIOUS
  <2>1. x \in Nat /\ y \in Nat /\ ~(<<y, x>> \in Less)
    BY <1>2
  <2>2. ~(y < x)
    BY <2>1 DEF Less
  <2> QED
    BY <2>1, <2>2
<1> QED
  BY <1>3

\* Min of a set of natural numbers is its least element ...
LEMMA MinProperties ==
  ASSUME NEW T, T \subseteq Nat, T # {}
  PROVE  Min(T) \in T /\ \A y \in T : Min(T) <= y
BY LeastNat DEF Min

\* ... and nothing else is.
LEMMA MinIs ==
  ASSUME NEW T, T \subseteq Nat, NEW x \in T, \A y \in T : x <= y
  PROVE  Min(T) = x
<1>1. Min(T) \in T /\ Min(T) <= x
  BY MinProperties
<1>2. x <= Min(T) /\ x \in Nat /\ Min(T) \in Nat
  BY <1>1
<1> QED
  BY <1>1, <1>2

-----------------------------------------------------------------------------
(* The early exits of rules: a span that only the root counts for speaks for  *)
(* all others.                                                                *)

\* The fields of a condition that a span, or the root, has.
Hits(t, s, c) ==
  {k \in DOMAIN c.fields : /\ c.fields[k].root => t.root # 0
                           /\ c.fields[k].name \in DOMAIN Holder(t, s, c.fields[k]).flat}

\* What extractValueFromSpan returns, by the field it finds.
LEMMA ExtractCases ==
  ASSUME NEW t, NEW s, NEW c, NEW nested
  PROVE  LET x == extractValueFromSpan(t, s, c, nested) 
             first == Min(Hits(t, s, c))
         IN /\ c.computed => x = [value |-> IntValue(Len(t.spans)), exists |-> TRUE, onlyRoot |-> TRUE]
            /\ ~c.computed /\ Hits(t, s, c) # {} =>
                 x = [value |-> Holder(t, s, c.fields[first]).flat[c.fields[first].name],
                      exists |-> TRUE, onlyRoot |-> OnlyRoot(c.fields, first)]
            /\ ~c.computed /\ Hits(t, s, c) = {} => x.onlyRoot = FALSE
<1> DEFINE x == extractValueFromSpan(t, s, c, nested)
<1>1. ASSUME c.computed
      PROVE  x = [value |-> IntValue(Len(t.spans)), exists |-> TRUE, onlyRoot |-> TRUE]
  BY <1>1 DEF extractValueFromSpan
<1>2. ASSUME ~c.computed, Hits(t, s, c) # {}
      PROVE  x = [value |-> Holder(t, s, c.fields[Min(Hits(t, s, c))]).flat[c.fields[Min(Hits(t, s, c))].name],
                  exists |-> TRUE, onlyRoot |-> OnlyRoot(c.fields, Min(Hits(t, s, c)))]
  BY <1>2, Zenon DEF extractValueFromSpan, Hits
<1>3. ASSUME ~c.computed, Hits(t, s, c) = {} PROVE x.onlyRoot = FALSE
  BY <1>3 DEF extractValueFromSpan, Hits
<1> QED
  BY <1>1, <1>2, <1>3

\* extractValueFromSpan: if only the root counted for what it found at one span,
\* it finds the same at every other, because a field of the span itself that
\* comes first would have been met before the root's.
LEMMA OnlyRootSame ==
  ASSUME NEW t, NEW c, IsList(c.fields), NEW nested, NEW r, NEW s,
         extractValueFromSpan(t, r, c, nested).onlyRoot
  PROVE  extractValueFromSpan(t, s, c, nested) = extractValueFromSpan(t, r, c, nested)
<1>1. CASE c.computed
  BY <1>1, ExtractCases, Zenon
<1>2. CASE ~c.computed
  <2> DEFINE first == Min(Hits(t, r, c))
  <2>1. Hits(t, r, c) # {}
    BY <1>2, ExtractCases
  <2>2. Hits(t, r, c) \subseteq Nat /\ Hits(t, s, c) \subseteq Nat
    BY DEF Hits, IsList
  <2>3. first \in Hits(t, r, c) /\ \A y \in Hits(t, r, c) : first <= y
    BY <2>1, <2>2, MinProperties
  <2>4. OnlyRoot(c.fields, first)
    <3>1. extractValueFromSpan(t, r, c, nested)
            = [value |-> Holder(t, r, c.fields[first]).flat[c.fields[first].name],
               exists |-> TRUE, onlyRoot |-> OnlyRoot(c.fields, first)]
      BY <1>2, <2>1, ExtractCases, Zenon
    <3> HIDE DEF first
    <3> QED
      BY <3>1 DEF OnlyRoot
  <2> HIDE DEF first
  <2>5. first \in Nat /\ first \in DOMAIN c.fields
    BY <2>2, <2>3 DEF Hits
  <2>6. \A k \in 1..first : c.fields[k].root
    BY <2>4 DEF OnlyRoot
  <2>7. ASSUME NEW k \in DOMAIN c.fields, c.fields[k].root
        PROVE  k \in Hits(t, r, c) <=> k \in Hits(t, s, c)
    BY <2>7 DEF Hits, Holder
  <2>8. first \in 1..first
    BY <2>5 DEF IsList
  <2>9. c.fields[first].root
    BY <2>6, <2>8
  <2>10. first \in Hits(t, s, c)
    BY <2>3, <2>5, <2>7, <2>9
  <2>11. ASSUME NEW y \in Hits(t, s, c) PROVE first <= y
    <3> SUFFICES ASSUME ~(first <= y) PROVE FALSE
      OBVIOUS
    <3>1. y \in DOMAIN c.fields
      BY DEF Hits
    <3>2. y \in 1..first
      BY <2>5, <3>1 DEF IsList
    <3>3. y \in Hits(t, r, c)
      BY <2>6, <2>7, <3>1, <3>2
    <3> QED
      BY <2>3, <3>3
  <2>12. Min(Hits(t, s, c)) = first
    BY <2>2, <2>10, <2>11, MinIs
  <2>13. Holder(t, s, c.fields[first]) = Holder(t, r, c.fields[first])
    <3>1. t.root # 0
      BY <2>3, <2>9 DEF Hits
    <3> QED
      BY <2>9, <3>1 DEF Holder
  <2>14. extractValueFromSpan(t, r, c, nested)
           = [value |-> Holder(t, r, c.fields[first]).flat[c.fields[first].name],
              exists |-> TRUE, onlyRoot |-> OnlyRoot(c.fields, first)]
    BY <1>2, <2>1, ExtractCases, Zenon DEF first
  <2>15. extractValueFromSpan(t, s, c, nested)
           = [value |-> Holder(t, s, c.fields[first]).flat[c.fields[first].name],
              exists |-> TRUE, onlyRoot |-> OnlyRoot(c.fields, first)]
    <3>1. Hits(t, s, c) # {}
      BY <2>10
    <3> QED
      BY <1>2, <2>12, <3>1, ExtractCases, Zenon
  <2> QED
    BY <2>13, <2>14, <2>15, Zenon
<1> QED
  BY <1>1, <1>2

\* So one span with that flag speaks for the whole trace.
LEMMA OnlyRootMatches ==
  ASSUME NEW t, NEW c, IsList(c.fields), NEW nested, NEW i, NEW j, Extracted(t, i, c, nested).onlyRoot
  PROVE  SpanMatches(t, j, c, nested) = SpanMatches(t, i, c, nested)
<1>1. Extracted(t, j, c, nested) = Extracted(t, i, c, nested)
  BY OnlyRootSame DEF Extracted
<1> QED
  BY <1>1, Zenon DEF SpanMatches

\* conditionMatchesTrace: leaving the loop at a span that only the root counts
\* for changes nothing; the condition matches iff it does at some span.
LEMMA ConditionReference ==
  ASSUME NEW t, IsList(t.spans), NEW c, IsList(c.fields), NEW nested
  PROVE  conditionMatchesTrace(t, c, nested) <=> \E i \in DOMAIN t.spans : SpanMatches(t, i, c, nested)
<1> DEFINE stops == {i \in DOMAIN t.spans :
                       SpanMatches(t, i, c, nested) \/ Extracted(t, i, c, nested).onlyRoot}
<1>1. conditionMatchesTrace(t, c, nested) <=> (stops # {} /\ SpanMatches(t, Min(stops), c, nested))
  BY Zenon DEF conditionMatchesTrace
<1>2. stops \subseteq Nat
  BY DEF IsList
<1>3. ASSUME stops # {} PROVE Min(stops) \in stops
  BY <1>2, <1>3, MinProperties
<1>4. ASSUME NEW i \in DOMAIN t.spans, SpanMatches(t, i, c, nested)
      PROVE  stops # {} /\ SpanMatches(t, Min(stops), c, nested)
  <2>1. stops # {}
    BY <1>4
  <2>2. SpanMatches(t, Min(stops), c, nested) \/ Extracted(t, Min(stops), c, nested).onlyRoot
    BY <1>3, <2>1
  <2>3. Extracted(t, Min(stops), c, nested).onlyRoot
          => SpanMatches(t, i, c, nested) = SpanMatches(t, Min(stops), c, nested)
    <3> HIDE DEF stops
    <3> QED
      BY OnlyRootMatches
  <2> QED
    BY <1>4, <2>1, <2>2, <2>3
<1>5. ASSUME stops # {}, SpanMatches(t, Min(stops), c, nested)
      PROVE  \E i \in DOMAIN t.spans : SpanMatches(t, i, c, nested)
  BY <1>3, <1>5
<1> HIDE DEF stops
<1> QED
  BY <1>1, <1>4, <1>5

\* ruleMatchesSpanInTrace: giving up on the rule when a condition fails that only
\* the root counts for changes nothing; the rule matches iff some span meets all
\* of its conditions.
LEMMA SpanRuleReference ==
  ASSUME NEW t, IsList(t.spans), NEW rule, NEW nested, IsList(rule.conditions),
         \A j \in DOMAIN rule.conditions : IsList(rule.conditions[j].fields)
  PROVE  ruleMatchesSpanInTrace(t, rule, nested) <=>
           \/ rule.conditions = <<>>
           \/ \E i \in DOMAIN t.spans :
                \A j \in DOMAIN rule.conditions : SpanMatches(t, i, rule.conditions[j], nested)
<1> DEFINE fails(i) == {j \in DOMAIN rule.conditions : ~SpanMatches(t, i, rule.conditions[j], nested)}
           stops == {i \in DOMAIN t.spans :
                       \/ fails(i) = {}
                       \/ Extracted(t, i, rule.conditions[Min(fails(i))], nested).onlyRoot}
<1>1. ruleMatchesSpanInTrace(t, rule, nested) <=>
        (rule.conditions = <<>> \/ (stops # {} /\ fails(Min(stops)) = {}))
  BY Zenon DEF ruleMatchesSpanInTrace
<1>2. stops \subseteq Nat
  BY DEF IsList
<1>3. stops # {} => Min(stops) \in stops
  <2> HIDE DEF stops
  <2> QED
    BY <1>2, MinProperties
<1>4. ASSUME NEW i \in DOMAIN t.spans, fails(i) = {}
      PROVE  stops # {} /\ fails(Min(stops)) = {}
  <2>1. stops # {}
    BY <1>4
  <2> DEFINE k == Min(stops)
             j == Min(fails(k))
  <2>2. k \in stops
    BY <1>3, <2>1
  <2>3. ASSUME fails(k) # {} PROVE FALSE
    <3>1. fails(k) \subseteq Nat
      BY DEF IsList
    <3>2. j \in fails(k)
      <4> HIDE DEF fails, k
      <4> QED
        BY <2>3, <3>1, MinProperties
    <3>3. Extracted(t, k, rule.conditions[j], nested).onlyRoot
      <4> HIDE DEF fails, k
      <4>1. \A n \in stops : fails(n) = {} \/ Extracted(t, n, rule.conditions[Min(fails(n))], nested).onlyRoot
        OBVIOUS
      <4> QED
        BY <2>2, <2>3, <4>1
    <3>4. j \in DOMAIN rule.conditions /\ ~SpanMatches(t, k, rule.conditions[j], nested)
      <4> HIDE DEF j, k
      <4> QED
        BY <3>2
    <3>5. SpanMatches(t, i, rule.conditions[j], nested)
      <4> HIDE DEF j, k
      <4> QED
        BY <1>4, <3>4
    <3> HIDE DEF j, k
    <3>6. IsList(rule.conditions[j].fields)
      BY <3>4
    <3>7. SpanMatches(t, i, rule.conditions[j], nested) = SpanMatches(t, k, rule.conditions[j], nested)
      BY <3>3, <3>6, OnlyRootMatches
    <3> QED
      BY <3>4, <3>5, <3>7
  <2> QED
    BY <2>1, <2>3
<1>5. ASSUME stops # {}, fails(Min(stops)) = {}
      PROVE  \E i \in DOMAIN t.spans : fails(i) = {}
  BY <1>3, <1>5
<1>6. \A i : fails(i) = {} <=> \A j \in DOMAIN rule.conditions : SpanMatches(t, i, rule.conditions[j], nested)
  OBVIOUS
<1> HIDE DEF stops, fails
<1>7. (stops # {} /\ fails(Min(stops)) = {}) <=> \E i \in DOMAIN t.spans : fails(i) = {}
  BY <1>4, <1>5
<1> QED
  BY <1>1, <1>6, <1>7

\* Either scope: the rule matches iff its reference does.
LEMMA RuleReference ==
  ASSUME NEW t, IsList(t.spans), NEW rule, NEW nested, IsList(rule.conditions),
         \A j \in DOMAIN rule.conditions : IsList(rule.conditions[j].fields)
  PROVE  RuleMatches(t, rule, nested) <=> ReferenceMatches(t, rule, nested)
<1>1. \A i \in DOMAIN t.spans :
        (\A c \in Range(rule.conditions) : SpanMatches(t, i, c, nested))
          <=> \A j \in DOMAIN rule.conditions : SpanMatches(t, i, rule.conditions[j], nested)
  BY DEF Range
<1>2. CASE rule.scope = "span"
  <2>1. RuleMatches(t, rule, nested) <=> ruleMatchesSpanInTrace(t, rule, nested)
    BY <1>2 DEF RuleMatches
  <2>2. ReferenceMatches(t, rule, nested) <=>
          \/ rule.conditions = <<>>
          \/ \E i \in DOMAIN t.spans : \A c \in Range(rule.conditions) : SpanMatches(t, i, c, nested)
    BY <1>2 DEF ReferenceMatches
  <2> QED
    BY <1>1, <2>1, <2>2, SpanRuleReference
<1>3. CASE rule.scope = "trace"
  <2>1. RuleMatches(t, rule, nested) <=> ruleMatchesTrace(t, rule, nested)
    BY <1>3 DEF RuleMatches
  <2> DEFINE Refers(c) == IF c.op = "has-root-span" THEN c.value.truth = (t.root # 0)
                          ELSE \E i \in DOMAIN t.spans : SpanMatches(t, i, c, nested)
             Tests(c) == IF c.op = "has-root-span" THEN (t.root # 0) = c.value.truth
                         ELSE conditionMatchesTrace(t, c, nested)
  <2>2. ReferenceMatches(t, rule, nested) <=>
          (rule.conditions = <<>> \/ \A c \in Range(rule.conditions) : Refers(c))
    BY <1>3 DEF ReferenceMatches
  <2>3. ruleMatchesTrace(t, rule, nested) <=> \A j \in DOMAIN rule.conditions : Tests(rule.conditions[j])
    BY Zenon DEF ruleMatchesTrace
  <2>4. ASSUME NEW j \in DOMAIN rule.conditions
        PROVE  Tests(rule.conditions[j]) <=> Refers(rule.conditions[j])
    <3>1. conditionMatchesTrace(t, rule.conditions[j], nested) <=>
            \E i \in DOMAIN t.spans : SpanMatches(t, i, rule.conditions[j], nested)
      BY ConditionReference
    <3> QED
      BY <3>1, Zenon
  <2>5. (\A c \in Range(rule.conditions) : Refers(c))
           <=> \A j \in DOMAIN rule.conditions : Refers(rule.conditions[j])
    <3> HIDE DEF Refers
    <3> QED
      BY DEF Range
  <2>6. rule.conditions = <<>> => DOMAIN rule.conditions = {}
    OBVIOUS
  <2> HIDE DEF Refers, Tests
  <2> QED
    BY <2>1, <2>2, <2>3, <2>4, <2>5, <2>6
<1>4. CASE rule.scope \notin {"span", "trace"}
  BY <1>4 DEF RuleMatches, ReferenceMatches
<1> QED
  BY <1>2, <1>3, <1>4

-----------------------------------------------------------------------------
(* The early exit of distinctValue. *)

\* distinctValue stops at the limit; below the limit it has noted every value of
\* every field, whatever the order of the spans.
LEMMA DistinctReference ==
  ASSUME NEW t, IsList(t.spans), NEW n \in Nat, NEW fields, DOMAIN fields = 1..n,
         Cardinality(ReferenceValues(t, fields)) < MaxKeyLength
  PROVE  distinctValue(t, fields) = ReferenceValues(t, fields)
<1> DEFINE M == Met(t, fields)
           R == ReferenceValues(t, fields)
           N(p) == Noted(t, fields, p)
<1>1. R = {N(p) : p \in M}
  <2>1. ASSUME NEW x \in R PROVE x \in {N(p) : p \in M}
    <3>1. PICK s \in Range(t.spans) :
            x \in {<<i, s.flat[fields[i]].text>> : i \in {j \in DOMAIN fields : fields[j] \in DOMAIN s.flat}}
      BY <2>1 DEF ReferenceValues
    <3>2. PICK i \in DOMAIN fields : fields[i] \in DOMAIN s.flat /\ x = <<i, s.flat[fields[i]].text>>
      BY <3>1
    <3>3. PICK k \in DOMAIN t.spans : s = t.spans[k]
      BY DEF Range
    <3>4. <<i, k>> \in M /\ x = N(<<i, k>>)
      BY <3>2, <3>3 DEF Met, Noted
    <3> QED
      BY <3>4
  <2>2. ASSUME NEW p \in M PROVE N(p) \in R
    <3>1. /\ p[1] \in DOMAIN fields /\ p[2] \in DOMAIN t.spans
          /\ fields[p[1]] \in DOMAIN t.spans[p[2]].flat
      BY <2>2 DEF Met
    <3>2. t.spans[p[2]] \in Range(t.spans)
      BY <3>1 DEF Range
    <3> QED
      BY <3>1, <3>2 DEF ReferenceValues, Noted
  <2> HIDE DEF M, R, N
  <2> QED
    BY <2>1, <2>2
<1>2. IsFiniteSet(M)
  <2>1. IsFiniteSet(DOMAIN fields) /\ IsFiniteSet(DOMAIN t.spans)
    <3>1. \A m \in Nat : IsFiniteSet(1..m)
      BY FS_Interval
    <3> QED
      BY <3>1 DEF IsList
  <2>2. IsFiniteSet((DOMAIN fields) \X (DOMAIN t.spans))
    BY <2>1, FS_Product
  <2>3. M \subseteq (DOMAIN fields) \X (DOMAIN t.spans)
    BY DEF Met
  <2> QED
    BY <2>2, <2>3, FS_Subset
<1> HIDE DEF M, N
<1>3. IsFiniteSet(R)
  <2> DEFINE f == [p \in M |-> N(p)]
  <2>1. f \in Surjection(M, R)
    <3> HIDE DEF R
    <3> QED
      BY <1>1 DEF Surjection
  <2> HIDE DEF f, R
  <2> QED
    BY <1>2, <2>1, FS_Surjection
<1>4. ASSUME NEW p \in M PROVE AddAsString(t, fields, p)
  <2> DEFINE E == {N(q) : q \in {r \in M : NotAfter(r, p)}}
  <2>1. E \subseteq R
    <3> HIDE DEF R
    <3> QED
      BY <1>1
  <2> HIDE DEF R
  <2>2. IsFiniteSet(E) /\ Cardinality(E) <= Cardinality(R)
    <3> HIDE DEF E
    <3> QED
      BY <1>3, <2>1, FS_Subset
  <2>3. Cardinality(E) \in Nat /\ Cardinality(R) \in Nat
    <3> HIDE DEF E
    <3> QED
      BY <1>3, <2>2, FS_CardinalityType
  <2>4. Cardinality(R) < MaxKeyLength
    BY DEF R
  <2>5. Cardinality(E) < MaxKeyLength
    <3> HIDE DEF E
    <3> QED
      BY <2>2, <2>3, <2>4, KeyLengthAssumption
  <2> QED
    BY <2>5, Zenon DEF AddAsString, E, M, N
<1>5. distinctValue(t, fields) = {N(p) : p \in {q \in M : AddAsString(t, fields, q)}}
  BY Zenon DEF distinctValue, M, N
<1>6. {q \in M : AddAsString(t, fields, q)} = M
  BY <1>4
<1> QED
  BY <1>1, <1>5, <1>6

\* makeDecision agrees with the rules, for every version of the files and every
\* trace: the rules that match are those that should, the first of them decides,
\* and the key of its downstream sampler is made of all values of the trace as
\* long as those are few.
THEOREM DecisionsAgree ==
  ASSUME NEW v \in DOMAIN File, NEW t \in Traces
  PROVE  Agrees(v, t, makeDecision(v, t))
<1> DEFINE rules == RulesOf(v)
           holds == {i \in DOMAIN rules : ReferenceMatches(t, rules[i], File[v].nested)}
           d == makeDecision(v, t)
<1>1. IsList(t.spans)
  BY TracesAssumption
<1>2. ASSUME NEW i \in DOMAIN rules
      PROVE  /\ IsList(rules[i].conditions)
             /\ \A j \in DOMAIN rules[i].conditions : IsList(rules[i].conditions[j].fields)
             /\ \A s \in rules[i].sampler : rules[i].sampler = {s} /\ IsList(s.fields)
  BY FileAssumption, Zenon DEF RulesOf
<1>3. {i \in DOMAIN rules : RuleMatches(t, rules[i], File[v].nested)} = holds
  <2>1. ASSUME NEW i \in DOMAIN rules
        PROVE  RuleMatches(t, rules[i], File[v].nested) <=> ReferenceMatches(t, rules[i], File[v].nested)
    <3> HIDE DEF rules
    <3> QED
      BY <1>1, <1>2, RuleReference
  <2> QED
    BY <2>1
<1>4. d.rule = IF holds = {} THEN 0 ELSE Min(holds)
  <2>1. FirstMatch(t, rules, File[v].nested) = IF holds = {} THEN 0 ELSE Min(holds)
    BY <1>3, Zenon DEF FirstMatch
  <2>2. d.rule = FirstMatch(t, rules, File[v].nested)
    BY DEF makeDecision, Verdict
  <2> QED
    BY <2>1, <2>2, Zenon
<1>5. d.key = DownstreamKey(v, d.rule, t)
  BY DEF makeDecision, Verdict
<1>6. ASSUME NEW s \in IF d.rule = 0 THEN {} ELSE rules[d.rule].sampler,
             Cardinality(ReferenceValues(t, Sorted(s.fields))) < MaxKeyLength
      PROVE  d.key = {KeyFrom(t, Sorted(s.fields), s.roots, s.useLength,
                              ReferenceValues(t, Sorted(s.fields)))}
  <2> HIDE DEF d
  <2>1. d.rule # 0 /\ s \in rules[d.rule].sampler
    BY <1>6
  <2>2. d.rule \in DOMAIN rules
    <3> HIDE DEF rules
    <3>1. IsList(rules)
      BY FileAssumption, Zenon DEF rules, RulesOf
    <3>2. holds # {} /\ d.rule = Min(holds)
      BY <1>4, <2>1
    <3>3. holds \subseteq Nat
      BY <3>1 DEF IsList
    <3>4. d.rule \in holds
      <4> HIDE DEF holds
      <4> QED
        BY <3>2, <3>3, MinProperties
    <3> QED
      BY <3>4
  <2>3. rules[d.rule].sampler = {s} /\ IsList(s.fields)
    BY <1>2, <2>1, <2>2
  <2>4. d.key = {build(t, Sorted(s.fields), s.roots, s.useLength)}
    <3>1. d.key = {build(t, Sorted(x.fields), x.roots, x.useLength) : x \in rules[d.rule].sampler}
      BY <1>5, <2>1 DEF DownstreamKey
    <3> HIDE DEF rules
    <3> QED
      BY <2>3, <3>1
  <2>5. PICK n \in Nat : DOMAIN Sorted(s.fields) = 1..n
    BY <2>3 DEF Sorted, IsList
  <2>6. distinctValue(t, Sorted(s.fields)) = ReferenceValues(t, Sorted(s.fields))
    BY <1>1, <1>6, <2>5, DistinctReference
  <2> QED
    BY <2>4, <2>6, Zenon DEF build
<1> HIDE DEF d
<1>7. Agrees(v, t, d)
  BY <1>3, <1>4, <1>6, Zenon DEF Agrees, rules, holds
<1> QED
  BY <1>7 DEF d

-----------------------------------------------------------------------------
(* The samplers of the workers and the dynsamplers they share. *)

\* Every field list is in order, so that sorting it in place changes nothing.
SortedLists ==
  \A v \in DOMAIN File : \A i \in DOMAIN RulesOf(v) :
    \A d \in RulesOf(v)[i].sampler : Sorted(d.fields) = d.fields

WithSampler(v) == {j \in DOMAIN RulesOf(v) : RulesOf(v)[j].sampler # {}}

\* dyn holds dynsamplers for rules of version v.
Matching(v, dyn) ==
  /\ dyn = [i \in DOMAIN dyn |->
              [key |-> dyn[i].key, running |-> dyn[i].running, owner |-> dyn[i].owner]]
  /\ \A i \in DOMAIN dyn :
       /\ dyn[i].key.goal = Downstream(v, i).goal
       /\ SortedLists => dyn[i].key = [goal |-> Downstream(v, i).goal, fields |-> Downstream(v, i).fields]

\* The dynsamplers of dyn are those that the factory has now, in sh, and the goals
\* of those for the rules in is are known to it, in go.
InUse(v, dyn, is, sh, go) ==
  /\ \A i \in DOMAIN dyn :
       /\ dyn[i].running = TRUE
       /\ dyn[i].key \in DOMAIN sh /\ dyn[i].owner = sh[dyn[i].key].owner
  /\ \A i \in is : Downstream(v, i).cluster => dyn[i].key \in DOMAIN go

\* A worker's sampler: unless the worker is told to forget it, it is in use.
SamplerOK(ss, told, sh, go) ==
  \A s \in ss :
    /\ ss = {s} /\ s = [version |-> s.version, dyn |-> s.dyn]
    /\ s.version \in DOMAIN File /\ Matching(s.version, s.dyn)
    /\ DOMAIN s.dyn = WithSampler(s.version)
    /\ ~told => InUse(s.version, s.dyn, DOMAIN s.dyn, sh, go)

\* A worker that creates its sampler has done so up to its rule.
Progress(c) ==
  /\ c.version \in DOMAIN File /\ Matching(c.version, c.dyn)
  /\ c.pc = "create" =>
       /\ c.rule \in WithSampler(c.version) \cup {0}
       /\ DOMAIN c.dyn = {j \in WithSampler(c.version) : c.rule = 0 \/ j < c.rule}
  /\ c.pc = "start" =>
       /\ c.rule \in WithSampler(c.version)
       /\ DOMAIN c.dyn = {j \in WithSampler(c.version) : j <= c.rule}

WorkerOK(c, told, sh, go) ==
  /\ c = [pc |-> c.pc, version |-> c.version, rule |-> c.rule, dyn |-> c.dyn]
  /\ c.pc \in {"idle", "create", "start"}
  /\ c.pc # "idle" =>
       /\ Progress(c)
       /\ ~told => InUse(c.version, c.dyn,
                         IF c.pc = "start" THEN DOMAIN c.dyn \ {c.rule} ELSE DOMAIN c.dyn, sh, go)

SamplersInv ==
  /\ samplers = [w \in Worker |-> samplers[w]] /\ worker = [w \in Worker |-> worker[w]]
  /\ restart = [w \in Worker |-> restart[w]] /\ \A w \in Worker : restart[w] \in BOOLEAN
  /\ \A w \in Worker : /\ SamplerOK(samplers[w], restart[w], shared, goals)
                       /\ WorkerOK(worker[w], restart[w], shared, goals)

\* The part of a goal that one of n peers has.
ShareOf(goal, n) == Max({goal \div n, 1})

Divided(sh, go, n) == \A k \in DOMAIN sh : k \in DOMAIN go => sh[k].goal = ShareOf(go[k], n)

\* The factory: every entry has its goal and its owner, and a goal is divided
\* unless the worker that has just created a dynsampler is about to see to it.
Records(sh) == \A k \in DOMAIN sh : sh[k] = [goal |-> sh[k].goal, owner |-> sh[k].owner]
FactoryInv ==
  /\ Records(shared)
  /\ \A k \in DOMAIN goals : goals[k] = k.goal
  /\ Divided(shared, goals, peerCount) \/ \E w \in Worker : worker[w].pc = "start"
  /\ peerCount = peers \/ callback

Versions ==
  /\ file \in DOMAIN File /\ current \in DOMAIN File
  /\ reload = [g \in Reloader |-> [pc |-> reload[g].pc, version |-> reload[g].version]]
  /\ \A g \in Reloader : reload[g].pc # "idle" => reload[g].version \in DOMAIN File

SamplingInv == Versions /\ SamplersInv /\ FactoryInv

\* NextRule is the next rule with a downstream sampler, or 0 after the last one.
LEMMA NextRuleProperties ==
  ASSUME NEW v \in DOMAIN File, NEW i \in Nat
  PROVE  /\ NextRule(v, i) \in WithSampler(v) \cup {0}
         /\ NextRule(v, i) = 0 => \A j \in WithSampler(v) : j <= i
         /\ NextRule(v, i) # 0 => /\ NextRule(v, i) > i
                                  /\ \A j \in WithSampler(v) : j < NextRule(v, i) <=> j <= i
<1> DEFINE rest == {j \in DOMAIN RulesOf(v) : j > i /\ RulesOf(v)[j].sampler # {}}
<1>1. IsList(RulesOf(v))
  BY FileAssumption, Zenon DEF RulesOf
<1>2. rest \subseteq Nat /\ WithSampler(v) \subseteq Nat /\ 0 \notin rest
  BY <1>1 DEF IsList, WithSampler
<1>3. \A j \in WithSampler(v) : j \in rest <=> j > i
  BY DEF WithSampler
<1>4. rest \subseteq WithSampler(v)
  BY DEF WithSampler
<1>5. NextRule(v, i) = IF rest = {} THEN 0 ELSE Min(rest)
  BY Zenon DEF NextRule
<1> HIDE DEF rest
<1>6. CASE rest = {}
  BY <1>2, <1>3, <1>5, <1>6
<1>7. CASE rest # {}
  <2>1. PICK n \in rest : n = Min(rest) /\ \A y \in rest : n <= y
    BY <1>2, <1>7, MinProperties
  <2>2. n \in WithSampler(v) /\ n > i /\ n # 0 /\ NextRule(v, i) = n
    BY <1>2, <1>3, <1>4, <1>5, <1>7, <2>1
  <2>3. \A j \in WithSampler(v) : j < n <=> j <= i
    BY <1>2, <1>3, <2>1, <2>2
  <2> QED
    BY <2>2, <2>3
<1> QED
  BY <1>6, <1>7

\* The factory has what it had.
Grows(sh, go, sh2, go2) ==
  /\ DOMAIN go \subseteq DOMAIN go2
  /\ \A k \in DOMAIN sh : k \in DOMAIN sh2 /\ sh2[k].owner = sh[k].owner

\* The factory may learn more without disturbing what is in use.
LEMMA GrowthKeeps ==
  ASSUME NEW sh, NEW go, NEW sh2, NEW go2, Grows(sh, go, sh2, go2), NEW ss, NEW c, NEW told
  PROVE  /\ SamplerOK(ss, told, sh, go) => SamplerOK(ss, told, sh2, go2)
         /\ WorkerOK(c, told, sh, go) => WorkerOK(c, told, sh2, go2)
<1>1. ASSUME NEW v, NEW dyn, NEW is, InUse(v, dyn, is, sh, go) PROVE InUse(v, dyn, is, sh2, go2)
  BY <1>1 DEF InUse, Grows
<1>2. SamplerOK(ss, told, sh, go) => SamplerOK(ss, told, sh2, go2)
  BY <1>1, Zenon DEF SamplerOK
<1>3. WorkerOK(c, told, sh, go) => WorkerOK(c, told, sh2, go2)
  BY <1>1, Zenon DEF WorkerOK
<1> QED
  BY <1>2, <1>3

\* ClearDynsamplers: whoever is told to forget its sampler may keep it, stopped.
LEMMA StoppingKeeps ==
  ASSUME NEW sh, NEW go, NEW sh2, NEW go2, NEW ss, NEW c, NEW told
  PROVE  /\ SamplerOK(ss, told, sh, go) => SamplerOK({[s EXCEPT !.dyn = Stopped(@)] : s \in ss}, TRUE, sh2, go2)
         /\ WorkerOK(c, told, sh, go) => WorkerOK([c EXCEPT !.dyn = Stopped(@)], TRUE, sh2, go2)
<1>1. ASSUME NEW v, NEW dyn, Matching(v, dyn)
      PROVE  Matching(v, Stopped(dyn)) /\ DOMAIN Stopped(dyn) = DOMAIN dyn
  <2>1. DOMAIN Stopped(dyn) = DOMAIN dyn
    BY DEF Stopped
  <2>2. ASSUME NEW i \in DOMAIN dyn
        PROVE  /\ Stopped(dyn)[i] = [key |-> dyn[i].key, running |-> FALSE, owner |-> dyn[i].owner]
               /\ Stopped(dyn)[i].key = dyn[i].key
    <3>1. PICK k, r, o : dyn[i] = [key |-> k, running |-> r, owner |-> o]
      <4>1. dyn[i] = [key |-> dyn[i].key, running |-> dyn[i].running, owner |-> dyn[i].owner]
        BY <1>1, <2>2, Zenon DEF Matching
      <4> QED
        BY <4>1, Zenon
    <3>2. Stopped(dyn)[i] = [dyn[i] EXCEPT !.running = FALSE]
      BY <2>2 DEF Stopped
    <3>3. Stopped(dyn)[i] = [key |-> dyn[i].key, running |-> FALSE, owner |-> dyn[i].owner]
      BY <3>1, <3>2
    <3>4. Stopped(dyn)[i].key = dyn[i].key
      BY <3>1, <3>2
    <3> QED
      BY <3>3, <3>4, Zenon
  <2>3. Stopped(dyn) = [i \in DOMAIN dyn |-> [key |-> dyn[i].key, running |-> FALSE, owner |-> dyn[i].owner]]
    <3>1. Stopped(dyn) = [i \in DOMAIN dyn |-> Stopped(dyn)[i]]
      BY DEF Stopped
    <3> QED
      BY <2>2, <3>1
  <2>4. \A i \in DOMAIN dyn : Stopped(dyn)[i].key = dyn[i].key
    BY <2>2, Zenon
  <2> QED
    BY <1>1, <2>1, <2>3, <2>4 DEF Matching
<1>2. ASSUME SamplerOK(ss, told, sh, go)
      PROVE  SamplerOK({[s EXCEPT !.dyn = Stopped(@)] : s \in ss}, TRUE, sh2, go2)
  <2> DEFINE tt == {[s EXCEPT !.dyn = Stopped(@)] : s \in ss}
  <2> SUFFICES ASSUME NEW q \in tt
               PROVE  /\ tt = {q} /\ q = [version |-> q.version, dyn |-> q.dyn]
                      /\ q.version \in DOMAIN File /\ Matching(q.version, q.dyn)
                      /\ DOMAIN q.dyn = WithSampler(q.version)
    BY Zenon DEF SamplerOK
  <2>1. PICK s \in ss : q = [s EXCEPT !.dyn = Stopped(@)]
    OBVIOUS
  <2>2. /\ ss = {s} /\ s = [version |-> s.version, dyn |-> s.dyn]
        /\ s.version \in DOMAIN File /\ Matching(s.version, s.dyn)
        /\ DOMAIN s.dyn = WithSampler(s.version)
    BY <1>2, Zenon DEF SamplerOK
  <2>3. tt = {q}
    BY <2>1, <2>2
  <2>4. q = [version |-> s.version, dyn |-> Stopped(s.dyn)]
    BY <2>1, <2>2
  <2>5. q.version = s.version /\ q.dyn = Stopped(s.dyn)
    BY <2>4
  <2> HIDE DEF tt
  <2> QED
    BY <1>1, <2>2, <2>3, <2>4, <2>5
<1>3. ASSUME WorkerOK(c, told, sh, go)
      PROVE  WorkerOK([c EXCEPT !.dyn = Stopped(@)], TRUE, sh2, go2)
  <2> DEFINE d == [c EXCEPT !.dyn = Stopped(@)]
  <2>1. /\ c = [pc |-> c.pc, version |-> c.version, rule |-> c.rule, dyn |-> c.dyn]
        /\ c.pc \in {"idle", "create", "start"} /\ (c.pc # "idle" => Progress(c))
    BY <1>3 DEF WorkerOK
  <2>2. d = [pc |-> c.pc, version |-> c.version, rule |-> c.rule, dyn |-> Stopped(c.dyn)]
    BY <2>1
  <2>3. d.pc = c.pc /\ d.version = c.version /\ d.rule = c.rule /\ d.dyn = Stopped(c.dyn)
    BY <2>2
  <2> HIDE DEF d
  <2>4. d.pc # "idle" => Progress(d)
    BY <1>1, <2>1, <2>3 DEF Progress
  <2>5. WorkerOK(d, TRUE, sh2, go2)
    BY <2>1, <2>2, <2>3, <2>4 DEF WorkerOK
  <2> QED
    BY <2>5 DEF d
<1> QED
  BY <1>2, <1>3

\* updatePeerCounts divides every goal it knows by the peers there are now.
LEMMA CountsUpdated ==
  ASSUME NEW ds, NEW gs, Records(ds), updatePeerCounts(ds, gs)
  PROVE  /\ peerCount' = peers /\ DOMAIN shared' = DOMAIN ds /\ Records(shared')
         /\ \A k \in DOMAIN ds : shared'[k].owner = ds[k].owner
         /\ Divided(shared', gs, peers)
<1>1. peerCount' = peers
  BY DEF updatePeerCounts, ClusterSize
<1>2. shared' = [k \in DOMAIN ds |->
                   IF k \in DOMAIN gs THEN [ds[k] EXCEPT !.goal = ShareOf(gs[k], peers)] ELSE ds[k]]
  BY <1>1, Zenon DEF updatePeerCounts, ShareOf
<1>3. ASSUME NEW k \in DOMAIN ds
      PROVE  /\ shared'[k] = [goal |-> shared'[k].goal, owner |-> shared'[k].owner]
             /\ shared'[k].owner = ds[k].owner
             /\ k \in DOMAIN gs => shared'[k].goal = ShareOf(gs[k], peers)
  <2>1. ds[k] = [goal |-> ds[k].goal, owner |-> ds[k].owner]
    BY DEF Records
  <2>2. CASE k \in DOMAIN gs
    <3>1. shared'[k] = [ds[k] EXCEPT !.goal = ShareOf(gs[k], peers)]
      BY <1>2, <2>2
    <3>2. shared'[k] = [goal |-> ShareOf(gs[k], peers), owner |-> ds[k].owner]
      BY <2>1, <3>1
    <3> QED
      BY <3>2
  <2>3. CASE k \notin DOMAIN gs
    BY <1>2, <2>1, <2>3
  <2> QED
    BY <2>2, <2>3
<1>4. DOMAIN shared' = DOMAIN ds
  BY <1>2
<1>5. \A k \in DOMAIN ds : shared'[k].owner = ds[k].owner
  BY <1>3
<1> QED
  BY <1>1, <1>3, <1>4, <1>5 DEF Records, Divided

\* The first version is installed, nobody has a sampler, and the map is empty.
LEMMA SamplingInitial == SamplingInit => SamplingInv
<1> SUFFICES ASSUME SamplingInit PROVE SamplingInv
  OBVIOUS
<1>1. 1 \in DOMAIN File
  BY FileAssumption, StartAssumption DEF IsList
<1>2. Versions
  BY <1>1 DEF SamplingInit, Versions, NotReloading
<1>3. SamplersInv
  <2>1. \A w \in Worker : /\ samplers[w] = {} /\ restart[w] = FALSE /\ worker[w] = Idle
    BY DEF SamplingInit
  <2>2. \A sh, go : SamplerOK({}, FALSE, sh, go) /\ WorkerOK(Idle, FALSE, sh, go)
    BY DEF SamplerOK, WorkerOK, Idle
  <2>3. /\ samplers = [w \in Worker |-> samplers[w]] /\ worker = [w \in Worker |-> worker[w]]
        /\ restart = [w \in Worker |-> restart[w]]
    BY DEF SamplingInit
  <2> QED
    BY <2>1, <2>2, <2>3 DEF SamplersInv
<1>4. FactoryInv
  <2>1. DOMAIN shared = {} /\ DOMAIN goals = {} /\ peerCount = peers
    BY DEF SamplingInit
  <2> QED
    BY <2>1 DEF FactoryInv, Records, Divided
<1> QED
  BY <1>2, <1>3, <1>4 DEF SamplingInv

\* Whatever version is read, checked or installed is one of the file's.
LEMMA VersionsStep ==
  ASSUME Versions, [SamplingNext]_samplingVars
  PROVE  Versions'
<1>1. CASE Edit
  <2>1. file \in 1..Len(File) /\ Len(File) \in Nat /\ DOMAIN File = 1..Len(File)
    BY FileAssumption DEF Versions, IsList
  <2>2. file' \in DOMAIN File
    BY <1>1, <2>1 DEF Edit
  <2> QED
    BY <1>1, <2>2 DEF Edit, Versions
<1>2. ASSUME NEW g \in Reloader, Reloading(g) PROVE Versions'
  <2>1. CASE ReadFiles(g)
    BY <2>1 DEF ReadFiles, Versions
  <2>2. CASE newFileConfig(g)
    <3>1. PICK pc, ver : reload[g] = [pc |-> pc, version |-> ver]
      <4>1. reload[g] = [pc |-> reload[g].pc, version |-> reload[g].version]
        BY Zenon DEF Versions
      <4> QED
        BY <4>1, Zenon
    <3>2. pc # "idle" /\ ver \in DOMAIN File
      <4>1. reload[g].pc = "validate" /\ reload[g].version \in DOMAIN File
        BY <2>2 DEF newFileConfig, Versions
      <4> QED
        BY <3>1, <4>1
    <3>3. \/ reload' = [reload EXCEPT ![g] = [pc |-> "install", version |-> ver]]
          \/ reload' = [reload EXCEPT ![g] = [pc |-> "idle", version |-> 0]]
      <4>1. [reload EXCEPT ![g].pc = "install"] = [reload EXCEPT ![g] = [reload[g] EXCEPT !.pc = "install"]]
        BY Zenon
      <4>2. [reload[g] EXCEPT !.pc = "install"] = [pc |-> "install", version |-> ver]
        BY <3>1
      <4>3. reload' \in {[reload EXCEPT ![g].pc = "install"], [reload EXCEPT ![g] = NotReloading]}
        BY <2>2, Zenon DEF newFileConfig
      <4> QED
        BY <4>1, <4>2, <4>3, Zenon DEF NotReloading
    <3>4. file' = file /\ current' = current
      BY <2>2 DEF newFileConfig
    <3> QED
      BY <3>2, <3>3, <3>4 DEF Versions
  <2>3. CASE Reload(g)
    BY <2>3 DEF Reload, Versions, NotReloading
  <2> QED
    BY <1>2, <2>1, <2>2, <2>3 DEF Reloading
<1>3. ASSUME UNCHANGED configVars PROVE Versions'
  BY <1>3 DEF configVars, Versions
<1>4. CASE reloadConfigs \/ PeersChange \/ PeersCallback
  BY <1>3, <1>4, Zenon DEF reloadConfigs, PeersChange, PeersCallback
<1>5. ASSUME NEW w \in Worker, WorkerReload(w) \/ GetSamplerImplementationForKey(w) \/ Creating(w)
      PROVE  Versions'
  BY <1>3, <1>5, Zenon DEF WorkerReload, GetSamplerImplementationForKey, Creating,
     getSharedDynsampler, StartDownstream, createSampler
<1>6. CASE UNCHANGED samplingVars
  BY <1>3, <1>6, Zenon DEF samplingVars
<1> QED
  BY <1>1, <1>2, <1>4, <1>5, <1>6, Zenon DEF SamplingNext

\* Steps that leave the workers and the factory alone.
LEMMA QuietStep ==
  ASSUME SamplersInv, FactoryInv, UNCHANGED <<restart, worker, samplers, shared, goals, peerCount>>,
         (peers' = peers /\ callback' = callback) \/ callback' = TRUE
  PROVE  SamplersInv' /\ FactoryInv'
<1>1. SamplersInv'
  BY Zenon DEF SamplersInv
<1>2. FactoryInv'
  BY DEF FactoryInv
<1> QED
  BY <1>1, <1>2

\* reloadConfigs stops and forgets the dynsamplers and tells every worker.
LEMMA ReloadConfigsStep ==
  ASSUME SamplersInv, FactoryInv, reloadConfigs
  PROVE  SamplersInv' /\ FactoryInv'
<1>1. ASSUME NEW w \in Worker
      PROVE  /\ SamplerOK(samplers'[w], restart'[w], shared', goals')
             /\ WorkerOK(worker'[w], restart'[w], shared', goals') /\ restart'[w] = TRUE
  <2>1. /\ samplers'[w] = {[s EXCEPT !.dyn = Stopped(@)] : s \in samplers[w]}
        /\ worker'[w] = [worker[w] EXCEPT !.dyn = Stopped(@)]
        /\ restart'[w] = TRUE
    BY DEF reloadConfigs, Signalled
  <2>2. /\ SamplerOK({[s EXCEPT !.dyn = Stopped(@)] : s \in samplers[w]}, TRUE, shared', goals')
        /\ WorkerOK([worker[w] EXCEPT !.dyn = Stopped(@)], TRUE, shared', goals')
    BY StoppingKeeps DEF SamplersInv
  <2> QED
    BY <2>1, <2>2, Zenon
<1>2. /\ samplers' = [w \in Worker |-> samplers'[w]] /\ worker' = [w \in Worker |-> worker'[w]]
      /\ restart' = [w \in Worker |-> restart'[w]]
  BY DEF reloadConfigs, Signalled
<1>3. SamplersInv'
  BY <1>1, <1>2 DEF SamplersInv
<1>4. DOMAIN shared' = {} /\ DOMAIN goals' = {} /\ UNCHANGED <<peerCount, peers, callback>>
  BY DEF reloadConfigs, clusterVars
<1>5. FactoryInv'
  BY <1>4 DEF FactoryInv, Records, Divided
<1> QED
  BY <1>3, <1>5

\* A worker's own step: the others see at most that the factory has grown.
LEMMA OwnStep ==
  ASSUME SamplersInv, NEW w \in Worker, NEW ss, NEW c, NEW told \in BOOLEAN,
         samplers' = [samplers EXCEPT ![w] = ss], worker' = [worker EXCEPT ![w] = c],
         restart' = [restart EXCEPT ![w] = told], Grows(shared, goals, shared', goals'),
         SamplerOK(ss, told, shared', goals'), WorkerOK(c, told, shared', goals')
  PROVE  SamplersInv'
<1>1. /\ samplers' = [x \in Worker |-> samplers'[x]] /\ worker' = [x \in Worker |-> worker'[x]]
      /\ restart' = [x \in Worker |-> restart'[x]]
  BY DEF SamplersInv
<1>2. ASSUME NEW x \in Worker
      PROVE  /\ restart'[x] \in BOOLEAN /\ SamplerOK(samplers'[x], restart'[x], shared', goals')
             /\ WorkerOK(worker'[x], restart'[x], shared', goals')
  <2>1. CASE x = w
    <3>1. samplers'[x] = ss /\ worker'[x] = c /\ restart'[x] = told
      BY <2>1 DEF SamplersInv
    <3> QED
      BY <3>1, Zenon
  <2>2. CASE x # w
    <3>1. samplers'[x] = samplers[x] /\ worker'[x] = worker[x] /\ restart'[x] = restart[x]
      BY <2>2 DEF SamplersInv
    <3>2. /\ restart[x] \in BOOLEAN /\ SamplerOK(samplers[x], restart[x], shared, goals)
          /\ WorkerOK(worker[x], restart[x], shared, goals)
      BY Zenon DEF SamplersInv
    <3>3. /\ SamplerOK(samplers[x], restart[x], shared', goals')
          /\ WorkerOK(worker[x], restart[x], shared', goals')
      BY <3>2, GrowthKeeps, Zenon
    <3> QED
      BY <3>1, <3>2, <3>3, Zenon
  <2> QED
    BY <2>1, <2>2
<1> QED
  BY <1>1, <1>2 DEF SamplersInv

\* The peers' callback divides the goals anew.
LEMMA PeersCallbackStep ==
  ASSUME SamplersInv, FactoryInv, PeersCallback
  PROVE  SamplersInv' /\ FactoryInv'
<1>1. /\ updatePeerCounts(shared, goals) /\ goals' = goals /\ peers' = peers
      /\ restart' = restart /\ worker' = worker /\ samplers' = samplers
  BY DEF PeersCallback, collectVars
<1>2. /\ peerCount' = peers /\ DOMAIN shared' = DOMAIN shared /\ Records(shared')
      /\ \A k \in DOMAIN shared : shared'[k].owner = shared[k].owner
      /\ Divided(shared', goals, peers)
  BY <1>1, CountsUpdated DEF FactoryInv
<1>3. Grows(shared, goals, shared', goals')
  BY <1>1, <1>2 DEF Grows
<1>4. ASSUME NEW w \in Worker
      PROVE  /\ SamplerOK(samplers[w], restart[w], shared', goals')
             /\ WorkerOK(worker[w], restart[w], shared', goals')
  BY <1>3, GrowthKeeps, Zenon DEF SamplersInv
<1>5. SamplersInv'
  BY <1>1, <1>4, Zenon DEF SamplersInv
<1>6. FactoryInv'
  BY <1>1, <1>2 DEF FactoryInv
<1> QED
  BY <1>5, <1>6

\* WorkerReload forgets the sampler, and with it the order to do so.
LEMMA WorkerReloadStep ==
  ASSUME SamplersInv, FactoryInv, NEW w \in Worker, WorkerReload(w)
  PROVE  SamplersInv' /\ FactoryInv'
<1>1. /\ worker[w].pc = "idle" /\ UNCHANGED <<worker, shared, goals, peerCount, peers, callback>>
      /\ restart' = [restart EXCEPT ![w] = FALSE] /\ samplers' = [samplers EXCEPT ![w] = {}]
  BY DEF WorkerReload, factoryVars, clusterVars
<1>2. worker' = [worker EXCEPT ![w] = worker[w]]
  BY <1>1 DEF SamplersInv
<1>3. SamplerOK({}, FALSE, shared', goals')
  BY DEF SamplerOK
<1>4. WorkerOK(worker[w], FALSE, shared', goals')
  BY <1>1 DEF SamplersInv, WorkerOK
<1>5. Grows(shared, goals, shared', goals')
  BY <1>1 DEF Grows
<1>6. SamplersInv'
  BY <1>1, <1>2, <1>3, <1>4, <1>5, OwnStep
<1>7. FactoryInv'
  BY <1>1 DEF FactoryInv
<1> QED
  BY <1>6, <1>7

\* The rules are numbered from 1.
LEMMA RuleNumbers ==
  ASSUME NEW v \in DOMAIN File
  PROVE  WithSampler(v) \subseteq Nat /\ 0 \notin WithSampler(v)
<1>1. IsList(RulesOf(v))
  BY FileAssumption, Zenon DEF RulesOf
<1> QED
  BY <1>1 DEF IsList, WithSampler

\* A worker begins with the installed version and with no dynsampler.
LEMMA GetSamplerStep ==
  ASSUME Versions, SamplersInv, FactoryInv, NEW w \in Worker, GetSamplerImplementationForKey(w)
  PROVE  SamplersInv' /\ FactoryInv'
<1> DEFINE n == NextRule(current, 0)
           c == [pc |-> "create", version |-> current, rule |-> n, dyn |-> <<>>]
<1>1. /\ worker[w].pc = "idle" /\ samplers[w] = {} /\ worker' = [worker EXCEPT ![w] = c]
      /\ UNCHANGED <<restart, samplers, shared, goals, peerCount, peers, callback>>
  BY DEF GetSamplerImplementationForKey, factoryVars, clusterVars
<1>2. samplers' = [samplers EXCEPT ![w] = {}] /\ restart' = [restart EXCEPT ![w] = restart[w]]
  BY <1>1 DEF SamplersInv
<1>3. SamplerOK({}, restart[w], shared', goals')
  BY DEF SamplerOK
<1>4. WorkerOK(c, restart[w], shared', goals')
  <2>1. current \in DOMAIN File
    BY DEF Versions
  <2>2. n \in WithSampler(current) \cup {0} /\ {} = {j \in WithSampler(current) : n = 0 \/ j < n}
    <3>1. /\ n \in WithSampler(current) \cup {0}
          /\ n = 0 => \A j \in WithSampler(current) : j <= 0
          /\ n # 0 => \A j \in WithSampler(current) : j < n <=> j <= 0
      BY <2>1, NextRuleProperties
    <3>2. \A j \in WithSampler(current) : ~(j <= 0)
      BY <2>1, RuleNumbers
    <3> HIDE DEF n
    <3> QED
      BY <3>1, <3>2
  <2>3. Matching(current, <<>>)
    BY DEF Matching
  <2>4. \A is, sh, go : is = {} => InUse(current, <<>>, is, sh, go)
    BY DEF InUse
  <2> HIDE DEF n
  <2>5. Progress(c)
    BY <2>1, <2>2, <2>3 DEF Progress
  <2> QED
    BY <2>4, <2>5 DEF WorkerOK
<1>5. Grows(shared, goals, shared', goals')
  BY <1>1 DEF Grows
<1> HIDE DEF c
<1>6. PICK told \in BOOLEAN : told = restart[w]
  BY Zenon DEF SamplersInv
<1>7. SamplersInv'
  <2>1. /\ worker' = [worker EXCEPT ![w] = c] /\ samplers' = [samplers EXCEPT ![w] = {}]
        /\ restart' = [restart EXCEPT ![w] = told]
    BY <1>1, <1>2, <1>6, Zenon
  <2>2. SamplerOK({}, told, shared', goals') /\ WorkerOK(c, told, shared', goals')
    BY <1>3, <1>4, <1>6, Zenon
  <2> QED
    BY <1>5, <2>1, <2>2, OwnStep
<1>8. FactoryInv'
  <2>1. ASSUME NEW x \in Worker, worker[x].pc = "start" PROVE worker'[x].pc = "start"
    BY <1>1, <2>1 DEF SamplersInv
  <2> QED
    BY <1>1, <2>1 DEF FactoryInv
<1> QED
  BY <1>7, <1>8

\* The key of a rule's dynsampler; sorted lists make it the same for every worker.
LEMMA KeyProperties ==
  ASSUME NEW v \in DOMAIN File, NEW i \in WithSampler(v)
  PROVE  /\ dynsamplerKey(v, i).goal = Downstream(v, i).goal
         /\ SortedLists => dynsamplerKey(v, i) = [goal |-> Downstream(v, i).goal,
                                                 fields |-> Downstream(v, i).fields]
<1>1. Downstream(v, i) \in RulesOf(v)[i].sampler /\ i \in DOMAIN RulesOf(v)
  BY DEF Downstream, The, WithSampler
<1>2. SortedLists => Sorted(Downstream(v, i).fields) = Downstream(v, i).fields
  BY <1>1, Zenon DEF SortedLists
<1>3. SortedLists => FieldList(v, i) = Downstream(v, i).fields
  BY <1>2 DEF FieldList
<1> QED
  BY <1>3 DEF dynsamplerKey

\* What a worker is about, as a record of its own.
LEMMA WorkerRecord ==
  ASSUME SamplersInv, NEW w \in Worker
  PROVE  \E p, v, i, d : worker[w] = [pc |-> p, version |-> v, rule |-> i, dyn |-> d]
<1>1. WorkerOK(worker[w], restart[w], shared, goals)
  BY Zenon DEF SamplersInv
<1>2. worker[w] = [pc |-> worker[w].pc, version |-> worker[w].version, rule |-> worker[w].rule,
                   dyn |-> worker[w].dyn]
  BY <1>1, Zenon DEF WorkerOK
<1> QED
  BY <1>2, Zenon

\* getSharedDynsampler finds a dynsampler under its key, or enters one.
LEMMA GetSharedStep ==
  ASSUME SamplersInv, FactoryInv, NEW w \in Worker, getSharedDynsampler(w)
  PROVE  SamplersInv' /\ FactoryInv'
<1>1. PICK p, v, i, d : worker[w] = [pc |-> p, version |-> v, rule |-> i, dyn |-> d]
  BY WorkerRecord
<1>2. worker[w].pc = p /\ worker[w].version = v /\ worker[w].rule = i /\ worker[w].dyn = d
  BY <1>1
<1>3. PICK key : key = dynsamplerKey(v, i)
  BY Zenon
<1>4. PICK told \in BOOLEAN : told = restart[w]
  BY Zenon DEF SamplersInv
<1>5. /\ worker[w].pc = "create" /\ i # 0
      /\ shared' = IF key \in DOMAIN shared THEN shared
                   ELSE Put(shared, key, [goal |-> Downstream(v, i).goal, owner |-> w])
      /\ worker' = [worker EXCEPT ![w].pc = "start",
                                  ![w].dyn = Put(@, i, [key |-> key, running |-> TRUE,
                                                        owner |-> shared'[key].owner])]
      /\ UNCHANGED <<restart, samplers, goals, peerCount, peers, callback>>
  BY <1>2, <1>3, Zenon DEF getSharedDynsampler, Lookup, clusterVars
<1>6. PICK own : own = shared'[key].owner
  BY Zenon
<1>e. PICK e : e = [key |-> key, running |-> TRUE, owner |-> own]
  BY Zenon
<1> DEFINE c == [pc |-> "start", version |-> v, rule |-> i, dyn |-> Put(d, i, e)]
<1>7. worker' = [worker EXCEPT ![w] = c]
  <2>1. DOMAIN worker = Worker
    BY DEF SamplersInv
  <2>2. worker' = [worker EXCEPT ![w].pc = "start", ![w].dyn = Put(@, i, e)]
    BY <1>5, <1>6, <1>e, Zenon
  <2>3. worker' = [worker EXCEPT ![w] = [worker[w] EXCEPT !.pc = "start", !.dyn = Put(worker[w].dyn, i, e)]]
    BY <2>1, <2>2
  <2>4. [worker[w] EXCEPT !.pc = "start", !.dyn = Put(worker[w].dyn, i, e)] = c
    <3>1. PICK f : f = Put(d, i, e)
      BY Zenon
    <3>2. [worker[w] EXCEPT !.pc = "start", !.dyn = f] = [pc |-> "start", version |-> v, rule |-> i, dyn |-> f]
      <4>1. [worker[w] EXCEPT !.pc = "start"] = [pc |-> "start", version |-> v, rule |-> i, dyn |-> d]
        <5>1. [[pc |-> p, version |-> v, rule |-> i, dyn |-> d] EXCEPT !.pc = "start"]
                = [pc |-> "start", version |-> v, rule |-> i, dyn |-> d]
          OBVIOUS
        <5> QED
          BY <1>1, <5>1, Zenon
      <4>2. [[pc |-> "start", version |-> v, rule |-> i, dyn |-> d] EXCEPT !.dyn = f]
              = [pc |-> "start", version |-> v, rule |-> i, dyn |-> f]
        OBVIOUS
      <4>3. [worker[w] EXCEPT !.pc = "start", !.dyn = f]
              = [[worker[w] EXCEPT !.pc = "start"] EXCEPT !.dyn = f]
        OBVIOUS
      <4> QED
        BY <4>1, <4>2, <4>3, Zenon
    <3> QED
      BY <1>2, <3>1, <3>2, Zenon
  <2> QED
    BY <2>3, <2>4, Zenon
<1>8. /\ Grows(shared, goals, shared', goals') /\ Records(shared') /\ key \in DOMAIN shared'
  <2>1. CASE key \in DOMAIN shared
    BY <1>5, <2>1 DEF Grows, FactoryInv
  <2>2. CASE key \notin DOMAIN shared
    <3>r. PICK r : r = [goal |-> Downstream(v, i).goal, owner |-> w]
      BY Zenon
    <3>1. /\ DOMAIN shared' = DOMAIN shared \cup {key} /\ shared'[key] = r
          /\ \A k \in DOMAIN shared : shared'[k] = shared[k]
      <4>1. shared' = Put(shared, key, r)
        BY <1>5, <2>2, <3>r
      <4> QED
        BY <2>2, <4>1 DEF Put
    <3>2. shared'[key] = [goal |-> shared'[key].goal, owner |-> shared'[key].owner]
      BY <3>1, <3>r
    <3>3. Records(shared')
      BY <3>1, <3>2 DEF Records, FactoryInv
    <3> QED
      BY <1>5, <3>1, <3>3 DEF Grows
  <2> QED
    BY <2>1, <2>2
<1>9. /\ SamplerOK(samplers[w], told, shared', goals')
      /\ WorkerOK(worker[w], told, shared', goals')
  BY <1>4, <1>8, GrowthKeeps, Zenon DEF SamplersInv
<1>10. /\ v \in DOMAIN File /\ Matching(v, d) /\ i \in WithSampler(v)
       /\ DOMAIN d = {j \in WithSampler(v) : j < i}
       /\ ~told => InUse(v, d, DOMAIN d, shared', goals')
  <2>1. Progress(worker[w]) /\ (~told => InUse(v, d, DOMAIN d, shared', goals'))
    BY <1>2, <1>5, <1>9 DEF WorkerOK
  <2> QED
    BY <1>2, <1>5, <2>1 DEF Progress
<1>11. /\ DOMAIN Put(d, i, e) = DOMAIN d \cup {i} /\ Put(d, i, e)[i] = e
       /\ \A j \in DOMAIN d : Put(d, i, e)[j] = d[j]
  <2>1. i \notin DOMAIN d
    BY <1>10, RuleNumbers
  <2> QED
    BY <2>1 DEF Put
<1>12. e.key = key /\ e.running = TRUE /\ e.owner = own
  BY <1>e
<1>13. Matching(v, Put(d, i, e))
  <2>1. e = [key |-> e.key, running |-> e.running, owner |-> e.owner]
    BY <1>e
  <2>2. \A j \in DOMAIN d : d[j] = [key |-> d[j].key, running |-> d[j].running, owner |-> d[j].owner]
    BY <1>10, Zenon DEF Matching
  <2> DEFINE f == Put(d, i, e)
  <2>3. \A j \in DOMAIN f : f[j] = [key |-> f[j].key, running |-> f[j].running, owner |-> f[j].owner]
    <3> HIDE DEF f
    <3>1. \A j \in DOMAIN f : f[j] = e \/ (j \in DOMAIN d /\ f[j] = d[j])
      BY <1>11 DEF f
    <3> QED
      BY <2>1, <2>2, <3>1, Zenon
  <2>4. f = [j \in DOMAIN f |-> f[j]]
    BY DEF Put
  <2>5. f = [j \in DOMAIN f |-> [key |-> f[j].key, running |-> f[j].running, owner |-> f[j].owner]]
    <3> HIDE DEF f
    <3> QED
      BY <2>3, <2>4
  <2>6. ASSUME NEW j \in DOMAIN f
        PROVE  /\ f[j].key.goal = Downstream(v, j).goal
               /\ SortedLists => f[j].key = [goal |-> Downstream(v, j).goal, fields |-> Downstream(v, j).fields]
    <3>1. CASE j = i
      BY <1>3, <1>10, <1>11, <1>12, <3>1, KeyProperties
    <3>2. CASE j # i
      BY <1>10, <1>11, <3>2 DEF Matching
    <3> QED
      BY <3>1, <3>2
  <2> QED
    BY <2>5, <2>6, Zenon DEF Matching
<1>14. Progress(c)
  <2>1. DOMAIN Put(d, i, e) = {j \in WithSampler(v) : j <= i}
    <3>1. WithSampler(v) \subseteq Nat
      BY <1>10, RuleNumbers
    <3> QED
      BY <1>10, <1>11, <3>1
  <2>2. c.pc = "start" /\ c.version = v /\ c.rule = i /\ c.dyn = Put(d, i, e)
    OBVIOUS
  <2> HIDE DEF c
  <2> QED
    BY <1>10, <1>13, <2>1, <2>2 DEF Progress
<1>15. ~told => InUse(v, Put(d, i, e), DOMAIN Put(d, i, e) \ {i}, shared', goals')
  <2> SUFFICES ASSUME ~told PROVE InUse(v, Put(d, i, e), DOMAIN Put(d, i, e) \ {i}, shared', goals')
    OBVIOUS
  <2>1. InUse(v, d, DOMAIN d, shared', goals')
    BY <1>10
  <2> QED
    BY <1>6, <1>8, <1>11, <1>12, <2>1 DEF InUse
<1>16. WorkerOK(c, told, shared', goals')
  BY <1>14, <1>15 DEF WorkerOK
<1>17. samplers' = [samplers EXCEPT ![w] = samplers[w]] /\ restart' = [restart EXCEPT ![w] = told]
  BY <1>4, <1>5 DEF SamplersInv
<1>18. worker'[w].pc = "start"
  BY <1>7 DEF SamplersInv
<1> HIDE DEF c
<1>19. SamplersInv'
  BY <1>7, <1>8, <1>9, <1>16, <1>17, OwnStep
<1>20. FactoryInv'
  BY <1>5, <1>8, <1>18 DEF FactoryInv
<1> QED
  BY <1>19, <1>20

\* StartDownstream notes the goal, divides the goals and goes on to the next rule.
LEMMA StartDownstreamStep ==
  ASSUME SamplersInv, FactoryInv, NEW w \in Worker, StartDownstream(w)
  PROVE  SamplersInv' /\ FactoryInv'
<1>1. PICK p, v, i, d : worker[w] = [pc |-> p, version |-> v, rule |-> i, dyn |-> d]
  BY WorkerRecord
<1>2. worker[w].pc = p /\ worker[w].version = v /\ worker[w].rule = i /\ worker[w].dyn = d
  BY <1>1
<1>3. PICK told \in BOOLEAN : told = restart[w]
  BY Zenon DEF SamplersInv
<1>4. PICK n : n = NextRule(v, i)
  BY Zenon
<1>5. /\ worker[w].pc = "start"
      /\ goals' = IF Downstream(v, i).cluster THEN Put(goals, d[i].key, Downstream(v, i).goal) ELSE goals
      /\ updatePeerCounts(shared, goals')
      /\ worker' = [worker EXCEPT ![w].pc = "create", ![w].rule = n]
      /\ UNCHANGED <<restart, samplers, peers, callback>>
  BY <1>2, <1>4, Zenon DEF StartDownstream, clusterVars
<1> DEFINE c == [pc |-> "create", version |-> v, rule |-> n, dyn |-> d]
<1>6. worker' = [worker EXCEPT ![w] = c]
  <2>1. DOMAIN worker = Worker
    BY DEF SamplersInv
  <2>2. worker' = [worker EXCEPT ![w] = [worker[w] EXCEPT !.pc = "create", !.rule = n]]
    BY <1>5, <2>1
  <2>3. [worker[w] EXCEPT !.pc = "create", !.rule = n] = c
    <3>1. [worker[w] EXCEPT !.pc = "create"] = [pc |-> "create", version |-> v, rule |-> i, dyn |-> d]
      <4>1. [[pc |-> p, version |-> v, rule |-> i, dyn |-> d] EXCEPT !.pc = "create"]
              = [pc |-> "create", version |-> v, rule |-> i, dyn |-> d]
        OBVIOUS
      <4> QED
        BY <1>1, <4>1, Zenon
    <3>2. [[pc |-> "create", version |-> v, rule |-> i, dyn |-> d] EXCEPT !.rule = n]
            = [pc |-> "create", version |-> v, rule |-> n, dyn |-> d]
      OBVIOUS
    <3>3. [worker[w] EXCEPT !.pc = "create", !.rule = n]
            = [[worker[w] EXCEPT !.pc = "create"] EXCEPT !.rule = n]
      OBVIOUS
    <3> QED
      BY <3>1, <3>2, <3>3, Zenon
  <2> QED
    BY <2>2, <2>3, Zenon
<1>7. /\ v \in DOMAIN File /\ Matching(v, d) /\ i \in WithSampler(v)
      /\ DOMAIN d = {j \in WithSampler(v) : j <= i}
      /\ ~told => InUse(v, d, DOMAIN d \ {i}, shared, goals)
  <2>1. WorkerOK(worker[w], told, shared, goals)
    BY <1>3, Zenon DEF SamplersInv
  <2>2. Progress(worker[w]) /\ (~told => InUse(v, d, DOMAIN d \ {i}, shared, goals))
    BY <1>2, <1>5, <2>1 DEF WorkerOK
  <2> QED
    BY <1>2, <1>5, <2>2 DEF Progress
<1>8. WithSampler(v) \subseteq Nat /\ i \in DOMAIN d
  BY <1>7, RuleNumbers
<1>9. /\ DOMAIN goals \subseteq DOMAIN goals'
      /\ \A k \in DOMAIN goals' : goals'[k] = k.goal
      /\ Downstream(v, i).cluster => d[i].key \in DOMAIN goals'
  <2>1. \A k \in DOMAIN goals : goals[k] = k.goal
    BY DEF FactoryInv
  <2>2. CASE Downstream(v, i).cluster
    <3>1. PICK k, g : k = d[i].key /\ g = Downstream(v, i).goal
      BY Zenon
    <3>2. goals' = Put(goals, k, g) /\ k.goal = g
      BY <1>5, <1>7, <1>8, <2>2, <3>1 DEF Matching
    <3>3. /\ DOMAIN goals' = DOMAIN goals \cup {k}
          /\ \A x \in DOMAIN goals' : goals'[x] = IF x = k THEN g ELSE goals[x]
      BY <3>2 DEF Put
    <3> QED
      BY <2>1, <3>1, <3>2, <3>3
  <2>3. CASE ~Downstream(v, i).cluster
    BY <1>5, <2>1, <2>3
  <2> QED
    BY <2>2, <2>3
<1>10. PICK gs : gs = goals'
  BY Zenon
<1>11. /\ peerCount' = peers /\ DOMAIN shared' = DOMAIN shared /\ Records(shared')
       /\ \A k \in DOMAIN shared : shared'[k].owner = shared[k].owner
       /\ Divided(shared', gs, peers)
  <2>1. updatePeerCounts(shared, gs)
    BY <1>5, <1>10, Zenon
  <2> QED
    BY <2>1, CountsUpdated DEF FactoryInv
<1>12. Grows(shared, goals, shared', goals')
  BY <1>9, <1>11 DEF Grows
<1>13. Progress(c)
  <2>1. /\ n \in WithSampler(v) \cup {0}
        /\ n = 0 => \A j \in WithSampler(v) : j <= i
        /\ n # 0 => \A j \in WithSampler(v) : j < n <=> j <= i
    BY <1>4, <1>7, <1>8, NextRuleProperties
  <2>2. DOMAIN d = {j \in WithSampler(v) : n = 0 \/ j < n}
    BY <1>7, <2>1
  <2>3. c.pc = "create" /\ c.version = v /\ c.rule = n /\ c.dyn = d
    OBVIOUS
  <2> HIDE DEF c
  <2> QED
    BY <1>7, <2>1, <2>2, <2>3 DEF Progress
<1>14. ~told => InUse(v, d, DOMAIN d, shared', goals')
  <2> SUFFICES ASSUME ~told PROVE InUse(v, d, DOMAIN d, shared', goals')
    OBVIOUS
  <2>1. InUse(v, d, DOMAIN d \ {i}, shared, goals)
    BY <1>7
  <2> QED
    BY <1>9, <1>11, <2>1 DEF InUse
<1>15. WorkerOK(c, told, shared', goals')
  BY <1>13, <1>14 DEF WorkerOK
<1>16. SamplerOK(samplers[w], told, shared', goals')
  BY <1>3, <1>12, GrowthKeeps, Zenon DEF SamplersInv
<1>17. samplers' = [samplers EXCEPT ![w] = samplers[w]] /\ restart' = [restart EXCEPT ![w] = told]
  BY <1>3, <1>5 DEF SamplersInv
<1> HIDE DEF c
<1>18. SamplersInv'
  BY <1>6, <1>12, <1>15, <1>16, <1>17, OwnStep
<1>19. FactoryInv'
  BY <1>5, <1>9, <1>10, <1>11 DEF FactoryInv
<1> QED
  BY <1>18, <1>19

\* createSampler ends: the worker has its sampler, and the goals are divided.
LEMMA CreateSamplerStep ==
  ASSUME SamplersInv, FactoryInv, NEW w \in Worker, createSampler(w)
  PROVE  SamplersInv' /\ FactoryInv'
<1>1. PICK p, v, i, d : worker[w] = [pc |-> p, version |-> v, rule |-> i, dyn |-> d]
  BY WorkerRecord
<1>2. worker[w].pc = p /\ worker[w].version = v /\ worker[w].rule = i /\ worker[w].dyn = d
  BY <1>1
<1>3. PICK told \in BOOLEAN : told = restart[w]
  BY Zenon DEF SamplersInv
<1>4. PICK s : s = [version |-> v, dyn |-> d]
  BY Zenon
<1>5. /\ worker[w].pc = "create" /\ i = 0 /\ updatePeerCounts(shared, goals)
      /\ samplers' = [samplers EXCEPT ![w] = {s}] /\ worker' = [worker EXCEPT ![w] = Idle]
      /\ UNCHANGED <<restart, goals, peers, callback>>
  BY <1>2, <1>4, Zenon DEF createSampler, clusterVars
<1>6. /\ v \in DOMAIN File /\ Matching(v, d) /\ DOMAIN d = WithSampler(v)
      /\ ~told => InUse(v, d, DOMAIN d, shared, goals)
  <2>1. WorkerOK(worker[w], told, shared, goals)
    BY <1>3, Zenon DEF SamplersInv
  <2>2. Progress(worker[w]) /\ (~told => InUse(v, d, DOMAIN d, shared, goals))
    BY <1>2, <1>5, <2>1 DEF WorkerOK
  <2> QED
    BY <1>2, <1>5, <2>2 DEF Progress
<1>7. /\ peerCount' = peers /\ DOMAIN shared' = DOMAIN shared /\ Records(shared')
      /\ \A k \in DOMAIN shared : shared'[k].owner = shared[k].owner
      /\ Divided(shared', goals, peers)
  BY <1>5, CountsUpdated DEF FactoryInv
<1>8. Grows(shared, goals, shared', goals')
  BY <1>5, <1>7 DEF Grows
<1>9. SamplerOK({s}, told, shared, goals)
  <2>1. s.version = v /\ s.dyn = d
    BY <1>4
  <2> QED
    BY <1>4, <1>6, <2>1 DEF SamplerOK
<1>10. SamplerOK({s}, told, shared', goals')
  BY <1>8, <1>9, GrowthKeeps, Zenon
<1>11. WorkerOK(Idle, told, shared', goals')
  BY DEF WorkerOK, Idle
<1>12. restart' = [restart EXCEPT ![w] = told]
  BY <1>3, <1>5 DEF SamplersInv
<1>13. SamplersInv'
  BY <1>5, <1>8, <1>10, <1>11, <1>12, OwnStep
<1>14. FactoryInv'
  BY <1>5, <1>7 DEF FactoryInv
<1> QED
  BY <1>13, <1>14

\* Every step keeps the invariant.
LEMMA SamplingStep == SamplingInv /\ [SamplingNext]_samplingVars => SamplingInv'
<1> SUFFICES ASSUME SamplingInv, [SamplingNext]_samplingVars PROVE SamplingInv'
  OBVIOUS
<1> USE DEF SamplingInv
<1>1. Versions'
  BY VersionsStep
<1>2. ASSUME UNCHANGED <<restart, worker, samplers, shared, goals, peerCount>>,
             (peers' = peers /\ callback' = callback) \/ callback' = TRUE
      PROVE  SamplersInv' /\ FactoryInv'
  BY <1>2, QuietStep
<1>3. CASE Edit
  BY <1>1, <1>2, <1>3 DEF Edit, collectVars, factoryVars, clusterVars
<1>4. ASSUME NEW g \in Reloader, Reloading(g) PROVE SamplersInv' /\ FactoryInv'
  BY <1>2, <1>4 DEF Reloading, ReadFiles, newFileConfig, Reload, collectVars, factoryVars, clusterVars
<1>5. CASE reloadConfigs
  BY <1>1, <1>5, ReloadConfigsStep
<1>6. CASE PeersChange
  BY <1>1, <1>2, <1>6 DEF PeersChange, collectVars, factoryVars
<1>7. CASE PeersCallback
  BY <1>1, <1>7, PeersCallbackStep
<1>8. ASSUME NEW w \in Worker, WorkerReload(w) \/ GetSamplerImplementationForKey(w) \/ Creating(w)
      PROVE  SamplersInv' /\ FactoryInv'
  BY <1>8, WorkerReloadStep, GetSamplerStep, GetSharedStep, StartDownstreamStep, CreateSamplerStep,
     Zenon DEF Creating
<1>9. CASE UNCHANGED samplingVars
  BY <1>1, <1>2, <1>9 DEF samplingVars, collectVars, factoryVars, clusterVars
<1>10. SamplersInv' /\ FactoryInv'
  BY <1>3, <1>4, <1>5, <1>6, <1>7, <1>8, <1>9, Zenon DEF SamplingNext
<1> QED
  BY <1>1, <1>10

\* A worker that is not told to forget its sampler has one of the rules' versions,
\* whose dynsamplers the factory has.
LEMMA SettledSampler ==
  ASSUME SamplersInv, NEW w \in Worker, Settled(w)
  PROVE  /\ SamplerOf(w).version \in DOMAIN File
         /\ Matching(SamplerOf(w).version, SamplerOf(w).dyn)
         /\ DOMAIN SamplerOf(w).dyn = WithSampler(SamplerOf(w).version)
         /\ InUse(SamplerOf(w).version, SamplerOf(w).dyn, DOMAIN SamplerOf(w).dyn, shared, goals)
<1>1. SamplerOf(w) \in samplers[w] /\ ~restart[w]
  BY DEF Settled, SamplerOf, The
<1>2. SamplerOK(samplers[w], restart[w], shared, goals)
  BY Zenon DEF SamplersInv
<1> QED
  BY <1>1, <1>2, Zenon DEF SamplerOK

\* With every field list in order, equal rules give equal keys, and equal keys give
\* the dynsampler that the factory has under it.
LEMMA InvShared ==
  ASSUME SamplingInv, SortedLists
  PROVE  SamplersShared
<1> SUFFICES ASSUME NEW w \in Worker, NEW x \in Worker, Settled(w), Settled(x),
                    SamplerOf(w).version = SamplerOf(x).version
             PROVE  /\ SamplerOf(w).dyn = SamplerOf(x).dyn
                    /\ \A i \in DOMAIN SamplerOf(w).dyn : SamplerOf(w).dyn[i].running
  BY Zenon DEF SamplersShared
<1>1. PICK v, d, e : v = SamplerOf(w).version /\ d = SamplerOf(w).dyn /\ e = SamplerOf(x).dyn
  BY Zenon
<1>2. /\ Matching(v, d) /\ DOMAIN d = WithSampler(v) /\ InUse(v, d, DOMAIN d, shared, goals)
      /\ Matching(v, e) /\ DOMAIN e = WithSampler(v) /\ InUse(v, e, DOMAIN e, shared, goals)
  BY <1>1, SettledSampler, Zenon DEF SamplingInv
<1>3. ASSUME NEW i \in WithSampler(v) PROVE d[i] = e[i] /\ d[i].running
  <2>1. d[i].key = e[i].key
    BY <1>2 DEF Matching
  <2>2. d[i].running = TRUE /\ e[i].running = TRUE /\ d[i].owner = e[i].owner
    BY <1>2, <2>1 DEF InUse
  <2>3. /\ d[i] = [key |-> d[i].key, running |-> d[i].running, owner |-> d[i].owner]
        /\ e[i] = [key |-> e[i].key, running |-> e[i].running, owner |-> e[i].owner]
    BY <1>2, Zenon DEF Matching
  <2>4. d[i] = e[i]
    BY <2>1, <2>2, <2>3, Zenon
  <2> QED
    BY <2>2, <2>4
<1>4. d = [i \in WithSampler(v) |-> d[i]] /\ e = [i \in WithSampler(v) |-> e[i]]
  BY <1>2 DEF Matching
<1>5. d = e
  BY <1>3, <1>4
<1> QED
  BY <1>1, <1>2, <1>3, <1>5

\* Once no worker is in the middle of a creation and the peers' callback has been
\* called, every goal in use is divided by the peers there are.
LEMMA InvGoals == SamplingInv => GoalsFollowCluster
<1> SUFFICES ASSUME SamplingInv, ~callback, \A w \in Worker : worker[w].pc = "idle",
                    NEW w \in Worker, Settled(w), NEW i \in DOMAIN SamplerOf(w).dyn,
                    Downstream(SamplerOf(w).version, i).cluster
             PROVE  shared[SamplerOf(w).dyn[i].key].goal
                      = Max({Downstream(SamplerOf(w).version, i).goal \div peers, 1})
  BY Zenon DEF GoalsFollowCluster
<1>1. PICK v, d, k : v = SamplerOf(w).version /\ d = SamplerOf(w).dyn /\ k = d[i].key
  BY Zenon
<1>2. Matching(v, d) /\ InUse(v, d, DOMAIN d, shared, goals)
  BY <1>1, SettledSampler, Zenon DEF SamplingInv
<1>3. k \in DOMAIN shared /\ k \in DOMAIN goals
  BY <1>1, <1>2 DEF InUse
<1>4. k.goal = Downstream(v, i).goal
  BY <1>1, <1>2 DEF Matching
<1>5. peerCount = peers /\ goals[k] = k.goal /\ Divided(shared, goals, peerCount)
  BY <1>3 DEF SamplingInv, FactoryInv
<1>6. shared[k].goal = ShareOf(goals[k], peers)
  BY <1>3, <1>5 DEF Divided
<1> QED
  BY <1>1, <1>4, <1>5, <1>6, Zenon DEF ShareOf

\* Whatever version a sampler is of, its decisions are the rules'.
LEMMA InvDecided == SamplingInv => DecidedByReference
<1> SUFFICES ASSUME SamplingInv, NEW w \in Worker, samplers[w] # {}
             PROVE  SamplerOf(w).version \in Sound
  BY Zenon DEF DecidedByReference
<1>1. SamplerOf(w) \in samplers[w]
  BY DEF SamplerOf, The
<1>2. SamplerOf(w).version \in DOMAIN File
  BY <1>1, Zenon DEF SamplingInv, SamplersInv, SamplerOK
<1>3. DOMAIN File \subseteq Sound
  BY DecisionsAgree, Zenon DEF Sound
<1> QED
  BY <1>2, <1>3

\* If every field list is written in order, so that Start's sorting in place
\* changes no key, workers that decide by the same version always share their
\* dynsamplers, and no reload has stopped one they use: whatever the reloads,
\* the creations and the workers' restarts interleave to.
THEOREM SamplersAlwaysShared == ASSUME SortedLists PROVE SamplingSpec => []SamplersShared
<1>1. SamplingInv /\ SortedLists => SamplersShared
  BY InvShared
<1>2. SortedLists
  OBVIOUS
<1>3. SamplingInv => SamplersShared
  BY <1>1, <1>2
<1> QED
  BY <1>3, SamplingInitial, SamplingStep, PTL DEF SamplingSpec

\* Once the peers' callback has been called and no worker is creating a sampler,
\* every dynsampler in use that shares its goal with the cluster has the part of
\* it that the present number of peers gives it.
THEOREM GoalsAlwaysFollow == SamplingSpec => []GoalsFollowCluster
BY InvGoals, SamplingInitial, SamplingStep, PTL DEF SamplingSpec

\* Whatever version a worker's sampler was created from, the early exits of the
\* matching loops and of distinctValue change none of its decisions.
THEOREM DecisionsByReference == SamplingSpec => []DecidedByReference
BY InvDecided, SamplingInitial, SamplingStep, PTL DEF SamplingSpec

-----------------------------------------------------------------------------
(* What can be said of a reload without fairness. *)

\* Whatever is about to be installed, and whatever has been, is a valid version.
OnlyValid ==
  /\ reload = [g \in Reloader |-> reload[g]]
  /\ \A g \in Reloader : reload[g].pc = "install" => Status[reload[g].version] = "valid"
  /\ current # 1 => Status[current] = "valid"

\* Whoever has, or is creating, a sampler of another version than the installed one
\* is about to be told to forget it.
StaleTold ==
  \A w \in Worker :
    \/ signal \/ restart[w]
    \/ /\ \A s \in samplers[w] : s.version = current
       /\ worker[w].pc # "idle" => worker[w].version = current

\* newFileConfig lets only a valid version pass.
LEMMA OnlyValidStep ==
  ASSUME Versions, OnlyValid, [SamplingNext]_samplingVars
  PROVE  OnlyValid'
<1>1. ASSUME UNCHANGED <<reload, current>> PROVE OnlyValid'
  BY <1>1 DEF OnlyValid
<1>2. CASE Edit
  BY <1>1, <1>2 DEF Edit
<1>3. ASSUME NEW g \in Reloader, Reloading(g) PROVE OnlyValid'
  <2>1. CASE ReadFiles(g)
    BY <2>1 DEF ReadFiles, OnlyValid
  <2>2. CASE newFileConfig(g)
    <3>1. PICK pc, ver : reload[g] = [pc |-> pc, version |-> ver]
      <4>1. reload[g] = [pc |-> reload[g].pc, version |-> reload[g].version]
        BY Zenon DEF Versions
      <4> QED
        BY <4>1, Zenon
    <3>2. reload[g].version = ver
      BY <3>1
    <3>3. \/ /\ Status[ver] = "valid"
             /\ reload' = [reload EXCEPT ![g] = [pc |-> "install", version |-> ver]]
          \/ reload' = [reload EXCEPT ![g] = [pc |-> "idle", version |-> 0]]
      <4>1. [reload EXCEPT ![g].pc = "install"] = [reload EXCEPT ![g] = [reload[g] EXCEPT !.pc = "install"]]
        BY Zenon
      <4>2. [reload[g] EXCEPT !.pc = "install"] = [pc |-> "install", version |-> ver]
        BY <3>1
      <4>3. \/ Status[ver] = "valid" /\ reload' = [reload EXCEPT ![g].pc = "install"]
            \/ reload' = [reload EXCEPT ![g] = NotReloading]
        BY <2>2, <3>2, Zenon DEF newFileConfig
      <4> QED
        BY <4>1, <4>2, <4>3, Zenon DEF NotReloading
    <3>4. current' = current
      BY <2>2 DEF newFileConfig
    <3>5. PICK st : st = Status
      BY Zenon
    <3> QED
      BY <3>3, <3>4, <3>5 DEF OnlyValid
  <2>3. CASE Reload(g)
    BY <2>3 DEF Reload, OnlyValid, NotReloading
  <2> QED
    BY <1>3, <2>1, <2>2, <2>3 DEF Reloading
<1>4. CASE reloadConfigs \/ PeersChange \/ PeersCallback
  BY <1>1, <1>4 DEF reloadConfigs, PeersChange, PeersCallback, configVars
<1>5. ASSUME NEW w \in Worker, WorkerReload(w) \/ GetSamplerImplementationForKey(w) \/ Creating(w)
      PROVE  OnlyValid'
  BY <1>1, <1>5 DEF WorkerReload, GetSamplerImplementationForKey, Creating,
     getSharedDynsampler, StartDownstream, createSampler, configVars
<1>6. CASE UNCHANGED samplingVars
  BY <1>1, <1>6 DEF samplingVars, configVars
<1> QED
  BY <1>2, <1>3, <1>4, <1>5, <1>6, Zenon DEF SamplingNext

\* However two reloads overlap, Reload installs only what validation has accepted
\* without errors or warnings.
THEOREM InstalledAlwaysValid == SamplingSpec => [](current # 1 => Status[current] = "valid")
<1>1. SamplingInit => Versions /\ OnlyValid
  <2>1. SamplingInit => Versions
    BY SamplingInitial DEF SamplingInv
  <2>2. SamplingInit => OnlyValid
    BY DEF SamplingInit, OnlyValid, NotReloading
  <2> QED
    BY <2>1, <2>2
<1>2. Versions /\ OnlyValid /\ [SamplingNext]_samplingVars => (Versions /\ OnlyValid)'
  BY VersionsStep, OnlyValidStep
<1>3. Versions /\ OnlyValid => (current # 1 => Status[current] = "valid")
  BY DEF OnlyValid
<1> QED
  BY <1>1, <1>2, <1>3, PTL DEF SamplingSpec

\* A step of worker w: the others are as they were.
LEMMA StaleOwnStep ==
  ASSUME SamplersInv, StaleTold, NEW w \in Worker, NEW ss, NEW c, NEW told,
         samplers' = [samplers EXCEPT ![w] = ss], worker' = [worker EXCEPT ![w] = c],
         restart' = [restart EXCEPT ![w] = told], UNCHANGED <<signal, current>>,
         \/ signal \/ told
         \/ (\A s \in ss : s.version = current) /\ (c.pc # "idle" => c.version = current)
  PROVE  StaleTold'
BY DEF StaleTold, SamplersInv

\* Whoever is left with a sampler of another version has been told, or the monitor
\* that tells everyone has the signal.
LEMMA StaleToldStep ==
  ASSUME SamplersInv, StaleTold, [SamplingNext]_samplingVars
  PROVE  StaleTold'
<1>1. ASSUME UNCHANGED <<signal, restart, samplers, worker, current>> PROVE StaleTold'
  BY <1>1 DEF StaleTold
<1>2. CASE Edit
  BY <1>1, <1>2 DEF Edit, collectVars
<1>3. ASSUME NEW g \in Reloader, Reloading(g) PROVE StaleTold'
  <2>1. CASE ReadFiles(g) \/ newFileConfig(g)
    BY <1>1, <2>1 DEF ReadFiles, newFileConfig, collectVars
  <2>2. CASE Reload(g)
    BY <2>2 DEF Reload, StaleTold
  <2> QED
    BY <1>3, <2>1, <2>2 DEF Reloading
<1>4. CASE reloadConfigs
  <2>1. \A w \in Worker : restart'[w] = TRUE
    BY <1>4 DEF reloadConfigs, Signalled
  <2> QED
    BY <2>1 DEF StaleTold
<1>5. CASE PeersChange \/ PeersCallback
  BY <1>1, <1>5 DEF PeersChange, PeersCallback, configVars, collectVars
<1>6. ASSUME NEW w \in Worker, WorkerReload(w) PROVE StaleTold'
  <2>1. /\ worker[w].pc = "idle" /\ UNCHANGED <<signal, current, worker>>
        /\ restart' = [restart EXCEPT ![w] = FALSE] /\ samplers' = [samplers EXCEPT ![w] = {}]
    BY <1>6 DEF WorkerReload, configVars
  <2>2. worker' = [worker EXCEPT ![w] = worker[w]]
    BY <2>1 DEF SamplersInv
  <2> QED
    BY <2>1, <2>2, StaleOwnStep
<1>7. ASSUME NEW w \in Worker, GetSamplerImplementationForKey(w) PROVE StaleTold'
  <2>1. PICK c : c = [pc |-> "create", version |-> current, rule |-> NextRule(current, 0), dyn |-> <<>>]
    BY Zenon
  <2>2. /\ samplers[w] = {} /\ worker' = [worker EXCEPT ![w] = c]
        /\ UNCHANGED <<signal, current, restart, samplers>>
    BY <1>7, <2>1, Zenon DEF GetSamplerImplementationForKey, configVars
  <2>3. samplers' = [samplers EXCEPT ![w] = {}] /\ restart' = [restart EXCEPT ![w] = restart[w]]
    BY <2>2 DEF SamplersInv
  <2>4. c.version = current
    BY <2>1
  <2> QED
    BY <2>2, <2>3, <2>4, StaleOwnStep
<1>8. ASSUME NEW w \in Worker, getSharedDynsampler(w) \/ StartDownstream(w) PROVE StaleTold'
  <2>1. /\ worker[w].pc # "idle" /\ UNCHANGED <<signal, current, restart, samplers>>
        /\ \A x \in Worker : x # w => worker'[x] = worker[x]
    BY <1>8 DEF getSharedDynsampler, StartDownstream, configVars, SamplersInv
  <2>2. worker'[w].version = worker[w].version
    <3>1. PICK p, v, i, d : worker[w] = [pc |-> p, version |-> v, rule |-> i, dyn |-> d]
      BY WorkerRecord
    <3>2. worker[w].version = v /\ DOMAIN worker = Worker
      BY <3>1 DEF SamplersInv
    <3>3. CASE getSharedDynsampler(w)
      <4>1. PICK f : worker' = [worker EXCEPT ![w].pc = "start", ![w].dyn = f]
        BY <3>3, Zenon DEF getSharedDynsampler
      <4>2. worker'[w] = [worker[w] EXCEPT !.pc = "start", !.dyn = f]
        BY <3>2, <4>1
      <4> QED
        BY <3>1, <3>2, <4>2
    <3>4. CASE StartDownstream(w)
      <4>1. PICK f : worker' = [worker EXCEPT ![w].pc = "create", ![w].rule = f]
        BY <3>4, Zenon DEF StartDownstream
      <4>2. worker'[w] = [worker[w] EXCEPT !.pc = "create", !.rule = f]
        BY <3>2, <4>1
      <4> QED
        BY <3>1, <3>2, <4>2
    <3> QED
      BY <1>8, <3>3, <3>4
  <2> QED
    BY <2>1, <2>2 DEF StaleTold
<1>9. ASSUME NEW w \in Worker, createSampler(w) PROVE StaleTold'
  <2>1. PICK v, s : v = worker[w].version /\ s = [version |-> v, dyn |-> worker[w].dyn]
    BY Zenon
  <2>2. /\ worker[w].pc = "create" /\ UNCHANGED <<signal, current, restart>>
        /\ samplers' = [samplers EXCEPT ![w] = {s}] /\ worker' = [worker EXCEPT ![w] = Idle]
    BY <1>9, <2>1, Zenon DEF createSampler, configVars
  <2>3. restart' = [restart EXCEPT ![w] = restart[w]]
    BY <2>2 DEF SamplersInv
  <2>4. s.version = v /\ Idle.pc = "idle"
    BY <2>1 DEF Idle
  <2>5. signal \/ restart[w] \/ v = current
    BY <2>1, <2>2 DEF StaleTold
  <2> QED
    BY <2>2, <2>3, <2>4, <2>5, StaleOwnStep
<1>10. CASE UNCHANGED samplingVars
  BY <1>1, <1>10 DEF samplingVars, configVars, collectVars
<1> QED
  BY <1>2, <1>3, <1>4, <1>5, <1>6, <1>7, <1>8, <1>9, <1>10, Zenon DEF SamplingNext, Creating

\* No worker goes on with a version that has been replaced without being about to be
\* told, although it may have read the configuration just before it was replaced and
\* although signals are coalesced: the safety half of ConfigApplied.
THEOREM StaleAlwaysTold == SamplingSpec => []StaleTold
<1>1. SamplingInit => StaleTold
  BY DEF SamplingInit, StaleTold, Idle
<1>2. SamplingInv /\ StaleTold /\ [SamplingNext]_samplingVars => (SamplingInv /\ StaleTold)'
  BY SamplingStep, StaleToldStep DEF SamplingInv
<1> QED
  BY <1>1, <1>2, SamplingInitial, PTL DEF SamplingSpec
=============================================================================
