---------------------------- MODULE RouterProofs ----------------------------
(***************************************************************************)
(* Proofs about Router, for any nodes, requests, keys, settings, hashes,   *)
(* queue sizes and number of faults.                                       *)
(***************************************************************************)
EXTENDS Router, FiniteSetTheorems, SequenceTheorems, WellFoundedInduction, TLAPS

-----------------------------------------------------------------------------
(* The sharder chooses a peer of its list. *)

Less == {ss \in Nat \X Nat : ss[1] < ss[2]}

\* A set of natural numbers has a least element.
LEMMA LeastNat ==
  ASSUME NEW T, T \subseteq Nat, T # {}
  PROVE  \E x \in T : \A y \in T : x <= y
<1>1. IsWellFoundedOn(Less, Nat)
  <2>1. Less = OpToRel(<, Nat)
    BY DEF Less, OpToRel
  <2> QED
    BY <2>1, NatLessThanWellFounded
<1>2. PICK x \in T : \A y \in T : ~(<<y, x>> \in Less)
  BY <1>1, WFMin
<1>3. \A y \in T : x <= y
  <2> SUFFICES ASSUME NEW y \in T PROVE x <= y
    OBVIOUS
  <2>1. x \in Nat /\ y \in Nat /\ ~(<<y, x>> \in Less)
    BY <1>2
  <2>2. ~(y < x)
    BY <2>1 DEF Less
  <2> QED
    BY <2>1, <2>2
<1> QED
  BY <1>3

HasGreatest(S) == \E x \in S : \A y \in S : x >= y

\* A finite set of natural numbers has a greatest one.
LEMMA GreatestNat ==
  ASSUME NEW S, S \subseteq Nat, IsFiniteSet(S), S # {}
  PROVE  HasGreatest(S)
<1> DEFINE Bad(n) == \E R \in SUBSET Nat :
                       /\ IsFiniteSet(R) /\ R # {} /\ Cardinality(R) = n /\ ~HasGreatest(R)
           T == {n \in Nat : Bad(n)}
<1> SUFFICES ASSUME ~HasGreatest(S) PROVE FALSE
  OBVIOUS
<1>1. T \subseteq Nat /\ T # {}
  <2>1. Cardinality(S) \in Nat
    BY FS_CardinalityType
  <2> QED
    BY <2>1
<1>2. PICK n \in T : \A k \in T : n <= k
  <2> HIDE DEF T
  <2> QED
    BY <1>1, LeastNat
<1>3. n \in Nat
  OBVIOUS
<1>4. PICK R \in SUBSET Nat : IsFiniteSet(R) /\ R # {} /\ Cardinality(R) = n /\ ~HasGreatest(R)
  BY <1>2
<1>5. PICK x \in R : TRUE
  BY <1>4
<1> DEFINE Q == R \ {x}
<1>6. IsFiniteSet(Q) /\ Cardinality(Q) = n - 1 /\ Cardinality(Q) \in Nat
  BY <1>4, <1>5, FS_RemoveElement, FS_CardinalityType
<1>7. HasGreatest(Q) \/ Q = {}
  <2> SUFFICES ASSUME ~HasGreatest(Q), Q # {} PROVE FALSE
    OBVIOUS
  <2>1. Bad(n - 1) /\ n - 1 \in Nat
    BY <1>6
  <2>2. n <= n - 1
    <3>1. n - 1 \in T
      BY <2>1
    <3> HIDE DEF T
    <3> QED
      BY <1>2, <3>1
  <2> QED
    BY <1>3, <2>2
<1>8. HasGreatest(R)
  <2>1. x \in Nat /\ \A y \in R : y \in Nat /\ (y = x \/ y \in Q)
    BY <1>5
  <2>2. CASE Q = {}
    <3>1. \A y \in R : y = x
      BY <2>1, <2>2
    <3> QED
      BY <2>1, <3>1 DEF HasGreatest
  <2>3. CASE HasGreatest(Q)
    <3>1. PICK m \in Q : \A y \in Q : m >= y
      BY <2>3 DEF HasGreatest
    <3>2. m \in R /\ m \in Nat
      BY <3>1
    <3> HIDE DEF Q
    <3>3. CASE x >= m
      <4>1. \A y \in R : x >= y
        BY <2>1, <3>1, <3>2, <3>3
      <4> QED
        BY <4>1 DEF HasGreatest
    <3>4. CASE ~(x >= m)
      <4>1. \A y \in R : m >= y
        BY <2>1, <3>1, <3>2, <3>4
      <4> QED
        BY <3>2, <4>1 DEF HasGreatest
    <3> QED
      BY <3>3, <3>4
  <2> QED
    BY <1>7, <2>2, <2>3
<1> QED
  BY <1>4, <1>8

\* The number of partitions of a peer is at least one and at most all of them.
LEMMA DivBound ==
  ASSUME NEW p \in Nat, NEW c \in Nat, c # 0
  PROVE  p \div c \in Nat /\ p \div c <= p
  OBVIOUS

\* A list has finitely many partitions.
LEMMA FinitelyManyPartitions ==
  ASSUME NEW S, IsFiniteSet(S), NEW n \in Nat
  PROVE  IsFiniteSet(S \X (1..n))
<1>1. IsFiniteSet(1..n)
  <2>1. 1 \in Int /\ n \in Int
    OBVIOUS
  <2> QED
    BY <2>1, FS_Interval
<1> DEFINE I == 1..n
<1> HIDE DEF I
<1>2. IsFiniteSet(S \X I)
  BY <1>1, FS_Product, Zenon DEF I
<1> QED
  BY <1>2 DEF I

\* A node only forwards to a node of the list.
LEMMA HighestInList ==
  ASSUME NEW list \in SUBSET Node, list # {}, NEW trace \in Trace
  PROVE  Highest(list, trace) \in list
<1> DEFINE n == partitionsPerPeer(list)
           A == list \X (1..n)
           f == [a \in A |-> Hash[trace][a[1]][a[2]]]
           S == {f[a] : a \in A}
<1>1. IsFiniteSet(list) /\ Cardinality(list) \in Nat \ {0}
  BY ShardAssumption, FS_Subset, FS_CardinalityType, FS_EmptySet
<1>2. n \in Nat \ {0} /\ n <= PartitionCount + 1
  <2> DEFINE c == Cardinality(list)
  <2>1. c \in Nat /\ c # 0 /\ PartitionCount \in Nat
    BY <1>1, ShardAssumption
  <2> HIDE DEF c
  <2>2. PartitionCount \div c \in Nat /\ PartitionCount \div c <= PartitionCount
    BY <2>1, DivBound
  <2>3. n = PartitionCount \div c + 1
    BY DEF partitionsPerPeer, c
  <2> QED
    BY <2>1, <2>2, <2>3
<1> HIDE DEF n
<1>3. \A k \in list, j \in 1..n : <<k, j>> \in A /\ f[<<k, j>>] = Hash[trace][k][j] /\ Hash[trace][k][j] \in Nat
  <2> SUFFICES ASSUME NEW k \in list, NEW j \in 1..n
               PROVE  <<k, j>> \in A /\ f[<<k, j>>] = Hash[trace][k][j] /\ Hash[trace][k][j] \in Nat
    OBVIOUS
  <2>1. Hash[trace][k] \in Seq(Nat \ {0}) /\ Len(Hash[trace][k]) = PartitionCount + 1
    BY ShardAssumption
  <2>2. j \in 1..PartitionCount + 1
    BY <1>2, ShardAssumption
  <2>3. Hash[trace][k][j] \in Nat
    BY <2>1, <2>2
  <2> QED
    BY <2>3
<1>4. IsFiniteSet(A)
  BY <1>1, <1>2, FinitelyManyPartitions
<1>5. IsFiniteSet(S)
  <2>1. f \in Surjection(A, S)
    BY DEF Surjection
  <2> QED
    BY <1>4, <2>1, FS_Surjection
<1>6. S \subseteq Nat /\ S # {}
  <2>1. \A a \in A : f[a] \in Nat
    BY <1>3
  <2>2. PICK k \in list : TRUE
    OBVIOUS
  <2>3. f[<<k, 1>>] \in S
    BY <1>2, <1>3
  <2> QED
    BY <2>1, <2>3
<1>7. PICK a \in A : \A b \in A : f[a] >= f[b]
  <2>1. HasGreatest(S)
    <3> HIDE DEF S
    <3> QED
      BY <1>5, <1>6, GreatestNat
  <2>2. PICK x \in S : \A y \in S : x >= y
    <3> HIDE DEF S
    <3> QED
      BY <2>1 DEF HasGreatest
  <2>3. PICK a \in A : x = f[a]
    OBVIOUS
  <2>4. \A b \in A : f[b] \in S
    OBVIOUS
  <2> HIDE DEF S, f, A
  <2> QED
    BY <2>2, <2>3, <2>4
<1>8. PICK m \in list, i \in 1..n : a = <<m, i>>
  BY <1>7
<1> HIDE DEF f, A
<1>9. \A k \in list, j \in 1..n : Hash[trace][m][i] >= Hash[trace][k][j]
  BY <1>3, <1>7, <1>8
<1> QED
  BY <1>9 DEF Highest, n

-----------------------------------------------------------------------------
(* Sequences without repetitions. *)

\* No event occurs twice.
Distinct(s) == \A i, j \in DOMAIN s : s[i] = s[j] => i = j

\* Taking the first event away leaves the others.
LEMMA TailDistinct ==
  ASSUME NEW S, NEW s \in Seq(S), s # <<>>, Distinct(s)
  PROVE  /\ Tail(s) \in Seq(S) /\ Distinct(Tail(s)) /\ Head(s) \in S
         /\ Head(s) \in Range(s)
         /\ \A e : e \in Range(Tail(s)) <=> e \in Range(s) /\ e # Head(s)
<1>1. Len(s) \in Nat \ {0} /\ DOMAIN s = 1..Len(s)
  BY EmptySeq
<1>2. /\ Tail(s) \in Seq(S) /\ DOMAIN Tail(s) = 1..(Len(s) - 1)
      /\ \A i \in 1..(Len(s) - 1) : Tail(s)[i] = s[i + 1]
  BY <1>1
<1>3. Head(s) = s[1] /\ s[1] \in S /\ Head(s) \in Range(s)
  BY <1>1 DEF Range
<1>4. Distinct(Tail(s))
  BY <1>1, <1>2 DEF Distinct
<1>5. ASSUME NEW e, e \in Range(Tail(s)) PROVE e \in Range(s) /\ e # Head(s)
  <2>1. PICK i \in 1..(Len(s) - 1) : e = s[i + 1]
    BY <1>2, <1>5 DEF Range
  <2>2. i + 1 \in DOMAIN s /\ 1 \in DOMAIN s /\ i + 1 # 1
    BY <1>1
  <2> QED
    BY <1>3, <2>1, <2>2 DEF Range, Distinct
<1>6. ASSUME NEW e, e \in Range(s), e # Head(s) PROVE e \in Range(Tail(s))
  <2>1. PICK i \in DOMAIN s : e = s[i]
    BY <1>6 DEF Range
  <2>2. i # 1
    BY <1>3, <1>6, <2>1
  <2>3. i - 1 \in 1..(Len(s) - 1) /\ (i - 1) + 1 = i
    BY <1>1, <2>2
  <2>4. Tail(s)[i - 1] = e
    BY <1>2, <2>1, <2>3
  <2> QED
    BY <1>2, <2>3, <2>4 DEF Range
<1> QED
  BY <1>2, <1>3, <1>4, <1>5, <1>6

\* Appending a new event adds it.
LEMMA AppendDistinct ==
  ASSUME NEW S, NEW s \in Seq(S), NEW x \in S
  PROVE  /\ Append(s, x) \in Seq(S)
         /\ \A e : e \in Range(Append(s, x)) <=> e \in Range(s) \/ e = x
         /\ Distinct(s) /\ x \notin Range(s) => Distinct(Append(s, x))
<1>1. Len(s) \in Nat /\ DOMAIN s = 1..Len(s)
  OBVIOUS
<1>2. /\ Append(s, x) \in Seq(S) /\ DOMAIN Append(s, x) = 1..(Len(s) + 1)
      /\ \A i \in DOMAIN s : Append(s, x)[i] = s[i]
      /\ Append(s, x)[Len(s) + 1] = x
  BY <1>1
<1>3. \A i : i \in DOMAIN Append(s, x) <=> i \in DOMAIN s \/ i = Len(s) + 1
  BY <1>1, <1>2
<1>4. \A e : e \in Range(Append(s, x)) <=> e \in Range(s) \/ e = x
  BY <1>2, <1>3, Zenon DEF Range
<1>5. ASSUME Distinct(s), x \notin Range(s) PROVE Distinct(Append(s, x))
  BY <1>2, <1>3, <1>5 DEF Range, Distinct
<1> QED
  BY <1>2, <1>4, <1>5

\* A sequence of one event.
LEMMA OneEvent ==
  ASSUME NEW S, NEW x \in S
  PROVE  /\ <<x>> \in Seq(S) /\ <<x>> # <<>> /\ Distinct(<<x>>)
         /\ Head(<<x>>) = x /\ Tail(<<x>>) = <<>> /\ \A e : e \in Range(<<x>>) <=> e = x
  BY DEF Distinct, Range

-----------------------------------------------------------------------------
(* Types and goroutines. *)

New  == [pc |-> "new"]
Call == [pc : {"get", "lock", "lookup", "parse", "run", "transit", "resent"},
         node : Node, kind : Endpoint, key : Key, todo : Seq(Event)]

\* What a goroutine that serves a request works on, with a key that is good on
\* every node: a client's request on the rest of its events, a forwarded event on
\* itself.
Serves(a, p, c) ==
  /\ c \in Call
  /\ p \in Request =>
       /\ c.pc # "transit"
       /\ Distinct(c.todo) /\ \A e \in Range(c.todo) : e \in Range(Body[p])
  /\ p \notin Request => c.kind = "batch" /\ c.todo = <<p>>
  /\ c.pc = "run" => c.todo # <<>>
  /\ IsAccepted(a, c.key) /\ GetReplaceKey(a, c.key) # Blank

Works(a, p, c) == (p \in Request \cup Copy /\ c = New) \/ c = Idle \/ Serves(a, p, c)

AllWork == DOMAIN call = Goroutine /\ \A p \in Goroutine : Works(access, p, call[p])

\* No event is ever refused by the apiKeyProcessor of a peer.
Outcome == {"refused", "lost", "upstream", "stress", "collected"}

TypeOK ==
  /\ access \in AccessKeys
  /\ peers \in [Node -> (SUBSET Node) \ {{}}]
  /\ stressed \in [Node -> BOOLEAN]
  /\ AllWork
  /\ probe \in [Event -> BOOLEAN]
  /\ cached \in [Routers -> SUBSET Key]
  /\ queue \in [Routers -> Seq(Event)]
  /\ faults \in [Fault -> Nat]
  /\ fate \in [Event -> Seq(Outcome)]
  /\ home \in [Event -> SUBSET Node]

DistinctQueues == \A y \in Routers : Distinct(queue[y])

\* Where an event is.
At(e, carriers, queues) == Carriers(e) = carriers /\ Queues(e) = queues

\* An event that is no probe is still to come, is with one goroutine, is
\* in one queue, or is done; a probe is done and at most on its way to the owner.
Fresh(e)   == ~Received(e) /\ At(e, {}, {}) /\ fate[e] = <<>>
Carried(e) == Received(e) /\ fate[e] = <<>> /\ \E p \in Goroutine : At(e, {p}, {})
Queued(e)  == Received(e) /\ fate[e] = <<>> /\ \E y \in Routers : At(e, {}, {y})
Done(e)    == Received(e) /\ Len(fate[e]) = 1 /\ At(e, {}, {})
Probed(e)  == Received(e) /\ fate[e] = <<"upstream">> /\ (At(e, {}, {}) \/ At(e, {e}, {}))

Stage(e) ==
  /\ ~probe[e] => Fresh(e) \/ Carried(e) \/ Queued(e) \/ Done(e)
  /\ probe[e] => Probed(e)

Staged == DistinctQueues /\ \A e \in Event : Stage(e)

\* As long as the lists have not changed, the owner is the one all nodes see.
Gathering ==
  faults["lists"] = 0 =>
    /\ peers = [n \in Node |-> Node]
    /\ \A y \in Routers : \A e \in Range(queue[y]) : Highest(Node, TraceOf[e]) = y[1]
    /\ \A e \in Event : \A n \in home[e] : n = Highest(Node, TraceOf[e])

-----------------------------------------------------------------------------
(* What the actions do to a goroutine. *)

\* A key that is accepted, before or after it is replaced, is accepted again once
\* it is replaced, and its replacement is not blank.
LEMMA KeyStaysGood ==
  ASSUME NEW a \in AccessKeys, NEW key \in Key, GetReplaceKey(a, key) # Blank,
         IsAccepted(a, key) \/ IsAccepted(a, GetReplaceKey(a, key))
  PROVE  /\ GetReplaceKey(a, key) \in Key
         /\ IsAccepted(a, GetReplaceKey(a, key))
         /\ GetReplaceKey(a, GetReplaceKey(a, key)) # Blank
<1> DEFINE used == GetReplaceKey(a, key)
<1>1. a.send \in Key
  BY KeyAssumption
<1>2. (used = a.send /\ a.send # Blank) \/ used = key
  BY DEF GetReplaceKey
<1>3. \A k : k = a.send /\ k # Blank => GetReplaceKey(a, k) = k /\ IsAccepted(a, k)
  BY DEF GetReplaceKey, IsAccepted
<1> HIDE DEF used
<1>4. used # Blank /\ (IsAccepted(a, key) \/ IsAccepted(a, used))
  BY DEF used
<1>5. CASE used = a.send
  <2>1. GetReplaceKey(a, used) = used /\ IsAccepted(a, used)
    BY <1>3, <1>4, <1>5
  <2> QED
    BY <1>1, <1>4, <1>5, <2>1 DEF used
<1>6. CASE used = key
  <2>1. GetReplaceKey(a, used) = used
    BY <1>6 DEF used
  <2> QED
    BY <1>4, <1>6, <2>1 DEF used
<1> QED
  BY <1>2, <1>5, <1>6

\* A request that is accepted is served.
LEMMA EntersServes ==
  ASSUME TypeOK, NEW p \in Goroutine, NEW n \in Node, NEW kind \in Endpoint, NEW key \in Key,
         NEW todo \in Seq(Event),
         p \in Request => todo = Body[p], p \notin Request => kind = "batch" /\ todo = <<p>>,
         GetReplaceKey(access, key) # Blank,
         IsAccepted(access, key) \/ IsAccepted(access, GetReplaceKey(access, key))
  PROVE  Serves(access, p, Enters(n, kind, key, todo))
<1> DEFINE c == Enters(n, kind, key, todo)
           used == GetReplaceKey(access, key)
<1>1. used \in Key /\ IsAccepted(access, used) /\ GetReplaceKey(access, used) # Blank
  BY KeyStaysGood DEF TypeOK
<1>2. /\ c.pc \in {"parse", "get"} /\ c.node = n /\ c.kind = kind /\ c.key = used /\ c.todo = todo
      /\ c = [pc |-> c.pc, node |-> n, kind |-> kind, key |-> used, todo |-> todo]
  <2> HIDE DEF used
  <2> QED
    BY DEF Enters, used
<1>3. p \in Request => Distinct(todo)
  BY RequestAssumption DEF Distinct
<1> HIDE DEF used, c
<1>4. c \in Call
  BY <1>1, <1>2 DEF Call
<1>5. Serves(access, p, c)
  BY <1>1, <1>2, <1>3, <1>4 DEF Serves
<1> QED
  BY <1>5 DEF c

WithPc(c, x) == [c EXCEPT !.pc = x]

\* A goroutine that only goes to its next step still serves its request.
LEMMA NextPc ==
  ASSUME NEW a, NEW p \in Goroutine, NEW c, Serves(a, p, c), NEW x \in {"lock", "lookup", "parse"}
  PROVE  Serves(a, p, WithPc(c, x)) /\ WithPc(c, x).pc = x /\ WithPc(c, x).todo = c.todo
<1> DEFINE d == WithPc(c, x)
<1>1. c \in Call
  BY DEF Serves
<1>2. /\ d \in Call /\ d.pc = x /\ d.node = c.node /\ d.kind = c.kind /\ d.key = c.key
      /\ d.todo = c.todo
  BY <1>1 DEF Call, WithPc
<1> HIDE DEF d
<1>3. Serves(a, p, d)
  BY <1>1, <1>2 DEF Serves
<1> QED
  BY <1>2, <1>3 DEF d

\* A goroutine that goes on with some of its events serves them.
LEMMA ContinueServes ==
  ASSUME TypeOK, NEW p \in Goroutine, Serves(access, p, call[p]), NEW todo \in Seq(Event),
         p \in Request => Distinct(todo) /\ \A e \in Range(todo) : e \in Range(call[p].todo),
         p \notin Request => todo \in {<<>>, <<p>>}
  PROVE  LET d == Continue(p, todo)
         IN  /\ (d = Idle /\ todo = <<>>) \/ (Serves(access, p, d) /\ d.pc = "run" /\ d.todo = todo)
             /\ Works(access, p, d)
<1> DEFINE d == [call[p] EXCEPT !.pc = "run", !.todo = todo]
           c == call[p]
<1>1. c \in Call
  BY DEF Serves
<1>2. /\ d \in Call /\ d.pc = "run" /\ d.node = c.node /\ d.kind = c.kind /\ d.key = c.key
      /\ d.todo = todo
  <2> HIDE DEF c
  <2>1. d = [c EXCEPT !.pc = "run", !.todo = todo]
    BY DEF c
  <2> HIDE DEF d
  <2> QED
    BY <1>1, <2>1 DEF Call
<1>3. CASE todo = <<>>
  BY <1>3 DEF Continue, Works
<1>4. CASE todo # <<>>
  <2>1. Continue(p, todo) = d
    BY <1>4 DEF Continue
  <2> HIDE DEF d, c
  <2>2. Serves(access, p, c)
    BY DEF c
  <2>3. Serves(access, p, d)
    BY <1>1, <1>2, <1>4, <2>2 DEF Serves, c
  <2> QED
    BY <1>2, <2>1, <2>3 DEF Works
<1> QED
  BY <1>3, <1>4

\* The events a goroutine still has to deal with.
Todo(c) == IF c.pc \in {"new", "idle"} THEN {} ELSE Range(c.todo)

\* A goroutine that is neither new nor idle serves a request.
LEMMA Serving ==
  ASSUME TypeOK, NEW p \in Goroutine, call[p].pc \notin {"new", "idle"}
  PROVE  /\ Serves(access, p, call[p]) /\ Todo(call[p]) = Range(call[p].todo)
         /\ call[p] \in Call
         /\ call[p].pc \in {"get", "lock", "lookup", "parse", "run", "transit", "resent"}
         /\ call[p].node \in Node /\ call[p].kind \in Endpoint /\ call[p].key \in Key
         /\ call[p].todo \in Seq(Event) /\ RouterOf(p) \in Routers /\ RouterOf(p)[1] = call[p].node
<1>1. Works(access, p, call[p])
  BY DEF TypeOK, AllWork
<1>2. Serves(access, p, call[p])
  BY <1>1 DEF Works, New, Idle
<1>3. call[p] \in Call
  BY <1>2 DEF Serves
<1>4. /\ call[p].node \in Node /\ call[p].kind \in Endpoint /\ call[p].key \in Key
      /\ call[p].todo \in Seq(Event)
      /\ call[p].pc \in {"get", "lock", "lookup", "parse", "run", "transit", "resent"}
  BY <1>3 DEF Call
<1> QED
  BY <1>2, <1>3, <1>4 DEF Todo, RouterOf, Routers

\* A goroutine that is done with its first event has the others left.
LEMMA AdvanceWorks ==
  ASSUME TypeOK, NEW p \in Goroutine, call[p].pc = "run"
  PROVE  /\ Head(call[p].todo) \in Event /\ Head(call[p].todo) \in Todo(call[p])
         /\ Works(access, p, Advance(p)) /\ Advance(p).pc # "new"
         /\ \A e : e \in Todo(Advance(p)) <=> e \in Todo(call[p]) /\ e # Head(call[p].todo)
<1> DEFINE s == call[p].todo
<1>1. /\ Serves(access, p, call[p]) /\ Todo(call[p]) = Range(s) /\ s \in Seq(Event) /\ s # <<>>
      /\ call[p].pc = "run"
  BY Serving DEF Serves
<1>2. Distinct(s) /\ (p \notin Request => s = <<p>> /\ Tail(s) = <<>>)
  <2>1. CASE p \in Request
    BY <1>1, <2>1 DEF Serves
  <2>2. CASE p \notin Request
    <3>1. s = <<p>> /\ p \in Event
      BY <1>1, <2>2 DEF Serves, Goroutine
    <3> HIDE DEF s
    <3> QED
      BY <2>2, <3>1, OneEvent
  <2> QED
    BY <2>1, <2>2
<1> HIDE DEF s
<1>3. /\ Tail(s) \in Seq(Event) /\ Distinct(Tail(s)) /\ Head(s) \in Event
      /\ Head(s) \in Range(s)
      /\ \A e : e \in Range(Tail(s)) <=> e \in Range(s) /\ e # Head(s)
  BY <1>1, <1>2, TailDistinct
<1> DEFINE d == Continue(p, Tail(s))
<1>4. /\ (d = Idle /\ Tail(s) = <<>>) \/ (Serves(access, p, d) /\ d.pc = "run" /\ d.todo = Tail(s))
      /\ Works(access, p, d)
  BY <1>1, <1>2, <1>3, ContinueServes DEF s
<1>5. Advance(p) = d
  BY DEF Advance, s
<1> HIDE DEF d
<1>6. d.pc # "new" /\ Todo(d) = Range(Tail(s))
  <2>1. CASE d = Idle /\ Tail(s) = <<>>
    <3>1. Range(Tail(s)) = {}
      BY <2>1 DEF Range
    <3> QED
      BY <2>1, <3>1 DEF Idle, Todo
  <2>2. CASE d.pc = "run" /\ d.todo = Tail(s)
    BY <2>2 DEF Todo
  <2> QED
    BY <1>4, <2>1, <2>2
<1> QED
  BY <1>1, <1>3, <1>4, <1>5, <1>6 DEF s

\* A goroutine that starts with the events it has read has all of them left.
LEMMA ParseWorks ==
  ASSUME TypeOK, NEW p \in Goroutine, call[p].pc = "parse"
  PROVE  LET d == Continue(p, call[p].todo)
         IN  Works(access, p, d) /\ d.pc # "new" /\ Todo(d) = Todo(call[p])
<1> DEFINE s == call[p].todo
<1>1. Serves(access, p, call[p]) /\ Todo(call[p]) = Range(s) /\ s \in Seq(Event)
  BY Serving
<1>2. (p \in Request => Distinct(s)) /\ (p \notin Request => s = <<p>>)
  BY <1>1 DEF Serves
<1> DEFINE d == Continue(p, s)
<1>4. /\ (d = Idle /\ s = <<>>) \/ (Serves(access, p, d) /\ d.pc = "run" /\ d.todo = s)
      /\ Works(access, p, d)
  BY <1>1, <1>2, ContinueServes
<1> HIDE DEF d
<1>6. d.pc # "new" /\ Todo(d) = Range(s)
  <2>1. CASE d = Idle /\ s = <<>>
    <3>1. Range(s) = {}
      BY <2>1 DEF Range
    <3> QED
      BY <2>1, <3>1 DEF Idle, Todo
  <2>2. CASE d.pc = "run" /\ d.todo = s
    BY <2>2 DEF Todo
  <2> QED
    BY <1>4, <2>1, <2>2
<1> QED
  BY <1>1, <1>4, <1>6 DEF d

\* The copy of an event that is on its way to a peer.
Transit(p, e) ==
  [pc |-> "transit", node |-> WhichShard(call[p].node, TraceOf[e]),
   kind |-> "batch", key |-> call[p].key, todo |-> <<e>>]

\* A node forwards to a node.
LEMMA TransitServes ==
  ASSUME TypeOK, NEW p \in Goroutine, call[p].pc = "run", NEW e \in Event, TraceOf[e] # NoTrace
  PROVE  /\ Serves(access, e, Transit(p, e)) /\ Transit(p, e).pc = "transit"
         /\ Todo(Transit(p, e)) = {e}
<1> DEFINE c == Transit(p, e)
           n == WhichShard(call[p].node, TraceOf[e])
<1>1. /\ Serves(access, p, call[p]) /\ call[p].node \in Node /\ call[p].key \in Key
  BY Serving
<1>2. TraceOf[e] \in Trace
  BY RequestAssumption
<1>3. peers[call[p].node] \in SUBSET Node /\ peers[call[p].node] # {}
  BY <1>1 DEF TypeOK
<1>4. n \in Node
  BY <1>2, <1>3, HighestInList DEF WhichShard
<1> HIDE DEF n
<1>5. c = [pc |-> "transit", node |-> n, kind |-> "batch", key |-> call[p].key, todo |-> <<e>>]
  BY DEF Transit, n
<1>6. <<e>> \in Seq(Event) /\ Range(<<e>>) = {e} /\ <<e>> # <<>> /\ e \notin Request
  BY OneEvent, RequestAssumption
<1> HIDE DEF c
<1>7. c.pc = "transit" /\ c.key = call[p].key /\ c.todo = <<e>> /\ c.kind = "batch"
  BY <1>5
<1>8. c \in Call
  <2>1. "batch" \in Endpoint
    BY DEF Endpoint
  <2> QED
    BY <1>1, <1>4, <1>5, <1>6, <2>1 DEF Call
<1>9. Serves(access, e, c)
  BY <1>1, <1>6, <1>7, <1>8 DEF Serves
<1> QED
  BY <1>6, <1>7, <1>9 DEF c, Todo

-----------------------------------------------------------------------------
(* What a step does to the events: the cases of every argument below. *)

\* Goroutine p becomes c and has lost the events of E.
Becomes(p, c, E) ==
  /\ call' = [call EXCEPT ![p] = c] /\ Works(access, p, c)
  /\ call[p].pc \notin {"new", "idle"} /\ c.pc # "new"
  /\ E \subseteq Todo(call[p]) /\ \A e : e \in Todo(c) <=> e \in Todo(call[p]) /\ e \notin E

\* A client's request is accepted or refused.
Arrives(r) ==
  /\ call[r].pc = "new" /\ UNCHANGED <<probe, queue, home>>
  /\ \E c :
       /\ call' = [call EXCEPT ![r] = c] /\ Works(access, r, c) /\ c.pc # "new"
       /\ \/ Todo(c) = Range(Body[r]) /\ UNCHANGED fate
          \/ Todo(c) = {} /\ Settle(Range(Body[r]), "refused")

\* A goroutine goes on with the same events.
Moves(p) == (\E c : Becomes(p, c, {})) /\ UNCHANGED <<probe, queue, fate, home>>

\* Some events of a request are done; no probe among them.
Settles(p, E, outcome) ==
  /\ outcome \in Outcome /\ Settle(E, outcome) /\ \A e \in E : p \in Request \/ ~probe[e]
  /\ \E c : Becomes(p, c, E)
  /\ UNCHANGED <<probe, queue, home>>

\* A probe has arrived or is lost.
Drops(p, e) ==
  /\ probe[e] /\ e \in Event /\ \E c : Becomes(p, c, {e})
  /\ UNCHANGED <<probe, queue, fate, home>>

\* Stress relief decides, and does not forward.
Relieves(p, e, keep) ==
  /\ ~probe[e] /\ e \in Event /\ \E c : Becomes(p, c, {e})
  /\ Settle({e}, IF keep THEN "upstream" ELSE "stress") /\ probe' = [probe EXCEPT ![e] = keep]
  /\ UNCHANGED <<queue, home>>

\* An event is sent to a peer, as a probe if stress relief has kept it.
Forwards(p, e) ==
  /\ call[p].pc \notin {"new", "idle"}
  /\ ~probe[e] /\ e \in Event /\ e \in Todo(call[p])
  /\ \E c, d :
       /\ call' = [[call EXCEPT ![p] = c] EXCEPT ![e] = d]
       /\ Works(access, p, c) /\ c.pc # "new"
       /\ \A f : f \in Todo(c) <=> f \in Todo(call[p]) /\ f # e
       /\ Works(access, e, d) /\ d.pc # "new" /\ \A f : f \in Todo(d) <=> f = e
  /\ \/ UNCHANGED <<probe, fate>>
     \/ Settle({e}, "upstream") /\ probe' = [probe EXCEPT ![e] = TRUE]
  /\ UNCHANGED <<queue, home>>

\* An event is handed to the collector of the node that owns its trace.
Hands(p, e, y) ==
  /\ ~probe[e] /\ e \in Event /\ y \in Routers /\ Highest(peers[y[1]], TraceOf[e]) = y[1]
  /\ \E c : Becomes(p, c, {e})
  /\ queue' = [queue EXCEPT ![y] = Append(@, e)]
  /\ UNCHANGED <<probe, fate, home>>

\* A POST is sent again, and its event exists twice.
Copies(e, d) ==
  /\ d \in Copy /\ call[d].pc = "new"
  /\ e \in Event /\ e \in Todo(call[e])
  /\ \E b, c :
       /\ call' = [[call EXCEPT ![e] = b] EXCEPT ![d] = c]
       /\ Works(access, e, b) /\ b.pc # "new" /\ Todo(b) = Todo(call[e])
       /\ Works(access, d, c) /\ c.pc # "new" /\ \A f : f \in Todo(c) <=> f = d
  /\ probe' = [probe EXCEPT ![d] = probe[e]] /\ fate' = [fate EXCEPT ![d] = fate[e]]
  /\ UNCHANGED <<queue, home>>

\* The collector takes an event.
Takes(y) ==
  /\ queue[y] # <<>> /\ queue' = [queue EXCEPT ![y] = Tail(@)]
  /\ Settle({Head(queue[y])}, "collected")
  /\ home' = [home EXCEPT ![Head(queue[y])] = @ \cup {y[1]}]
  /\ UNCHANGED <<call, probe>>

Effect ==
  \/ \E r \in Request : Arrives(r)
  \/ \E p \in Goroutine : Moves(p)
  \/ \E p \in Goroutine : \E E : \E outcome : Settles(p, E, outcome)
  \/ \E p \in Goroutine : \E e : Drops(p, e)
  \/ \E p \in Goroutine : \E e : \E keep \in BOOLEAN : Relieves(p, e, keep)
  \/ \E p \in Goroutine : \E e : Forwards(p, e)
  \/ \E p \in Goroutine : \E e : \E y : Hands(p, e, y)
  \/ \E e \in Event, d \in Copy : Copies(e, d)
  \/ \E y \in Routers : Takes(y)
  \/ UNCHANGED <<call, probe, queue, fate, home>>

\* A client's request is admitted only with a key that is good everywhere.
LEMMA ArriveEffect ==
  ASSUME TypeOK, NEW r \in Request, NEW n \in Node, NEW good \in BOOLEAN, NEW f \in Forms[r],
         \/ Post(r, n, f[1], f[2], good)
         \/ postOTLPTrace(r, n, f[1], f[2], good)
         \/ ExportTraceData(r, n, f[1], f[2], good)
         \/ postOTLPLogs(r, n, f[1], f[2], good)
  PROVE  Arrives(r)
<1>1. f \in Endpoint \X Key
  BY RequestAssumption
<1> DEFINE kind == f[1]
           key  == f[2]
           used == GetReplaceKey(access, key)
           admitted == /\ used # Blank
                       /\ IsAccepted(access, key) \/ IsAccepted(access, used)
<1>2. kind \in Endpoint /\ key \in Key
  BY <1>1
<1>3. PICK accepted \in BOOLEAN : Arrive(r, n, kind, key, accepted) /\ (accepted => admitted)
  <2> HIDE DEF kind, key
  <2>1. \/ Post(r, n, kind, key, good) \/ postOTLPTrace(r, n, kind, key, good)
        \/ ExportTraceData(r, n, kind, key, good) \/ postOTLPLogs(r, n, kind, key, good)
    BY DEF kind, key
  <2>2. apiKeyProcessor(key) => admitted
    BY DEF apiKeyProcessor
  <2>3. customTraceExportHandler(key) => admitted
    BY DEF customTraceExportHandler
  <2> HIDE DEF admitted
  <2>4. apiKeyProcessor(key) \in BOOLEAN /\ customTraceExportHandler(key) \in BOOLEAN
    BY DEF apiKeyProcessor, customTraceExportHandler
  <2> QED
    BY <2>1, <2>2, <2>3, <2>4, Zenon DEF Post, postOTLPTrace, ExportTraceData, postOTLPLogs
<1> HIDE DEF kind, key
<1>4. /\ call[r].pc = "new" /\ UNCHANGED <<probe, queue, home>> /\ r \in Goroutine
      /\ r \in DOMAIN Body /\ Body[r] \in Seq(Event)
  BY <1>3, RequestAssumption DEF Arrive, Goroutine
<1>5. CASE accepted
  <2> DEFINE c == Enters(n, kind, key, Body[r])
  <2>1. Serves(access, r, c)
    BY <1>2, <1>3, <1>4, <1>5, EntersServes
  <2>2. call' = [call EXCEPT ![r] = c] /\ UNCHANGED fate
    BY <1>3, <1>5 DEF Arrive
  <2>3. c.pc \notin {"new", "idle"} /\ c.todo = Body[r]
    BY DEF Enters
  <2> HIDE DEF c
  <2>4. Works(access, r, c) /\ Todo(c) = Range(Body[r]) /\ c.pc # "new"
    BY <2>1, <2>3 DEF Works, Todo
  <2> QED
    BY <1>4, <2>2, <2>4 DEF Arrives
<1>6. CASE ~accepted
  <2>1. call' = [call EXCEPT ![r] = Idle] /\ Settle(Range(Body[r]), "refused")
    BY <1>3, <1>6 DEF Arrive
  <2>2. Works(access, r, Idle) /\ Todo(Idle) = {} /\ Idle.pc # "new"
    BY DEF Works, Todo, Idle
  <2> QED
    BY <1>4, <2>1, <2>2 DEF Arrives
<1> QED
  BY <1>5, <1>6

\* A goroutine that goes to its next step.
LEMMA PcMoves ==
  ASSUME TypeOK, NEW p \in Goroutine, call[p].pc \notin {"new", "idle"},
         NEW x \in {"lock", "lookup", "parse"}, call' = [call EXCEPT ![p].pc = x],
         UNCHANGED <<probe, queue, fate, home>>
  PROVE  Moves(p)
<1> DEFINE c == call[p]
           d == WithPc(c, x)
<1>1. Serves(access, p, c) /\ Todo(c) = Range(c.todo)
  BY Serving
<1>2. Serves(access, p, d) /\ d.pc = x /\ d.todo = c.todo
  BY <1>1, NextPc
<1>3. call' = [call EXCEPT ![p] = d]
  BY DEF WithPc
<1> HIDE DEF d
<1>4. Works(access, p, d) /\ Todo(d) = Todo(c) /\ d.pc # "new"
  BY <1>1, <1>2 DEF Works, Todo
<1>5. Becomes(p, d, {})
  BY <1>3, <1>4 DEF Becomes
<1> QED
  BY <1>5 DEF Moves

\* A goroutine gives up.
LEMMA GivesUp ==
  ASSUME TypeOK, NEW p \in Goroutine, call[p].pc \notin {"new", "idle"},
         call' = [call EXCEPT ![p] = Idle]
  PROVE  Becomes(p, Idle, Range(call[p].todo))
<1>1. Todo(call[p]) = Range(call[p].todo)
  BY Serving
<1>2. Works(access, p, Idle) /\ Todo(Idle) = {} /\ Idle.pc # "new"
  BY DEF Works, Todo, Idle
<1> QED
  BY <1>1, <1>2 DEF Becomes

\* What an error costs.
LEMMA CostOutcome ==
  ASSUME NEW p
  PROVE  Cost(p) \in Outcome
  BY DEF Cost, Outcome

\* The steps before the events are processed.
LEMMA EarlyEffect ==
  ASSUME TypeOK, NEW p \in Goroutine,
         \/ Read(p) \/ Lock(p) \/ lookupEnvironment(p) \/ Parse(p) \/ LookupFails(p)
  PROVE  Effect
<1>1. CASE Read(p)
  <2>1. call[p].pc \notin {"new", "idle"} /\ UNCHANGED <<probe, queue, fate, home>>
    BY <1>1 DEF Read
  <2>2. PICK x \in {"lock", "lookup", "parse"} : call' = [call EXCEPT ![p].pc = x]
    BY <1>1 DEF Read
  <2> QED
    BY <2>1, <2>2, PcMoves DEF Effect
<1>2. CASE Lock(p)
  <2>1. call[p].pc \notin {"new", "idle"} /\ UNCHANGED <<probe, queue, fate, home>>
    BY <1>2 DEF Lock
  <2>2. PICK x \in {"lock", "lookup", "parse"} : call' = [call EXCEPT ![p].pc = x]
    BY <1>2 DEF Lock, AfterLock
  <2> QED
    BY <2>1, <2>2, PcMoves DEF Effect
<1>3. CASE lookupEnvironment(p)
  <2>1. call[p].pc \notin {"new", "idle"} /\ UNCHANGED <<probe, queue, fate, home>>
    BY <1>3 DEF lookupEnvironment
  <2>2. PICK x \in {"lock", "lookup", "parse"} : call' = [call EXCEPT ![p].pc = x]
    BY <1>3 DEF lookupEnvironment
  <2> QED
    BY <2>1, <2>2, PcMoves DEF Effect
<1>4. CASE Parse(p)
  <2> DEFINE d == Continue(p, call[p].todo)
  <2>1. /\ call[p].pc = "parse" /\ UNCHANGED <<probe, queue, fate, home>>
        /\ call' = [call EXCEPT ![p] = d]
    BY <1>4 DEF Parse
  <2>2. Works(access, p, d) /\ d.pc # "new" /\ Todo(d) = Todo(call[p])
    BY <2>1, ParseWorks
  <2> HIDE DEF d
  <2>3. Becomes(p, d, {})
    BY <2>1, <2>2 DEF Becomes
  <2> QED
    BY <2>1, <2>3 DEF Moves, Effect
<1>5. CASE LookupFails(p)
  <2>1. call[p].pc = "lookup" /\ UNCHANGED <<probe, queue, home>>
    BY <1>5 DEF LookupFails
  <2>2. CASE call[p].kind = "batch"
    <3>1. PICK x \in {"lock", "lookup", "parse"} : call' = [call EXCEPT ![p].pc = x]
      BY <1>5, <2>2 DEF LookupFails
    <3>2. UNCHANGED fate
      BY <1>5, <2>2 DEF LookupFails
    <3> QED
      BY <2>1, <3>1, <3>2, PcMoves DEF Effect
  <2>3. CASE call[p].kind # "batch"
    <3>1. call' = [call EXCEPT ![p] = Idle] /\ Settle(Range(call[p].todo), Cost(p))
      BY <1>5, <2>3 DEF LookupFails
    <3>2. Becomes(p, Idle, Range(call[p].todo))
      BY <2>1, <3>1, GivesUp
    <3>3. p \in Request
      BY <2>1, <2>3, Serving DEF Serves
    <3>4. Settles(p, Range(call[p].todo), Cost(p))
      BY <2>1, <3>1, <3>2, <3>3, CostOutcome DEF Settles
    <3> QED
      BY <3>4 DEF Effect
  <2> QED
    BY <2>2, <2>3
<1> QED
  BY <1>1, <1>2, <1>3, <1>4, <1>5

\* The fate of a forwarded event: its key is good at the peer.
LEMMA ForwardedEffect ==
  ASSUME TypeOK, NEW e \in Event, Deliver(e) \/ Lose(e)
  PROVE  Effect
<1>1. /\ call[e].pc \notin {"new", "idle"} /\ UNCHANGED <<queue, home, probe>>
      /\ e \in Goroutine /\ e \notin Request
  BY RequestAssumption DEF Deliver, Lose, Underway, Goroutine
<1>2. /\ Serves(access, e, call[e]) /\ call[e].node \in Node /\ call[e].key \in Key
      /\ call[e].todo = <<e>> /\ Todo(call[e]) = {e} /\ Range(call[e].todo) = {e}
  <2>1. Serves(access, e, call[e]) /\ Todo(call[e]) = Range(call[e].todo)
    BY <1>1, Serving
  <2>2. call[e].todo = <<e>>
    BY <1>1, <2>1 DEF Serves
  <2> QED
    BY <1>1, <2>1, <2>2, Serving, OneEvent
<1>3. CASE Deliver(e)
  <2> DEFINE c == Enters(call[e].node, "batch", call[e].key, <<e>>)
  <2>1. apiKeyProcessor(call[e].key)
    BY <1>2 DEF Serves, apiKeyProcessor
  <2>2. call' = [call EXCEPT ![e] = c] /\ UNCHANGED fate
    BY <1>3, <2>1 DEF Deliver
  <2>3. Serves(access, e, c)
    <3>1. "batch" \in Endpoint /\ <<e>> \in Seq(Event)
      BY DEF Endpoint
    <3> QED
      BY <1>1, <1>2, <2>1, <3>1, EntersServes DEF apiKeyProcessor
  <2>4. c.pc \notin {"new", "idle"} /\ c.todo = <<e>>
    BY DEF Enters
  <2> HIDE DEF c
  <2>5. Works(access, e, c) /\ Todo(c) = Todo(call[e]) /\ c.pc # "new"
    BY <1>2, <2>3, <2>4 DEF Works, Todo
  <2>6. Becomes(e, c, {})
    BY <1>1, <2>2, <2>5 DEF Becomes
  <2> QED
    BY <1>1, <2>2, <2>6 DEF Moves, Effect
<1>4. CASE Lose(e)
  <2>1. call' = [call EXCEPT ![e] = Idle]
    BY <1>4 DEF Lose
  <2>2. Becomes(e, Idle, {e})
    BY <1>1, <1>2, <2>1, GivesUp
  <2>3. CASE probe[e]
    BY <1>1, <1>4, <2>2, <2>3 DEF Lose, Drops, Effect
  <2>4. CASE ~probe[e]
    <3>1. Settle({e}, "lost")
      BY <1>4, <2>4 DEF Lose
    <3>2. Settles(e, {e}, "lost")
      BY <1>1, <2>2, <2>4, <3>1 DEF Settles, Outcome
    <3> QED
      BY <1>1, <3>2 DEF Effect
  <2> QED
    BY <2>3, <2>4
<1> QED
  BY <1>3, <1>4

ForCopy(c, d) == [c EXCEPT !.pc = "resent", !.todo = <<d>>]

ServesTwice(a, e, d, c, b, x) ==
  /\ Serves(a, e, b) /\ b.pc = "resent" /\ b.todo = c.todo
  /\ Serves(a, d, x) /\ x.pc = "resent" /\ x.todo = <<d>>

\* A goroutine whose event is sent again, and the one of the copy.
LEMMA ResentServes ==
  ASSUME NEW a, NEW e \in Event, NEW d \in Copy, NEW c, Serves(a, e, c)
  PROVE  ServesTwice(a, e, d, c, WithPc(c, "resent"), ForCopy(c, d))
<1> DEFINE b == WithPc(c, "resent")
           x == ForCopy(c, d)
<1>1. d \in Event /\ d \notin Request /\ e \notin Request /\ <<d>> \in Seq(Event)
  BY RequestAssumption, OneEvent
<1>2. c \in Call /\ c.kind = "batch" /\ IsAccepted(a, c.key) /\ GetReplaceKey(a, c.key) # Blank
  BY <1>1 DEF Serves
<1>3. /\ b \in Call /\ b.pc = "resent" /\ b.node = c.node /\ b.kind = c.kind /\ b.key = c.key
      /\ b.todo = c.todo
  BY <1>2 DEF Call, WithPc
<1>4. /\ x \in Call /\ x.pc = "resent" /\ x.node = c.node /\ x.kind = c.kind /\ x.key = c.key
      /\ x.todo = <<d>>
  BY <1>1, <1>2 DEF Call, ForCopy
<1> HIDE DEF b, x
<1>5. Serves(a, e, b)
  BY <1>1, <1>3 DEF Serves
<1>6. Serves(a, d, x)
  BY <1>1, <1>2, <1>4 DEF Serves
<1> QED
  BY <1>3, <1>4, <1>5, <1>6 DEF b, x, ServesTwice

\* What a retry does.
LEMMA RetryEffect ==
  ASSUME TypeOK, NEW e \in Event, NEW d \in Copy, Retry(e, d)
  PROVE  Copies(e, d)
<1>1. call[e].pc = "transit" /\ call[d].pc = "new" /\ e \in Goroutine /\ e # d /\ e \notin Request
  BY RequestAssumption DEF Retry, Goroutine
<1>2. Serves(access, e, call[e]) /\ Todo(call[e]) = Range(call[e].todo)
  BY <1>1, Serving
<1>3. call[e].todo = <<e>> /\ e \in Todo(call[e])
  <2>1. call[e].todo = <<e>>
    BY <1>1, <1>2 DEF Serves
  <2> QED
    BY <1>2, <2>1, OneEvent
<1> DEFINE b == WithPc(call[e], "resent")
           c == ForCopy(call[e], d)
<1>4. /\ Serves(access, e, b) /\ b.pc = "resent" /\ b.todo = call[e].todo
      /\ Serves(access, d, c) /\ c.pc = "resent" /\ c.todo = <<d>>
  <2>1. ServesTwice(access, e, d, call[e], b, c)
    BY <1>2, ResentServes, Zenon
  <2> HIDE DEF b, c
  <2> QED
    BY <2>1 DEF ServesTwice
<1>5. call' = [[call EXCEPT ![e] = b] EXCEPT ![d] = c]
  BY DEF Retry, WithPc, ForCopy
<1> HIDE DEF b, c
<1>6. Works(access, e, b) /\ b.pc # "new" /\ Todo(b) = Todo(call[e])
  BY <1>2, <1>4 DEF Works, Todo
<1>7. Works(access, d, c) /\ c.pc # "new" /\ \A f : f \in Todo(c) <=> f = d
  <2>1. \A f : f \in Range(<<d>>) <=> f = d
    BY OneEvent
  <2> QED
    BY <1>4, <2>1 DEF Works, Todo
<1>8. /\ probe' = [probe EXCEPT ![d] = probe[e]] /\ fate' = [fate EXCEPT ![d] = fate[e]]
      /\ UNCHANGED <<queue, home>>
  BY DEF Retry
<1> QED
  BY <1>1, <1>3, <1>5, <1>6, <1>7, <1>8 DEF Copies

\* A goroutine is done with its first event.
LEMMA AdvanceBecomes ==
  ASSUME TypeOK, NEW p \in Goroutine, call[p].pc = "run", call' = [call EXCEPT ![p] = Advance(p)]
  PROVE  Becomes(p, Advance(p), {Head(call[p].todo)})
<1>1. /\ Head(call[p].todo) \in Todo(call[p])
      /\ Works(access, p, Advance(p)) /\ Advance(p).pc # "new"
      /\ \A e : e \in Todo(Advance(p)) <=> e \in Todo(call[p]) /\ e # Head(call[p].todo)
  BY AdvanceWorks
<1> QED
  BY <1>1 DEF Becomes

\* A client's request is malformed, as a whole or in part.
LEMMA RefuseEffect ==
  ASSUME TypeOK, NEW r \in Request, Malformed(r) \/ Invalid(r)
  PROVE  Effect
<1>1. r \in Goroutine /\ UNCHANGED <<probe, queue, home>>
  BY DEF Goroutine, Malformed, Invalid
<1>2. CASE Malformed(r)
  <2>1. /\ call[r].pc = "parse" /\ call' = [call EXCEPT ![r] = Idle]
        /\ Settle(Range(call[r].todo), "refused")
    BY <1>2 DEF Malformed
  <2>2. Becomes(r, Idle, Range(call[r].todo))
    BY <1>1, <2>1, GivesUp
  <2>3. Settles(r, Range(call[r].todo), "refused")
    BY <1>1, <2>1, <2>2 DEF Settles, Outcome
  <2> QED
    BY <1>1, <2>3 DEF Effect
<1>3. CASE Invalid(r)
  <2>1. /\ call[r].pc = "run" /\ call' = [call EXCEPT ![r] = Advance(r)]
        /\ Settle({Head(call[r].todo)}, Cost(r))
    BY <1>3 DEF Invalid
  <2>2. Becomes(r, Advance(r), {Head(call[r].todo)})
    BY <1>1, <2>1, AdvanceBecomes
  <2>3. Settles(r, {Head(call[r].todo)}, Cost(r))
    BY <1>1, <2>1, <2>2, CostOutcome DEF Settles
  <2> QED
    BY <1>1, <2>3 DEF Effect
<1> QED
  BY <1>2, <1>3

\* A step that forwards the first event of a request.
LEMMA ForwardsIt ==
  ASSUME TypeOK, NEW p \in Goroutine, call[p].pc = "run", NEW e, e = Head(call[p].todo),
         TraceOf[e] # NoTrace, ~probe[e], call' = Forwarded(p, e), UNCHANGED <<queue, home>>,
         \/ UNCHANGED <<probe, fate>>
         \/ Settle({e}, "upstream") /\ probe' = [probe EXCEPT ![e] = TRUE]
  PROVE  Forwards(p, e)
<1> DEFINE c == Advance(p)
           d == Transit(p, e)
<1>1. /\ e \in Event /\ e \in Todo(call[p]) /\ Works(access, p, c) /\ c.pc # "new"
      /\ \A f : f \in Todo(c) <=> f \in Todo(call[p]) /\ f # e
  BY AdvanceWorks
<1>2. Serves(access, e, d) /\ d.pc = "transit" /\ Todo(d) = {e}
  BY <1>1, TransitServes
<1>3. Works(access, e, d) /\ d.pc # "new" /\ \A f : f \in Todo(d) <=> f = e
  BY <1>2 DEF Works
<1>4. call' = [[call EXCEPT ![p] = c] EXCEPT ![e] = d]
  BY DEF Forwarded, Transit
<1> HIDE DEF c, d
<1> QED
  BY <1>1, <1>3, <1>4 DEF Forwards

\* An event is processed.
LEMMA ProcessEffect ==
  ASSUME TypeOK, NEW p \in Goroutine, Process(p)
  PROVE  Effect
<1> DEFINE e == Head(call[p].todo)
           n == call[p].node
           y == RouterOf(p)
           A == call' = [call EXCEPT ![p] = Advance(p)]
<1>1. call[p].pc = "run" /\ UNCHANGED home
  BY DEF Process, processNonSpan, processStressed, processSpan
<1>2. e \in Event /\ n \in Node /\ y \in Routers /\ y[1] = n
  BY <1>1, AdvanceWorks, Serving
<1>3. A => Becomes(p, Advance(p), {e})
  BY <1>1, AdvanceBecomes
<1>4. CASE processNonSpan(p)
  <2>1. A /\ UNCHANGED <<probe, queue>>
    BY <1>4 DEF processNonSpan
  <2>2. CASE probe[e]
    <3>1. UNCHANGED fate
      BY <1>4, <2>2 DEF processNonSpan, DropsProbe
    <3> HIDE DEF e, A
    <3>2. Drops(p, e)
      BY <1>1, <1>2, <1>3, <2>1, <2>2, <3>1 DEF Drops
    <3> QED
      BY <3>2 DEF Effect
  <2>3. CASE ~probe[e]
    <3>1. Settle({e}, "upstream")
      BY <1>4, <2>3 DEF processNonSpan, DropsProbe
    <3> HIDE DEF e, A
    <3>2. Settles(p, {e}, "upstream")
      BY <1>1, <1>2, <1>3, <2>1, <2>3, <3>1 DEF Settles, Outcome
    <3> QED
      BY <3>2 DEF Effect
  <2> QED
    BY <2>2, <2>3
<1>5. ASSUME NEW keep \in BOOLEAN, processStressed(p, keep) PROVE Effect
  <2>1. /\ ~probe[e] /\ TraceOf[e] # NoTrace /\ UNCHANGED queue
        /\ Settle({e}, IF keep THEN "upstream" ELSE "stress")
        /\ probe' = [probe EXCEPT ![e] = keep]
    BY <1>5 DEF processStressed, DropsProbe
  <2>2. A \/ (keep /\ call' = Forwarded(p, e))
    BY <1>5 DEF processStressed
  <2> HIDE DEF e, A
  <2>3. CASE A
    <3>1. Relieves(p, e, keep)
      BY <1>1, <1>2, <1>3, <2>1, <2>3 DEF Relieves
    <3> QED
      BY <3>1 DEF Effect
  <2>4. CASE keep /\ call' = Forwarded(p, e)
    <3>1. keep = TRUE
      BY <2>4
    <3>2. Settle({e}, "upstream") /\ probe' = [probe EXCEPT ![e] = TRUE]
      BY <2>1, <3>1
    <3>3. Forwards(p, e)
      BY <1>1, <2>1, <2>4, <3>2, ForwardsIt DEF e
    <3> QED
      BY <3>3 DEF Effect
  <2> QED
    BY <2>2, <2>3, <2>4
<1>6. CASE processSpan(p)
  <2>1. ~probe[e] /\ TraceOf[e] # NoTrace /\ UNCHANGED probe
    BY <1>6 DEF processSpan, DropsProbe
  <2>2. \/ call' = Forwarded(p, e) /\ UNCHANGED <<queue, fate>>
        \/ /\ WhichShard(n, TraceOf[e]) = n /\ A
           /\ queue' = [queue EXCEPT ![y] = Append(@, e)] /\ UNCHANGED fate
        \/ A /\ Settle({e}, Cost(p)) /\ UNCHANGED queue
    BY <1>6 DEF processSpan
  <2>3. CASE call' = Forwarded(p, e) /\ UNCHANGED <<queue, fate>>
    <3>1. Forwards(p, e)
      <4> HIDE DEF e
      <4> QED
        BY <1>1, <2>1, <2>3, ForwardsIt DEF e
    <3> HIDE DEF e
    <3> QED
      BY <3>1 DEF Effect
  <2>4. CASE /\ WhichShard(n, TraceOf[e]) = n /\ A
             /\ queue' = [queue EXCEPT ![y] = Append(@, e)] /\ UNCHANGED fate
    <3> HIDE DEF e, A, n, y
    <3>1. Highest(peers[y[1]], TraceOf[e]) = y[1]
      BY <1>2, <2>4 DEF WhichShard
    <3>2. Hands(p, e, y)
      BY <1>1, <1>2, <1>3, <2>1, <2>4, <3>1 DEF Hands
    <3> QED
      BY <3>2 DEF Effect
  <2>5. CASE A /\ Settle({e}, Cost(p)) /\ UNCHANGED queue
    <3> HIDE DEF e, A
    <3>1. Settles(p, {e}, Cost(p))
      BY <1>1, <1>2, <1>3, <2>1, <2>5, CostOutcome DEF Settles
    <3> QED
      BY <3>1 DEF Effect
  <2> QED
    BY <2>2, <2>3, <2>4, <2>5
<1> QED
  BY <1>4, <1>5, <1>6 DEF Process

\* Every step has one of the effects.
LEMMA NextEffect ==
  ASSUME TypeOK, [Next]_vars
  PROVE  Effect
<1>1. CASE UNCHANGED vars
  BY <1>1 DEF vars, Effect
<1>2. CASE Next
  <2>1. ASSUME NEW r \in Request, NEW n \in Node, NEW good \in BOOLEAN, NEW f \in Forms[r],
               \/ Post(r, n, f[1], f[2], good)
               \/ postOTLPTrace(r, n, f[1], f[2], good)
               \/ ExportTraceData(r, n, f[1], f[2], good)
               \/ postOTLPLogs(r, n, f[1], f[2], good)
        PROVE  Effect
    BY <2>1, ArriveEffect DEF Effect
  <2>2. ASSUME NEW r \in Request, Malformed(r) \/ Invalid(r) PROVE Effect
    BY <2>2, RefuseEffect
  <2>3. ASSUME NEW e \in Event, Lose(e) \/ \E d \in Copy : Retry(e, d) PROVE Effect
    BY <2>3, ForwardedEffect, RetryEffect DEF Effect
  <2>4. ASSUME NEW p \in Goroutine, Step(p) \/ LookupFails(p) PROVE Effect
    BY <2>4, ForwardedEffect, EarlyEffect, ProcessEffect DEF Step
  <2>5. ASSUME NEW y \in Routers, Collect(y) PROVE Effect
    <3>1. Takes(y)
      BY <2>5 DEF Collect, Takes
    <3> QED
      BY <3>1 DEF Effect
  <2>6. ASSUME NEW y \in Routers, NEW key \in Key, Expire(y, key) PROVE Effect
    BY <2>6 DEF Expire, Effect
  <2>7. ASSUME NEW n \in Node, StressChanges(n) PROVE Effect
    BY <2>7 DEF StressChanges, Effect
  <2>8. ASSUME NEW n \in Node, NEW list \in SUBSET Node, loadPeerList(n, list) PROVE Effect
    BY <2>8 DEF loadPeerList, Effect
  <2> HIDE DEF Effect
  <2> QED
    BY <1>2, <2>1, <2>2, <2>3, <2>4, <2>5, <2>6, <2>7, <2>8, Zenon DEF Next
<1> QED
  BY <1>1, <1>2

-----------------------------------------------------------------------------
(* Type correctness, and the keys. *)

\* The settings, the lists and the counters; only a changed list counts as one.
LEMMA Surroundings ==
  ASSUME TypeOK, [Next]_vars
  PROVE  /\ access' = access
         /\ peers' \in [Node -> (SUBSET Node) \ {{}}]
         /\ stressed' \in [Node -> BOOLEAN]
         /\ cached' \in [Routers -> SUBSET Key]
         /\ faults' \in [Fault -> Nat]
         /\ faults'["lists"] = 0 => peers' = peers /\ faults["lists"] = 0
<1>1. /\ peers \in [Node -> (SUBSET Node) \ {{}}] /\ stressed \in [Node -> BOOLEAN]
      /\ cached \in [Routers -> SUBSET Key] /\ faults \in [Fault -> Nat]
  BY DEF TypeOK
<1> DEFINE Goal == /\ access' = access
                   /\ peers' \in [Node -> (SUBSET Node) \ {{}}]
                   /\ stressed' \in [Node -> BOOLEAN]
                   /\ cached' \in [Routers -> SUBSET Key]
                   /\ faults' \in [Fault -> Nat]
                   /\ faults'["lists"] = 0 => peers' = peers /\ faults["lists"] = 0
<1> SUFFICES Goal
  OBVIOUS
<1>2. ASSUME NEW f \in Fault, Interferes(f)
      PROVE  /\ faults' \in [Fault -> Nat]
             /\ faults'["lists"] = 0 => f # "lists" /\ faults["lists"] = 0
  BY <1>1, <1>2 DEF Interferes, Fault
<1>3. \A f \in {"lists", "stress", "expired", "failed", "lost", "retried"} : f \in Fault
  BY DEF Fault
<1>4. CASE UNCHANGED <<access, peers, stressed, cached, faults>>
  BY <1>1, <1>4
<1>5. CASE UNCHANGED vars
  BY <1>4, <1>5 DEF vars
<1>6. CASE Next
  <2>1. ASSUME NEW r \in Request, NEW n \in Node, NEW good \in BOOLEAN, NEW f \in Forms[r],
               \/ Post(r, n, f[1], f[2], good)
               \/ postOTLPTrace(r, n, f[1], f[2], good)
               \/ ExportTraceData(r, n, f[1], f[2], good)
               \/ postOTLPLogs(r, n, f[1], f[2], good)
        PROVE  Goal
    BY <1>4, <2>1 DEF Post, postOTLPTrace, ExportTraceData, postOTLPLogs, Arrive
  <2>2. ASSUME NEW r \in Request, Malformed(r) \/ Invalid(r) PROVE Goal
    BY <1>4, <2>2 DEF Malformed, Invalid
  <2>3. ASSUME NEW e \in Event, Lose(e) \/ \E d \in Copy : Retry(e, d) PROVE Goal
    BY <1>1, <1>2, <1>3, <2>3 DEF Lose, Retry
  <2>4. ASSUME NEW p \in Goroutine, Step(p) \/ LookupFails(p) PROVE Goal
    <3>1. CASE lookupEnvironment(p)
      <4>1. RouterOf(p) \in Routers /\ call[p].key \in Key
        BY <3>1, Serving DEF lookupEnvironment
      <4>2. cached' = [cached EXCEPT ![RouterOf(p)] = @ \cup {call[p].key}]
        BY <3>1 DEF lookupEnvironment
      <4>3. UNCHANGED <<access, peers, stressed, faults>>
        BY <3>1 DEF lookupEnvironment
      <4>4. cached' \in [Routers -> SUBSET Key]
        BY <1>1, <4>1, <4>2
      <4> QED
        BY <1>1, <4>3, <4>4
    <3>2. CASE LookupFails(p)
      BY <1>1, <1>2, <1>3, <3>2 DEF LookupFails
    <3>3. CASE Process(p)
      BY <1>4, <3>3 DEF Process, processNonSpan, processStressed, processSpan
    <3>4. CASE Deliver(p) \/ Read(p) \/ Lock(p) \/ Parse(p)
      BY <1>4, <3>4 DEF Deliver, Read, Lock, Parse
    <3> QED
      BY <2>4, <3>1, <3>2, <3>3, <3>4 DEF Step
  <2>5. ASSUME NEW y \in Routers, Collect(y) PROVE Goal
    BY <1>4, <2>5 DEF Collect
  <2>6. ASSUME NEW y \in Routers, NEW key \in Key, Expire(y, key) PROVE Goal
    <3>1. cached' \in [Routers -> SUBSET Key]
      BY <1>1, <2>6 DEF Expire
    <3> QED
      BY <1>1, <1>2, <1>3, <2>6, <3>1 DEF Expire
  <2>7. ASSUME NEW n \in Node, StressChanges(n) PROVE Goal
    BY <1>1, <1>2, <1>3, <2>7 DEF StressChanges
  <2>8. ASSUME NEW n \in Node, NEW list \in SUBSET Node, loadPeerList(n, list) PROVE Goal
    <3>1. peers' \in [Node -> (SUBSET Node) \ {{}}]
      BY <1>1, <2>8 DEF loadPeerList
    <3> QED
      BY <1>1, <1>2, <1>3, <2>8, <3>1 DEF loadPeerList
  <2> HIDE DEF Goal
  <2> QED
    BY <1>6, <2>1, <2>2, <2>3, <2>4, <2>5, <2>6, <2>7, <2>8, Zenon DEF Next
<1> QED
  BY <1>5, <1>6

\* What Settle does to an event.
LEMMA SettleFate ==
  ASSUME TypeOK, NEW E, NEW outcome \in Outcome, Settle(E, outcome)
  PROVE  /\ fate' \in [Event -> Seq(Outcome)]
         /\ \A e \in Event : e \in E => fate'[e] = Append(fate[e], outcome)
         /\ \A e \in Event : e \notin E => fate'[e] = fate[e]
  BY DEF TypeOK, Settle

\* A goroutine's new state leaves the others alone.
LEMMA OneWorks ==
  ASSUME TypeOK, NEW p \in Goroutine, NEW c, Works(access, p, c), access' = access,
         call' = [call EXCEPT ![p] = c]
  PROVE  AllWork'
<1>1. DOMAIN call = Goroutine /\ \A q \in Goroutine : Works(access, q, call[q])
  BY DEF TypeOK, AllWork
<1>2. DOMAIN call' = Goroutine
  BY <1>1
<1>3. \A q \in Goroutine : call'[q] = IF q = p THEN c ELSE call[q]
  BY <1>1
<1>4. \A q \in Goroutine : Works(access', q, call'[q])
  BY <1>1, <1>3
<1> QED
  BY <1>2, <1>4 DEF AllWork

\* The initial states are well typed: every request is idle and every queue empty.
LEMMA TypeInit == Init => TypeOK
<1> SUFFICES ASSUME Init PROVE TypeOK
  OBVIOUS
<1>1. DOMAIN call = Goroutine
  BY DEF Init
<1>2. ASSUME NEW p \in Goroutine PROVE Works(access, p, call[p])
  BY DEF Init, Works, New
<1>3. peers \in [Node -> (SUBSET Node) \ {{}}]
  BY DEF Init
<1>4. /\ access \in AccessKeys /\ stressed \in [Node -> BOOLEAN] /\ probe \in [Event -> BOOLEAN]
      /\ cached \in [Routers -> SUBSET Key] /\ faults \in [Fault -> Nat]
      /\ home \in [Event -> SUBSET Node]
  BY DEF Init
<1>5. queue \in [Routers -> Seq(Event)] /\ fate \in [Event -> Seq(Outcome)]
  BY DEF Init
<1> QED
  BY <1>1, <1>2, <1>3, <1>4, <1>5 DEF TypeOK, AllWork

\* Every step keeps the types: each carried request has a form its pc can serve.
LEMMA TypeStep ==
  ASSUME TypeOK, [Next]_vars
  PROVE  TypeOK'
<1>1. /\ access' = access /\ peers' \in [Node -> (SUBSET Node) \ {{}}]
      /\ stressed' \in [Node -> BOOLEAN] /\ cached' \in [Routers -> SUBSET Key]
      /\ faults' \in [Fault -> Nat]
  BY Surroundings
<1>2. /\ AllWork /\ probe \in [Event -> BOOLEAN] /\ queue \in [Routers -> Seq(Event)]
      /\ fate \in [Event -> Seq(Outcome)] /\ home \in [Event -> SUBSET Node]
      /\ access \in AccessKeys
  BY DEF TypeOK
<1> DEFINE Goal == /\ AllWork' /\ probe' \in [Event -> BOOLEAN]
                   /\ queue' \in [Routers -> Seq(Event)]
                   /\ fate' \in [Event -> Seq(Outcome)] /\ home' \in [Event -> SUBSET Node]
<1>3. ASSUME NEW p \in Goroutine, NEW c, NEW E, Becomes(p, c, E) PROVE AllWork'
  BY <1>1, <1>3, OneWorks DEF Becomes
<1>4. UNCHANGED call => AllWork'
  BY <1>1, <1>2 DEF AllWork
<1>5. ASSUME NEW r \in Request, Arrives(r) PROVE Goal
  <2>1. PICK c : /\ call' = [call EXCEPT ![r] = c] /\ Works(access, r, c)
                 /\ UNCHANGED fate \/ Settle(Range(Body[r]), "refused")
    BY <1>5 DEF Arrives
  <2>2. AllWork'
    BY <1>1, <2>1, OneWorks DEF Goroutine
  <2>3. fate' \in [Event -> Seq(Outcome)]
    <3>1. "refused" \in Outcome
      BY DEF Outcome
    <3> QED
      BY <1>2, <2>1, <3>1, SettleFate
  <2> QED
    BY <1>2, <1>5, <2>2, <2>3 DEF Arrives
<1>6. ASSUME NEW p \in Goroutine, Moves(p) PROVE Goal
  BY <1>2, <1>3, <1>6 DEF Moves
<1>7. ASSUME NEW p \in Goroutine, NEW E, NEW outcome, Settles(p, E, outcome) PROVE Goal
  BY <1>2, <1>3, <1>7, SettleFate DEF Settles
<1>8. ASSUME NEW p \in Goroutine, NEW e, Drops(p, e) PROVE Goal
  BY <1>2, <1>3, <1>8 DEF Drops
<1>9. ASSUME NEW p \in Goroutine, NEW e, NEW keep \in BOOLEAN, Relieves(p, e, keep) PROVE Goal
  <2>1. AllWork' /\ UNCHANGED <<queue, home>>
    BY <1>3, <1>9 DEF Relieves
  <2>2. probe' \in [Event -> BOOLEAN]
    BY <1>2, <1>9 DEF Relieves
  <2>3. PICK outcome \in Outcome : Settle({e}, outcome)
    BY <1>9 DEF Relieves, Outcome
  <2>4. fate' \in [Event -> Seq(Outcome)]
    BY <2>3, SettleFate
  <2> QED
    BY <1>2, <2>1, <2>2, <2>4
<1>10. ASSUME NEW p \in Goroutine, NEW e, Forwards(p, e) PROVE Goal
  <2>1. UNCHANGED <<queue, home>> /\ e \in Event /\ e \in Goroutine
    BY <1>10 DEF Forwards, Goroutine
  <2>2. PICK c, d : /\ call' = [[call EXCEPT ![p] = c] EXCEPT ![e] = d]
                    /\ Works(access, p, c) /\ Works(access, e, d)
    BY <1>10 DEF Forwards
  <2>3. AllWork'
    <3>1. DOMAIN call' = Goroutine
      BY <1>2, <2>2 DEF AllWork
    <3>2. \A q \in Goroutine : call'[q] = IF q = e THEN d ELSE IF q = p THEN c ELSE call[q]
      BY <1>2, <2>1, <2>2 DEF AllWork
    <3>3. \A q \in Goroutine : Works(access', q, call'[q])
      BY <1>1, <1>2, <2>2, <3>2 DEF AllWork
    <3> QED
      BY <3>1, <3>3 DEF AllWork
  <2>4. probe' \in [Event -> BOOLEAN]
    BY <1>2, <1>10 DEF Forwards
  <2>5. fate' \in [Event -> Seq(Outcome)]
    <3>1. "upstream" \in Outcome
      BY DEF Outcome
    <3> QED
      BY <1>2, <1>10, <3>1, SettleFate DEF Forwards
  <2> QED
    BY <1>2, <2>1, <2>3, <2>4, <2>5
<1>11. ASSUME NEW p \in Goroutine, NEW e, NEW y, Hands(p, e, y) PROVE Goal
  <2>1. queue' \in [Routers -> Seq(Event)]
    <3>1. e \in Event /\ y \in Routers /\ queue' = [queue EXCEPT ![y] = Append(queue[y], e)]
      BY <1>11 DEF Hands
    <3>2. Append(queue[y], e) \in Seq(Event)
      BY <1>2, <3>1
    <3> QED
      BY <1>2, <3>1, <3>2
  <2> QED
    BY <1>2, <1>3, <1>11, <2>1 DEF Hands
<1>12. ASSUME NEW y \in Routers, Takes(y) PROVE Goal
  <2>1. /\ queue[y] \in Seq(Event) /\ queue[y] # <<>> /\ y[1] \in Node
        /\ queue' = [queue EXCEPT ![y] = Tail(queue[y])]
    BY <1>2, <1>12 DEF Takes, Routers
  <2>2. Tail(queue[y]) \in Seq(Event) /\ Head(queue[y]) \in Event
    BY <2>1
  <2>3. queue' \in [Routers -> Seq(Event)]
    BY <1>2, <2>1, <2>2
  <2>4. home' \in [Event -> SUBSET Node]
    BY <1>2, <1>12, <2>1, <2>2 DEF Takes
  <2>5. fate' \in [Event -> Seq(Outcome)]
    <3>1. "collected" \in Outcome
      BY DEF Outcome
    <3> QED
      BY <1>12, <3>1, SettleFate DEF Takes
  <2> QED
    BY <1>2, <1>4, <1>12, <2>3, <2>4, <2>5 DEF Takes
<1>13. ASSUME UNCHANGED <<call, probe, queue, fate, home>> PROVE Goal
  BY <1>2, <1>4, <1>13
<1>14. ASSUME NEW e \in Event, NEW d \in Copy, Copies(e, d) PROVE Goal
  <2>1. UNCHANGED <<queue, home>> /\ d \in Event /\ d \in Goroutine /\ e \in Goroutine
    BY <1>14, RequestAssumption DEF Copies, Goroutine
  <2>2. PICK b, c : /\ call' = [[call EXCEPT ![e] = b] EXCEPT ![d] = c]
                    /\ Works(access, e, b) /\ Works(access, d, c)
    BY <1>14 DEF Copies
  <2>3. AllWork'
    <3>1. DOMAIN call' = Goroutine
      BY <1>2, <2>2 DEF AllWork
    <3>2. \A q \in Goroutine : call'[q] = IF q = d THEN c ELSE IF q = e THEN b ELSE call[q]
      BY <1>2, <2>1, <2>2 DEF AllWork
    <3>3. \A q \in Goroutine : Works(access', q, call'[q])
      BY <1>1, <1>2, <2>2, <3>2 DEF AllWork
    <3> QED
      BY <3>1, <3>3 DEF AllWork
  <2>4. probe' \in [Event -> BOOLEAN] /\ fate' \in [Event -> Seq(Outcome)]
    BY <1>2, <1>14, <2>1 DEF Copies
  <2> QED
    BY <1>2, <2>1, <2>3, <2>4
<1>15. Goal
  <2>1. Effect
    BY NextEffect
  <2> HIDE DEF Goal
  <2> QED
    BY <1>5, <1>6, <1>7, <1>8, <1>9, <1>10, <1>11, <1>12, <1>13, <1>14, <2>1, Zenon DEF Effect
<1> QED
  BY <1>1, <1>2, <1>15 DEF TypeOK

\* The type invariant of the routers.
THEOREM TypeCorrect == Spec => []TypeOK
<1>1. TypeOK /\ [Next]_vars => TypeOK'
  BY TypeStep
<1> QED
  BY <1>1, TypeInit, PTL DEF Spec

\* A key that one router has accepted, and perhaps replaced, is accepted by every
\* peer the event reaches (apiKeyProcessor, GetReplaceKey).
THEOREM PeersAlwaysAccept == Spec => []PeersAcceptForwarded
<1>1. TypeOK => PeersAcceptForwarded
  <2> SUFFICES ASSUME TypeOK, NEW e \in Event, "unauthorised" \in Range(fate[e])
               PROVE  FALSE
    BY DEF PeersAcceptForwarded
  <2>1. fate[e] \in Seq(Outcome)
    BY DEF TypeOK
  <2>2. "unauthorised" \in Outcome
    BY <2>1 DEF Range
  <2> QED
    BY <2>2 DEF Outcome
<1> QED
  BY <1>1, TypeCorrect, PTL

-----------------------------------------------------------------------------
(* Every event is in one place. *)

\* The goroutines that carry an event, before and after a step.
LEMMA Carrying ==
  ASSUME NEW e, NEW p
  PROVE  /\ p \in Carriers(e) <=> p \in Goroutine /\ e \in Todo(call[p])
         /\ p \in Carriers(e)' <=> p \in Goroutine /\ e \in Todo(call'[p])
  BY DEF Carriers, Todo

\* An event for which nothing changes stays where it is.
LEMMA StageKept ==
  ASSUME NEW e \in Event, Stage(e), Received(e)' <=> Received(e), Carriers(e)' = Carriers(e),
         Queues(e)' = Queues(e), fate'[e] = fate[e], probe'[e] = probe[e]
  PROVE  Stage(e)'
  BY DEF Stage, Fresh, Carried, Queued, Done, Probed, At

\* Who carries an event that is no probe is the only one.
LEMMA OnlyCarrier ==
  ASSUME NEW e \in Event, Stage(e), NEW p, p \in Carriers(e), p \in Request \/ ~probe[e]
  PROVE  ~probe[e] /\ Received(e) /\ fate[e] = <<>> /\ Carriers(e) = {p} /\ Queues(e) = {}
<1>1. p # e \/ ~probe[e]
  BY RequestAssumption
<1> QED
  BY <1>1 DEF Stage, Fresh, Carried, Queued, Done, Probed, At

\* A queue that has an event is the only one.
LEMMA OnlyQueue ==
  ASSUME NEW e \in Event, Stage(e), NEW y, y \in Queues(e)
  PROVE  ~probe[e] /\ Received(e) /\ fate[e] = <<>> /\ Carriers(e) = {} /\ Queues(e) = {y}
  BY DEF Stage, Fresh, Carried, Queued, Done, Probed, At

\* What the change of one goroutine means for who carries what.
LEMMA BecomesCarriers ==
  ASSUME TypeOK, NEW p \in Goroutine, NEW c, NEW E, Becomes(p, c, E), NEW e
  PROVE  /\ Received(e)' <=> Received(e)
         /\ e \notin E => Carriers(e)' = Carriers(e)
         /\ e \in E => p \in Carriers(e) /\ Carriers(e)' = Carriers(e) \ {p}
<1>1. \A q \in Goroutine : call'[q] = IF q = p THEN c ELSE call[q]
  BY DEF TypeOK, AllWork, Becomes
<1>2. \A q \in Goroutine : call'[q].pc = "new" <=> call[q].pc = "new"
  BY <1>1 DEF Becomes
<1>3. Received(e)' <=> Received(e)
  BY <1>2, RequestAssumption DEF Received, Goroutine
<1>4. \A q : q \in Carriers(e)' <=> q \in Carriers(e) /\ (q # p \/ e \notin E)
  BY <1>1, Carrying DEF Becomes
<1>5. e \in E => p \in Carriers(e)
  BY Carrying DEF Becomes
<1> QED
  BY <1>3, <1>4, <1>5

\* The queues do not change.
LEMMA SameQueues ==
  ASSUME UNCHANGED queue, NEW e
  PROVE  Queues(e)' = Queues(e)
  BY DEF Queues

\* An event that is settled.
LEMMA DoneNow ==
  ASSUME TypeOK, NEW e \in Event, NEW outcome, fate[e] = <<>>, fate'[e] = Append(fate[e], outcome),
         Received(e)', Carriers(e)' = {}, Queues(e)' = {}, ~probe'[e]
  PROVE  Stage(e)'
<1>1. Len(fate'[e]) = 1
  OBVIOUS
<1> QED
  BY <1>1 DEF Stage, Done, At

\* A client's request arrives.
LEMMA ArrivesStage ==
  ASSUME TypeOK, NEW r \in Request, Arrives(r), NEW e \in Event, Stage(e)
  PROVE  Stage(e)'
<1>1. r \in Goroutine /\ call[r].pc = "new" /\ UNCHANGED <<probe, queue>> /\ DOMAIN call = Goroutine
  BY DEF Arrives, Goroutine, TypeOK, AllWork
<1>2. PICK c : /\ call' = [call EXCEPT ![r] = c] /\ c.pc # "new"
               /\ \/ Todo(c) = Range(Body[r]) /\ UNCHANGED fate
                  \/ Todo(c) = {} /\ Settle(Range(Body[r]), "refused")
  BY DEF Arrives
<1>3. \A q \in Goroutine : call'[q] = IF q = r THEN c ELSE call[q]
  BY <1>1, <1>2
<1>4. Queues(e)' = Queues(e)
  BY <1>1, SameQueues
<1>5. Todo(call[r]) = {}
  BY <1>1 DEF Todo
<1>6. CASE e \notin Range(Body[r])
  <2>1. Received(e)' <=> Received(e)
    BY <1>3, <1>6, RequestAssumption DEF Received, Goroutine
  <2>2. e \notin Todo(c)
    BY <1>2, <1>6
  <2>3. \A q : q \in Carriers(e)' <=> q \in Carriers(e)
    BY <1>3, <1>5, <2>2, Carrying
  <2>4. Carriers(e)' = Carriers(e)
    BY <2>3
  <2>5. fate'[e] = fate[e]
    <3>1. "refused" \in Outcome
      BY DEF Outcome
    <3> QED
      BY <1>2, <1>6, <3>1, SettleFate
  <2> QED
    BY <1>1, <1>4, <2>1, <2>4, <2>5, StageKept
<1>7. CASE e \in Range(Body[r])
  <2> e \notin Copy
    BY <1>7, RequestAssumption
  <2>1. ~Received(e)
    BY <1>1, <1>7 DEF Received
  <2>2. Fresh(e) /\ ~probe[e]
    BY <2>1 DEF Stage, Fresh, Carried, Queued, Done, Probed
  <2>3. Carriers(e) = {} /\ Queues(e)' = {} /\ fate[e] = <<>>
    BY <1>4, <2>2 DEF Fresh, At
  <2>4. Received(e)'
    <3> SUFFICES ASSUME NEW q \in Request, e \in Range(Body[q]) PROVE call'[q].pc # "new"
      BY DEF Received
    <3>1. q = r
      <4>1. PICK i \in DOMAIN Body[q] : e = Body[q][i]
        BY DEF Range
      <4>2. PICK j \in DOMAIN Body[r] : e = Body[r][j]
        BY <1>7 DEF Range
      <4> QED
        BY <4>1, <4>2, RequestAssumption
    <3> QED
      BY <1>1, <1>2, <1>3, <3>1
  <2>5. CASE Todo(c) = Range(Body[r]) /\ UNCHANGED fate
    <3>1. \A q : q \in Carriers(e)' <=> q = r
      BY <1>1, <1>3, <1>7, <2>3, <2>5, Carrying
    <3>2. Carriers(e)' = {r}
      BY <3>1
    <3>3. Carried(e)'
      BY <1>1, <2>3, <2>4, <2>5, <3>2 DEF Carried, At
    <3> QED
      BY <1>1, <2>2, <3>3 DEF Stage
  <2>6. CASE Todo(c) = {} /\ Settle(Range(Body[r]), "refused")
    <3>1. \A q : q \notin Carriers(e)'
      BY <1>1, <1>3, <2>3, <2>6, Carrying
    <3>2. Carriers(e)' = {}
      BY <3>1
    <3>3. fate'[e] = Append(fate[e], "refused")
      <4>1. "refused" \in Outcome
        BY DEF Outcome
      <4> QED
        BY <1>7, <2>6, <4>1, SettleFate
    <3> QED
      BY <1>1, <2>2, <2>3, <2>4, <3>2, <3>3, DoneNow
  <2> QED
    BY <1>2, <2>5, <2>6
<1> QED
  BY <1>6, <1>7

\* A goroutine settles some of its events.
LEMMA SettlesStage ==
  ASSUME TypeOK, NEW p \in Goroutine, NEW E, NEW outcome, Settles(p, E, outcome),
         NEW e \in Event, Stage(e)
  PROVE  Stage(e)'
<1>1. PICK c : Becomes(p, c, E)
  BY DEF Settles
<1>2. /\ Received(e)' <=> Received(e)
      /\ e \notin E => Carriers(e)' = Carriers(e)
      /\ e \in E => p \in Carriers(e) /\ Carriers(e)' = Carriers(e) \ {p}
  BY <1>1, BecomesCarriers
<1>3. Queues(e)' = Queues(e) /\ probe'[e] = probe[e]
  BY SameQueues DEF Settles
<1>4. /\ e \in E => fate'[e] = Append(fate[e], outcome)
      /\ e \notin E => fate'[e] = fate[e]
  BY SettleFate DEF Settles
<1>5. CASE e \notin E
  BY <1>2, <1>3, <1>4, <1>5, StageKept
<1>6. CASE e \in E
  <2>1. p \in Request \/ ~probe[e]
    BY <1>6 DEF Settles
  <2>2. ~probe[e] /\ Received(e) /\ fate[e] = <<>> /\ Carriers(e) = {p} /\ Queues(e) = {}
    BY <1>2, <1>6, <2>1, OnlyCarrier
  <2>3. Carriers(e)' = {}
    BY <1>2, <1>6, <2>2
  <2> QED
    BY <1>2, <1>3, <1>4, <1>6, <2>2, <2>3, DoneNow
<1> QED
  BY <1>5, <1>6

\* A goroutine goes on, or drops a probe.
LEMMA MovesStage ==
  ASSUME TypeOK, NEW p \in Goroutine, Moves(p) \/ \E f : Drops(p, f), NEW e \in Event, Stage(e)
  PROVE  Stage(e)'
<1>1. UNCHANGED <<probe, queue, fate>>
  BY DEF Moves, Drops
<1>2. Queues(e)' = Queues(e)
  BY <1>1, SameQueues
<1>3. PICK c, E : Becomes(p, c, E) /\ (E = {} \/ \E f : E = {f} /\ probe[f])
  BY DEF Moves, Drops
<1>4. /\ Received(e)' <=> Received(e)
      /\ e \notin E => Carriers(e)' = Carriers(e)
      /\ e \in E => p \in Carriers(e) /\ Carriers(e)' = Carriers(e) \ {p}
  BY <1>3, BecomesCarriers
<1>5. CASE e \notin E
  BY <1>1, <1>2, <1>4, <1>5, StageKept
<1>6. CASE e \in E
  <2>1. probe[e]
    BY <1>3, <1>6
  <2>2. Received(e) /\ fate[e] = <<"upstream">> /\ Queues(e) = {} /\ Carriers(e) = {p}
    BY <1>4, <1>6, <2>1 DEF Stage, Probed, At
  <2>3. Carriers(e)' = {}
    BY <1>4, <1>6, <2>2
  <2> QED
    BY <1>1, <1>2, <1>4, <2>1, <2>2, <2>3 DEF Stage, Probed, At
<1> QED
  BY <1>5, <1>6

\* Stress relief decides.
LEMMA RelievesStage ==
  ASSUME TypeOK, NEW p \in Goroutine, NEW f, NEW keep \in BOOLEAN, Relieves(p, f, keep),
         NEW e \in Event, Stage(e)
  PROVE  Stage(e)'
<1> DEFINE outcome == IF keep THEN "upstream" ELSE "stress"
<1>1. PICK c : Becomes(p, c, {f})
  BY DEF Relieves
<1>2. /\ Received(e)' <=> Received(e)
      /\ e # f => Carriers(e)' = Carriers(e)
      /\ e = f => p \in Carriers(e) /\ Carriers(e)' = Carriers(e) \ {p}
  <2>1. e \in {f} <=> e = f
    OBVIOUS
  <2> QED
    BY <1>1, <2>1, BecomesCarriers
<1>3. Queues(e)' = Queues(e)
  BY SameQueues DEF Relieves
<1>4. outcome \in Outcome /\ Settle({f}, outcome)
  BY DEF Relieves, Outcome
<1> HIDE DEF outcome
<1>5. /\ e = f => fate'[e] = Append(fate[e], outcome)
      /\ e # f => fate'[e] = fate[e]
  BY <1>4, SettleFate
<1>6. /\ ~probe[f] /\ f \in Event /\ probe \in [Event -> BOOLEAN]
      /\ probe' = [probe EXCEPT ![f] = keep]
  BY DEF Relieves, TypeOK
<1>7. CASE e # f
  <2>1. probe'[e] = probe[e]
    BY <1>6, <1>7
  <2> QED
    BY <1>2, <1>3, <1>5, <1>7, <2>1, StageKept
<1>8. CASE e = f
  <2>1. ~probe[e] /\ Received(e) /\ fate[e] = <<>> /\ Carriers(e) = {p} /\ Queues(e) = {}
    BY <1>2, <1>6, <1>8, OnlyCarrier
  <2>2. Carriers(e)' = {} /\ Queues(e)' = {} /\ Received(e)' /\ probe'[e] = keep
    BY <1>2, <1>3, <1>6, <1>8, <2>1
  <2>3. CASE ~keep
    BY <1>5, <1>8, <2>1, <2>2, <2>3, DoneNow
  <2>4. CASE keep
    <3>1. fate'[e] = Append(<<>>, "upstream")
      BY <1>5, <1>8, <2>1, <2>4 DEF outcome
    <3>2. fate'[e] = <<"upstream">>
      BY <3>1
    <3> QED
      BY <2>2, <2>4, <3>2 DEF Stage, Probed, At
  <2> QED
    BY <2>3, <2>4
<1> QED
  BY <1>7, <1>8

\* An event goes from its carrier to itself.
LEMMA ForwardsStage ==
  ASSUME TypeOK, NEW p \in Goroutine, NEW f, Forwards(p, f), NEW e \in Event, Stage(e), Stage(f)
  PROVE  Stage(e)'
<1>1. /\ call[p].pc \notin {"new", "idle"} /\ ~probe[f] /\ f \in Event /\ f \in Goroutine
      /\ f \in Todo(call[p]) /\ f \notin Request
  BY RequestAssumption DEF Forwards, Goroutine
<1>2. PICK c, d :
        /\ call' = [[call EXCEPT ![p] = c] EXCEPT ![f] = d]
        /\ c.pc # "new" /\ \A g : g \in Todo(c) <=> g \in Todo(call[p]) /\ g # f
        /\ d.pc # "new" /\ \A g : g \in Todo(d) <=> g = f
  BY DEF Forwards
<1>3. \A q \in Goroutine : call'[q] = IF q = f THEN d ELSE IF q = p THEN c ELSE call[q]
  BY <1>1, <1>2 DEF TypeOK, AllWork
<1>4. call[f].pc # "new" /\ \A g : g \in Todo(call[f]) => g = f
  <2>1. Works(access, f, call[f])
    BY <1>1 DEF TypeOK, AllWork
  <2>2. CASE call[f] = Idle
    BY <2>2 DEF Idle, Todo
  <2>3. CASE f \in Copy /\ call[f] = New
    <3>1. p \in Carriers(f)
      BY <1>1, Carrying
    <3>2. Received(f)
      BY <1>1, <3>1, OnlyCarrier
    <3> QED
      BY <2>3, <3>2 DEF Received, New
  <2>4. CASE Serves(access, f, call[f])
    <3>1. call[f].todo = <<f>> /\ call[f] \in Call
      BY <1>1, <2>4 DEF Serves
    <3>2. call[f].pc \in {"get", "lock", "lookup", "parse", "run", "transit", "resent"}
      BY <3>1 DEF Call
    <3>3. \A g : g \in Range(call[f].todo) => g = f
      BY <1>1, <3>1, OneEvent
    <3> QED
      BY <3>2, <3>3 DEF Todo
  <2> QED
    BY <1>1, <2>1, <2>2, <2>3, <2>4 DEF Works
<1>5. \A q \in Goroutine : call'[q].pc = "new" <=> call[q].pc = "new"
  BY <1>1, <1>2, <1>3, <1>4
<1>6. Received(e)' <=> Received(e)
  BY <1>5, RequestAssumption DEF Received, Goroutine
<1>7. Queues(e)' = Queues(e)
  BY SameQueues DEF Forwards
<1>8. \/ UNCHANGED <<probe, fate>>
      \/ Settle({f}, "upstream") /\ probe' = [probe EXCEPT ![f] = TRUE]
  BY DEF Forwards
<1>9. "upstream" \in Outcome
  BY DEF Outcome
<1>10. CASE e # f
  <2>1. \A q : q \in Carriers(e)' <=> q \in Carriers(e)
    BY <1>2, <1>3, <1>4, <1>10, Carrying
  <2>2. Carriers(e)' = Carriers(e)
    BY <2>1
  <2>3. fate'[e] = fate[e]
    BY <1>8, <1>9, <1>10, SettleFate
  <2>4. probe'[e] = probe[e]
    BY <1>8, <1>10 DEF TypeOK
  <2> QED
    BY <1>6, <1>7, <2>2, <2>3, <2>4, StageKept
<1>11. CASE e = f
  <2>1. p \in Carriers(e)
    BY <1>1, <1>11, Carrying
  <2>2. ~probe[e] /\ Received(e) /\ fate[e] = <<>> /\ Carriers(e) = {p} /\ Queues(e) = {}
    BY <1>1, <1>11, <2>1, OnlyCarrier
  <2>3. \A q : q \in Carriers(e)' <=> q = e
    <3>1. e \in Goroutine /\ e \in Todo(call'[e])
      BY <1>1, <1>2, <1>3, <1>11
    <3>2. ASSUME NEW q \in Goroutine, q # e PROVE e \notin Todo(call'[q])
      <4>1. CASE q = p
        <5>1. call'[q] = c
          BY <1>3, <1>11, <3>2, <4>1
        <5> QED
          BY <1>2, <1>11, <5>1
      <4>2. CASE q # p
        <5>1. call'[q] = call[q]
          BY <1>3, <1>11, <3>2, <4>2
        <5>2. q \notin Carriers(e)
          BY <2>2, <4>2
        <5> QED
          BY <5>1, <5>2, Carrying
      <4> QED
        BY <4>1, <4>2
    <3> QED
      BY <3>1, <3>2, Carrying
  <2>4. Carriers(e)' = {e} /\ Queues(e)' = {} /\ Received(e)'
    BY <1>6, <1>7, <2>2, <2>3
  <2>5. CASE UNCHANGED <<probe, fate>>
    BY <1>1, <1>11, <2>2, <2>4, <2>5 DEF Stage, Carried, At
  <2>6. CASE Settle({f}, "upstream") /\ probe' = [probe EXCEPT ![f] = TRUE]
    <3>1. fate'[e] = Append(<<>>, "upstream")
      BY <1>9, <1>11, <2>2, <2>6, SettleFate
    <3>2. fate'[e] = <<"upstream">>
      BY <3>1
    <3>3. probe'[e]
      BY <1>11, <2>6 DEF TypeOK
    <3> QED
      BY <2>4, <3>2, <3>3 DEF Stage, Probed, At
  <2> QED
    BY <1>8, <2>5, <2>6
<1> QED
  BY <1>10, <1>11

\* A copy is where the event is that it is a copy of.
LEMMA CopiesStage ==
  ASSUME TypeOK, NEW f \in Event, NEW d \in Copy, Copies(f, d), Stage(f), Stage(d),
         NEW e \in Event, Stage(e)
  PROVE  Stage(e)'
<1>1. /\ call[d].pc = "new" /\ f \in Todo(call[f]) /\ f \in Goroutine
      /\ d \in Event /\ d \in Goroutine /\ d \notin Request /\ f \notin Request
  BY RequestAssumption DEF Copies, Goroutine
<1>2. call[f].pc # "new" /\ f # d
  BY <1>1 DEF Todo
<1>3. PICK b, c :
        /\ call' = [[call EXCEPT ![f] = b] EXCEPT ![d] = c]
        /\ b.pc # "new" /\ Todo(b) = Todo(call[f])
        /\ c.pc # "new" /\ \A g : g \in Todo(c) <=> g = d
  BY DEF Copies
<1>4. \A q \in Goroutine : call'[q] = IF q = d THEN c ELSE IF q = f THEN b ELSE call[q]
  BY <1>1, <1>3 DEF TypeOK, AllWork
<1>5. Todo(call[d]) = {}
  BY <1>1 DEF Todo
<1>6. Queues(e)' = Queues(e)
  BY SameQueues DEF Copies
<1>7. /\ probe' = [probe EXCEPT ![d] = probe[f]] /\ fate' = [fate EXCEPT ![d] = fate[f]]
      /\ probe \in [Event -> BOOLEAN] /\ fate \in [Event -> Seq(Outcome)]
  BY DEF Copies, TypeOK
<1>8. CASE e # d
  <2>1. \A q \in Goroutine : q # d => (call'[q].pc = "new" <=> call[q].pc = "new")
    BY <1>2, <1>3, <1>4
  <2>2. Received(e)' <=> Received(e)
    BY <1>1, <1>8, <2>1, RequestAssumption DEF Received, Goroutine
  <2>3. \A q \in Goroutine : e \in Todo(call'[q]) <=> e \in Todo(call[q])
    <3> SUFFICES ASSUME NEW q \in Goroutine PROVE e \in Todo(call'[q]) <=> e \in Todo(call[q])
      OBVIOUS
    <3>1. CASE q = d
      <4>1. call'[q] = c
        BY <1>4, <3>1
      <4> QED
        BY <1>3, <1>5, <1>8, <3>1, <4>1
    <3>2. CASE q = f
      <4>1. call'[q] = b
        BY <1>2, <1>4, <3>2
      <4> QED
        BY <1>3, <3>2, <4>1
    <3>3. CASE q # d /\ q # f
      BY <1>4, <3>3
    <3> QED
      BY <3>1, <3>2, <3>3
  <2>4. Carriers(e)' = Carriers(e)
    <3>1. \A q : q \in Carriers(e)' <=> q \in Carriers(e)
      BY <2>3, Carrying
    <3> QED
      BY <3>1
  <2>5. probe'[e] = probe[e] /\ fate'[e] = fate[e]
    BY <1>7, <1>8
  <2> QED
    BY <1>6, <2>2, <2>4, <2>5, StageKept
<1>9. CASE e = d
  <2>1. Fresh(d)
    BY <1>1 DEF Received, Stage, Fresh, Carried, Queued, Done, Probed
  <2>2. Carriers(d) = {} /\ Queues(e)' = {}
    BY <1>6, <1>9, <2>1 DEF Fresh, At
  <2>3. Received(e)'
    BY <1>1, <1>3, <1>4, <1>9 DEF Received
  <2>4. \A q : q \in Carriers(e)' <=> q = d
    <3>1. d \in Todo(call'[d])
      BY <1>1, <1>3, <1>4
    <3>2. ASSUME NEW q \in Goroutine, q # d PROVE d \notin Todo(call'[q])
      <4>1. Todo(call'[q]) = Todo(call[q])
        <5>1. CASE q = f
          BY <1>2, <1>3, <1>4, <5>1
        <5>2. CASE q # f
          BY <1>4, <3>2, <5>2
        <5> QED
          BY <5>1, <5>2
      <4> QED
        BY <2>2, <4>1, Carrying
    <3> QED
      BY <1>1, <1>9, <3>1, <3>2, Carrying
  <2>5. Carriers(e)' = {e}
    BY <1>9, <2>4
  <2>6. f \in Carriers(f)
    BY <1>1, Carrying
  <2>7. probe'[e] = probe[f] /\ fate'[e] = fate[f]
    BY <1>1, <1>7, <1>9
  <2>8. CASE probe[f]
    <3>1. fate[f] = <<"upstream">>
      BY <2>8 DEF Stage, Probed
    <3> QED
      BY <2>2, <2>3, <2>5, <2>7, <2>8, <3>1 DEF Stage, Probed, At
  <2>9. CASE ~probe[f]
    <3>1. fate[f] = <<>>
      BY <2>6, <2>9, OnlyCarrier
    <3> QED
      BY <1>1, <1>9, <2>2, <2>3, <2>5, <2>7, <2>9, <3>1 DEF Stage, Carried, At
  <2> QED
    BY <2>8, <2>9
<1> QED
  BY <1>8, <1>9

\* An event goes from its carrier to a queue.
LEMMA HandsStage ==
  ASSUME TypeOK, Staged, NEW p \in Goroutine, NEW f, NEW y, Hands(p, f, y)
  PROVE  Staged'
<1>1. /\ ~probe[f] /\ f \in Event /\ y \in Routers /\ UNCHANGED <<probe, fate>>
      /\ queue' = [queue EXCEPT ![y] = Append(queue[y], f)]
      /\ queue \in [Routers -> Seq(Event)]
  BY DEF Hands, TypeOK
<1>2. PICK c : Becomes(p, c, {f})
  BY DEF Hands
<1>3. ASSUME NEW e \in Event
      PROVE  /\ Received(e)' <=> Received(e)
             /\ e # f => Carriers(e)' = Carriers(e)
             /\ e = f => p \in Carriers(e) /\ Carriers(e)' = Carriers(e) \ {p}
  <2>1. e \in {f} <=> e = f
    OBVIOUS
  <2> QED
    BY <1>2, <2>1, BecomesCarriers
<1>4. ~probe[f] /\ Received(f) /\ fate[f] = <<>> /\ Carriers(f) = {p} /\ Queues(f) = {}
  BY <1>1, <1>3, OnlyCarrier DEF Staged
<1>5. \A z \in Routers : queue'[z] = IF z = y THEN Append(queue[y], f) ELSE queue[z]
  BY <1>1
<1>6. /\ queue[y] \in Seq(Event) /\ Distinct(queue[y]) /\ f \notin Range(queue[y])
  BY <1>1, <1>4 DEF Staged, DistinctQueues, Queues
<1>7. /\ Distinct(Append(queue[y], f))
      /\ \A e : e \in Range(Append(queue[y], f)) <=> e \in Range(queue[y]) \/ e = f
  BY <1>1, <1>6, AppendDistinct
<1>8. DistinctQueues'
  BY <1>5, <1>7 DEF Staged, DistinctQueues
<1>9. ASSUME NEW e \in Event PROVE Stage(e)'
  <2>1. Stage(e)
    BY DEF Staged
  <2>2. \A z : z \in Queues(e)' <=> z \in Queues(e) \/ (z = y /\ e = f)
    BY <1>1, <1>5, <1>7 DEF Queues
  <2>3. CASE e # f
    <3>1. Queues(e)' = Queues(e)
      BY <2>2, <2>3
    <3> QED
      BY <1>1, <1>3, <2>1, <2>3, <3>1, StageKept
  <2>4. CASE e = f
    <3>1. Queues(e)' = {y}
      BY <1>4, <2>2, <2>4
    <3>2. Carriers(e)' = {} /\ Received(e)' /\ fate'[e] = <<>> /\ ~probe'[e]
      BY <1>1, <1>3, <1>4, <2>4
    <3> QED
      BY <1>1, <3>1, <3>2 DEF Stage, Queued, At
  <2> QED
    BY <2>3, <2>4
<1> QED
  BY <1>8, <1>9 DEF Staged

\* An event goes from its queue to the collector.
LEMMA TakesStage ==
  ASSUME TypeOK, Staged, NEW y \in Routers, Takes(y)
  PROVE  Staged'
<1> DEFINE f == Head(queue[y])
<1>1. /\ UNCHANGED <<call, probe>> /\ queue[y] # <<>> /\ Settle({f}, "collected")
      /\ queue' = [queue EXCEPT ![y] = Tail(queue[y])]
      /\ queue \in [Routers -> Seq(Event)] /\ queue[y] \in Seq(Event) /\ Distinct(queue[y])
  BY DEF Takes, TypeOK, Staged, DistinctQueues
<1>2. /\ Distinct(Tail(queue[y])) /\ f \in Event /\ f \in Range(queue[y])
      /\ \A e : e \in Range(Tail(queue[y])) <=> e \in Range(queue[y]) /\ e # f
  BY <1>1, TailDistinct
<1> HIDE DEF f
<1>3. \A z \in Routers : queue'[z] = IF z = y THEN Tail(queue[y]) ELSE queue[z]
  BY <1>1
<1>4. DistinctQueues'
  BY <1>2, <1>3 DEF Staged, DistinctQueues
<1>5. y \in Queues(f)
  BY <1>2 DEF Queues
<1>6. ~probe[f] /\ Received(f) /\ fate[f] = <<>> /\ Carriers(f) = {} /\ Queues(f) = {y}
  BY <1>2, <1>5, OnlyQueue DEF Staged
<1>7. "collected" \in Outcome
  BY DEF Outcome
<1>8. ASSUME NEW e \in Event PROVE Stage(e)'
  <2>1. Stage(e)
    BY DEF Staged
  <2>2. Carriers(e)' = Carriers(e) /\ (Received(e)' <=> Received(e))
    BY <1>1 DEF Carriers, Received
  <2>3. \A z : z \in Queues(e)' <=> z \in Queues(e) /\ (z # y \/ e # f)
    BY <1>2, <1>3 DEF Queues
  <2>4. CASE e # f
    <3>1. Queues(e)' = Queues(e)
      BY <2>3, <2>4
    <3>2. fate'[e] = fate[e]
      BY <1>1, <1>7, <2>4, SettleFate
    <3> QED
      BY <1>1, <2>1, <2>2, <3>1, <3>2, StageKept
  <2>5. CASE e = f
    <3>1. Queues(e)' = {}
      BY <1>6, <2>3, <2>5
    <3>2. fate'[e] = Append(fate[e], "collected")
      BY <1>1, <1>7, <2>5, SettleFate
    <3> QED
      BY <1>1, <1>6, <2>2, <2>5, <3>1, <3>2, DoneNow
  <2> QED
    BY <2>4, <2>5
<1> QED
  BY <1>4, <1>8 DEF Staged

\* Before any request every event is fresh.
LEMMA StagedInit == Init => Staged
<1> SUFFICES ASSUME Init PROVE Staged
  OBVIOUS
<1>1. DistinctQueues
  BY DEF Init, DistinctQueues, Distinct
<1>2. ASSUME NEW e \in Event PROVE Stage(e)
  <2>1. Queues(e) = {}
    BY DEF Init, Queues, Range
  <2>2. \A p \in Goroutine : call[p].pc \in {"new", "idle"}
    BY DEF Init, Idle
  <2>3. Carriers(e) = {}
    BY <2>2 DEF Carriers
  <2>4. ~Received(e)
    <3>1. CASE e \in Copy
      BY <3>1 DEF Init, Received, Goroutine
    <3>2. CASE e \notin Copy
      <4>1. PICK r \in Request : e \in Range(Body[r])
        BY <3>2, RequestAssumption
      <4>2. call[r].pc = "new"
        BY DEF Init, Goroutine
      <4> QED
        BY <3>2, <4>1, <4>2 DEF Received
    <3> QED
      BY <3>1, <3>2
  <2>5. fate[e] = <<>> /\ ~probe[e]
    BY DEF Init
  <2> QED
    BY <2>1, <2>3, <2>4, <2>5 DEF Stage, Fresh, At
<1> QED
  BY <1>1, <1>2 DEF Staged

\* Every step keeps the stages: an event is moved, copied by a retry only and
\* never forgotten.
LEMMA StagedStep ==
  ASSUME TypeOK, Staged, [Next]_vars
  PROVE  Staged'
<1>1. \A e \in Event : Stage(e)
  BY DEF Staged
<1>2. UNCHANGED queue => DistinctQueues'
  BY DEF Staged, DistinctQueues
<1>3. UNCHANGED queue /\ (\A e \in Event : Stage(e)') => Staged'
  BY <1>2 DEF Staged
<1>4. ASSUME NEW r \in Request, Arrives(r) PROVE Staged'
  BY <1>1, <1>3, <1>4, ArrivesStage DEF Arrives
<1>5. ASSUME NEW p \in Goroutine, Moves(p) PROVE Staged'
  BY <1>1, <1>3, <1>5, MovesStage DEF Moves
<1>6. ASSUME NEW p \in Goroutine, NEW E, NEW outcome, Settles(p, E, outcome) PROVE Staged'
  BY <1>1, <1>3, <1>6, SettlesStage DEF Settles
<1>7. ASSUME NEW p \in Goroutine, NEW e, Drops(p, e) PROVE Staged'
  BY <1>1, <1>3, <1>7, MovesStage DEF Drops
<1>8. ASSUME NEW p \in Goroutine, NEW e, NEW keep \in BOOLEAN, Relieves(p, e, keep) PROVE Staged'
  BY <1>1, <1>3, <1>8, RelievesStage DEF Relieves
<1>9. ASSUME NEW p \in Goroutine, NEW e, Forwards(p, e) PROVE Staged'
  BY <1>1, <1>3, <1>9, ForwardsStage DEF Forwards
<1>10. ASSUME NEW p \in Goroutine, NEW e, NEW y, Hands(p, e, y) PROVE Staged'
  BY <1>10, HandsStage
<1>11. ASSUME NEW y \in Routers, Takes(y) PROVE Staged'
  BY <1>11, TakesStage
<1>12. ASSUME UNCHANGED <<call, probe, queue, fate, home>> PROVE Staged'
  <2>1. ASSUME NEW e \in Event PROVE Stage(e)'
    <3>1. Carriers(e)' = Carriers(e) /\ Queues(e)' = Queues(e) /\ (Received(e)' <=> Received(e))
      BY <1>12 DEF Carriers, Queues, Received
    <3> QED
      BY <1>1, <1>12, <3>1, StageKept
  <2> QED
    BY <1>3, <1>12, <2>1
<1>13. ASSUME NEW e \in Event, NEW d \in Copy, Copies(e, d) PROVE Staged'
  <2>1. d \in Event
    BY RequestAssumption
  <2> QED
    BY <1>1, <1>3, <1>13, <2>1, CopiesStage DEF Copies
<1> QED
  BY <1>4, <1>5, <1>6, <1>7, <1>8, <1>9, <1>10, <1>11, <1>12, <1>13, NextEffect, Zenon DEF Effect

\* Every event a client has sent and every copy that sendBatch's retry has made is
\* in one place or has one outcome: with one goroutine, in one queue, or done
\* (processEvent and what follows it).
THEOREM EventsAlwaysConserved == Spec => []EventsConserved
<1>1. TypeOK /\ Staged => EventsConserved
  <2> SUFFICES ASSUME TypeOK, Staged, NEW e \in Event
               PROVE  /\ Pending(e) + Len(fate[e]) = IF Received(e) THEN 1 ELSE 0
                      /\ probe[e] => fate[e] = <<"upstream">>
    BY DEF EventsConserved
  <2>1. Stage(e)
    BY DEF Staged
  <2>2. Cardinality({}) = 0 /\ \A x : Cardinality({x}) = 1
    BY FS_EmptySet, FS_Singleton
  <2>3. CASE probe[e]
    <3>1. Queues(e) = {} /\ fate[e] = <<"upstream">> /\ Received(e)
      BY <2>1, <2>3 DEF Stage, Probed, At
    <3>2. Pending(e) = 0
      BY <2>2, <2>3, <3>1 DEF Pending
    <3>3. Len(fate[e]) = 1
      BY <3>1
    <3> QED
      BY <3>1, <3>2, <3>3
  <2>4. CASE ~probe[e] /\ Received(e)
    <3>1. Carried(e) \/ Queued(e) \/ Done(e)
      BY <2>1, <2>4 DEF Stage, Fresh
    <3>2. Pending(e) = Cardinality(Queues(e)) + Cardinality(Carriers(e))
      BY <2>4 DEF Pending
    <3>3. CASE Carried(e)
      <4>1. Cardinality(Queues(e)) = 0 /\ Cardinality(Carriers(e)) = 1 /\ fate[e] = <<>>
        BY <2>2, <3>3 DEF Carried, At
      <4>2. Len(fate[e]) = 0
        BY <4>1
      <4> QED
        BY <2>4, <3>2, <4>1, <4>2
    <3>4. CASE Queued(e)
      <4>1. Cardinality(Queues(e)) = 1 /\ Cardinality(Carriers(e)) = 0 /\ fate[e] = <<>>
        BY <2>2, <3>4 DEF Queued, At
      <4>2. Len(fate[e]) = 0
        BY <4>1
      <4> QED
        BY <2>4, <3>2, <4>1, <4>2
    <3>5. CASE Done(e)
      <4>1. Cardinality(Queues(e)) = 0 /\ Cardinality(Carriers(e)) = 0 /\ Len(fate[e]) = 1
        BY <2>2, <3>5 DEF Done, At
      <4> QED
        BY <2>4, <3>2, <4>1
    <3> QED
      BY <3>1, <3>3, <3>4, <3>5
  <2>5. CASE ~probe[e] /\ ~Received(e)
    <3>1. Carriers(e) = {} /\ Queues(e) = {} /\ fate[e] = <<>>
      BY <2>1, <2>5 DEF Stage, Fresh, Carried, Queued, Done, At
    <3>2. Pending(e) = 0 /\ Len(fate[e]) = 0
      BY <2>2, <2>5, <3>1 DEF Pending
    <3> QED
      BY <2>5, <3>2
  <2> QED
    BY <2>3, <2>4, <2>5
<1>2. TypeOK /\ Staged /\ [Next]_vars => Staged'
  BY StagedStep
<1> QED
  BY <1>1, <1>2, StagedInit, TypeCorrect, PTL DEF Spec

-----------------------------------------------------------------------------
(* The spans of a trace meet. *)

\* With nothing queued, no span waits at a node that is not its owner.
LEMMA GatheringInit == Init => Gathering
<1> SUFFICES ASSUME Init PROVE Gathering
  OBVIOUS
<1>1. \A y \in Routers : Range(queue[y]) = {}
  BY DEF Init, Range
<1> QED
  BY <1>1 DEF Init, Gathering

\* Every step keeps the gathering: where lists agree a span is queued or handed to
\* the collector only on the node that WhichShard names.
LEMMA GatheringStep ==
  ASSUME TypeOK, Gathering, [Next]_vars
  PROVE  Gathering'
<1> SUFFICES ASSUME faults'["lists"] = 0
             PROVE  /\ peers' = [n \in Node |-> Node]
                    /\ \A y \in Routers : \A e \in Range(queue'[y]) : Highest(Node, TraceOf[e]) = y[1]
                    /\ \A e \in Event : \A n \in home'[e] : n = Highest(Node, TraceOf[e])
  BY DEF Gathering
<1>1. peers' = peers /\ faults["lists"] = 0
  BY Surroundings
<1>2. /\ peers = [n \in Node |-> Node]
      /\ \A y \in Routers : \A e \in Range(queue[y]) : Highest(Node, TraceOf[e]) = y[1]
      /\ \A e \in Event : \A n \in home[e] : n = Highest(Node, TraceOf[e])
  BY <1>1 DEF Gathering
<1> DEFINE Goal == /\ \A y \in Routers : \A e \in Range(queue'[y]) : Highest(Node, TraceOf[e]) = y[1]
                   /\ \A e \in Event : \A n \in home'[e] : n = Highest(Node, TraceOf[e])
<1>3. ASSUME UNCHANGED <<queue, home>> PROVE Goal
  BY <1>2, <1>3
<1>4. ASSUME NEW p \in Goroutine, NEW f, NEW y, Hands(p, f, y) PROVE Goal
  <2>1. /\ f \in Event /\ y \in Routers /\ Highest(peers[y[1]], TraceOf[f]) = y[1]
        /\ queue' = [queue EXCEPT ![y] = Append(queue[y], f)] /\ UNCHANGED home
        /\ queue \in [Routers -> Seq(Event)] /\ queue[y] \in Seq(Event)
    BY <1>4 DEF Hands, TypeOK
  <2>2. Highest(Node, TraceOf[f]) = y[1]
    BY <1>2, <2>1 DEF Routers
  <2>3. \A e : e \in Range(Append(queue[y], f)) <=> e \in Range(queue[y]) \/ e = f
    BY <2>1, AppendDistinct
  <2>4. \A z \in Routers : queue'[z] = IF z = y THEN Append(queue[y], f) ELSE queue[z]
    BY <2>1
  <2> QED
    BY <1>2, <2>1, <2>2, <2>3, <2>4
<1>5. ASSUME NEW y \in Routers, Takes(y) PROVE Goal
  <2> DEFINE f == Head(queue[y])
  <2>1. /\ queue[y] # <<>> /\ queue[y] \in Seq(Event)
        /\ queue' = [queue EXCEPT ![y] = Tail(queue[y])]
        /\ home' = [home EXCEPT ![f] = home[f] \cup {y[1]}]
        /\ queue \in [Routers -> Seq(Event)] /\ home \in [Event -> SUBSET Node]
    BY <1>5 DEF Takes, TypeOK
  <2>2. f \in Range(queue[y]) /\ \A e : e \in Range(Tail(queue[y])) => e \in Range(queue[y])
    <3>1. Len(queue[y]) \in Nat \ {0} /\ DOMAIN queue[y] = 1..Len(queue[y])
      BY <2>1, EmptySeq
    <3>2. f = queue[y][1] /\ 1 \in DOMAIN queue[y]
      BY <2>1, <3>1
    <3>3. /\ DOMAIN Tail(queue[y]) = 1..(Len(queue[y]) - 1)
          /\ \A i \in 1..(Len(queue[y]) - 1) : Tail(queue[y])[i] = queue[y][i + 1]
      BY <2>1, <3>1
    <3>4. \A i \in 1..(Len(queue[y]) - 1) : i + 1 \in DOMAIN queue[y]
      BY <3>1
    <3> QED
      BY <3>2, <3>3, <3>4 DEF Range
  <2> HIDE DEF f
  <2>3. \A z \in Routers : queue'[z] = IF z = y THEN Tail(queue[y]) ELSE queue[z]
    BY <2>1
  <2>4. Highest(Node, TraceOf[f]) = y[1]
    BY <1>2, <2>2
  <2>5. \A e \in Event : home'[e] = IF e = f THEN home[f] \cup {y[1]} ELSE home[e]
    BY <2>1
  <2>6. \A e \in Event : \A n \in home'[e] : n = Highest(Node, TraceOf[e])
    BY <1>2, <2>4, <2>5
  <2>7. \A z \in Routers : \A e \in Range(queue'[z]) : Highest(Node, TraceOf[e]) = z[1]
    BY <1>2, <2>2, <2>3
  <2> QED
    BY <2>6, <2>7
<1>6. Goal
  <2>1. Effect
    BY NextEffect
  <2>2. UNCHANGED <<queue, home>> \/ (\E p \in Goroutine : \E e, y : Hands(p, e, y))
          \/ \E y \in Routers : Takes(y)
    BY <2>1 DEF Effect, Arrives, Moves, Settles, Drops, Relieves, Forwards, Copies
  <2> HIDE DEF Goal
  <2> QED
    BY <1>3, <1>4, <1>5, <2>2
<1> QED
  BY <1>1, <1>2, <1>6

\* As long as no list has changed, the spans of a trace meet at one collector
\* (WhichShard, processSpan).
THEOREM TracesAlwaysGathered == Spec => []TraceGathered
<1>1. TypeOK /\ Gathering => TraceGathered
  <2> SUFFICES ASSUME TypeOK, Gathering, faults["lists"] = 0, NEW t \in Trace
               PROVE  Cardinality(UNION {home[e] : e \in {f \in Event : TraceOf[f] = t}}) <= 1
    BY DEF TraceGathered
  <2> DEFINE H == UNION {home[e] : e \in {f \in Event : TraceOf[f] = t}}
             h == Highest(Node, t)
  <2>1. H \subseteq {h}
    BY DEF Gathering
  <2> HIDE DEF H, h
  <2>2. H = {} \/ H = {h}
    BY <2>1
  <2>3. Cardinality(H) \in {0, 1}
    BY <2>2, FS_EmptySet, FS_Singleton
  <2>4. Cardinality(H) <= 1
    BY <2>3
  <2> QED
    BY <2>4 DEF H
<1>2. TypeOK /\ Gathering /\ [Next]_vars => Gathering'
  BY GatheringStep
<1> QED
  BY <1>1, <1>2, GatheringInit, TypeCorrect, PTL DEF Spec
=============================================================================
