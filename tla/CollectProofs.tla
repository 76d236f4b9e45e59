---------------------------- MODULE CollectProofs ----------------------------
(***************************************************************************)
(* Proofs about the two parts of the collector that its workers share with *)
(* the routers: stress relief (StressRelief) and the sample cache          *)
(* (SentCache), for any nodes, configurations, sizes and bounds.           *)
(***************************************************************************)
EXTENDS SentCache, StressRelief, FiniteSetTheorems, SequenceTheorems, NaturalsInduction,
        WellFoundedInduction, TLAPS

-----------------------------------------------------------------------------
(* Numbers. *)

Less == {ss \in Nat \X Nat : ss[1] < ss[2]}

\* A set of natural numbers has a least element.
LEMMA LeastNat ==
  ASSUME NEW T, T \subseteq Nat, T # {}
  PROVE  \E x \in T : \A y \in T : x <= y
<1>1. IsWellFoundedOn(Less, Nat)
  <2>1. Less = OpToRel(<, Nat)
    BY DEF Less, OpToRel
  <2> QED
    BY <2>1, NatLessThanWellFounded
<1>2. PICK x \in T : \A y \in T : ~(<<y, x>> \in Less)
  BY <1>1, WFMin
<1>3. \A y \in T : x <= y
  <2> SUFFICES ASSUME NEW y \in T PROVE x <= y
    OBVIOUS
  <2>1. x \in Nat /\ y \in Nat /\ ~(<<y, x>> \in Less)
    BY <1>2
  <2>2. ~(y < x)
    BY <2>1 DEF Less
  <2> QED
    BY <2>1, <2>2
<1> QED
  BY <1>3

\* Induction, over the set of the numbers that have the property.
LEMMA SetInduction ==
  ASSUME NEW T, 0 \in T, \A n \in Nat : n \in T => n + 1 \in T
  PROVE  Nat \subseteq T
<1> SUFFICES ASSUME NEW m \in Nat, m \notin T PROVE FALSE
  OBVIOUS
<1> DEFINE B == Nat \ T
<1>1. B \subseteq Nat /\ B # {}
  OBVIOUS
<1>2. PICK x \in B : \A y \in B : x <= y
  <2> HIDE DEF B
  <2> QED
    BY <1>1, LeastNat
<1>3. x \in Nat /\ x \notin T /\ x # 0
  OBVIOUS
<1>4. x - 1 \in Nat /\ x - 1 + 1 = x
  BY <1>3
<1>5. x - 1 \notin B
  BY <1>2, <1>4
<1> QED
  BY <1>3, <1>4, <1>5

\* Products of natural numbers grow with their factors.
LEMMA ProductMonotonic ==
  ASSUME NEW a \in Nat, NEW b \in Nat, NEW c \in Nat, NEW d \in Nat, a <= b, c <= d
  PROVE  a * c \in Nat /\ b * d \in Nat /\ a * c <= b * d
<1>1. a * c <= b * c
  <2>1. PICK e \in Nat : b = a + e
    <3> b - a \in Nat /\ b = a + (b - a)
      OBVIOUS
    <3> QED
      OBVIOUS
  <2>2. b * c = a * c + e * c
    BY <2>1
  <2>3. e * c \in Nat /\ a * c \in Nat
    OBVIOUS
  <2> QED
    BY <2>2, <2>3
<1>2. b * c <= b * d
  <2>1. PICK e \in Nat : d = c + e
    <3> d - c \in Nat /\ d = c + (d - c)
      OBVIOUS
    <3> QED
      OBVIOUS
  <2>2. b * d = b * c + b * e
    BY <2>1
  <2>3. b * e \in Nat /\ b * c \in Nat
    OBVIOUS
  <2> QED
    BY <2>2, <2>3
<1>3. a * c \in Nat /\ b * c \in Nat /\ b * d \in Nat
  OBVIOUS
<1> QED
  BY <1>1, <1>2, <1>3

\* The greater of two numbers.
LEMMA MaxOfTwo ==
  ASSUME NEW a \in Nat, NEW b \in Nat
  PROVE  Max({a, b}) \in {a, b} /\ Max({a, b}) >= a /\ Max({a, b}) >= b
<1>1. \E x \in {a, b} : \A y \in {a, b} : x >= y
  <2>1. CASE a >= b
    BY <2>1
  <2>2. CASE ~(a >= b)
    BY <2>2
  <2> QED
    BY <2>1, <2>2
<1>2. Max({a, b}) \in {a, b} /\ \A y \in {a, b} : Max({a, b}) >= y
  BY <1>1, Zenon DEF Max
<1> QED
  BY <1>2, Zenon

-----------------------------------------------------------------------------
(* Sums over a finite set. *)

Some(s) == CHOOSE x \in s : TRUE

\* g adds up the values v over every subset of S.
AddsUp(g, v, S) ==
  g = [s \in SUBSET S |-> IF s = {} THEN 0 ELSE v[Some(s)] + g[s \ {Some(s)}]]

\* Taking out an element: what remains is smaller.
LEMMA OneLess ==
  ASSUME NEW S, IsFiniteSet(S), NEW s \in SUBSET S, s # {}
  PROVE  /\ Some(s) \in s /\ s \ {Some(s)} \in SUBSET S
         /\ Cardinality(s) \in Nat /\ Cardinality(s \ {Some(s)}) \in Nat
         /\ Cardinality(s \ {Some(s)}) = Cardinality(s) - 1
<1>1. Some(s) \in s
  BY DEF Some
<1>2. IsFiniteSet(s)
  BY FS_Subset
<1>3. Cardinality(s \ {Some(s)}) = Cardinality(s) - 1 /\ IsFiniteSet(s \ {Some(s)})
  BY <1>1, <1>2, FS_RemoveElement
<1>4. Cardinality(s) \in Nat /\ Cardinality(s \ {Some(s)}) \in Nat
  BY <1>2, <1>3, FS_CardinalityType
<1> QED
  BY <1>1, <1>3, <1>4

\* A subset without elements is empty.
LEMMA NoneLeft ==
  ASSUME NEW S, IsFiniteSet(S), NEW s \in SUBSET S, Cardinality(s) <= 0
  PROVE  s = {}
<1>1. IsFiniteSet(s) /\ Cardinality(s) \in Nat
  BY FS_Subset, FS_CardinalityType
<1>2. Cardinality(s) = 0
  BY <1>1
<1> QED
  BY <1>1, <1>2, FS_EmptySet

\* A finite set of natural numbers has an upper bound.
LEMMA UpperBound ==
  ASSUME NEW S, IsFiniteSet(S), S \subseteq Nat
  PROVE  \E b \in Nat : \A l \in S : l <= b
<1> DEFINE Bounded(s) == \E b \in Nat : \A l \in s : l <= b
           P(n) == \A s \in SUBSET S : Cardinality(s) = n => Bounded(s)
           T == {n \in Nat : P(n)}
<1>1. 0 \in T
  <2>1. ASSUME NEW s \in SUBSET S, Cardinality(s) = 0 PROVE Bounded(s)
    <3>1. s = {}
      <4> HIDE DEF Bounded, P, T
      <4>1. Cardinality(s) <= 0
        BY <2>1
      <4> QED
        BY <4>1, NoneLeft
    <3> QED
      BY <3>1
  <2> QED
    BY <2>1
<1>2. ASSUME NEW n \in Nat, n \in T PROVE n + 1 \in T
  <2>1. ASSUME NEW s \in SUBSET S, Cardinality(s) = n + 1 PROVE Bounded(s)
    <3> DEFINE r == s \ {Some(s)}
    <3>1. s # {}
      BY <2>1, FS_EmptySet
    <3>2. r \in SUBSET S /\ Cardinality(r) = n /\ Some(s) \in Nat
      <4> HIDE DEF Bounded, P, T
      <4>1. Some(s) \in s /\ r \in SUBSET S /\ Cardinality(r) = Cardinality(s) - 1
        BY <3>1, OneLess
      <4>2. Some(s) \in Nat
        BY <4>1
      <4>3. Cardinality(r) = n
        <5> HIDE DEF r
        <5> QED
          BY <2>1, <4>1
      <4> QED
        BY <4>1, <4>2, <4>3
    <3>3. PICK b \in Nat : \A l \in r : l <= b
      BY <1>2, <3>2
    <3>4. b + Some(s) \in Nat /\ \A l \in s : l <= b + Some(s)
      <4>1. ASSUME NEW l \in s PROVE l <= b + Some(s)
        <5>1. l \in Nat /\ (l = Some(s) \/ l \in r)
          OBVIOUS
        <5> QED
          BY <3>2, <3>3, <5>1
      <4> QED
        BY <3>2, <4>1
    <3> QED
      BY <3>4
  <2> QED
    BY <2>1
<1>3. Nat \subseteq T
  <2> HIDE DEF T
  <2> QED
    BY <1>1, <1>2, SetInduction
<1>4. Cardinality(S) \in Nat
  BY FS_CardinalityType
<1> QED
  BY <1>3, <1>4

\* There is such a function: it is built up by the size of the subsets.
LEMMA AddingUp ==
  ASSUME NEW S, IsFiniteSet(S), NEW v \in [S -> Nat]
  PROVE  \E g : AddsUp(g, v, S)
<1> DEFINE Fits(g, s) == g[s] = IF s = {} THEN 0 ELSE v[Some(s)] + g[s \ {Some(s)}]
           P(n) == \E g \in [SUBSET S -> Nat] : \A s \in SUBSET S : Cardinality(s) <= n => Fits(g, s)
           T == {n \in Nat : P(n)}
<1>1. 0 \in T
  <2> DEFINE z == [s \in SUBSET S |-> 0]
  <2>1. z \in [SUBSET S -> Nat]
    OBVIOUS
  <2>2. ASSUME NEW s \in SUBSET S, Cardinality(s) <= 0 PROVE Fits(z, s)
    <3>1. s = {}
      BY <2>2, NoneLeft
    <3> QED
      BY <3>1
  <2> QED
    BY <2>1, <2>2
<1>2. ASSUME NEW n \in Nat, n \in T PROVE n + 1 \in T
  <2>1. PICK g \in [SUBSET S -> Nat] : \A s \in SUBSET S : Cardinality(s) <= n => Fits(g, s)
    BY <1>2
  <2> DEFINE Step(s) == IF s = {} THEN 0 ELSE v[Some(s)] + g[s \ {Some(s)}]
             h == [s \in SUBSET S |-> IF Cardinality(s) <= n THEN g[s] ELSE Step(s)]
  <2>2. ASSUME NEW s \in SUBSET S PROVE Step(s) \in Nat
    <3>1. CASE s = {}
      BY <3>1
    <3>2. CASE s # {}
      <4>1. v[Some(s)] \in Nat /\ g[s \ {Some(s)}] \in Nat
        BY <3>2, OneLess
      <4> QED
        BY <3>2, <4>1
    <3> QED
      BY <3>1, <3>2
  <2>3. h \in [SUBSET S -> Nat]
    BY <2>2
  <2>4. ASSUME NEW s \in SUBSET S, Cardinality(s) <= n + 1 PROVE Fits(h, s)
    <3>1. CASE s = {}
      <4>1. Cardinality(s) = 0
        BY <3>1, FS_EmptySet
      <4>2. h[s] = g[s] /\ g[s] = 0
        BY <2>1, <3>1, <4>1
      <4> QED
        BY <3>1, <4>2
    <3>2. CASE s # {}
      <4> DEFINE r == s \ {Some(s)}
      <4>1. r \in SUBSET S /\ Cardinality(r) \in Nat /\ Cardinality(s) \in Nat /\ Cardinality(r) = Cardinality(s) - 1
        BY <3>2, OneLess
      <4>2. Cardinality(r) <= n
        BY <2>4, <4>1
      <4>3. h[r] = g[r]
        BY <4>1, <4>2
      <4>4. h[s] = v[Some(s)] + g[r]
        <5>1. CASE Cardinality(s) <= n
          <6>1. h[s] = g[s]
            BY <5>1
          <6> QED
            BY <2>1, <3>2, <5>1, <6>1
        <5>2. CASE ~(Cardinality(s) <= n)
          BY <3>2, <5>2
        <5> QED
          BY <5>1, <5>2
      <4> QED
        BY <3>2, <4>3, <4>4
    <3> QED
      BY <3>1, <3>2
  <2>5. P(n + 1)
    <3> HIDE DEF h
    <3> QED
      BY <2>3, <2>4
  <2> HIDE DEF P
  <2> QED
    BY <2>5
<1>3. Nat \subseteq T
  <2> HIDE DEF T
  <2> QED
    BY <1>1, <1>2, SetInduction
<1>4. Cardinality(S) \in Nat
  BY FS_CardinalityType
<1>5. PICK g \in [SUBSET S -> Nat] : \A s \in SUBSET S : Cardinality(s) <= Cardinality(S) => Fits(g, s)
  BY <1>3, <1>4
<1>6. \A s \in SUBSET S : Fits(g, s)
  <2> SUFFICES ASSUME NEW s \in SUBSET S PROVE Cardinality(s) <= Cardinality(S)
    BY <1>5
  <2> QED
    BY FS_Subset
<1>7. AddsUp(g, v, S)
  BY <1>6 DEF AddsUp
<1> QED
  BY <1>7

\* If every value is at most b, the sum is at most b for each element.
LEMMA SumBound ==
  ASSUME NEW S, IsFiniteSet(S), NEW v \in [S -> Nat], NEW b \in Nat,
         \A x \in S : v[x] <= b, NEW g, AddsUp(g, v, S)
  PROVE  g[S] \in Nat /\ g[S] <= Cardinality(S) * b
<1> DEFINE P(n) == \A s \in SUBSET S : Cardinality(s) = n => g[s] \in Nat /\ g[s] <= n * b
           T == {n \in Nat : P(n)}
<1>1. 0 \in T
  <2>1. ASSUME NEW s \in SUBSET S, Cardinality(s) = 0 PROVE g[s] \in Nat /\ g[s] <= 0 * b
    <3>1. s = {}
      BY <2>1, NoneLeft
    <3>2. g[s] = 0
      BY <3>1 DEF AddsUp
    <3> QED
      BY <3>2
  <2> QED
    BY <2>1
<1>2. ASSUME NEW n \in Nat, n \in T PROVE n + 1 \in T
  <2>1. ASSUME NEW s \in SUBSET S, Cardinality(s) = n + 1 PROVE g[s] \in Nat /\ g[s] <= (n + 1) * b
    <3> DEFINE r == s \ {Some(s)}
    <3>1. s # {}
      BY <2>1, FS_EmptySet
    <3>2. r \in SUBSET S /\ Cardinality(r) = n /\ Some(s) \in S
      BY <2>1, <3>1, OneLess
    <3>3. g[r] \in Nat /\ g[r] <= n * b
      BY <1>2, <3>2
    <3>4. g[s] = v[Some(s)] + g[r]
      BY <3>1 DEF AddsUp
    <3>5. v[Some(s)] \in Nat /\ v[Some(s)] <= b
      BY <3>2
    <3>6. (n + 1) * b = n * b + b /\ n * b \in Nat
      OBVIOUS
    <3> QED
      BY <3>3, <3>4, <3>5, <3>6
  <2> QED
    BY <2>1
<1>3. Nat \subseteq T
  <2> HIDE DEF T
  <2> QED
    BY <1>1, <1>2, SetInduction
<1>4. Cardinality(S) \in Nat
  BY FS_CardinalityType
<1> QED
  BY <1>3, <1>4

-----------------------------------------------------------------------------
(* The level of the cluster. *)

Live(reps) == {m \in DOMAIN reps : ~Expired(reps[m]) /\ reps[m].level # 0}
Squares(reps) == [m \in Live(reps) |-> reps[m].level * reps[m].level]
Total(reps) == MapThenSumSet(LAMBDA m : reps[m].level * reps[m].level, Live(reps))
Count(reps) == IF Live(reps) = {} THEN 1 ELSE Cardinality(Live(reps))

\* The sum of the squares is what adding them up gives.
LEMMA TotalIsSum ==
  ASSUME NEW reps, IsFiniteSet(Live(reps)), \A m \in Live(reps) : reps[m].level \in Nat
  PROVE  \E g : AddsUp(g, Squares(reps), Live(reps)) /\ Total(reps) = g[Live(reps)]
<1> DEFINE S == Live(reps)
           v == [m \in S |-> reps[m].level * reps[m].level]
           Eq(g) == g = [s \in SUBSET S |->
                           IF s = {} THEN 0
                           ELSE LET x == CHOOSE x \in s : TRUE
                                IN reps[x].level * reps[x].level + g[s \ {x}]]
           iter == CHOOSE g : Eq(g)
<1>1. Total(reps) = iter[S]
  BY DEF Total, MapThenSumSet, MapThenFoldSet
<1>2. v \in [S -> Nat]
  <2>1. ASSUME NEW m \in S PROVE reps[m].level * reps[m].level \in Nat
    <3>1. reps[m].level \in Nat
      OBVIOUS
    <3> QED
      BY <3>1
  <2> QED
    BY <2>1
<1>3. \E g : AddsUp(g, v, S)
  <2> HIDE DEF v, S
  <2> QED
    BY <1>2, AddingUp DEF S
<1>4. PICK h : AddsUp(h, v, S)
  BY <1>3
<1>5. ASSUME NEW g PROVE AddsUp(g, v, S) <=> Eq(g)
  <2>1. ASSUME NEW s \in SUBSET S, s # {} PROVE v[Some(s)] = reps[Some(s)].level * reps[Some(s)].level
    BY <2>1 DEF Some
  <2>2. [s \in SUBSET S |-> IF s = {} THEN 0 ELSE v[Some(s)] + g[s \ {Some(s)}]]
          = [s \in SUBSET S |-> IF s = {} THEN 0 ELSE LET x == Some(s) IN reps[x].level * reps[x].level + g[s \ {x}]]
    <3> HIDE DEF v, S
    <3> QED
      BY <2>1
  <2> HIDE DEF v, S
  <2> QED
    BY <2>2 DEF AddsUp, Some
<1>6. Eq(iter)
  <2> HIDE DEF Eq, v, S
  <2>1. \E g : Eq(g)
    BY <1>4, <1>5
  <2> QED
    BY <2>1, Zenon
<1>7. AddsUp(iter, v, S)
  <2> HIDE DEF v, S, iter
  <2> QED
    BY <1>5, <1>6
<1>8. \E g : AddsUp(g, v, S) /\ Total(reps) = g[S]
  <2> HIDE DEF v, S, iter
  <2> QED
    BY <1>1, <1>7
<1> HIDE DEF iter
<1> QED
  BY <1>8 DEF Squares

\* The total is a number, at most the square of b for each report counted.
LEMMA TotalBound ==
  ASSUME NEW reps, IsFiniteSet(Live(reps)), NEW b \in Nat,
         \A m \in Live(reps) : reps[m].level \in Nat /\ reps[m].level <= b
  PROVE  /\ Total(reps) \in Nat /\ Count(reps) \in Nat /\ Count(reps) >= 1
         /\ Total(reps) <= Count(reps) * (b * b)
<1> DEFINE S == Live(reps)
           v == [m \in S |-> reps[m].level * reps[m].level]
<1>1. ASSUME NEW m \in S PROVE v[m] \in Nat /\ v[m] <= b * b
  <2>1. reps[m].level \in Nat /\ reps[m].level <= b
    OBVIOUS
  <2>2. v[m] = reps[m].level * reps[m].level
    OBVIOUS
  <2> HIDE DEF v, S
  <2> QED
    BY <2>1, <2>2, ProductMonotonic
<1>2. v \in [S -> Nat] /\ b * b \in Nat
  BY <1>1
<1>3. PICK g : AddsUp(g, v, S) /\ Total(reps) = g[S]
  BY TotalIsSum DEF Squares
<1>4. Total(reps) \in Nat /\ Total(reps) <= Cardinality(S) * (b * b)
  <2> DEFINE c == b * b
  <2>1. c \in Nat /\ \A x \in S : v[x] <= c
    BY <1>1, <1>2
  <2>2. IsFiniteSet(S)
    OBVIOUS
  <2> HIDE DEF v, S, c
  <2>3. g[S] \in Nat /\ g[S] <= Cardinality(S) * c
    BY <1>2, <1>3, <2>1, <2>2, SumBound
  <2> QED
    BY <1>3, <2>3 DEF c
<1>5. Cardinality(S) \in Nat /\ (Cardinality(S) = 0 <=> S = {})
  BY FS_CardinalityType, FS_EmptySet
<1>6. CASE S = {}
  <2>1. Count(reps) = 1 /\ Cardinality(S) = 0
    BY <1>5, <1>6 DEF Count
  <2>2. 0 * (b * b) = 0
    BY <1>2
  <2> HIDE DEF S, v
  <2> QED
    BY <1>2, <1>4, <2>1, <2>2
<1>7. CASE S # {}
  <2>1. Count(reps) = Cardinality(S)
    BY <1>7 DEF Count
  <2> HIDE DEF S, v
  <2> QED
    BY <1>4, <1>5, <1>7, <2>1
<1> QED
  BY <1>6, <1>7

IsRoot(r, k, total) == r * r * k <= total /\ (r + 1) * (r + 1) * k > total

\* Every number has an integer root of its mean.
LEMMA RootExists ==
  ASSUME NEW k \in Nat, k >= 1, NEW total \in Nat
  PROVE  \E r \in 0..total : IsRoot(r, k, total)
<1> DEFINE T == {r \in Nat : (r + 1) * (r + 1) * k > total}
<1>1. total \in T
  <2>1. (total + 1) * 1 <= (total + 1) * (total + 1)
    BY ProductMonotonic
  <2>2. ((total + 1) * (total + 1)) * 1 <= ((total + 1) * (total + 1)) * k
    <3> DEFINE c == (total + 1) * (total + 1)
    <3>1. c \in Nat
      OBVIOUS
    <3> HIDE DEF c
    <3>2. c * 1 <= c * k
      BY <3>1, ProductMonotonic
    <3> QED
      BY <3>2 DEF c
  <2> DEFINE c == (total + 1) * (total + 1)
             d == c * k
  <2>3. c \in Nat /\ d \in Nat
    OBVIOUS
  <2>4. total + 1 <= c /\ c <= d
    BY <2>1, <2>2
  <2>5. d > total
    <3> HIDE DEF c, d
    <3> QED
      BY <2>3, <2>4
  <2> QED
    BY <2>5
<1>2. PICK r \in T : \A s \in T : r <= s
  <2>1. T \subseteq Nat /\ T # {}
    BY <1>1
  <2> HIDE DEF T
  <2> QED
    BY <2>1, LeastNat
<1>3. r \in Nat /\ r \in 0..total /\ (r + 1) * (r + 1) * k > total
  BY <1>1, <1>2
<1>4. r * r * k <= total
  <2>1. CASE r = 0
    BY <2>1
  <2>2. CASE r # 0
    <3>1. r - 1 \in Nat /\ ~(r <= r - 1) /\ (r - 1) + 1 = r
      BY <1>3, <2>2
    <3>2. r - 1 \notin T
      BY <1>2, <3>1
    <3>3. ~(r * r * k > total)
      BY <3>1, <3>2
    <3>4. r * r * k \in Nat
      BY <1>3
    <3> QED
      BY <3>3, <3>4
  <2> QED
    BY <2>1, <2>2
<1> QED
  BY <1>3, <1>4 DEF IsRoot

\* A root mean square is at most the greatest of the levels it is made of.
LEMMA ClusterLevelBound ==
  ASSUME NEW reps, IsFiniteSet(DOMAIN reps), NEW b \in Nat,
         \A m \in DOMAIN reps : reps[m].level \in Nat /\ reps[m].level <= b
  PROVE  ClusterLevel(reps) \in Nat /\ ClusterLevel(reps) <= b
<1> DEFINE k == Count(reps)
           total == Total(reps)
           r == ClusterLevel(reps)
<1>1. IsFiniteSet(Live(reps)) /\ Live(reps) \subseteq DOMAIN reps
  BY FS_Subset DEF Live
<1>2. total \in Nat /\ k \in Nat /\ k >= 1 /\ total <= k * (b * b)
  BY <1>1, TotalBound
<1>3. r = CHOOSE x \in 0..total : IsRoot(x, k, total)
  BY Zenon DEF ClusterLevel, IsRoot, Total, Count, Live
<1>4. r \in 0..total /\ IsRoot(r, k, total)
  <2>1. \E x \in 0..total : IsRoot(x, k, total)
    <3> HIDE DEF k, total
    <3> QED
      BY <1>2, RootExists
  <2> QED
    BY <1>3, <2>1, Zenon
<1> HIDE DEF k, total, r
<1>5. r \in Nat /\ r * r * k <= total
  BY <1>2, <1>4 DEF IsRoot
<1>6. ~(r >= b + 1)
  <2> SUFFICES ASSUME r >= b + 1 PROVE FALSE
    OBVIOUS
  <2> DEFINE c == (b + 1) * (b + 1)
             d == r * r
  <2>1. c \in Nat /\ d \in Nat /\ c <= d
    BY <1>5, ProductMonotonic
  <2>2. c = b * b + (2 * b + 1)
    OBVIOUS
  <2>3. b * b \in Nat
    OBVIOUS
  <2> HIDE DEF c, d
  <2>4. c * k <= d * k
    BY <1>2, <2>1, ProductMonotonic
  <2> DEFINE q == b * b
             e == 2 * b + 1
  <2>5. q \in Nat /\ e \in Nat /\ e >= 1 /\ c = q + e
    BY <2>2, <2>3
  <2> HIDE DEF q, e
  <2>6. c * k = q * k + e * k
    BY <1>2, <2>5
  <2>7. 1 * 1 <= e * k
    BY <1>2, <2>5, ProductMonotonic
  <2>8. total <= q * k /\ q * k \in Nat /\ e * k \in Nat /\ d * k \in Nat
    <3>1. q * k = k * q /\ q * k \in Nat /\ e * k \in Nat /\ d * k \in Nat
      BY <1>2, <2>1, <2>5
    <3> QED
      BY <1>2, <3>1 DEF q
  <2>9. d * k <= total
    BY <1>5 DEF d
  <2> DEFINE x == q * k
             y == e * k
             z == d * k
             w == c * k
  <2>10. x \in Nat /\ y \in Nat /\ z \in Nat /\ y >= 1 /\ total <= x /\ z <= total /\ w = x + y /\ w <= z
    BY <2>4, <2>6, <2>7, <2>8, <2>9
  <2> HIDE DEF x, y, z, w
  <2> QED
    BY <1>2, <2>10
<1>7. r <= b
  BY <1>5, <1>6
<1> QED
  BY <1>5, <1>7 DEF r

-----------------------------------------------------------------------------
(* Types. *)

\* One copy of a message leaves a bag.
LEMMA BagLess ==
  ASSUME NEW B, IsABag(B), NEW m
  PROVE  IsABag(B (-) SetToBag({m})) /\ BagToSet(B (-) SetToBag({m})) \subseteq BagToSet(B)
BY DEF IsABag, BagToSet, SetToBag, (-)

\* Messages enter a bag.
LEMMA BagMore ==
  ASSUME NEW B, IsABag(B), NEW S
  PROVE  IsABag(B (+) SetToBag(S)) /\ BagToSet(B (+) SetToBag(S)) = BagToSet(B) \cup S
BY DEF IsABag, BagToSet, SetToBag, (+)

\* The constants that are numbers.
LEMMA StressNumbers ==
  /\ MaxDuration \in Nat /\ PeerTimeout \in Nat /\ MaxChanges \in Nat /\ MaxFaults \in Nat
  /\ ReportTicks \in Nat /\ ReportTicks >= 1 /\ 0 \in Level /\ Level \subseteq Nat
BY StressAssumption

\* The bounds stay within their types.
LEMMA BudgetType ==
  ASSUME StressTypeOK
  PROVE  /\ Spend("changes") => budget' \in [changes : 0..MaxChanges, faults : 0..MaxFaults]
         /\ Spend("faults") => budget' \in [changes : 0..MaxChanges, faults : 0..MaxFaults]
<1>1. budget \in [changes : 0..MaxChanges, faults : 0..MaxFaults]
  BY DEF StressTypeOK
<1>2. budget.changes \in 0..MaxChanges /\ budget.faults \in 0..MaxFaults
  BY <1>1
<1>3. ASSUME Spend("changes") PROVE budget' \in [changes : 0..MaxChanges, faults : 0..MaxFaults]
  <2>1. budget.changes > 0 /\ budget' = [budget EXCEPT !.changes = budget.changes - 1]
    BY <1>3 DEF Spend
  <2> QED
    BY <1>1, <1>2, <2>1, StressNumbers
<1>4. ASSUME Spend("faults") PROVE budget' \in [changes : 0..MaxChanges, faults : 0..MaxFaults]
  <2>1. budget.faults > 0 /\ budget' = [budget EXCEPT !.faults = budget.faults - 1]
    BY <1>4 DEF Spend
  <2> QED
    BY <1>1, <1>2, <2>1, StressNumbers
<1> QED
  BY <1>3, <1>4

\* The result that Recalc works on.
LEMMA CalcType ==
  ASSUME StressTypeOK, NEW n \in Node, calc[n] # <<>>
  PROVE  /\ calc[n][1] \in [own : Level, cluster : Nat]
         /\ calc[n][1].own \in Level /\ calc[n][1].own \in Nat /\ calc[n][1].cluster \in Nat
<1>1. calc[n] \in Seq([own : Level, cluster : Nat])
  BY DEF StressTypeOK
<1>2. Len(calc[n]) \in Nat \ {0}
  BY <1>1, EmptySeq
<1>3. 1 \in 1..Len(calc[n])
  BY <1>2
<1>4. calc[n][1] \in [own : Level, cluster : Nat]
  BY <1>1, <1>3, ElementOfSeq
<1> QED
  BY <1>4, StressNumbers

\* What measuring enters in a node's reports.
Entered(n) == [reports[n] EXCEPT ![n] = [level |-> measured[n], age |-> 0]]

\* It is a report for every node, the node's own being the new one.
LEMMA EnteredType ==
  ASSUME StressTypeOK, NEW n \in Node
  PROVE  /\ Entered(n) \in [Node -> Report]
         /\ \A m \in Node : Entered(n)[m] = IF m = n THEN [level |-> measured[n], age |-> 0]
                                                    ELSE reports[n][m]
         /\ DOMAIN Entered(n) = Node /\ IsFiniteSet(Node)
         /\ \A m \in Node : Entered(n)[m].level \in Level /\ Entered(n)[m].level \in Nat
<1>1. measured[n] \in Level /\ reports[n] \in [Node -> Report] /\ PeerTimeout \in Nat
  BY StressAssumption DEF StressTypeOK
<1>2. [level |-> measured[n], age |-> 0] \in Report
  BY <1>1 DEF Report
<1>3. /\ Entered(n) \in [Node -> Report]
      /\ \A m \in Node : Entered(n)[m] = IF m = n THEN [level |-> measured[n], age |-> 0] ELSE reports[n][m]
  BY <1>1, <1>2 DEF Entered
<1>4. \A m \in Node : Entered(n)[m].level \in Level
  BY <1>3 DEF Report
<1> QED
  BY <1>3, <1>4, StressAssumption

\* The state stays well typed.
LEMMA StressTypeInit == StressInit => StressTypeOK
<1> SUFFICES ASSUME StressInit PROVE StressTypeOK
  OBVIOUS
<1> USE StressAssumption
<1>1. NoReport \in Report
  BY DEF NoReport, Report
<1>2. reports \in [Node -> [Node -> Report]]
  BY <1>1 DEF StressInit
<1>3. IsABag(inFlight) /\ BagToSet(inFlight) \subseteq Message
  BY DEF StressInit, EmptyBag, SetToBag, IsABag, BagToSet
<1>4. calc \in [Node -> Seq([own : Level, cluster : Nat])]
  BY DEF StressInit
<1>5. stressed \in [Node -> BOOLEAN]
  BY DEF StressInit
<1>6. budget \in [changes : 0..MaxChanges, faults : 0..MaxFaults]
  BY DEF StressInit
<1>7. /\ alive \subseteq Node /\ due \subseteq Node /\ measured \in [Node -> Level]
      /\ config \in [Node -> Configs] /\ stay \in [Node -> 0..MaxDuration + 1]
      /\ published \in [Node -> Level] /\ counter \in [Node -> 0..ReportTicks]
      /\ calmFor \in [Node -> 0..MaxDuration + 1] /\ promised \in [Node -> 0..MaxDuration]
      /\ peak \in Level
  BY DEF StressInit
<1> QED
  BY <1>2, <1>3, <1>4, <1>5, <1>6, <1>7 DEF StressTypeOK

\* Every step of the nodes, the network and the environment keeps the types.
LEMMA StressTypeStep ==
  ASSUME StressTypeOK, [StressNext]_stressVars
  PROVE  StressTypeOK'
<1>1. ASSUME NEW n \in Node, NEW l \in Level, LevelChanges(n, l) PROVE StressTypeOK'
  BY <1>1, BudgetType DEF StressTypeOK, LevelChanges, netVars, nodeVars, history
<1>2. ASSUME NEW n \in Node, Crash(n) PROVE StressTypeOK'
  BY <1>2, BudgetType DEF StressTypeOK, Crash, netVars, nodeVars, history
<1>3. ASSUME NEW n \in Node, clusterStressLevel(n) PROVE StressTypeOK'
  <2> DEFINE reps == Entered(n)
             fresh == [m \in Node |-> IF Expired(reps[m]) THEN NoReport ELSE reps[m]]
             c == [own |-> measured[n], cluster |-> ClusterLevel(reps)]
  <2>1. /\ reports' = [reports EXCEPT ![n] = fresh] /\ calc' = [calc EXCEPT ![n] = <<c>>]
        /\ due' = due \ {n} /\ peak' = Max({peak, measured[n]})
        /\ UNCHANGED <<config, stressed, stay, published, counter, calmFor, promised, inFlight, alive, measured, budget>>
    BY <1>3 DEF clusterStressLevel, Entered, netVars, envVars
  <2>2. NoReport \in Report
    BY StressNumbers DEF NoReport, Report
  <2>3. fresh \in [Node -> Report]
    <3> HIDE DEF reps
    <3> QED
      BY <2>2, EnteredType DEF reps
  <2>4. measured[n] \in Level /\ measured[n] \in Nat /\ peak \in Level /\ peak \in Nat
    BY StressNumbers DEF StressTypeOK
  <2>5. PICK b \in Nat : \A l \in Level : l <= b
    BY UpperBound, StressAssumption, Zenon
  <2>6. ClusterLevel(reps) \in Nat
    <3>1. \A m \in Node : reps[m].level \in Nat /\ reps[m].level <= b
      BY <2>5, EnteredType
    <3>2. DOMAIN reps = Node /\ IsFiniteSet(DOMAIN reps)
      BY EnteredType
    <3> HIDE DEF reps
    <3> QED
      BY <3>1, <3>2, ClusterLevelBound
  <2>7. c \in [own : Level, cluster : Nat]
    <3> HIDE DEF reps
    <3> QED
      BY <2>4, <2>6
  <2>8. peak' \in Level
    BY <2>1, <2>4, MaxOfTwo
  <2> HIDE DEF fresh, c, reps
  <2>9. reports' \in [Node -> [Node -> Report]]
    BY <2>1, <2>3 DEF StressTypeOK
  <2>10. calc' \in [Node -> Seq([own : Level, cluster : Nat])]
    <3>1. <<c>> \in Seq([own : Level, cluster : Nat])
      BY <2>7
    <3> DEFINE cc == <<c>>
    <3> HIDE DEF cc
    <3> QED
      BY <2>1, <3>1 DEF StressTypeOK, cc
  <2> QED
    BY <2>1, <2>8, <2>9, <2>10 DEF StressTypeOK
<1>4. ASSUME NEW n \in Node, Recalc(n) PROVE StressTypeOK'
  <2> DEFINE sent == [to : Node \ {n}, from : {n}, level : {calc[n][1].own}]
  <2>3. calc[n][1].own \in Level
    BY <1>4, CalcType DEF Recalc
  <2>4. sent \subseteq Message
    BY <2>3 DEF Message
  <2>5. IsABag(inFlight') /\ BagToSet(inFlight') \subseteq Message
    <3>1. IsABag(inFlight) /\ BagToSet(inFlight) \subseteq Message
      BY DEF StressTypeOK
    <3>2. inFlight' = inFlight (+) SetToBag(sent) \/ inFlight' = inFlight
      BY <1>4, Zenon DEF Recalc
    <3> HIDE DEF sent
    <3> QED
      BY <2>4, <3>1, <3>2, BagMore
  <2>6. calc' \in [Node -> Seq([own : Level, cluster : Nat])]
    <3> DEFINE Nil == <<>>
    <3>1. Nil \in Seq([own : Level, cluster : Nat]) /\ calc' = [calc EXCEPT ![n] = Nil]
      BY <1>4 DEF Recalc
    <3> HIDE DEF Nil
    <3> QED
      BY <3>1 DEF StressTypeOK
  <2>7. stressed' \in [Node -> BOOLEAN]
    <3> DEFINE on == Activated(n) /\ ~Deactivates(n)
    <3>1. stressed' = [stressed EXCEPT ![n] = on] /\ on \in BOOLEAN
      BY <1>4, Zenon DEF Recalc
    <3> HIDE DEF on
    <3> QED
      BY <3>1 DEF StressTypeOK
  <2>8. /\ stay' \in [Node -> 0..MaxDuration + 1] /\ calmFor' \in [Node -> 0..MaxDuration + 1]
        /\ promised' \in [Node -> 0..MaxDuration]
    <3>1. stay'  = [stay EXCEPT ![n] = IF Extends(n) THEN config[n].minimum + 1 ELSE @]
      BY <1>4 DEF Recalc
    <3>2. calmFor' = [calmFor EXCEPT ![n] = IF Overall(calc[n][1]) >= config[n].deactivate THEN 0 ELSE @]
      BY <1>4 DEF Recalc
    <3>3. promised' = [promised EXCEPT ![n] =
                         IF Overall(calc[n][1]) >= config[n].deactivate THEN config[n].minimum ELSE @]
      BY <1>4 DEF Recalc
    <3>4. config[n].minimum \in 0..MaxDuration
      BY StressAssumption DEF StressTypeOK
    <3>5. stay \in [Node -> 0..MaxDuration + 1] /\ calmFor \in [Node -> 0..MaxDuration + 1]
          /\ promised \in [Node -> 0..MaxDuration] /\ MaxDuration \in Nat
      BY StressNumbers DEF StressTypeOK
    <3> DEFINE high == Overall(calc[n][1]) >= config[n].deactivate
               more == Extends(n)
    <3>6. /\ stay' = [stay EXCEPT ![n] = IF more THEN config[n].minimum + 1 ELSE stay[n]]
          /\ calmFor' = [calmFor EXCEPT ![n] = IF high THEN 0 ELSE calmFor[n]]
          /\ promised' = [promised EXCEPT ![n] = IF high THEN config[n].minimum ELSE promised[n]]
      BY <3>1, <3>2, <3>3
    <3> HIDE DEF high, more
    <3>7. stay' \in [Node -> 0..MaxDuration + 1]
      BY <3>4, <3>5, <3>6
    <3>8. calmFor' \in [Node -> 0..MaxDuration + 1]
      BY <3>5, <3>6
    <3>9. promised' \in [Node -> 0..MaxDuration]
      BY <3>4, <3>5, <3>6
    <3> QED
      BY <3>7, <3>8, <3>9
  <2>9. published' \in [Node -> Level] /\ counter' \in [Node -> 0..ReportTicks]
    <3>1. CASE Publishes(n)
      <4>1. published' = [published EXCEPT ![n] = calc[n][1].own] /\ counter' = [counter EXCEPT ![n] = 1]
        BY <1>4, <3>1 DEF Recalc
      <4> QED
        BY <2>3, <4>1, StressNumbers DEF StressTypeOK
    <3>2. CASE ~Publishes(n)
      <4>1. published' = published /\ counter' = [counter EXCEPT ![n] = Up(@, ReportTicks)]
        BY <1>4, <3>2 DEF Recalc
      <4> QED
        BY <4>1, StressNumbers DEF StressTypeOK, Up
    <3> QED
      BY <3>1, <3>2
  <2>10. UNCHANGED <<due, reports, config, peak, alive, measured, budget>>
    BY <1>4 DEF Recalc, envVars
  <2> QED
    BY <2>5, <2>6, <2>7, <2>8, <2>9, <2>10 DEF StressTypeOK
<1>5. ASSUME NEW msg \in BagToSet(inFlight), Lose(msg) PROVE StressTypeOK'
  <2>1. IsABag(inFlight') /\ BagToSet(inFlight') \subseteq Message
    BY <1>5, BagLess DEF Lose, StressTypeOK
  <2> QED
    BY <1>5, <2>1, BudgetType DEF StressTypeOK, Lose, nodeVars, history
<1>6. ASSUME NEW msg \in BagToSet(inFlight), onStressLevelUpdate(msg) PROVE StressTypeOK'
  <2>1. IsABag(inFlight') /\ BagToSet(inFlight') \subseteq Message
    BY <1>6, BagLess DEF onStressLevelUpdate, StressTypeOK
  <2>2. msg.to \in Node /\ msg.from \in Node /\ msg.level \in Level
    BY DEF StressTypeOK, Message
  <2> DEFINE r == [level |-> msg.level, age |-> 0]
  <2>3. r \in Report /\ reports' = [reports EXCEPT ![msg.to][msg.from] = r]
    BY <1>6, <2>2, StressNumbers DEF onStressLevelUpdate, Report
  <2> HIDE DEF r
  <2>4. reports' \in [Node -> [Node -> Report]]
    BY <2>2, <2>3 DEF StressTypeOK
  <2> QED
    BY <1>6, <2>1, <2>4 DEF StressTypeOK, onStressLevelUpdate, envVars, history
<1>7. ASSUME NEW n \in Node, NEW c \in Configs, UpdateFromConfig(n, c) PROVE StressTypeOK'
  BY <1>7, BudgetType DEF StressTypeOK, UpdateFromConfig, netVars, history
<1>8. ASSUME StressTick PROVE StressTypeOK'
  <2>1. ASSUME NEW r \in Report PROVE [r EXCEPT !.age = Up(@, PeerTimeout + 1)] \in Report
    BY StressNumbers DEF Report, Up
  <2>2. reports' \in [Node -> [Node -> Report]]
    BY <1>8, <2>1 DEF StressTypeOK, StressTick
  <2>3. stay' \in [Node -> 0..MaxDuration + 1] /\ calmFor' \in [Node -> 0..MaxDuration + 1]
    <3>1. ASSUME NEW i \in 0..MaxDuration + 1
          PROVE  Down(i) \in 0..MaxDuration + 1 /\ Up(i, MaxDuration + 1) \in 0..MaxDuration + 1
      BY StressNumbers DEF Up, Down
    <3>2. /\ stay' = [n \in Node |-> Down(stay[n])]
          /\ calmFor' = [n \in Node |-> Up(calmFor[n], MaxDuration + 1)]
      BY <1>8 DEF StressTick
    <3>3. \A n \in Node : stay[n] \in 0..MaxDuration + 1 /\ calmFor[n] \in 0..MaxDuration + 1
      BY DEF StressTypeOK
    <3> QED
      BY <3>1, <3>2, <3>3
  <2> QED
    BY <1>8, <2>2, <2>3 DEF StressTypeOK, StressTick, netVars, envVars
<1>9. ASSUME UNCHANGED stressVars PROVE StressTypeOK'
  BY <1>9 DEF StressTypeOK, stressVars, netVars, envVars, nodeVars, history
<1> QED
  BY <1>1, <1>2, <1>3, <1>4, <1>5, <1>6, <1>7, <1>8, <1>9, Zenon DEF StressNext

\* The state of stress relief stays well typed: Recalc's level of the cluster is a
\* number, and no counter, age or stay time leaves its range.
THEOREM StressTypes == StressSpec => []StressTypeOK
<1>1. StressInit => StressTypeOK
  BY StressTypeInit
<1>2. StressTypeOK /\ [StressNext]_stressVars => StressTypeOK'
  BY StressTypeStep
<1> QED
  BY <1>1, <1>2, PTL DEF StressSpec

-----------------------------------------------------------------------------
(* No false alarm: nothing a node can learn is above the highest level that   *)
(* some node has measured.                                                    *)

BelowPeak ==
  /\ \A n, m \in Node : reports[n][m].level <= peak
  /\ \A msg \in BagToSet(inFlight) : msg.level <= peak
  /\ \A n \in Node : calc[n] # <<>> => calc[n][1].own <= peak /\ calc[n][1].cluster <= peak

AlarmInv == StressTypeOK /\ BelowPeak /\ NoFalseAlarm

\* Every level is a natural number.
LEMMA LevelNumbers ==
  ASSUME StressTypeOK
  PROVE  /\ peak \in Nat /\ \A n \in Node : measured[n] \in Nat
         /\ \A n, m \in Node : reports[n][m].level \in Nat
         /\ \A msg \in BagToSet(inFlight) : msg \in Message /\ msg.level \in Nat
<1>1. \A n, m \in Node : reports[n][m] \in Report
  BY DEF StressTypeOK
<1>2. \A n, m \in Node : reports[n][m].level \in Nat
  BY <1>1, StressNumbers DEF Report
<1>3. \A msg \in BagToSet(inFlight) : msg \in Message /\ msg.level \in Nat
  BY StressNumbers DEF StressTypeOK, Message
<1> QED
  BY <1>2, <1>3, StressNumbers DEF StressTypeOK

\* Initially nothing has been measured and no node is stressed.
LEMMA AlarmInit == StressInit => AlarmInv
<1> SUFFICES ASSUME StressInit PROVE AlarmInv
  OBVIOUS
<1>1. StressTypeOK
  BY StressTypeInit
<1>2. BelowPeak
  BY DEF StressInit, BelowPeak, NoReport, EmptyBag, SetToBag, BagToSet
<1>3. NoFalseAlarm
  BY DEF StressInit, NoFalseAlarm
<1> QED
  BY <1>1, <1>2, <1>3 DEF AlarmInv

\* Measuring raises the peak where it has to.
LEMMA MeasuringBelowPeak ==
  ASSUME AlarmInv, NEW n \in Node, clusterStressLevel(n)
  PROVE  BelowPeak' /\ peak' \in Nat /\ peak <= peak'
<1> DEFINE reps == Entered(n)
           fresh == [m \in Node |-> IF Expired(reps[m]) THEN NoReport ELSE reps[m]]
           c == [own |-> measured[n], cluster |-> ClusterLevel(reps)]
<1>1. /\ reports' = [reports EXCEPT ![n] = fresh] /\ calc' = [calc EXCEPT ![n] = <<c>>]
      /\ peak' = Max({peak, measured[n]}) /\ inFlight' = inFlight
  BY DEF clusterStressLevel, Entered, netVars
<1>2. peak \in Nat /\ measured[n] \in Nat
  BY LevelNumbers DEF AlarmInv
<1>3. peak' \in Nat /\ peak <= peak' /\ measured[n] <= peak'
  BY <1>1, <1>2, MaxOfTwo
<1>4. \A m \in Node : reports[n][m].level \in Nat /\ reports[n][m].level <= peak'
  BY <1>2, <1>3, LevelNumbers DEF AlarmInv, BelowPeak
<1>5. \A m \in Node : reps[m].level \in Nat /\ reps[m].level <= peak'
  <2>1. \A m \in Node : reps[m] = IF m = n THEN [level |-> measured[n], age |-> 0] ELSE reports[n][m]
    BY EnteredType DEF AlarmInv
  <2> HIDE DEF reps
  <2> QED
    BY <1>2, <1>3, <1>4, <2>1
<1>6. DOMAIN reps = Node /\ IsFiniteSet(DOMAIN reps)
  BY EnteredType DEF AlarmInv
<1>7. ClusterLevel(reps) \in Nat /\ ClusterLevel(reps) <= peak'
  <2>1. PICK b \in Nat : b = peak'
    BY <1>3
  <2> HIDE DEF reps
  <2>2. ClusterLevel(reps) \in Nat /\ ClusterLevel(reps) <= b
    BY <1>5, <1>6, <2>1, ClusterLevelBound
  <2> QED
    BY <2>1, <2>2
<1>8. \A m \in Node : fresh[m].level <= peak'
  <2> HIDE DEF reps
  <2> QED
    BY <1>3, <1>5 DEF NoReport
<1> HIDE DEF fresh
<1>9. \A k, m \in Node : reports'[k][m].level <= peak'
  <2> SUFFICES ASSUME NEW k \in Node, NEW m \in Node PROVE reports'[k][m].level <= peak'
    OBVIOUS
  <2>1. reports'[k] = IF k = n THEN fresh ELSE reports[k]
    BY <1>1 DEF AlarmInv, StressTypeOK
  <2>2. reports[k][m].level <= peak /\ reports[k][m].level \in Nat
    BY LevelNumbers DEF AlarmInv, BelowPeak
  <2>3. reports[k][m].level <= peak'
    BY <1>2, <1>3, <2>2
  <2> QED
    BY <1>8, <2>1, <2>3
<1>10. \A msg \in BagToSet(inFlight') : msg.level <= peak'
  <2> SUFFICES ASSUME NEW msg \in BagToSet(inFlight) PROVE msg.level <= peak'
    BY <1>1
  <2> QED
    BY <1>2, <1>3, LevelNumbers DEF AlarmInv, BelowPeak
<1>11. \A k \in Node : calc'[k] # <<>> => calc'[k][1].own <= peak' /\ calc'[k][1].cluster <= peak'
  <2> SUFFICES ASSUME NEW k \in Node, calc'[k] # <<>>
               PROVE  calc'[k][1].own <= peak' /\ calc'[k][1].cluster <= peak'
    OBVIOUS
  <2>1. c.own <= peak' /\ c.cluster <= peak'
    BY <1>3, <1>7
  <2> HIDE DEF c
  <2>2. CASE k = n
    <3>1. calc'[k] = <<c>>
      BY <1>1, <2>2 DEF AlarmInv, StressTypeOK
    <3>2. calc'[k][1] = c
      BY <3>1
    <3> QED
      BY <2>1, <3>2
  <2>3. CASE k # n
    <3>1. calc'[k] = calc[k]
      BY <1>1, <2>3 DEF AlarmInv, StressTypeOK
    <3>2. calc[k][1].own \in Nat /\ calc[k][1].cluster \in Nat
      BY <3>1, CalcType DEF AlarmInv
    <3>3. calc[k][1].own <= peak /\ calc[k][1].cluster <= peak
      BY <3>1 DEF AlarmInv, BelowPeak
    <3> QED
      BY <1>2, <1>3, <3>1, <3>2, <3>3
  <2> QED
    BY <2>2, <2>3
<1> QED
  BY <1>3, <1>9, <1>10, <1>11 DEF BelowPeak

\* Whoever goes on to be stressed in monitor mode has seen the activation level.
LEMMA RecalcAlarm ==
  ASSUME AlarmInv, NEW n \in Node, Recalc(n)
  PROVE  NoFalseAlarm'
<1>1. peak' = peak /\ stressed' = [stressed EXCEPT ![n] = Activated(n) /\ ~Deactivates(n)]
  BY DEF Recalc
<1> SUFFICES ASSUME NeverForced, NEW k \in Node, stressed'[k]
             PROVE  \E c \in Configs : peak >= c.activate
  BY <1>1 DEF NoFalseAlarm, NeverForced
<1>2. CASE stressed[k]
  BY <1>2 DEF AlarmInv, NoFalseAlarm
<1>3. CASE ~stressed[k]
  <2>1. k = n /\ Activated(n)
    BY <1>1, <1>3 DEF AlarmInv, StressTypeOK
  <2>2. config[n] \in Configs
    BY DEF AlarmInv, StressTypeOK
  <2>3. config[n].mode \in {"never", "monitor"}
    BY <2>2, StressAssumption DEF NeverForced
  <2>4. Overall(calc[n][1]) >= config[n].activate
    BY <1>3, <2>1, <2>3 DEF Activated
  <2>5. /\ calc[n][1].own \in Nat /\ calc[n][1].cluster \in Nat
        /\ calc[n][1].own <= peak /\ calc[n][1].cluster <= peak
    BY CalcType DEF Recalc, AlarmInv, BelowPeak
  <2>6. Overall(calc[n][1]) \in Nat /\ Overall(calc[n][1]) <= peak
    BY <2>5, MaxOfTwo DEF Overall
  <2>7. config[n].activate \in Nat /\ peak \in Nat
    BY <2>2, StressAssumption, LevelNumbers DEF AlarmInv
  <2>8. peak >= config[n].activate
    BY <2>4, <2>6, <2>7
  <2> QED
    BY <2>2, <2>8
<1> QED
  BY <1>2, <1>3

\* Whatever is measured, sent, delivered or computed next stays below the peak.
LEMMA AlarmStep ==
  ASSUME AlarmInv, [StressNext]_stressVars
  PROVE  AlarmInv'
<1>1. StressTypeOK'
  BY StressTypeStep DEF AlarmInv
<1>2. ASSUME UNCHANGED <<reports, inFlight, calc, peak, stressed>> PROVE BelowPeak' /\ NoFalseAlarm'
  BY <1>2 DEF AlarmInv, BelowPeak, NoFalseAlarm, NeverForced
<1>3. ASSUME NEW n \in Node, NEW l \in Level, LevelChanges(n, l) PROVE BelowPeak' /\ NoFalseAlarm'
  BY <1>2, <1>3, Zenon DEF LevelChanges, netVars, nodeVars, history
<1>4. ASSUME NEW n \in Node, Crash(n) PROVE BelowPeak' /\ NoFalseAlarm'
  BY <1>2, <1>4, Zenon DEF Crash, netVars, nodeVars, history
<1>5. ASSUME NEW n \in Node, clusterStressLevel(n) PROVE BelowPeak' /\ NoFalseAlarm'
  <2>1. BelowPeak' /\ peak' \in Nat /\ peak <= peak'
    BY <1>5, MeasuringBelowPeak
  <2>2. stressed' = stressed
    BY <1>5 DEF clusterStressLevel
  <2>3. NoFalseAlarm'
    <3> SUFFICES ASSUME NeverForced, NEW n1 \in Node, stressed[n1]
                 PROVE  \E c \in Configs : peak' >= c.activate
      BY <2>2 DEF NoFalseAlarm, NeverForced
    <3>1. PICK c \in Configs : peak >= c.activate
      BY DEF AlarmInv, NoFalseAlarm
    <3>2. c.activate \in Nat /\ peak \in Nat
      BY StressAssumption, LevelNumbers DEF AlarmInv
    <3>3. peak' >= c.activate
      BY <2>1, <3>1, <3>2
    <3> QED
      BY <3>3
  <2> QED
    BY <2>1, <2>3
<1>6. ASSUME NEW n \in Node, Recalc(n) PROVE BelowPeak' /\ NoFalseAlarm'
  <2> DEFINE sent == [to : Node \ {n}, from : {n}, level : {calc[n][1].own}]
  <2>1. NoFalseAlarm'
    BY <1>6, RecalcAlarm
  <2>2. calc[n] # <<>> /\ calc[n][1].own <= peak
    BY <1>6 DEF Recalc, AlarmInv, BelowPeak
  <2>3. reports' = reports /\ peak' = peak
    BY <1>6 DEF Recalc
  <2>4. \A msg \in BagToSet(inFlight') : msg.level <= peak
    <3>1. inFlight' = inFlight (+) SetToBag(sent) \/ inFlight' = inFlight
      BY <1>6, Zenon DEF Recalc
    <3>2. \A msg \in sent : msg.level <= peak
      BY <2>2
    <3>3. IsABag(inFlight) /\ \A msg \in BagToSet(inFlight) : msg.level <= peak
      BY DEF AlarmInv, StressTypeOK, BelowPeak
    <3> HIDE DEF sent
    <3> QED
      BY <3>1, <3>2, <3>3, BagMore
  <2>5. \A k \in Node : calc'[k] # <<>> => calc'[k] = calc[k]
    BY <1>6 DEF Recalc, AlarmInv, StressTypeOK
  <2>6. BelowPeak'
    BY <2>3, <2>4, <2>5 DEF AlarmInv, BelowPeak
  <2> QED
    BY <2>1, <2>6
<1>7. ASSUME NEW msg \in BagToSet(inFlight), Lose(msg) PROVE BelowPeak' /\ NoFalseAlarm'
  <2>1. BagToSet(inFlight') \subseteq BagToSet(inFlight)
    BY <1>7, BagLess DEF Lose, AlarmInv, StressTypeOK
  <2>2. UNCHANGED <<reports, calc, peak, stressed>>
    BY <1>7 DEF Lose, nodeVars, history
  <2> QED
    BY <2>1, <2>2 DEF AlarmInv, BelowPeak, NoFalseAlarm, NeverForced
<1>8. ASSUME NEW msg \in BagToSet(inFlight), onStressLevelUpdate(msg) PROVE BelowPeak' /\ NoFalseAlarm'
  <2>1. BagToSet(inFlight') \subseteq BagToSet(inFlight)
    BY <1>8, BagLess DEF onStressLevelUpdate, AlarmInv, StressTypeOK
  <2>2. UNCHANGED <<calc, peak, stressed>>
    BY <1>8 DEF onStressLevelUpdate, history
  <2> DEFINE r == [level |-> msg.level, age |-> 0]
  <2>3. r.level <= peak
    BY DEF AlarmInv, BelowPeak
  <2>4. msg.to \in Node /\ msg.from \in Node /\ reports' = [reports EXCEPT ![msg.to][msg.from] = r]
    BY <1>8, LevelNumbers DEF onStressLevelUpdate, AlarmInv, Message
  <2> HIDE DEF r
  <2>5. \A n, m \in Node : reports'[n][m] = r \/ reports'[n][m] = reports[n][m]
    BY <2>4 DEF AlarmInv, StressTypeOK
  <2>6. \A n, m \in Node : reports'[n][m].level <= peak
    BY <2>3, <2>5 DEF AlarmInv, BelowPeak
  <2> QED
    BY <2>1, <2>2, <2>6 DEF AlarmInv, BelowPeak, NoFalseAlarm, NeverForced
<1>9. ASSUME NEW n \in Node, NEW c \in Configs, UpdateFromConfig(n, c) PROVE BelowPeak' /\ NoFalseAlarm'
  BY <1>2, <1>9, Zenon DEF UpdateFromConfig, netVars, history
<1>10. ASSUME StressTick PROVE BelowPeak' /\ NoFalseAlarm'
  <2>1. UNCHANGED <<inFlight, calc, peak, stressed>>
    BY <1>10 DEF StressTick, netVars
  <2>2. \A n, m \in Node : reports'[n][m].level = reports[n][m].level
    <3>1. ASSUME NEW r \in Report PROVE [r EXCEPT !.age = Up(@, PeerTimeout + 1)].level = r.level
      BY DEF Report
    <3>2. \A n, m \in Node : reports[n][m] \in Report
      BY DEF AlarmInv, StressTypeOK
    <3>3. \A n, m \in Node : reports'[n][m] = [reports[n][m] EXCEPT !.age = Up(@, PeerTimeout + 1)]
      BY <1>10 DEF StressTick
    <3> QED
      BY <3>1, <3>2, <3>3
  <2> QED
    BY <2>1, <2>2 DEF AlarmInv, BelowPeak, NoFalseAlarm, NeverForced
<1>11. ASSUME UNCHANGED stressVars PROVE BelowPeak' /\ NoFalseAlarm'
  BY <1>2, <1>11, Zenon DEF stressVars, netVars, nodeVars, history
<1>12. BelowPeak' /\ NoFalseAlarm'
  BY <1>3, <1>4, <1>5, <1>6, <1>7, <1>8, <1>9, <1>10, <1>11, Zenon DEF StressNext
<1> QED
  BY <1>1, <1>12 DEF AlarmInv

\* Recalc never switches monitor mode on by averaging alone: a node is stressed only
\* if some node measured an activation level, for any number of nodes and however
\* late, often or disordered their reports arrive.
THEOREM AlarmsAreReal == StressSpec => []NoFalseAlarm
<1>1. StressInit => AlarmInv
  BY AlarmInit
<1>2. AlarmInv /\ [StressNext]_stressVars => AlarmInv'
  BY AlarmStep
<1>3. AlarmInv => NoFalseAlarm
  BY DEF AlarmInv
<1> QED
  BY <1>1, <1>2, <1>3, PTL DEF StressSpec

-----------------------------------------------------------------------------
(* The minimum duration: as long as a node is stressed, the calm it has seen  *)
(* and the time it must still stay on make up that duration.                  *)

CalmOrStay == NeverForced => \A n \in Node : stressed[n] => calmFor[n] + stay[n] > promised[n]

\* Recalc restarts the stay time whenever it sees a level that is not calm, and only
\* time that passes in calm takes from it.
LEMMA CalmStep ==
  ASSUME StressTypeOK, CalmOrStay, [StressNext]_stressVars
  PROVE  CalmOrStay'
<1> SUFFICES ASSUME NeverForced, NEW k \in Node, stressed'[k] PROVE calmFor'[k] + stay'[k] > promised'[k]
  BY DEF CalmOrStay, NeverForced
<1>1. /\ calmFor[k] \in 0..MaxDuration + 1 /\ stay[k] \in 0..MaxDuration + 1 /\ MaxDuration \in Nat
      /\ promised[k] \in 0..MaxDuration
      /\ stressed[k] => calmFor[k] + stay[k] > promised[k]
  BY StressNumbers DEF StressTypeOK, CalmOrStay
<1> DEFINE G == calmFor'[k] + stay'[k] > promised'[k]
<1>2. ASSUME UNCHANGED <<calmFor, promised, stay, stressed>> PROVE G
  BY <1>1, <1>2
<1>3. ASSUME StressTick PROVE G
  <2>1. /\ stressed' = stressed /\ stay'[k] = Down(stay[k]) /\ promised' = promised
        /\ calmFor'[k] = Up(calmFor[k], MaxDuration + 1)
    BY <1>3 DEF StressTick
  <2> QED
    BY <1>1, <2>1 DEF Up, Down
<1>4. ASSUME NEW n \in Node, Recalc(n) PROVE G
  <2>1. /\ stressed' = [stressed EXCEPT ![n] = Activated(n) /\ ~Deactivates(n)]
        /\ stay' = [stay EXCEPT ![n] = IF Extends(n) THEN config[n].minimum + 1 ELSE @]
        /\ calmFor' = [calmFor EXCEPT ![n] = IF Overall(calc[n][1]) >= config[n].deactivate THEN 0 ELSE @]
        /\ promised' = [promised EXCEPT ![n] =
                          IF Overall(calc[n][1]) >= config[n].deactivate THEN config[n].minimum ELSE @]
    BY <1>4 DEF Recalc
  <2>2. CASE k # n
    <3>1. /\ stressed'[k] = stressed[k] /\ stay'[k] = stay[k] /\ calmFor'[k] = calmFor[k]
          /\ promised'[k] = promised[k]
      BY <2>1, <2>2 DEF StressTypeOK
    <3> QED
      BY <1>1, <3>1
  <2>3. CASE k = n
    <3>1. Activated(n)
      BY <2>1, <2>3 DEF StressTypeOK
    <3>2. config[n] \in Configs
      BY DEF StressTypeOK
    <3>3. config[n].mode = "monitor"
      BY <3>1, <3>2, StressAssumption DEF NeverForced, Activated
    <3>4. CASE Overall(calc[n][1]) >= config[n].deactivate
      <4>1. /\ stay'[k] = config[n].minimum + 1 /\ calmFor'[k] = 0
            /\ promised'[k] = config[n].minimum
        BY <2>1, <2>3, <3>1, <3>3, <3>4 DEF Extends, StressTypeOK
      <4>2. config[n].minimum \in Nat
        BY <3>2, StressAssumption
      <4> QED
        BY <4>1, <4>2
    <3>5. CASE ~(Overall(calc[n][1]) >= config[n].deactivate)
      <4>1. calmFor'[k] = calmFor[k] /\ stay'[k] = stay[k] /\ promised'[k] = promised[k]
        BY <2>1, <2>3, <3>5 DEF Extends, StressTypeOK
      <4>2. /\ calc[n][1].own \in Nat /\ calc[n][1].cluster \in Nat
            /\ config[n].activate \in Nat /\ config[n].deactivate \in Nat
            /\ config[n].deactivate < config[n].activate
        BY <1>4, <3>2, CalcType, StressAssumption DEF Recalc
      <4>3. Overall(calc[n][1]) \in Nat
        BY <4>2, MaxOfTwo DEF Overall
      <4>4. ~(Overall(calc[n][1]) >= config[n].activate)
        BY <3>5, <4>2, <4>3
      <4>5. stressed[k]
        BY <2>3, <3>1, <3>3, <4>4 DEF Activated
      <4> QED
        BY <1>1, <4>1, <4>5
    <3> QED
      BY <3>4, <3>5
  <2> QED
    BY <2>2, <2>3
<1> HIDE DEF G
<1>5. ASSUME NEW n \in Node, NEW l \in Level, LevelChanges(n, l) PROVE G
  BY <1>2, <1>5, Zenon DEF LevelChanges, nodeVars, history
<1>6. ASSUME NEW n \in Node, Crash(n) PROVE G
  BY <1>2, <1>6, Zenon DEF Crash, nodeVars, history
<1>7. ASSUME NEW n \in Node, clusterStressLevel(n) PROVE G
  BY <1>2, <1>7, Zenon DEF clusterStressLevel
<1>8. ASSUME NEW msg \in BagToSet(inFlight), Lose(msg) PROVE G
  BY <1>2, <1>8, Zenon DEF Lose, nodeVars, history
<1>9. ASSUME NEW msg \in BagToSet(inFlight), onStressLevelUpdate(msg) PROVE G
  BY <1>2, <1>9, Zenon DEF onStressLevelUpdate, history
<1>10. ASSUME NEW n \in Node, NEW c \in Configs, UpdateFromConfig(n, c) PROVE G
  BY <1>2, <1>10, Zenon DEF UpdateFromConfig, history
<1>11. ASSUME UNCHANGED stressVars PROVE G
  BY <1>2, <1>11, Zenon DEF stressVars, nodeVars, history
<1>12. G
  BY <1>3, <1>4, <1>5, <1>6, <1>7, <1>8, <1>9, <1>10, <1>11, Zenon DEF StressNext
<1> QED
  BY <1>12 DEF G

\* What a step that switches stress relief off in monitor mode has found.
LEMMA DeactivationStep ==
  ASSUME StressTypeOK, CalmOrStay, [StressNext]_stressVars, NeverForced,
         NEW k \in Node, stressed[k], ~stressed'[k], config[k].mode = "monitor"
  PROVE  calmFor[k] > promised[k]
<1> DEFINE G == calmFor[k] > promised[k]
<1>1. ASSUME stressed' = stressed PROVE G
  BY <1>1
<1>2. ASSUME NEW n \in Node, Recalc(n) PROVE G
  <2>1. stressed' = [stressed EXCEPT ![n] = Activated(n) /\ ~Deactivates(n)]
    BY <1>2 DEF Recalc
  <2>2. k = n
    BY <2>1 DEF StressTypeOK
  <2>3. Activated(n)
    BY <2>2 DEF Activated
  <2>4. Deactivates(n)
    BY <2>1, <2>2, <2>3 DEF StressTypeOK
  <2>5. stay[k] = 0
    BY <2>2, <2>4 DEF Deactivates
  <2>6. /\ calmFor[k] \in 0..MaxDuration + 1 /\ promised[k] \in 0..MaxDuration /\ MaxDuration \in Nat
        /\ calmFor[k] + stay[k] > promised[k]
    BY StressNumbers DEF StressTypeOK, CalmOrStay
  <2> QED
    BY <2>5, <2>6
<1> HIDE DEF G
<1>3. ASSUME NEW n \in Node, NEW l \in Level, LevelChanges(n, l) PROVE G
  BY <1>1, <1>3, Zenon DEF LevelChanges, nodeVars
<1>4. ASSUME NEW n \in Node, Crash(n) PROVE G
  BY <1>1, <1>4, Zenon DEF Crash, nodeVars
<1>5. ASSUME NEW n \in Node, clusterStressLevel(n) PROVE G
  BY <1>1, <1>5, Zenon DEF clusterStressLevel
<1>6. ASSUME NEW msg \in BagToSet(inFlight), Lose(msg) PROVE G
  BY <1>1, <1>6, Zenon DEF Lose, nodeVars
<1>7. ASSUME NEW msg \in BagToSet(inFlight), onStressLevelUpdate(msg) PROVE G
  BY <1>1, <1>7, Zenon DEF onStressLevelUpdate
<1>8. ASSUME NEW n \in Node, NEW c \in Configs, UpdateFromConfig(n, c) PROVE G
  BY <1>1, <1>8, Zenon DEF UpdateFromConfig
<1>9. ASSUME StressTick PROVE G
  BY <1>1, <1>9, Zenon DEF StressTick
<1>10. ASSUME UNCHANGED stressVars PROVE G
  BY <1>1, <1>10, Zenon DEF stressVars, nodeVars
<1>11. G
  BY <1>2, <1>3, <1>4, <1>5, <1>6, <1>7, <1>8, <1>9, <1>10, Zenon DEF StressNext
<1> QED
  BY <1>11 DEF G

\* Recalc keeps the promise of MinimumActivationDuration: it switches off only after
\* nothing but calm levels for more than the minimum in force at the last level that
\* was not calm, for any modes, thresholds and minima reloaded at any time.
THEOREM DeactivatesCalm == StressSpec => CalmBeforeDeactivation
<1> DEFINE I == StressTypeOK /\ CalmOrStay
           A == NeverForced =>
                  \A n \in Node :
                    stressed[n] /\ ~stressed'[n] /\ config[n].mode = "monitor" =>
                      calmFor[n] > promised[n]
<1>1. StressInit => I
  <2>1. StressInit => CalmOrStay
    BY DEF StressInit, CalmOrStay
  <2> QED
    BY <2>1, StressTypeInit
<1>2. I /\ [StressNext]_stressVars => I'
  BY StressTypeStep, CalmStep
<1>3. I /\ [StressNext]_stressVars => [A]_stressVars
  BY DeactivationStep
<1> QED
  BY <1>1, <1>2, <1>3, PTL DEF StressSpec, CalmBeforeDeactivation

-----------------------------------------------------------------------------
(* Least recently used first. *)

\* An index that is not the last one.
LEMMA BelowTop == \A l \in Nat : \A j \in 1..l : j # l => j \in 1..l - 1
OBVIOUS

\* The constants that are numbers.
LEMMA CacheNumbers ==
  /\ \A n \in KeptSizes : n \in Nat /\ n > 0
  /\ \A n \in DroppedSizes : n \in Nat /\ n > 0
  /\ AddQueueDepth \in Nat /\ AddQueueDepth > 0 /\ Reloads \in Nat /\ TTL \in Nat /\ TTL >= 2
<1>1. \A n \in Nat \ {0} : n \in Nat /\ n > 0
  OBVIOUS
<1> QED
  BY <1>1, SizesAssumption, TTLAssumption

\* RemoveAt closes the gap.
LEMMA RemoveAtProperties ==
  ASSUME NEW T, NEW s \in Seq(T), NEW p \in 1..Len(s)
  PROVE  /\ RemoveAt(s, p) \in Seq(T) /\ Len(RemoveAt(s, p)) = Len(s) - 1
         /\ \A i \in 1..Len(s) - 1 : RemoveAt(s, p)[i] = IF i < p THEN s[i] ELSE s[i + 1]
<1> DEFINE a == SubSeq(s, 1, p - 1)
           b == SubSeq(s, p + 1, Len(s))
<1>1. Len(s) \in Nat /\ p \in Nat /\ p >= 1 /\ p <= Len(s)
  BY LenProperties
<1>2. \A i \in 1..Len(s) : s[i] \in T
  BY ElementOfSeq
<1>3. /\ a \in Seq(T) /\ Len(a) = IF 1 <= p - 1 THEN (p - 1) - 1 + 1 ELSE 0
      /\ \A i \in 1..(p - 1) - 1 + 1 : a[i] = s[1 + i - 1]
  <2>1. \A i \in 1..p - 1 : s[i] \in T
    BY <1>1, <1>2
  <2>2. 1 \in Int /\ p - 1 \in Int
    BY <1>1
  <2> QED
    BY <2>1, <2>2, SubSeqProperties
<1>4. Len(a) = p - 1 /\ \A i \in 1..p - 1 : a[i] = s[i]
  <2> HIDE DEF a
  <2> QED
    BY <1>1, <1>3
<1>5. /\ b \in Seq(T) /\ Len(b) = IF p + 1 <= Len(s) THEN Len(s) - (p + 1) + 1 ELSE 0
      /\ \A i \in 1..Len(s) - (p + 1) + 1 : b[i] = s[(p + 1) + i - 1]
  <2>1. \A i \in p + 1..Len(s) : s[i] \in T
    BY <1>1, <1>2
  <2>2. p + 1 \in Int /\ Len(s) \in Int
    BY <1>1
  <2> QED
    BY <2>1, <2>2, SubSeqProperties
<1>6. Len(b) = Len(s) - p /\ \A i \in 1..Len(s) - p : b[i] = s[p + i]
  <2> HIDE DEF b
  <2> QED
    BY <1>1, <1>5
<1> HIDE DEF a, b
<1>7. /\ a \o b \in Seq(T) /\ Len(a \o b) = Len(a) + Len(b)
      /\ \A i \in 1..Len(a) + Len(b) : (a \o b)[i] = IF i <= Len(a) THEN a[i] ELSE b[i - Len(a)]
  BY <1>3, <1>5, ConcatProperties
<1>8. RemoveAt(s, p) = a \o b
  BY DEF RemoveAt, a, b
<1>9. \A i \in 1..Len(s) - 1 : (a \o b)[i] = IF i < p THEN s[i] ELSE s[i + 1]
  <2> SUFFICES ASSUME NEW i \in 1..Len(s) - 1
               PROVE  (a \o b)[i] = IF i < p THEN s[i] ELSE s[i + 1]
    OBVIOUS
  <2>1. i \in 1..Len(a) + Len(b)
    BY <1>1, <1>4, <1>6
  <2>2. CASE i < p
    <3>1. i <= Len(a) /\ i \in 1..p - 1
      BY <1>1, <1>4, <2>2
    <3> QED
      BY <1>4, <1>7, <2>1, <2>2, <3>1
  <2>3. CASE ~(i < p)
    <3>1. ~(i <= Len(a)) /\ i - Len(a) = i - p + 1 /\ i - p + 1 \in 1..Len(s) - p
      BY <1>1, <1>4, <2>3
    <3>2. b[i - p + 1] = s[p + (i - p + 1)] /\ p + (i - p + 1) = i + 1
      BY <1>1, <1>6, <3>1
    <3> QED
      BY <1>7, <2>1, <2>3, <3>1, <3>2
  <2> QED
    BY <2>2, <2>3
<1>10. Len(a \o b) = Len(s) - 1
  BY <1>1, <1>4, <1>6, <1>7
<1> QED
  BY <1>7, <1>8, <1>9, <1>10

\* RemoveFirst takes out one occurrence, if there is one.
LEMMA RemoveFirstAt ==
  ASSUME NEW T, NEW s \in Seq(T), NEW t, Contains(s, t)
  PROVE  \E p \in 1..Len(s) : s[p] = t /\ RemoveFirst(s, t) = RemoveAt(s, p)
<1> DEFINE I == {i \in 1..Len(s) : s[i] = t}
<1>1. I # {} /\ I \subseteq Nat
  BY LenProperties DEF Contains
<1>2. \E x \in I : \A y \in I : x <= y
  <2> HIDE DEF I
  <2> QED
    BY <1>1, LeastNat
<1>3. Min(I) \in I
  <2> HIDE DEF I
  <2> QED
    BY <1>2, Zenon DEF Min
<1>4. RemoveFirst(s, t) = RemoveAt(s, Min(I))
  <2>1. \E i \in 1..Len(s) : s[i] = t
    BY DEF Contains
  <2>2. SelectInSeq(s, LAMBDA v : v = t) = Min(I)
    BY <1>1 DEF SelectInSeq
  <2> QED
    BY <2>1, <2>2, Zenon DEF RemoveFirst
<1> QED
  BY <1>3, <1>4

\* After its use an ID is the newest; the others keep their order and come no
\* closer to the new end.
LEMMA TouchProperties ==
  ASSUME NEW T, NEW s \in Seq(T), IsInjective(s), NEW t \in T
  PROVE  /\ Touch(s, t) \in Seq(T) /\ IsInjective(Touch(s, t))
         /\ Contains(s, t) => Len(Touch(s, t)) = Len(s)
         /\ \A j \in 1..Len(Touch(s, t)) :
              \/ Touch(s, t)[j] = t
              \/ \E i \in 1..Len(s) : /\ s[i] = Touch(s, t)[j]
                                       /\ Len(Touch(s, t)) - j >= Len(s) - i
<1> DEFINE r == RemoveFirst(s, t)
           u == Touch(s, t)
<1>1. Len(s) \in Nat /\ DOMAIN s = 1..Len(s)
  BY LenProperties
<1>2. \A i, j \in 1..Len(s) : s[i] = s[j] => i = j
  BY <1>1 DEF IsInjective
<1>3. CASE ~Contains(s, t)
  <2>1. r = s
    BY <1>3 DEF RemoveFirst, Contains
  <2>2. /\ u \in Seq(T) /\ Len(u) = Len(s) + 1 /\ u[Len(s) + 1] = t
        /\ \A i \in 1..Len(s) : u[i] = s[i]
    BY <1>1, <2>1 DEF Touch
  <2>3. DOMAIN u = 1..Len(s) + 1
    BY <2>2, LenProperties
  <2> HIDE DEF u, r
  <2>4. \A i \in 1..Len(s) : s[i] # t
    BY <1>3 DEF Contains
  <2>5. ASSUME NEW j \in 1..Len(s) + 1
        PROVE  (j = Len(s) + 1 /\ u[j] = t) \/ (j \in 1..Len(s) /\ u[j] = s[j])
    <3>1. j = Len(s) + 1 \/ j \in 1..Len(s)
      BY <1>1
    <3> QED
      BY <2>2, <3>1
  <2>6. IsInjective(u)
    <3> SUFFICES ASSUME NEW i \in 1..Len(s) + 1, NEW j \in 1..Len(s) + 1, u[i] = u[j] PROVE i = j
      BY <2>3 DEF IsInjective
    <3> QED
      BY <1>2, <2>4, <2>5
  <2>7. ASSUME NEW j \in 1..Len(u)
        PROVE  u[j] = t \/ \E i \in 1..Len(s) : s[i] = u[j] /\ Len(u) - j >= Len(s) - i
    <3>1. CASE u[j] = t
      BY <3>1
    <3>2. CASE u[j] # t
      <4>1. j \in 1..Len(s) /\ u[j] = s[j]
        BY <2>2, <2>5, <3>2
      <4>2. Len(u) - j >= Len(s) - j
        BY <1>1, <2>2, <4>1
      <4> QED
        BY <4>1, <4>2
    <3> QED
      BY <3>1, <3>2
  <2> QED
    BY <1>3, <2>2, <2>6, <2>7 DEF u
<1>4. CASE Contains(s, t)
  <2>1. PICK p \in 1..Len(s) : s[p] = t /\ r = RemoveAt(s, p)
    BY <1>4, RemoveFirstAt
  <2>2. /\ r \in Seq(T) /\ Len(r) = Len(s) - 1
        /\ \A i \in 1..Len(s) - 1 : r[i] = IF i < p THEN s[i] ELSE s[i + 1]
    BY <2>1, RemoveAtProperties
  <2>3. u = Append(r, t)
    BY DEF Touch
  <2> HIDE DEF u, r
  <2>4. /\ u \in Seq(T) /\ Len(u) = Len(s) /\ u[Len(s)] = t
        /\ \A i \in 1..Len(s) - 1 : u[i] = IF i < p THEN s[i] ELSE s[i + 1]
    <3>1. u \in Seq(T) /\ Len(u) = Len(r) + 1 /\ u[Len(r) + 1] = t /\ \A i \in 1..Len(r) : u[i] = r[i]
      BY <2>2, <2>3
    <3> QED
      BY <1>1, <2>2, <3>1
  <2>5. DOMAIN u = 1..Len(s)
    BY <2>4, LenProperties
  <2> DEFINE q(j) == IF j < p THEN j ELSE j + 1
  <2>6. ASSUME NEW j \in 1..Len(s), j # Len(s)
        PROVE  j \in 1..Len(s) - 1 /\ q(j) \in 1..Len(s) /\ q(j) # p /\ u[j] = s[q(j)] /\ u[j] # t
    <3>1. j \in 1..Len(s) - 1 /\ q(j) \in 1..Len(s) /\ q(j) # p
      <4>1. j \in 1..Len(s) - 1
        BY <1>1, <2>6, BelowTop
      <4>2. CASE j < p
        BY <1>1, <4>1, <4>2
      <4>3. CASE ~(j < p)
        BY <1>1, <4>1, <4>3
      <4> QED
        BY <4>1, <4>2, <4>3
    <3>2. u[j] = s[q(j)]
      <4>1. u[j] = IF j < p THEN s[j] ELSE s[j + 1]
        BY <2>4, <3>1
      <4>2. CASE j < p
        BY <4>1, <4>2
      <4>3. CASE ~(j < p)
        BY <4>1, <4>3
      <4> QED
        BY <4>2, <4>3
    <3>3. s[q(j)] # s[p]
      <4> HIDE DEF q
      <4> QED
        BY <1>2, <3>1
    <3> QED
      BY <2>1, <3>1, <3>2, <3>3
  <2>7. IsInjective(u)
    <3> SUFFICES ASSUME NEW i \in 1..Len(s), NEW j \in 1..Len(s), u[i] = u[j] PROVE i = j
      BY <2>5 DEF IsInjective
    <3>1. CASE i = Len(s)
      BY <2>4, <2>6, <3>1
    <3>2. CASE j = Len(s)
      BY <2>4, <2>6, <3>2
    <3>3. CASE i # Len(s) /\ j # Len(s)
      <4>1. q(i) \in 1..Len(s) /\ q(j) \in 1..Len(s) /\ s[q(i)] = s[q(j)]
        <5> HIDE DEF q
        <5> QED
          BY <2>6, <3>3
      <4>2. q(i) = q(j)
        <5> HIDE DEF q
        <5> QED
          BY <1>2, <4>1
      <4> QED
        BY <1>1, <4>2
    <3> QED
      BY <3>1, <3>2, <3>3
  <2>8. ASSUME NEW j \in 1..Len(u)
        PROVE  u[j] = t \/ \E i \in 1..Len(s) : s[i] = u[j] /\ Len(u) - j >= Len(s) - i
    <3>1. CASE j = Len(s)
      BY <2>4, <3>1
    <3>2. CASE j # Len(s)
      <4>1. q(j) \in 1..Len(s) /\ u[j] = s[q(j)]
        <5> HIDE DEF q
        <5> QED
          BY <2>4, <2>6, <3>2
      <4>2. Len(u) - j >= Len(s) - q(j)
        BY <1>1, <2>4
      <4> HIDE DEF q
      <4> QED
        BY <4>1, <4>2
    <3> QED
      BY <3>1, <3>2
  <2> QED
    BY <2>4, <2>7, <2>8 DEF u
<1> QED
  BY <1>3, <1>4

\* The newest n: the last n, which keep their distance from the end.
LEMMA NewestProperties ==
  ASSUME NEW T, NEW s \in Seq(T), IsInjective(s), NEW n \in Nat, n > 0
  PROVE  /\ Newest(s, n) \in Seq(T) /\ IsInjective(Newest(s, n)) /\ Len(Newest(s, n)) <= n
         /\ \A j \in 1..Len(Newest(s, n)) :
              \E i \in 1..Len(s) : /\ s[i] = Newest(s, n)[j]
                                   /\ Len(Newest(s, n)) - j = Len(s) - i
         /\ \A i \in 1..Len(s) : Len(s) - i < n => Contains(Newest(s, n), s[i])
<1> DEFINE w == Newest(s, n)
<1>1. Len(s) \in Nat /\ DOMAIN s = 1..Len(s)
  BY LenProperties
<1>2. \A i, j \in 1..Len(s) : s[i] = s[j] => i = j
  BY <1>1 DEF IsInjective
<1>3. CASE ~(Len(s) > n)
  <2>1. w = s
    BY <1>3 DEF Newest
  <2> HIDE DEF w
  <2>2. Len(w) <= n
    BY <1>1, <1>3, <2>1
  <2>3. \A j \in 1..Len(s) : s[j] = w[j] /\ Len(w) - j = Len(s) - j
    BY <2>1
  <2>4. \A i \in 1..Len(s) : Contains(w, s[i])
    BY <2>1 DEF Contains
  <2> QED
    BY <2>1, <2>2, <2>3, <2>4 DEF w
<1>4. CASE Len(s) > n
  <2> DEFINE d == Len(s) - n
  <2>1. w = SubSeq(s, d + 1, Len(s))
    BY <1>4 DEF Newest
  <2>2. d \in Nat /\ d + 1 \in Int /\ Len(s) \in Int /\ d + 1 <= Len(s) /\ Len(s) - (d + 1) + 1 = n
    BY <1>1, <1>4
  <2>3. \A i \in d + 1..Len(s) : s[i] \in T
    BY <1>1, <2>2, ElementOfSeq
  <2> HIDE DEF w, d
  <2>4. w \in Seq(T) /\ Len(w) = n /\ \A j \in 1..n : w[j] = s[d + 1 + j - 1]
    BY <2>1, <2>2, <2>3, SubSeqProperties
  <2>5. \A j \in 1..n : w[j] = s[d + j] /\ d + j \in 1..Len(s) /\ n - j = Len(s) - (d + j)
    BY <1>1, <2>2, <2>4 DEF d
  <2>6. IsInjective(w)
    <3>1. DOMAIN w = 1..n
      BY <2>4, LenProperties
    <3> SUFFICES ASSUME NEW i \in 1..n, NEW j \in 1..n, w[i] = w[j] PROVE i = j
      BY <3>1 DEF IsInjective
    <3>2. d + i = d + j
      BY <1>2, <2>5
    <3> QED
      BY <2>2, <3>2
  <2>7. ASSUME NEW i \in 1..Len(s), Len(s) - i < n PROVE Contains(w, s[i])
    <3>1. i - d \in 1..n /\ d + (i - d) = i
      BY <1>1, <2>2, <2>7 DEF d
    <3>2. w[i - d] = s[i]
      BY <2>5, <3>1
    <3> QED
      BY <2>4, <3>1, <3>2 DEF Contains
  <2>8. \A j \in 1..Len(w) : \E i \in 1..Len(s) : s[i] = w[j] /\ Len(w) - j = Len(s) - i
    BY <2>4, <2>5
  <2>9. Len(w) <= n
    BY <2>4
  <2> QED
    BY <2>4, <2>6, <2>7, <2>8, <2>9 DEF w
<1> QED
  BY <1>3, <1>4

-----------------------------------------------------------------------------
(* Filters. *)

\* Inserting keeps a filter within its capacity; an ID is lost only by a full
\* filter, which stays full.
LEMMA InsertProperties ==
  ASSUME NEW f \in Filter, NEW t \in TraceID, NEW g \in Insert(f, t)
  PROVE  /\ g \in Filter /\ g.cap = f.cap
         /\ Cardinality(f.ids) = f.cap => Cardinality(g.ids) = g.cap
         /\ \A x \in f.ids : x \in g.ids \/ Cardinality(f.ids) = f.cap
<1> DEFINE n == Cardinality(f.ids)
<1>1. /\ f \in [ids : SUBSET TraceID, cap : DroppedSizes]
      /\ f.ids \subseteq TraceID /\ f.cap \in DroppedSizes /\ IsFiniteSet(f.ids) /\ n <= f.cap
  BY DEF Filter
<1>2. n \in Nat /\ f.cap \in Nat /\ f.cap > 0
  BY <1>1, FS_CardinalityType, CacheNumbers
<1>3. CASE t \in f.ids \/ n < f.cap
  <2>1. g = [f EXCEPT !.ids = f.ids \cup {t}]
    BY <1>3 DEF Insert
  <2>2. g.ids = f.ids \cup {t} /\ g.cap = f.cap /\ g \in [ids : SUBSET TraceID, cap : DroppedSizes]
    BY <1>1, <2>1
  <2>3. IsFiniteSet(g.ids) /\ Cardinality(g.ids) = IF t \in f.ids THEN n ELSE n + 1
    BY <1>1, <2>2, FS_AddElement
  <2>4. Cardinality(g.ids) <= g.cap /\ (n = f.cap => Cardinality(g.ids) = g.cap)
    BY <1>1, <1>2, <1>3, <2>2, <2>3
  <2> QED
    BY <2>2, <2>3, <2>4 DEF Filter
<1>4. CASE ~(t \in f.ids \/ n < f.cap)
  <2>1. n = f.cap
    BY <1>1, <1>2, <1>4
  <2>2. g \in {f} \cup {[f EXCEPT !.ids = (f.ids \ {v}) \cup {t}] : v \in f.ids}
    BY <1>4 DEF Insert
  <2>3. CASE g = f
    BY <1>1, <2>1, <2>3 DEF Filter
  <2>4. ASSUME NEW v \in f.ids, g = [f EXCEPT !.ids = (f.ids \ {v}) \cup {t}]
        PROVE  g \in Filter /\ g.cap = f.cap /\ Cardinality(g.ids) = n
    <3> DEFINE r == f.ids \ {v}
    <3>1. g.ids = r \cup {t} /\ g.cap = f.cap /\ g \in [ids : SUBSET TraceID, cap : DroppedSizes]
      BY <1>1, <2>4
    <3>2. IsFiniteSet(r) /\ Cardinality(r) = n - 1
      BY <1>1, FS_RemoveElement
    <3>3. t \notin r
      BY <1>4
    <3> HIDE DEF r
    <3>4. IsFiniteSet(g.ids) /\ Cardinality(g.ids) = n - 1 + 1
      BY <3>1, <3>2, <3>3, FS_AddElement
    <3>5. Cardinality(g.ids) = n /\ Cardinality(g.ids) <= g.cap
      BY <1>1, <1>2, <3>1, <3>4
    <3> QED
      BY <3>1, <3>4, <3>5 DEF Filter
  <2> QED
    BY <2>1, <2>2, <2>3, <2>4
<1> QED
  BY <1>3, <1>4

\* A new filter is empty.
LEMMA NewFilterType ==
  ASSUME NEW n \in DroppedSizes
  PROVE  NewFilter(n) \in Filter
<1>1. IsFiniteSet({}) /\ Cardinality({}) = 0 /\ n \in Nat
  BY FS_EmptySet, CacheNumbers
<1>2. NewFilter(n) \in [ids : SUBSET TraceID, cap : DroppedSizes] /\ NewFilter(n).ids = {} /\ NewFilter(n).cap = n
  BY DEF NewFilter
<1>3. Cardinality(NewFilter(n).ids) <= NewFilter(n).cap
  BY <1>1, <1>2
<1> QED
  BY <1>1, <1>2, <1>3 DEF Filter

\* A load factor above 0.99 is a full filter.
LEMMA LoadFull ==
  ASSUME NEW f
  PROVE  LoadFactor(f) \in {"low", "half", "full"} /\ (LoadFactor(f) = "full" <=> Cardinality(f.ids) = f.cap)
<1>1. CASE Cardinality(f.ids) = f.cap
  BY <1>1 DEF LoadFactor
<1>2. CASE Cardinality(f.ids) # f.cap
  <2>1. LoadFactor(f) = IF 2 * Cardinality(f.ids) > f.cap THEN "half" ELSE "low"
    BY <1>2 DEF LoadFactor
  <2> QED
    BY <1>2, <2>1
<1> QED
  BY <1>1, <1>2

-----------------------------------------------------------------------------
(* Types, and what the monitor relies on: the load it has read is not out of  *)
(* date when it acts on it, because a full filter stays full, and the future  *)
(* filter is there when it takes over.                                        *)

MonitorInv ==
  /\ load = "full" => Cardinality(current.ids) = current.cap
  /\ monitor = "cycle" /\ load = "full" => future # <<>>

CacheInv == TypeOK /\ MonitorInv

\* What the pointer to the future filter may be.
MaybeFilter == {<<>>} \cup {<<f>> : f \in Filter}

\* NewCuckooSentCache: an empty LRU, an empty filter, and nothing read yet.
LEMMA CacheInit == Init => CacheInv
<1> SUFFICES ASSUME Init PROVE CacheInv
  OBVIOUS
<1>1. PICK n \in KeptSizes : kept = [ids |-> <<>>, cap |-> n]
  BY DEF Init
<1>2. kept \in LRU /\ copy = kept
  <2> DEFINE Nil == <<>>
  <2>1. Nil \in Seq(TraceID) /\ IsInjective(Nil) /\ Len(Nil) = 0
    BY DEF IsInjective
  <2>2. kept = [ids |-> Nil, cap |-> n] /\ n \in Nat
    BY <1>1, SizesAssumption
  <2> HIDE DEF Nil
  <2>3. kept \in [ids : Seq(TraceID), cap : KeptSizes] /\ kept.ids = Nil /\ kept.cap = n
    BY <2>1, <2>2
  <2>4. Len(kept.ids) <= kept.cap
    BY <2>1, <2>2, <2>3
  <2> QED
    BY <2>1, <2>3, <2>4 DEF LRU, Init
<1>3. current \in Filter /\ future = <<>> /\ capacity \in DroppedSizes
  BY NewFilterType DEF Init
<1>4. recent \in [TraceID -> 0..TTL]
  BY TTLAssumption DEF Init
<1>5. addch \in Seq(TraceID) /\ Len(addch) = 0 /\ waited = 0
  BY DEF Init
<1>6. Len(addch) <= AddQueueDepth /\ waited \in 0..Len(addch)
  BY <1>5, SizesAssumption
<1>7. MonitorInv
  BY DEF Init, MonitorInv
<1>8. reloads \in 0..Reloads
  BY SizesAssumption DEF Init
<1>9. TypeOK
  BY <1>2, <1>3, <1>4, <1>5, <1>6, <1>8 DEF TypeOK, Init
<1> QED
  BY <1>7, <1>9 DEF CacheInv

\* Using an ID of an LRU, with or without the eviction that follows.
LEMMA UseType ==
  ASSUME NEW c \in LRU, NEW t \in TraceID
  PROVE  /\ [c EXCEPT !.ids = Newest(Touch(@, t), c.cap)] \in LRU
         /\ Contains(c.ids, t) => [c EXCEPT !.ids = Touch(@, t)] \in LRU
<1>1. /\ c \in [ids : Seq(TraceID), cap : KeptSizes] /\ c.ids \in Seq(TraceID) /\ IsInjective(c.ids)
      /\ Len(c.ids) <= c.cap /\ c.cap \in KeptSizes
  BY DEF LRU
<1>2. c.cap \in Nat /\ c.cap > 0
  BY <1>1, CacheNumbers
<1> DEFINE u == Touch(c.ids, t)
           w == Newest(u, c.cap)
<1>3. u \in Seq(TraceID) /\ IsInjective(u) /\ (Contains(c.ids, t) => Len(u) = Len(c.ids))
  BY <1>1, TouchProperties
<1> HIDE DEF u
<1>4. w \in Seq(TraceID) /\ IsInjective(w) /\ Len(w) <= c.cap
  BY <1>2, <1>3, NewestProperties
<1> HIDE DEF w
<1>5. [c EXCEPT !.ids = w] \in LRU
  <2>1. [c EXCEPT !.ids = w] \in [ids : Seq(TraceID), cap : KeptSizes]
    BY <1>1, <1>4
  <2>2. [c EXCEPT !.ids = w].ids = w /\ [c EXCEPT !.ids = w].cap = c.cap
    BY <1>1
  <2> QED
    BY <1>4, <2>1, <2>2 DEF LRU
<1>6. ASSUME Contains(c.ids, t) PROVE [c EXCEPT !.ids = u] \in LRU
  <2>1. [c EXCEPT !.ids = u] \in [ids : Seq(TraceID), cap : KeptSizes]
    BY <1>1, <1>3
  <2>2. [c EXCEPT !.ids = u].ids = u /\ [c EXCEPT !.ids = u].cap = c.cap
    BY <1>1
  <2>3. Len(u) <= c.cap
    BY <1>1, <1>3, <1>6
  <2> QED
    BY <1>3, <2>1, <2>2, <2>3 DEF LRU
<1> QED
  BY <1>5, <1>6 DEF u, w

\* What a step of the drain goroutine does to the queue and the filters.
LEMMA DrainEffect ==
  ASSUME CacheInv, drain
  PROVE  /\ Len(addch) \in Nat /\ Len(addch) >= 1 /\ Head(addch) = addch[1] /\ addch[1] \in TraceID
         /\ addch' \in Seq(TraceID) /\ Len(addch') = Len(addch) - 1
         /\ \A i \in 1..Len(addch') : addch'[i] = addch[i + 1]
         /\ current' \in Insert(current, addch[1]) /\ current' \in Filter
         /\ future' \in MaybeFilter /\ (future # <<>> => future' # <<>>)
<1>1. addch \in Seq(TraceID) /\ addch # <<>> /\ addch' = Tail(addch)
  BY DEF drain, DrainOne, CacheInv, TypeOK
<1>2. Len(addch) \in Nat /\ Len(addch) >= 1 /\ Head(addch) = addch[1]
  BY <1>1
<1>3. addch[1] \in TraceID
  <2>1. 1 \in 1..Len(addch)
    BY <1>2
  <2> QED
    BY <1>1, <2>1, ElementOfSeq
<1>4. /\ addch' \in Seq(TraceID) /\ Len(addch') = Len(addch) - 1
      /\ \A i \in 1..Len(addch') : addch'[i] = addch[i + 1]
  BY <1>1, HeadTailProperties
<1>5. current' \in Insert(current, addch[1])
  BY <1>2 DEF drain, DrainOne
<1>6. current' \in Filter
  BY <1>3, <1>5, InsertProperties DEF CacheInv, TypeOK
<1>7. future' \in MaybeFilter /\ (future # <<>> => future' # <<>>)
  <2>1. CASE future = <<>>
    <3>1. future' = <<>>
      BY <2>1 DEF drain, DrainOne
    <3> QED
      BY <2>1, <3>1 DEF MaybeFilter
  <2>2. CASE future # <<>>
    <3>1. PICK f \in Filter : future = <<f>>
      BY <2>2 DEF CacheInv, TypeOK
    <3>2. future[1] = f
      BY <3>1
    <3>3. PICK g \in Insert(f, addch[1]) : future' = <<g>>
      BY <1>2, <2>2, <3>2 DEF drain, DrainOne
    <3>4. g \in Filter
      BY <1>3, InsertProperties
    <3> QED
      BY <3>3, <3>4 DEF MaybeFilter
  <2> QED
    BY <2>1, <2>2
<1> QED
  BY <1>2, <1>3, <1>4, <1>5, <1>6, <1>7

\* Record, CheckSpan, the drain and the monitor goroutines and Resize, in any order,
\* keep the types and what the monitor relies on.
LEMMA CacheStep ==
  ASSUME CacheInv, [Next]_vars
  PROVE  CacheInv'
<1> USE DEF CacheInv
<1>1. ASSUME NEW t \in TraceID, RecordKept(t) PROVE CacheInv'
  <2>1. kept' \in LRU
    BY <1>1, UseType DEF RecordKept, TypeOK
  <2>2. since' \subseteq TraceID
    BY <1>1 DEF RecordKept, Using, TypeOK
  <2>3. UNCHANGED <<recent, addch, waited, current, future, capacity, monitor, load, resize, copy, reloads>>
    BY <1>1 DEF RecordKept, Using, dropVars
  <2> QED
    BY <2>1, <2>2, <2>3 DEF TypeOK, MonitorInv
<1>2. ASSUME NEW t \in TraceID, RecordDropped(t) PROVE CacheInv'
  <2>1. recent' \in [TraceID -> 0..TTL]
    BY <1>2, CacheNumbers DEF RecordDropped, TypeOK
  <2>2. addch' \in Seq(TraceID) /\ Len(addch') <= AddQueueDepth /\ waited' \in 0..Len(addch')
    BY <1>2, CacheNumbers DEF RecordDropped, TypeOK
  <2>3. UNCHANGED <<kept, current, future, capacity, monitor, load, resize, copy, since, reloads>>
    BY <1>2 DEF RecordDropped, resizeVars
  <2> QED
    BY <2>1, <2>2, <2>3 DEF TypeOK, MonitorInv
<1>3. ASSUME NEW t \in TraceID, CheckSpan(t) PROVE CacheInv'
  <2>1. recent' \in [TraceID -> 0..TTL]
    BY <1>3, CacheNumbers DEF CheckSpan, TypeOK
  <2>2. kept' \in LRU
    BY <1>3, UseType DEF CheckSpan, Found, resizeVars, TypeOK
  <2>3. since' \subseteq TraceID /\ UNCHANGED <<resize, copy, reloads>>
    BY <1>3 DEF CheckSpan, Using, resizeVars, TypeOK
  <2>4. UNCHANGED <<addch, waited, current, future, capacity, monitor, load>>
    BY <1>3 DEF CheckSpan
  <2> QED
    BY <2>1, <2>2, <2>3, <2>4 DEF TypeOK, MonitorInv
<1>4. ASSUME drain PROVE CacheInv'
  <2>1. /\ Len(addch) \in Nat /\ Len(addch) >= 1 /\ addch[1] \in TraceID
        /\ addch' \in Seq(TraceID) /\ Len(addch') = Len(addch) - 1
        /\ current' \in Insert(current, addch[1]) /\ current' \in Filter
        /\ future' \in MaybeFilter /\ (future # <<>> => future' # <<>>)
    BY <1>4, DrainEffect
  <2>2. UNCHANGED <<recent, capacity, kept, monitor, load, resize, copy, since, reloads>>
    BY <1>4 DEF drain, DrainOne, resizeVars
  <2>3. Len(addch') <= AddQueueDepth /\ waited' \in 0..Len(addch')
    <3>1. waited \in 0..Len(addch) /\ Len(addch) <= AddQueueDepth /\ waited' = IF waited > 0 THEN waited - 1 ELSE 0
      BY <1>4 DEF drain, DrainOne, TypeOK
    <3> QED
      BY <2>1, <3>1, CacheNumbers
  <2>4. load' = "full" => Cardinality(current'.ids) = current'.cap
    <3>1. current \in Filter
      BY DEF TypeOK
    <3> QED
      BY <2>1, <2>2, <3>1, InsertProperties DEF MonitorInv
  <2>5. TypeOK'
    BY <2>1, <2>2, <2>3 DEF TypeOK, MaybeFilter
  <2> QED
    BY <2>1, <2>2, <2>4, <2>5 DEF MonitorInv
<1>5. ASSUME MaintainLoad PROVE CacheInv'
  <2>1. /\ load' = LoadFactor(current) /\ monitor' = "future"
        /\ UNCHANGED <<kept, recent, addch, waited, current, future, capacity, resize, copy, since, reloads>>
    BY <1>5 DEF MaintainLoad, dropVars, resizeVars
  <2>2. load' \in {"low", "half", "full"} /\ (load' = "full" => Cardinality(current.ids) = current.cap)
    BY <2>1, LoadFull
  <2> QED
    BY <2>1, <2>2 DEF TypeOK, MonitorInv
<1>6. ASSUME MaintainFuture PROVE CacheInv'
  <2>1. /\ monitor' = "cycle"
        /\ UNCHANGED <<kept, recent, addch, waited, current, capacity, load, resize, copy, since, reloads>>
    BY <1>6 DEF MaintainFuture, resizeVars
  <2>2. future' \in MaybeFilter /\ (load # "low" => future' # <<>>)
    <3>1. future' = IF future = <<>> /\ load # "low" THEN <<NewFilter(capacity)>> ELSE future
      BY <1>6 DEF MaintainFuture
    <3>2. NewFilter(capacity) \in Filter /\ future \in MaybeFilter
      BY NewFilterType DEF TypeOK, MaybeFilter
    <3> QED
      BY <3>1, <3>2 DEF MaybeFilter
  <2> QED
    BY <2>1, <2>2 DEF TypeOK, MonitorInv, MaybeFilter
<1>7. ASSUME MaintainCycle PROVE CacheInv'
  <2>1. /\ monitor' = "wait" /\ load' = "low"
        /\ UNCHANGED <<kept, recent, addch, waited, capacity, resize, copy, since, reloads>>
    BY <1>7 DEF MaintainCycle, resizeVars
  <2>2. current' \in Filter /\ future' \in MaybeFilter
    <3>1. CASE load = "full"
      <4>1. future # <<>>
        BY <1>7, <3>1 DEF MaintainCycle, MonitorInv
      <4>2. PICK f \in Filter : future = <<f>>
        BY <4>1 DEF TypeOK
      <4>3. current' = f /\ future' = <<NewFilter(capacity)>>
        BY <1>7, <3>1, <4>2 DEF MaintainCycle, Cycled
      <4>4. NewFilter(capacity) \in Filter
        BY NewFilterType DEF TypeOK
      <4> QED
        BY <4>3, <4>4 DEF MaybeFilter
    <3>2. CASE load # "full"
      BY <1>7, <3>2 DEF MaintainCycle, TypeOK, MaybeFilter
    <3> QED
      BY <3>1, <3>2
  <2> QED
    BY <2>1, <2>2 DEF TypeOK, MonitorInv, MaybeFilter
<1>8. ASSUME NEW n \in KeptSizes, ResizeCopy(n) PROVE CacheInv'
  <2>1. /\ resize' = "copied" /\ reloads' = reloads + 1 /\ reloads < Reloads
        /\ UNCHANGED <<kept, recent, addch, waited, current, future, capacity, monitor, load, since>>
    BY <1>8 DEF ResizeCopy, dropVars
  <2>2. copy' \in LRU
    <3> DEFINE w == Newest(kept.ids, n)
    <3>1. kept.ids \in Seq(TraceID) /\ IsInjective(kept.ids)
      BY DEF TypeOK, LRU
    <3>2. w \in Seq(TraceID) /\ IsInjective(w) /\ Len(w) <= n
      BY <3>1, CacheNumbers, NewestProperties
    <3>3. copy' = [ids |-> w, cap |-> n]
      BY <1>8 DEF ResizeCopy
    <3> HIDE DEF w
    <3>4. copy' \in [ids : Seq(TraceID), cap : KeptSizes] /\ copy'.ids = w /\ copy'.cap = n
      BY <3>2, <3>3
    <3> QED
      BY <3>2, <3>4 DEF LRU
  <2>3. reloads' \in 0..Reloads
    BY <2>1, CacheNumbers DEF TypeOK
  <2> QED
    BY <2>1, <2>2, <2>3 DEF TypeOK, MonitorInv
<1>9. ASSUME NEW n \in DroppedSizes, ResizeSwap(n) PROVE CacheInv'
  <2>1. /\ resize' = "swapped" /\ kept' = copy /\ capacity' = n /\ since' = {}
        /\ UNCHANGED <<recent, addch, waited, current, future, monitor, load, reloads>>
    BY <1>9 DEF ResizeSwap
  <2>2. copy' \in LRU
    <3> DEFINE Nil == <<>>
    <3>1. Nil \in Seq(TraceID) /\ IsInjective(Nil) /\ Len(Nil) = 0
      BY DEF IsInjective
    <3>2. copy' = [copy EXCEPT !.ids = Nil]
      BY <1>9 DEF ResizeSwap
    <3>3. copy \in [ids : Seq(TraceID), cap : KeptSizes]
      BY DEF TypeOK, LRU
    <3> HIDE DEF Nil
    <3>4. copy' \in [ids : Seq(TraceID), cap : KeptSizes] /\ copy'.ids = Nil /\ copy'.cap \in KeptSizes
      BY <3>1, <3>2, <3>3
    <3>5. Len(copy'.ids) <= copy'.cap
      BY <3>1, <3>4, CacheNumbers
    <3> QED
      BY <3>1, <3>4, <3>5 DEF LRU
  <2> QED
    BY <2>1, <2>2 DEF TypeOK, MonitorInv
<1>10. ASSUME ResizeStopMonitor PROVE CacheInv'
  BY <1>10 DEF ResizeStopMonitor, dropVars, resizeVars, TypeOK, MonitorInv
<1>11. ASSUME ResizeStartMonitor PROVE CacheInv'
  BY <1>11 DEF ResizeStartMonitor, dropVars, TypeOK, MonitorInv
<1>12. ASSUME Tick PROVE CacheInv'
  <2>1. recent' \in [TraceID -> 0..TTL]
    BY <1>12, CacheNumbers DEF Tick, TypeOK
  <2>2. waited' \in 0..Len(addch)
    BY <1>12 DEF Tick, TypeOK
  <2>3. UNCHANGED <<addch, current, future, capacity, kept, monitor, load, resize, copy, since, reloads>>
    BY <1>12 DEF Tick, resizeVars
  <2> QED
    BY <2>1, <2>2, <2>3 DEF TypeOK, MonitorInv
<1>13. ASSUME UNCHANGED vars PROVE CacheInv'
  BY <1>13 DEF vars, dropVars, resizeVars, TypeOK, MonitorInv
<1> QED
  BY <1>1, <1>2, <1>3, <1>4, <1>5, <1>6, <1>7, <1>8, <1>9, <1>10, <1>11, <1>12, <1>13, Zenon DEF Next

\* The sample cache stays well formed: no ID is twice in an LRU, neither an LRU nor a
\* filter nor the queue holds more than its capacity, and the current filter is there.
THEOREM CacheTypes == Spec => []TypeOK
<1>1. Init => CacheInv
  BY CacheInit
<1>2. CacheInv /\ [Next]_vars => CacheInv'
  BY CacheStep
<1>3. CacheInv => TypeOK
  BY DEF CacheInv
<1> QED
  BY <1>1, <1>2, <1>3, PTL DEF Spec

-----------------------------------------------------------------------------
(* The queue: recentDroppedIDs holds every entry for longer than it waits.    *)

QueueInv ==
  \A i \in 1..Len(addch) : /\ recent[addch[i]] >= TTL - 1
                           /\ i > waited => recent[addch[i]] = TTL

\* The entries of the queue, and what is left of their time.
LEMMA QueueTypes ==
  ASSUME TypeOK
  PROVE  /\ Len(addch) \in Nat /\ waited \in Nat /\ waited <= Len(addch) /\ DOMAIN addch = 1..Len(addch)
         /\ \A i \in 1..Len(addch) : addch[i] \in TraceID /\ recent[addch[i]] \in 0..TTL
<1>1. addch \in Seq(TraceID) /\ waited \in 0..Len(addch) /\ recent \in [TraceID -> 0..TTL]
  BY DEF TypeOK
<1>2. Len(addch) \in Nat /\ DOMAIN addch = 1..Len(addch)
  BY <1>1, LenProperties
<1>3. \A i \in 1..Len(addch) : addch[i] \in TraceID
  BY <1>1, ElementOfSeq
<1>4. waited \in Nat /\ waited <= Len(addch)
  BY <1>1, <1>2
<1> QED
  BY <1>1, <1>2, <1>3, <1>4

\* Refreshing an ID keeps the invariant.
LEMMA RefreshQueue ==
  ASSUME TypeOK, QueueInv, NEW t \in TraceID, NEW r, r = [recent EXCEPT ![t] = TTL], NEW i \in 1..Len(addch)
  PROVE  r[addch[i]] >= TTL - 1 /\ (i > waited => r[addch[i]] = TTL)
<1>1. addch[i] \in TraceID /\ recent[addch[i]] >= TTL - 1 /\ (i > waited => recent[addch[i]] = TTL)
  BY QueueTypes DEF QueueInv
<1>2. r[addch[i]] = IF addch[i] = t THEN TTL ELSE recent[addch[i]]
  BY <1>1 DEF TypeOK
<1> QED
  BY <1>1, <1>2, CacheNumbers

\* An ID gets its full time when it is queued, and no tick passes over an entry that
\* has waited for one already.
LEMMA QueueStep ==
  ASSUME CacheInv, QueueInv, [Next]_vars
  PROVE  QueueInv'
<1> USE DEF CacheInv
<1>1. ASSUME UNCHANGED <<recent, addch, waited>> PROVE QueueInv'
  BY <1>1 DEF QueueInv
<1>2. ASSUME NEW t \in TraceID, RecordDropped(t) PROVE QueueInv'
  <2>1. /\ recent' = [recent EXCEPT ![t] = TTL] /\ waited' = waited
        /\ addch' = IF Len(addch) < AddQueueDepth THEN Append(addch, t) ELSE addch
    BY <1>2 DEF RecordDropped
  <2> SUFFICES ASSUME NEW i \in 1..Len(addch')
               PROVE  recent'[addch'[i]] >= TTL - 1 /\ (i > waited' => recent'[addch'[i]] = TTL)
    BY DEF QueueInv
  <2>2. CASE i \in 1..Len(addch)
    <3>1. addch'[i] = addch[i]
      BY <2>1, <2>2 DEF TypeOK
    <3> QED
      BY <2>1, <2>2, <3>1, RefreshQueue
  <2>3. CASE i \notin 1..Len(addch)
    <3>1. addch'[i] = t
      BY <2>1, <2>3, QueueTypes DEF TypeOK
    <3>2. recent'[t] = TTL
      BY <2>1 DEF TypeOK
    <3> QED
      BY <3>1, <3>2, CacheNumbers
  <2> QED
    BY <2>2, <2>3
<1>3. ASSUME NEW t \in TraceID, CheckSpan(t) PROVE QueueInv'
  <2>1. addch' = addch /\ waited' = waited /\ (recent' = [recent EXCEPT ![t] = TTL] \/ recent' = recent)
    BY <1>3, Zenon DEF CheckSpan
  <2> SUFFICES ASSUME recent' = [recent EXCEPT ![t] = TTL] PROVE QueueInv'
    BY <1>1, <2>1
  <2> QED
    BY <2>1, RefreshQueue DEF QueueInv
<1>4. ASSUME drain PROVE QueueInv'
  <2>1. /\ Len(addch) \in Nat /\ Len(addch) >= 1 /\ Len(addch') = Len(addch) - 1
        /\ \A i \in 1..Len(addch') : addch'[i] = addch[i + 1]
    BY <1>4, DrainEffect
  <2>2. recent' = recent /\ waited' = IF waited > 0 THEN waited - 1 ELSE 0
    BY <1>4 DEF drain, DrainOne
  <2> SUFFICES ASSUME NEW i \in 1..Len(addch')
               PROVE  recent'[addch'[i]] >= TTL - 1 /\ (i > waited' => recent'[addch'[i]] = TTL)
    BY DEF QueueInv
  <2>3. i + 1 \in 1..Len(addch) /\ (i > waited' => i + 1 > waited)
    BY <2>1, <2>2, QueueTypes
  <2> QED
    BY <2>1, <2>2, <2>3 DEF QueueInv
<1>5. ASSUME Tick PROVE QueueInv'
  <2>1. /\ waited = 0 /\ waited' = Len(addch) /\ addch' = addch
        /\ recent' = [t \in TraceID |-> IF recent[t] > 0 THEN recent[t] - 1 ELSE 0]
    BY <1>5 DEF Tick
  <2> SUFFICES ASSUME NEW i \in 1..Len(addch)
               PROVE  recent'[addch[i]] >= TTL - 1 /\ ~(i > waited')
    BY <2>1 DEF QueueInv
  <2>2. i > waited /\ ~(i > Len(addch))
    BY <2>1, QueueTypes
  <2>3. recent[addch[i]] = TTL /\ addch[i] \in TraceID
    BY <2>2, QueueTypes DEF QueueInv
  <2>4. recent'[addch[i]] = TTL - 1
    BY <2>1, <2>3, CacheNumbers
  <2> QED
    BY <2>1, <2>2, <2>4, CacheNumbers
<1>6. ASSUME NEW t \in TraceID, RecordKept(t) PROVE QueueInv'
  BY <1>1, <1>6, Zenon DEF RecordKept, dropVars
<1>7. ASSUME MaintainLoad \/ MaintainFuture \/ MaintainCycle PROVE QueueInv'
  BY <1>1, <1>7, Zenon DEF MaintainLoad, MaintainFuture, MaintainCycle, dropVars
<1>8. ASSUME NEW n \in KeptSizes, ResizeCopy(n) PROVE QueueInv'
  BY <1>1, <1>8, Zenon DEF ResizeCopy, dropVars
<1>9. ASSUME NEW n \in DroppedSizes, ResizeSwap(n) PROVE QueueInv'
  BY <1>1, <1>9, Zenon DEF ResizeSwap
<1>10. ASSUME ResizeStopMonitor \/ ResizeStartMonitor PROVE QueueInv'
  BY <1>1, <1>10, Zenon DEF ResizeStopMonitor, ResizeStartMonitor, dropVars
<1>11. ASSUME UNCHANGED vars PROVE QueueInv'
  BY <1>1, <1>11, Zenon DEF vars, dropVars
<1> QED
  BY <1>2, <1>3, <1>4, <1>5, <1>6, <1>7, <1>8, <1>9, <1>10, <1>11, Zenon DEF Next

\* An entry of the queue has time left, and is answered as dropped.
LEMMA QueuedIsRecent ==
  ASSUME TypeOK, QueueInv, NEW t \in ToSet(addch)
  PROVE  t \in TraceID /\ recent[t] \in Nat /\ recent[t] > 0 /\ recent[t] >= TTL - 1 /\ Dropped(t)
<1>1. PICK i \in 1..Len(addch) : t = addch[i]
  BY QueueTypes DEF ToSet
<1>2. t \in TraceID /\ recent[t] \in 0..TTL /\ recent[t] >= TTL - 1
  BY <1>1, QueueTypes DEF QueueInv
<1> QED
  BY <1>2, CacheNumbers DEF Dropped

\* Initially nothing is queued.
LEMMA QueueInit == Init => CacheInv /\ QueueInv
<1>1. Init => QueueInv
  BY DEF Init, QueueInv
<1> QED
  BY <1>1, CacheInit

\* CheckSpan answers "dropped" for every ID that Record has queued for the filters:
\* recentDroppedIDs covers the time until the drain goroutine gets to it.
THEOREM QueuedVisible == Spec => []QueuedDropsVisible
<1> DEFINE I == CacheInv /\ QueueInv
<1>1. Init => I
  BY QueueInit
<1>2. I /\ [Next]_vars => I'
  BY CacheStep, QueueStep
<1>3. I => QueuedDropsVisible
  BY QueuedIsRecent DEF CacheInv, QueuedDropsVisible
<1> QED
  BY <1>1, <1>2, <1>3, PTL DEF Spec

-----------------------------------------------------------------------------
(* Drop records: what a step may forget.                                      *)

\* The current filter is full, or the ID is neither in it nor on its way there.
Excused(t) ==
  \/ t \notin current.ids \cup ToSet(addch)
  \/ /\ LoadFactor(current) = "full"
     /\ monitor' # monitor => t \notin future[1].ids

\* Only a filter that is full makes the cache forget an ID of the filter or the queue.
LEMMA ForgettingStep ==
  ASSUME CacheInv, QueueInv, [Next]_vars, NEW t \in TraceID, Dropped(t), ~Dropped(t)'
  PROVE  Excused(t)
<1> USE DEF CacheInv
<1>1. ASSUME UNCHANGED <<recent, current>> PROVE FALSE
  BY <1>1 DEF Dropped
<1>2. recent'[t] <= 0 \/ ~(recent'[t] > 0)
  BY DEF Dropped
<1>3. ASSUME NEW u \in TraceID, recent' = [recent EXCEPT ![u] = TTL], current' = current PROVE FALSE
  <2>1. recent'[t] = IF t = u THEN TTL ELSE recent[t]
    BY <1>3 DEF TypeOK
  <2> QED
    BY <1>3, <2>1, CacheNumbers DEF Dropped
<1>4. ASSUME NEW u \in TraceID, RecordDropped(u) PROVE Excused(t)
  BY <1>3, <1>4 DEF RecordDropped
<1>5. ASSUME NEW u \in TraceID, CheckSpan(u) PROVE Excused(t)
  <2>1. current' = current /\ (recent' = [recent EXCEPT ![u] = TTL] \/ recent' = recent)
    BY <1>5, Zenon DEF CheckSpan
  <2> QED
    BY <1>1, <1>3, <2>1
<1>6. ASSUME drain PROVE Excused(t)
  <2>1. recent' = recent
    BY <1>6 DEF drain, DrainOne
  <2>2. ~(recent[t] > 0) /\ t \in current.ids /\ t \notin current'.ids
    BY <2>1 DEF Dropped
  <2>3. monitor' = monitor
    BY <1>6 DEF drain
  <2>4. addch[1] \in TraceID /\ current' \in Insert(current, addch[1])
    BY <1>6, DrainEffect
  <2>5. Cardinality(current.ids) = current.cap
    BY <2>2, <2>4, InsertProperties DEF TypeOK
  <2>6. LoadFactor(current) = "full"
    BY <2>5, LoadFull
  <2> QED
    BY <2>3, <2>6 DEF Excused
<1>7. ASSUME MaintainCycle PROVE Excused(t)
  <2>1. load = "full"
    BY <1>1, <1>7 DEF MaintainCycle
  <2>2. LoadFactor(current) = "full"
    BY <2>1, LoadFull DEF MonitorInv
  <2>3. current' = future[1]
    BY <1>7, <2>1 DEF MaintainCycle, Cycled
  <2>4. t \notin future[1].ids
    BY <2>3 DEF Dropped
  <2> QED
    BY <2>2, <2>4 DEF Excused
<1>8. ASSUME Tick PROVE Excused(t)
  <2>1. current' = current /\ recent'[t] = IF recent[t] > 0 THEN recent[t] - 1 ELSE 0
    BY <1>8 DEF Tick
  <2>2. t \notin current.ids /\ ~(recent'[t] > 0)
    BY <2>1 DEF Dropped
  <2>3. t \notin ToSet(addch)
    <3> SUFFICES ASSUME t \in ToSet(addch) PROVE FALSE
      OBVIOUS
    <3>1. PICK i \in 1..Len(addch) : t = addch[i]
      BY QueueTypes DEF ToSet
    <3>2. i > waited
      BY <1>8, QueueTypes DEF Tick
    <3>3. recent[t] = TTL
      BY <3>1, <3>2 DEF QueueInv
    <3> QED
      BY <2>1, <2>2, <3>3, CacheNumbers
  <2> QED
    BY <2>2, <2>3 DEF Excused
<1>9. ASSUME NEW u \in TraceID, RecordKept(u) PROVE Excused(t)
  BY <1>1, <1>9, Zenon DEF RecordKept, dropVars
<1>10. ASSUME MaintainLoad \/ MaintainFuture PROVE Excused(t)
  BY <1>1, <1>10, Zenon DEF MaintainLoad, MaintainFuture, dropVars
<1>11. ASSUME NEW n \in KeptSizes, ResizeCopy(n) PROVE Excused(t)
  BY <1>1, <1>11, Zenon DEF ResizeCopy, dropVars
<1>12. ASSUME NEW n \in DroppedSizes, ResizeSwap(n) PROVE Excused(t)
  BY <1>1, <1>12, Zenon DEF ResizeSwap
<1>13. ASSUME ResizeStopMonitor \/ ResizeStartMonitor PROVE Excused(t)
  BY <1>1, <1>13, Zenon DEF ResizeStopMonitor, ResizeStartMonitor, dropVars
<1>14. ASSUME UNCHANGED vars PROVE Excused(t)
  BY <1>1, <1>14, Zenon DEF vars, dropVars
<1> QED
  BY <1>4, <1>5, <1>6, <1>7, <1>8, <1>9, <1>10, <1>11, <1>12, <1>13, <1>14, Zenon DEF Next

\* No interleaving of Record, the drain, Maintain and Resize loses a drop record while
\* the current filter has room, nor one of the future filter when that takes over.
THEOREM DropsPersist == Spec => DropRecordsPersist
<1> DEFINE I == CacheInv /\ QueueInv
           A == \A t \in TraceID :
                  Dropped(t) /\ ~Dropped(t)' =>
                    \/ t \notin current.ids \cup ToSet(addch)
                    \/ /\ LoadFactor(current) = "full"
                       /\ monitor' # monitor => t \notin future[1].ids
<1>1. Init => I
  BY QueueInit
<1>2. I /\ [Next]_vars => I'
  BY CacheStep, QueueStep
<1>3. I /\ [Next]_vars => [A]_vars
  BY ForgettingStep DEF Excused
<1> QED
  BY <1>1, <1>2, <1>3, PTL DEF Spec, DropRecordsPersist

-----------------------------------------------------------------------------
(* Resize: between its copy and its swap, what the LRU holds is in the copy,  *)
(* was used since, or is too old for the new size.                            *)

Covered(c, x, age) == Contains(c.ids, x) \/ x \in since \/ age >= c.cap

CopyInv ==
  resize = "copied" =>
    \A i \in 1..Len(kept.ids) : Covered(copy, kept.ids[i], Len(kept.ids) - i)

\* Using an ID ages the others only.
LEMMA UseAges ==
  ASSUME NEW s \in Seq(TraceID), IsInjective(s), NEW t \in TraceID, NEW n \in Nat, n > 0
  PROVE  /\ \A j \in 1..Len(Touch(s, t)) :
              \/ Touch(s, t)[j] = t
              \/ \E i \in 1..Len(s) : s[i] = Touch(s, t)[j] /\ Len(Touch(s, t)) - j >= Len(s) - i
         /\ \A j \in 1..Len(Newest(Touch(s, t), n)) :
              \/ Newest(Touch(s, t), n)[j] = t
              \/ \E i \in 1..Len(s) : /\ s[i] = Newest(Touch(s, t), n)[j]
                                       /\ Len(Newest(Touch(s, t), n)) - j >= Len(s) - i
<1> DEFINE u == Touch(s, t)
           w == Newest(u, n)
<1>1. /\ u \in Seq(TraceID) /\ IsInjective(u)
      /\ \A j \in 1..Len(u) : u[j] = t \/ \E i \in 1..Len(s) : s[i] = u[j] /\ Len(u) - j >= Len(s) - i
  BY TouchProperties
<1> HIDE DEF u
<1>2. \A j \in 1..Len(w) : \E i \in 1..Len(u) : u[i] = w[j] /\ Len(w) - j = Len(u) - i
  BY <1>1, NewestProperties
<1> HIDE DEF w
<1>3. ASSUME NEW j \in 1..Len(w)
      PROVE  w[j] = t \/ \E i \in 1..Len(s) : s[i] = w[j] /\ Len(w) - j >= Len(s) - i
  <2>1. PICK k \in 1..Len(u) : u[k] = w[j] /\ Len(w) - j = Len(u) - k
    BY <1>2
  <2>2. u[k] = t \/ \E i \in 1..Len(s) : s[i] = u[k] /\ Len(u) - k >= Len(s) - i
    BY <1>1
  <2> QED
    BY <2>1, <2>2
<1> QED
  BY <1>1, <1>3 DEF u, w

\* A list whose entries have only aged, but for one that was used, is covered.
LEMMA AgedCovered ==
  ASSUME TypeOK, CopyInv, resize = "copied", NEW t \in TraceID, since' = since \cup {t},
         copy' = copy, NEW w \in Seq(TraceID),
         \A j \in 1..Len(w) :
           w[j] = t \/ \E i \in 1..Len(kept.ids) : kept.ids[i] = w[j] /\ Len(w) - j >= Len(kept.ids) - i,
         NEW j \in 1..Len(w)
  PROVE  Contains(copy'.ids, w[j]) \/ w[j] \in since' \/ Len(w) - j >= copy'.cap
<1>1. CASE w[j] = t
  BY <1>1
<1>2. CASE w[j] # t
  <2>1. PICK i \in 1..Len(kept.ids) : kept.ids[i] = w[j] /\ Len(w) - j >= Len(kept.ids) - i
    BY <1>2
  <2>2. Contains(copy.ids, w[j]) \/ w[j] \in since \/ Len(kept.ids) - i >= copy.cap
    BY <2>1 DEF CopyInv, Covered
  <2>3. kept.ids \in Seq(TraceID) /\ copy.cap \in Nat
    BY CacheNumbers DEF TypeOK, LRU
  <2>4. Len(kept.ids) \in Nat /\ Len(w) \in Nat
    BY <2>3, LenProperties
  <2>5. Len(kept.ids) - i >= copy.cap => Len(w) - j >= copy.cap
    BY <2>1, <2>3, <2>4
  <2> QED
    BY <2>2, <2>5
<1> QED
  BY <1>1, <1>2

\* While Resize works, Record and CheckSpan only age the entries they do not use.
LEMMA CopyStep ==
  ASSUME CacheInv, CopyInv, [Next]_vars
  PROVE  CopyInv'
<1> USE DEF CacheInv
<1>1. ASSUME UNCHANGED <<kept, copy, since, resize>> PROVE CopyInv'
  BY <1>1 DEF CopyInv, Covered
<1>2. ASSUME resize' # "copied" PROVE CopyInv'
  BY <1>2 DEF CopyInv
<1>3. /\ kept \in [ids : Seq(TraceID), cap : KeptSizes] /\ kept.ids \in Seq(TraceID)
      /\ IsInjective(kept.ids) /\ kept.cap \in Nat /\ kept.cap > 0
  BY CacheNumbers DEF TypeOK, LRU
<1>4. ASSUME NEW t \in TraceID, RecordKept(t) PROVE CopyInv'
  <2> DEFINE w == Newest(Touch(kept.ids, t), kept.cap)
  <2>1. kept' = [kept EXCEPT !.ids = w] /\ copy' = copy /\ resize' = resize
        /\ since' = IF resize = "copied" THEN since \cup {t} ELSE since
    BY <1>4 DEF RecordKept, Using
  <2>2. \A j \in 1..Len(w) :
          w[j] = t \/ \E i \in 1..Len(kept.ids) : kept.ids[i] = w[j] /\ Len(w) - j >= Len(kept.ids) - i
    BY <1>3, UseAges
  <2>3. w \in Seq(TraceID)
    BY <1>3, TouchProperties, NewestProperties
  <2> HIDE DEF w
  <2>4. kept'.ids = w
    BY <1>3, <2>1
  <2> SUFFICES ASSUME resize = "copied", NEW j \in 1..Len(w)
               PROVE  Contains(copy'.ids, w[j]) \/ w[j] \in since' \/ Len(w) - j >= copy'.cap
    BY <2>1, <2>4 DEF CopyInv, Covered
  <2> QED
    BY <2>1, <2>2, <2>3, AgedCovered
<1>5. ASSUME NEW t \in TraceID, CheckSpan(t) PROVE CopyInv'
  <2> DEFINE w == Touch(kept.ids, t)
  <2>1. CASE Dropped(t)
    BY <1>1, <1>5, <2>1, Zenon DEF CheckSpan, resizeVars
  <2>2. CASE ~Dropped(t)
    <3>1. kept' = [kept EXCEPT !.ids = w] /\ copy' = copy /\ resize' = resize
          /\ since' = IF resize = "copied" THEN since \cup {t} ELSE since
      BY <1>5, <2>2 DEF CheckSpan, Using
    <3>2. \A j \in 1..Len(w) :
            w[j] = t \/ \E i \in 1..Len(kept.ids) : kept.ids[i] = w[j] /\ Len(w) - j >= Len(kept.ids) - i
      BY <1>3, UseAges
    <3>3. w \in Seq(TraceID)
      BY <1>3, TouchProperties
    <3> HIDE DEF w
    <3>4. kept'.ids = w
      BY <1>3, <3>1
    <3> SUFFICES ASSUME resize = "copied", NEW j \in 1..Len(w)
                 PROVE  Contains(copy'.ids, w[j]) \/ w[j] \in since' \/ Len(w) - j >= copy'.cap
      BY <3>1, <3>4 DEF CopyInv, Covered
    <3> QED
      BY <3>1, <3>2, <3>3, AgedCovered
  <2> QED
    BY <2>1, <2>2
<1>6. ASSUME NEW n \in KeptSizes, ResizeCopy(n) PROVE CopyInv'
  <2>1. kept' = kept /\ copy' = [ids |-> Newest(kept.ids, n), cap |-> n]
    BY <1>6 DEF ResizeCopy
  <2>2. \A i \in 1..Len(kept.ids) : Len(kept.ids) - i < n => Contains(Newest(kept.ids, n), kept.ids[i])
    BY <1>3, CacheNumbers, NewestProperties
  <2>3. copy'.ids = Newest(kept.ids, n) /\ copy'.cap = n /\ n \in Nat
    BY <2>1, CacheNumbers
  <2>4. \A i \in 1..Len(kept.ids) : Contains(copy'.ids, kept.ids[i]) \/ Len(kept.ids) - i >= copy'.cap
    <3> SUFFICES ASSUME NEW i \in 1..Len(kept.ids), ~(Len(kept.ids) - i >= n)
                 PROVE  Contains(Newest(kept.ids, n), kept.ids[i])
      BY <2>3
    <3>1. Len(kept.ids) \in Nat
      BY <1>3, LenProperties
    <3>2. Len(kept.ids) - i < n
      BY <2>3, <3>1
    <3> QED
      BY <2>2, <3>2
  <2> QED
    BY <2>1, <2>4 DEF CopyInv, Covered
<1>7. ASSUME NEW n \in DroppedSizes, ResizeSwap(n) PROVE CopyInv'
  BY <1>2, <1>7 DEF ResizeSwap
<1>8. ASSUME ResizeStartMonitor PROVE CopyInv'
  BY <1>2, <1>8 DEF ResizeStartMonitor
<1>9. ASSUME NEW t \in TraceID, RecordDropped(t) PROVE CopyInv'
  BY <1>1, <1>9, Zenon DEF RecordDropped, resizeVars
<1>10. ASSUME drain PROVE CopyInv'
  BY <1>1, <1>10, Zenon DEF drain, resizeVars
<1>11. ASSUME MaintainLoad \/ MaintainFuture \/ MaintainCycle PROVE CopyInv'
  BY <1>1, <1>11, Zenon DEF MaintainLoad, MaintainFuture, MaintainCycle, resizeVars
<1>12. ASSUME ResizeStopMonitor PROVE CopyInv'
  BY <1>1, <1>12, Zenon DEF ResizeStopMonitor, resizeVars
<1>13. ASSUME Tick PROVE CopyInv'
  BY <1>1, <1>13, Zenon DEF Tick, resizeVars
<1>14. ASSUME UNCHANGED vars PROVE CopyInv'
  BY <1>1, <1>14, Zenon DEF vars, resizeVars
<1> QED
  BY <1>4, <1>5, <1>6, <1>7, <1>8, <1>9, <1>10, <1>11, <1>12, <1>13, <1>14, Zenon DEF Next

\* The step that swaps installs the copy.
LEMMA SwapStep ==
  ASSUME CacheInv, CopyInv, [Next]_vars, resize = "copied", resize' = "swapped",
         NEW i \in DOMAIN kept.ids, ~Contains(kept'.ids, kept.ids[i])
  PROVE  kept.ids[i] \in since \/ Len(kept.ids) - i >= kept'.cap
<1>1. resize' # resize
  OBVIOUS
<1>2. \E n \in DroppedSizes : ResizeSwap(n)
  <2>1. \A t \in TraceID : ~RecordKept(t) /\ ~RecordDropped(t) /\ ~CheckSpan(t)
    BY <1>1, Zenon DEF RecordKept, RecordDropped, CheckSpan, Using, resizeVars
  <2>2. ~drain /\ ~MaintainLoad /\ ~MaintainFuture /\ ~MaintainCycle /\ ~Tick /\ ~UNCHANGED vars
    BY <1>1, Zenon DEF drain, MaintainLoad, MaintainFuture, MaintainCycle, Tick, vars, resizeVars
  <2>3. \A n \in KeptSizes : ~ResizeCopy(n)
    BY DEF ResizeCopy
  <2>4. ~ResizeStopMonitor /\ ~ResizeStartMonitor
    BY DEF ResizeStopMonitor, ResizeStartMonitor
  <2> QED
    BY <2>1, <2>2, <2>3, <2>4, Zenon DEF Next
<1>3. kept' = copy
  BY <1>2 DEF ResizeSwap
<1>4. i \in 1..Len(kept.ids)
  BY LenProperties DEF CacheInv, TypeOK, LRU
<1> QED
  BY <1>3, <1>4 DEF CopyInv, Covered

\* Resize forgets none of the newest kept traces that fit into the new LRU, but those
\* that were used between its copy and its swap.
THEOREM ResizeKeeps == Spec => ResizeKeepsNewest
<1> DEFINE I == CacheInv /\ CopyInv
           A == \A i \in DOMAIN kept.ids :
                  /\ resize = "copied" /\ resize' = "swapped"
                  /\ ~Contains(kept'.ids, kept.ids[i])
                  => kept.ids[i] \in since \/ Len(kept.ids) - i >= kept'.cap
<1>1. Init => I
  BY CacheInit DEF Init, CopyInv
<1>2. I /\ [Next]_vars => I'
  BY CacheStep, CopyStep
<1>3. I /\ [Next]_vars => [A]_vars
  BY SwapStep
<1> QED
  BY <1>1, <1>2, <1>3, PTL DEF Spec, ResizeKeepsNewest

============================================================================
