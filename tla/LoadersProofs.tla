--------------------------- MODULE LoadersProofs ---------------------------
(***************************************************************************)
(* The safety of the SPSC queues behind a loader, for any number of        *)
(* queues, any capacity and any number of loads.                           *)
(***************************************************************************)
EXTENDS LoadersInvariant, Integers, FiniteSetTheorems, WellFoundedInduction, TLAPS

-----------------------------------------------------------------------------
(* Arithmetic of the ring. *)

\* A number is its quotient times Capacity plus its slot.
LEMMA DivMod ==
  ASSUME NEW a \in Nat
  PROVE  /\ a = Capacity * (a \div Capacity) + (a % Capacity)
         /\ a % Capacity \in 0 .. Capacity - 1
         /\ a \div Capacity \in Nat
  BY SpscAssumption

\* Quotient and remainder are unique.
LEMMA DivModUnique ==
  ASSUME NEW q \in Nat, NEW r \in 0 .. Capacity - 1, NEW p \in Nat,
         NEW s \in 0 .. Capacity - 1, Capacity * q + r = Capacity * p + s
  PROVE  q = p /\ r = s
<1>1. ASSUME NEW x \in Nat, NEW y \in Nat, x < y
      PROVE  Capacity * x + Capacity <= Capacity * y
  <2>1. PICK k \in Nat : y = x + 1 + k
    <3>1. y - x - 1 \in Nat /\ y = x + 1 + (y - x - 1)
      BY <1>1
    <3>2. QED
      BY <3>1
  <2>2. Capacity * y = Capacity * x + Capacity + Capacity * k
    BY <2>1, SpscAssumption
  <2>3. Capacity * k \in Nat /\ Capacity * x \in Nat
    BY SpscAssumption
  <2>4. QED
    BY <2>2, <2>3, SpscAssumption
<1>2. Capacity * q \in Nat /\ Capacity * p \in Nat
  BY SpscAssumption
<1>3. ~(q < p) /\ ~(p < q)
  BY <1>1, <1>2, SpscAssumption
<1>4. QED
  BY <1>2, <1>3

\* The slot after that of a is the slot of a + 1: advancing tail step by step
\* reaches the slots head reaches, which is reduced only when it is used.
LEMMA NextSlot ==
  ASSUME NEW a \in Nat
  PROVE  ((a % Capacity) + 1) % Capacity = (a + 1) % Capacity
<1> DEFINE q == a \div Capacity
           p == (a + 1) \div Capacity
           r == a % Capacity
           s == (a + 1) % Capacity
<1>1. a = Capacity * q + r /\ r \in 0 .. Capacity - 1 /\ q \in Nat
  BY DivMod
<1>2. a + 1 = Capacity * p + s /\ s \in 0 .. Capacity - 1 /\ p \in Nat
  BY DivMod
<1> HIDE DEF q, p, r, s
<1>3. Capacity * q \in Nat /\ Capacity * p \in Nat /\ Capacity * (q + 1) = Capacity * q + Capacity
  BY <1>1, <1>2, SpscAssumption
<1>4. CASE r + 1 < Capacity
  <2>1. r + 1 \in 0 .. Capacity - 1 /\ Capacity * q + (r + 1) = Capacity * p + s
    BY <1>1, <1>2, <1>3, <1>4, SpscAssumption
  <2>2. s = r + 1
    BY <1>1, <1>2, <2>1, DivModUnique
  <2>3. (r + 1) % Capacity = r + 1
    BY <2>1, SpscAssumption
  <2>4. QED
    BY <2>2, <2>3 DEF r, s
<1>5. CASE r + 1 = Capacity
  <2>1. 0 \in 0 .. Capacity - 1 /\ Capacity * (q + 1) + 0 = Capacity * p + s
    BY <1>1, <1>2, <1>3, <1>5, SpscAssumption
  <2>2. s = 0
    BY <1>1, <1>2, <2>1, DivModUnique
  <2>3. (r + 1) % Capacity = 0
    BY <1>5, SpscAssumption
  <2>4. QED
    BY <2>2, <2>3 DEF r, s
<1>6. QED
  BY <1>1, <1>4, <1>5, SpscAssumption

-----------------------------------------------------------------------------
(* The number of loads that ended on any queue. *)

Chosen(s) == CHOOSE x \in s : TRUE

\* g sums f over every set of queues.
IsTotal(g, f) ==
  g = [s \in SUBSET Queues |->
         IF s = {} THEN 0 ELSE f[Chosen(s)] + g[s \ {Chosen(s)}]]

Total(f) == MapThenSumSet(LAMBDA q : f[q], Queues)

LEMMA QueueSets ==
  ASSUME NEW s \in SUBSET Queues
  PROVE  /\ IsFiniteSet(s) /\ Cardinality(s) \in Nat /\ (Cardinality(s) = 0 => s = {})
         /\ \A x \in s : Cardinality(s \ {x}) = Cardinality(s) - 1
<1>1. IsFiniteSet(Queues)
  BY SpscAssumption, FS_Interval DEF Queues
<1>2. IsFiniteSet(s) /\ Cardinality(s) \in Nat
  BY <1>1, FS_Subset, FS_CardinalityType
<1>3. QED
  BY <1>2, FS_EmptySet, FS_RemoveElement

\* A nonempty set of natural numbers has a member whose predecessor it lacks.
LEMMA LeastNat ==
  ASSUME NEW S \in SUBSET Nat, S # {}
  PROVE  \E n \in S : n - 1 \notin S
<1>1. PICK n \in S : \A y \in S : ~(<<y, n>> \in OpToRel(<, Nat))
  BY NatLessThanWellFounded, WFMin
<1>2. ASSUME n - 1 \in S PROVE FALSE
  <2>1. <<n - 1, n>> \in OpToRel(<, Nat)
    BY <1>2 DEF OpToRel
  <2>2. QED
    BY <1>1, <1>2, <2>1, Zenon
<1>3. QED
  BY <1>2

\* A nonempty set of sets of queues has a member that loses membership with
\* any of its elements.
LEMMA LeastSet ==
  ASSUME NEW B \in SUBSET SUBSET Queues, B # {}
  PROVE  \E s \in B : \A x \in s : s \ {x} \notin B
<1> DEFINE N == {Cardinality(s) : s \in B}
<1>1. N \in SUBSET Nat /\ N # {}
  BY QueueSets
<1> HIDE DEF N
<1>2. PICK n \in N : n - 1 \notin N
  BY <1>1, LeastNat
<1>3. PICK s \in B : n = Cardinality(s)
  BY DEF N
<1>4. ASSUME NEW x \in s, s \ {x} \in B PROVE FALSE
  <2>1. Cardinality(s \ {x}) = n - 1
    BY <1>3, QueueSets
  <2>2. QED
    BY <1>2, <1>4, <2>1 DEF N
<1>5. QED
  BY <1>4

LEMMA ChosenIn ==
  ASSUME NEW s, s # {}
  PROVE  Chosen(s) \in s
  BY DEF Chosen

\* Two such sums, of functions that differ by d at one queue, differ by d.
LEMMA TotalsDiffer ==
  ASSUME NEW f, NEW e, NEW g, NEW h, IsTotal(g, f), IsTotal(h, e),
         NEW q \in Queues, NEW d \in Nat,
         \A x \in Queues : f[x] \in Nat,
         \A x \in Queues : e[x] = f[x] + (IF x = q THEN d ELSE 0)
  PROVE  \A s \in SUBSET Queues : g[s] \in Nat /\ h[s] = g[s] + (IF q \in s THEN d ELSE 0)
<1> DEFINE Right(s) == g[s] \in Nat /\ h[s] = g[s] + (IF q \in s THEN d ELSE 0)
           B == {s \in SUBSET Queues : ~Right(s)}
<1>1. ASSUME B # {} PROVE FALSE
  <2>1. PICK s \in B : \A x \in s : s \ {x} \notin B
    <3> HIDE DEF B
    <3>1. B \in SUBSET SUBSET Queues
      BY DEF B
    <3>2. QED
      BY <1>1, <3>1, LeastSet
  <2>2. s \in SUBSET Queues /\ ~Right(s)
    BY <2>1
  <2>3. CASE s = {}
    BY <2>2, <2>3 DEF IsTotal
  <2>4. CASE s # {}
    <3> DEFINE x == Chosen(s)
    <3>1. x \in s /\ x \in Queues
      BY <2>2, <2>4, ChosenIn
    <3>2. Right(s \ {x})
      BY <2>1, <2>2, <3>1
    <3>3. g[s] = f[x] + g[s \ {x}] /\ h[s] = e[x] + h[s \ {x}]
      BY <2>2, <2>4 DEF IsTotal
    <3> HIDE DEF x
    <3>4. CASE x = q
      BY <2>2, <3>1, <3>2, <3>3, <3>4
    <3>5. CASE x # q
      BY <2>2, <3>1, <3>2, <3>3, <3>5
    <3>6. QED
      BY <3>4, <3>5
  <2>5. QED
    BY <2>3, <2>4
<1>2. QED
  BY <1>1

\* The sum exists.
LEMMA TotalExists ==
  ASSUME NEW f
  PROVE  \E g : IsTotal(g, f)
<1> DEFINE Step(g, s) == IF s = {} THEN 0 ELSE f[Chosen(s)] + g[s \ {Chosen(s)}]
           Part(g, m) == /\ DOMAIN g = SUBSET Queues
                         /\ g = [s \in SUBSET Queues |-> g[s]]
                         /\ \A s \in SUBSET Queues : Cardinality(s) <= m => g[s] = Step(g, s)
           B == {m \in Nat : ~\E g : Part(g, m)}
<1>1. ASSUME B # {} PROVE FALSE
  <2> HIDE DEF B
  <2>1. B \in SUBSET Nat
    BY DEF B
  <2>2. PICK m \in B : m - 1 \notin B
    BY <1>1, <2>1, LeastNat
  <2>3. m \in Nat /\ ~\E g : Part(g, m)
    BY DEF B
  <2>4. CASE m = 0
    <3> DEFINE z == [s \in SUBSET Queues |-> 0]
    <3>1. \A s \in SUBSET Queues : Cardinality(s) <= 0 => s = {}
      BY QueueSets
    <3>2. Part(z, 0)
      BY <3>1
    <3>3. QED
      BY <2>3, <2>4, <3>2
  <2>5. CASE m # 0
    <3>1. m - 1 \in Nat
      BY <2>3, <2>5
    <3>2. PICK g : Part(g, m - 1)
      BY <2>2, <3>1 DEF B
    <3> DEFINE v == [s \in SUBSET Queues |-> IF Cardinality(s) = m THEN Step(g, s) ELSE g[s]]
    <3>3. ASSUME NEW s \in SUBSET Queues, Cardinality(s) <= m PROVE v[s] = Step(v, s)
      <4>1. CASE s = {}
        <5>1. Cardinality(s) = 0
          BY <4>1, FS_EmptySet
        <5>2. Cardinality(s) <= m - 1 /\ Cardinality(s) # m
          BY <2>3, <2>5, <5>1
        <5>3. g[s] = Step(g, s) /\ v[s] = g[s]
          BY <3>2, <5>2
        <5>4. QED
          BY <4>1, <5>3
      <4>2. CASE s # {}
        <5> DEFINE r == s \ {Chosen(s)}
        <5>1. /\ r \in SUBSET Queues /\ Cardinality(s) \in Nat
              /\ Cardinality(r) = Cardinality(s) - 1
          BY <4>2, ChosenIn, QueueSets
        <5>2. v[r] = g[r]
          BY <2>3, <3>3, <5>1
        <5>3. v[s] = Step(g, s)
          <6>1. CASE Cardinality(s) = m
            BY <6>1
          <6>2. CASE Cardinality(s) # m
            <7>1. Cardinality(s) <= m - 1
              BY <2>3, <3>3, <5>1, <6>2
            <7>2. g[s] = Step(g, s)
              BY <3>2, <7>1
            <7>3. v[s] = g[s]
              BY <6>2
            <7>4. QED
              BY <7>2, <7>3
          <6>3. QED
            BY <6>1, <6>2
        <5>4. QED
          BY <4>2, <5>2, <5>3
      <4>3. QED
        BY <4>1, <4>2
    <3>4. Part(v, m)
      BY <3>3
    <3>5. QED
      BY <2>3, <3>4
  <2>6. QED
    BY <2>4, <2>5
<1>2. Cardinality(Queues) \in Nat /\ Cardinality(Queues) \notin B
  BY <1>1, QueueSets
<1>3. PICK g : Part(g, Cardinality(Queues))
  BY <1>2
<1>4. \A s \in SUBSET Queues : Cardinality(s) <= Cardinality(Queues)
  <2>1. IsFiniteSet(Queues)
    BY QueueSets
  <2>2. QED
    BY <2>1, FS_Subset
<1>5. IsTotal(g, f)
  BY <1>3, <1>4 DEF IsTotal
<1>6. QED
  BY <1>5

\* From f to e, the number of q has grown by d and the others have not.
Grown(f, e, q, d) ==
  /\ q \in Queues /\ d \in Nat
  /\ \A x \in Queues : f[x] \in Nat
  /\ \A x \in Queues : e[x] = f[x] + (IF x = q THEN d ELSE 0)

\* What a step adds to one queue it adds to the total.
LEMMA TotalGrows ==
  ASSUME NEW f, NEW e, NEW q, NEW d, Grown(f, e, q, d)
  PROVE  Total(f) \in Nat /\ Total(e) = Total(f) + d
<1> USE DEF Grown
<1> DEFINE g == CHOOSE k : IsTotal(k, f)
           h == CHOOSE k : IsTotal(k, e)
<1>1. IsTotal(g, f) /\ IsTotal(h, e)
  BY TotalExists, Zenon
<1>2. Total(f) = g[Queues] /\ Total(e) = h[Queues]
  BY DEF Total, MapThenSumSet, MapThenFoldSet, IsTotal, Chosen
<1> HIDE DEF g, h
<1>3. QED
  BY <1>1, <1>2, TotalsDiffer

LEMMA TotalZero ==
  ASSUME NEW f, \A x \in Queues : f[x] = 0
  PROVE  Total(f) = 0
<1> DEFINE g == CHOOSE k : IsTotal(k, f)
           B == {s \in SUBSET Queues : g[s] # 0}
<1>1. IsTotal(g, f)
  BY TotalExists, Zenon
<1>2. Total(f) = g[Queues]
  BY DEF Total, MapThenSumSet, MapThenFoldSet, IsTotal, Chosen
<1> HIDE DEF g
<1>3. ASSUME B # {} PROVE FALSE
  <2>1. PICK s \in B : \A x \in s : s \ {x} \notin B
    <3> HIDE DEF B
    <3>1. B \in SUBSET SUBSET Queues
      BY DEF B
    <3>2. QED
      BY <1>3, <3>1, LeastSet
  <2>2. CASE s = {}
    BY <1>1, <2>1, <2>2 DEF IsTotal
  <2>3. CASE s # {}
    <3>1. Chosen(s) \in s /\ g[s \ {Chosen(s)}] = 0
      BY <2>1, <2>3, ChosenIn
    <3>2. g[s] = f[Chosen(s)] + g[s \ {Chosen(s)}]
      BY <1>1, <2>1, <2>3 DEF IsTotal
    <3>3. QED
      BY <2>1, <3>1, <3>2
  <2>4. QED
    BY <2>2, <2>3
<1>4. QED
  BY <1>2, <1>3

-----------------------------------------------------------------------------
(* The steps. *)

QueueType ==
  [packets : 0 .. MaxLoads, head : 0 .. MaxLoads, tail : 0 .. Capacity - 1,
   closed : BOOLEAN, written : SUBSET (0 .. Capacity - 1), enqueued : 0 .. MaxLoads]

ReaderType ==
  [pc : {"idle", "load", "cas", "head", "read"}, current_packets : 0 .. MaxLoads,
   my_head : 0 .. Capacity - 1]

CallType ==
  [pc : {"idle", "test", "check", "full?", "wait", "write", "count"}, q : Queues,
   told : BOOLEAN]

CountType == [Queues -> 0 .. MaxLoads]

CloserType == [pc : {"idle", "spin", "store"}, q : Queues]

LEMMA ConstantFacts ==
  /\ NumQ \in Nat \ {0} /\ Capacity \in Nat \ {0} /\ MaxLoads \in Nat
  /\ 0 \in Queues /\ 0 \in 0 .. Capacity - 1 /\ 0 \in 0 .. MaxLoads
  /\ \A q \in Queues : Successor(q) \in Queues
  BY SpscAssumption, LoadersAssumption DEF Queues, Successor

\* What the types say of the values.
LEMMA TypeFacts ==
  ASSUME TypeOK
  PROVE  /\ queue \in [Queues -> QueueType] /\ reader \in [Queues -> ReaderType]
         /\ call \in CallType /\ closer \in CloserType /\ loads \in 0 .. MaxLoads
         /\ q_id \in Queues /\ kind \in {"rr", "ah"}
         /\ dropped \in CountType /\ refused \in CountType
         /\ call.q \in Queues /\ closer.q \in Queues
         /\ \A q \in Queues :
              /\ queue[q] \in QueueType /\ reader[q] \in ReaderType
              /\ queue[q].packets \in 0 .. MaxLoads /\ queue[q].head \in 0 .. MaxLoads
              /\ queue[q].tail \in 0 .. Capacity - 1 /\ queue[q].enqueued \in 0 .. MaxLoads
              /\ queue[q].written \subseteq 0 .. Capacity - 1
              /\ reader[q].current_packets \in 0 .. MaxLoads
<1>1. queue \in [Queues -> QueueType] /\ reader \in [Queues -> ReaderType]
  BY DEF TypeOK, QueueType, ReaderType
<1>2. call \in CallType /\ closer \in CloserType /\ call.q \in Queues /\ closer.q \in Queues
  BY DEF TypeOK, CallType, CloserType
<1>3. ASSUME NEW q \in Queues
      PROVE  /\ queue[q] \in QueueType /\ reader[q] \in ReaderType
             /\ queue[q].packets \in 0 .. MaxLoads /\ queue[q].head \in 0 .. MaxLoads
             /\ queue[q].tail \in 0 .. Capacity - 1 /\ queue[q].enqueued \in 0 .. MaxLoads
             /\ queue[q].written \subseteq 0 .. Capacity - 1
             /\ reader[q].current_packets \in 0 .. MaxLoads
  <2>1. queue[q] \in QueueType /\ reader[q] \in ReaderType
    BY <1>1
  <2>2. QED
    BY <2>1 DEF QueueType, ReaderType
<1>4. /\ loads \in 0 .. MaxLoads /\ q_id \in Queues /\ kind \in {"rr", "ah"}
      /\ dropped \in CountType /\ refused \in CountType
  BY DEF TypeOK, CountType
<1>5. QED
  BY <1>1, <1>2, <1>3, <1>4, Zenon

LEMMA TypesGiven ==
  ASSUME queue \in [Queues -> QueueType], reader \in [Queues -> ReaderType],
         call \in CallType, closer \in CloserType, loads \in 0 .. MaxLoads,
         q_id \in Queues, kind \in {"rr", "ah"}, dropped \in CountType, refused \in CountType
  PROVE  TypeOK
  BY DEF TypeOK, QueueType, ReaderType, CallType, CloserType, CountType

LEMMA TypesGivenNext ==
  ASSUME queue' \in [Queues -> QueueType], reader' \in [Queues -> ReaderType],
         call' \in CallType, closer' \in CloserType, loads' \in 0 .. MaxLoads,
         q_id' \in Queues, kind' \in {"rr", "ah"}, dropped' \in CountType, refused' \in CountType
  PROVE  TypeOK'
  BY DEF TypeOK, QueueType, ReaderType, CallType, CloserType, CountType

\* The loads that ended on a queue, before and after a step.
LEMMA EndedFacts ==
  ASSUME TypeOK
  PROVE  /\ \A q \in Queues : /\ Ended[q] \in Nat /\ dropped[q] \in Nat /\ refused[q] \in Nat
                              /\ queue[q].enqueued \in Nat
                              /\ Ended[q] = queue[q].enqueued + dropped[q] + refused[q]
                              /\ queue[q].enqueued <= Ended[q] /\ dropped[q] <= Ended[q]
                              /\ refused[q] <= Ended[q]
         /\ \A q \in Queues : Ended'[q] = queue'[q].enqueued + dropped'[q] + refused'[q]
<1>1. ASSUME NEW q \in Queues
      PROVE  queue[q].enqueued \in Nat /\ dropped[q] \in Nat /\ refused[q] \in Nat
  BY TypeFacts, ConstantFacts DEF CountType
<1>2. ASSUME NEW q \in Queues
      PROVE  Ended[q] = queue[q].enqueued + dropped[q] + refused[q]
  BY DEF Ended
<1>3. \A q \in Queues : Ended'[q] = queue'[q].enqueued + dropped'[q] + refused'[q]
  BY DEF Ended
<1>4. QED
  BY <1>1, <1>2, <1>3

\* LoadsCounted in terms of Total.
LEMMA CountedForm ==
  /\ LoadsCounted <=> Total(Ended) + Loading = loads
  /\ LoadsCounted' <=> Total(Ended') + Loading' = loads'
  BY DEF LoadsCounted, Total, MapThenSumSet, MapThenFoldSet, Loading

LEMMA Initial ==
  ASSUME Init
  PROVE  LoadInv
<1> USE DEF Init, SpscInit
<1>1. \A q \in Queues :
        /\ queue[q].packets = 0 /\ queue[q].head = 0 /\ queue[q].tail = 0
        /\ ~queue[q].closed /\ queue[q].written = {} /\ queue[q].enqueued = 0
        /\ reader[q].pc = "idle"
  BY DEF EmptyQueue, IdleReader
<1>2. call.pc = "idle" /\ loads = 0 /\ \A q \in Queues : dropped[q] = 0 /\ refused[q] = 0
  BY DEF NoCall
<1>3. TypeOK
  <2>1. EmptyQueue \in QueueType /\ IdleReader \in ReaderType
    BY ConstantFacts DEF EmptyQueue, IdleReader, QueueType, ReaderType
  <2>2. call \in CallType /\ closer \in CloserType
    BY ConstantFacts DEF NoCall, CallType, CloserType
  <2>3. queue \in [Queues -> QueueType] /\ reader \in [Queues -> ReaderType]
    BY <2>1
  <2>4. dropped \in CountType /\ refused \in CountType
    BY ConstantFacts DEF CountType
  <2>5. QED
    BY <2>2, <2>3, <2>4, ConstantFacts, TypesGiven
<1>10. \A q \in Queues : Ended[q] = 0
  BY <1>1, <1>2 DEF Ended
<1>4. WithinLoads
  BY <1>2, <1>10 DEF WithinLoads, Loading
<1>11. TestsOwn /\ DroppedOnce
  BY <1>2 DEF TestsOwn, DroppedOnce
<1>5. LoadsCounted
  <2>1. Total(Ended) = 0
    BY <1>10, TotalZero
  <2>2. QED
    BY <1>2, <2>1, CountedForm DEF Loading
<1>6. SlotsWritten
  BY <1>1, <1>2, ConstantFacts DEF SlotsWritten, Writes
<1>7. ReaderClaims
  BY <1>1 DEF ReaderClaims
<1>8. PacketsExact
  BY <1>1 DEF PacketsExact
<1>9. QED
  BY <1>3, <1>4, <1>5, <1>6, <1>7, <1>8, <1>11 DEF LoadInv

LEMMA SameTotal ==
  ASSUME TypeOK, NEW e, \A q \in Queues : e[q] = Ended[q]
  PROVE  Total(Ended) \in Nat /\ Total(e) = Total(Ended)
<1>1. \A x \in Queues : Ended[x] \in Nat
  BY EndedFacts
<1>2. PICK q \in Queues, d \in Nat : d = 0
  BY ConstantFacts
<1>3. \A x \in Queues : e[x] = Ended[x] + (IF x = q THEN d ELSE 0)
  BY <1>1, <1>2
<1>4. Total(Ended) \in Nat /\ Total(e) = Total(Ended) + d
  <2>1. Grown(Ended, e, q, d)
    BY <1>1, <1>3 DEF Grown
  <2>2. QED
    BY <2>1, TotalGrows
<1>5. QED
  BY <1>2, <1>4

\* A load in progress that stays so, or one that begins, leaves the count right.
LEMMA CountStays ==
  ASSUME TypeOK, LoadsCounted, Loading \in Nat, Loading' \in Nat, loads \in Nat, loads' \in Nat,
         loads - Loading = loads' - Loading', \A q \in Queues : Ended'[q] = Ended[q]
  PROVE  LoadsCounted'
<1> DEFINE t == Total(Ended)
           u == Total(Ended')
           a == Loading
           b == Loading'
           m == loads
           n == loads'
<1>1. t \in Nat /\ u = t
  BY SameTotal
<1>2. t + a = m
  BY CountedForm
<1>3. a \in Nat /\ b \in Nat /\ m \in Nat /\ n \in Nat /\ m - a = n - b
  OBVIOUS
<1> HIDE DEF t, u, a, b, m, n
<1>4. u + b = n
  BY <1>1, <1>2, <1>3
<1>5. QED
  BY <1>4, CountedForm DEF u, b, n

\* A load that ends on queue q, with its item or without, is counted there.
LEMMA CountMoves ==
  ASSUME TypeOK, LoadsCounted, Loading = 1, Loading' = 0, loads \in Nat, loads' = loads,
         NEW q \in Queues,
         \A x \in Queues : Ended'[x] = Ended[x] + (IF x = q THEN 1 ELSE 0)
  PROVE  LoadsCounted'
<1> DEFINE t == Total(Ended)
           u == Total(Ended')
           m == loads
<1>1. PICK d \in Nat : d = 1
  OBVIOUS
<1>2. t \in Nat /\ u = t + d
  <2>1. \A x \in Queues : Ended[x] \in Nat
    BY EndedFacts
  <2>2. \A x \in Queues : Ended'[x] = Ended[x] + (IF x = q THEN d ELSE 0)
    BY <1>1
  <2>3. Grown(Ended, Ended', q, d)
    BY <2>1, <2>2 DEF Grown
  <2>4. QED
    BY <2>3, TotalGrows
<1>3. t + 1 = m
  BY CountedForm
<1> HIDE DEF t, u, m
<1>4. u + 0 = m
  BY <1>1, <1>2, <1>3
<1>5. QED
  BY <1>4, CountedForm DEF u, m

\* A step of the load before it writes, or one that begins it.
LEMMA CallMoves ==
  ASSUME LoadInv, UNCHANGED <<queue, reader, closer, kind, dropped, refused>>,
         call.pc # "count", call'.pc # "count", call' \in CallType,
         q_id' \in Queues, loads' \in 0 .. MaxLoads,
         loads - Loading = loads' - Loading',
         call'.pc = "test" => call'.q = q_id',
         call'.pc = "check" /\ ~call'.told /\ kind = "rr" => ~queue[call'.q].closed
  PROVE  LoadInv'
<1> USE DEF LoadInv
<1>1. Loading \in {0, 1} /\ Loading' \in {0, 1} /\ loads \in Nat /\ loads' \in Nat
  BY TypeFacts, ConstantFacts DEF Loading
<1>2. TypeOK'
  BY TypeFacts, TypesGivenNext
<1>3. \A q \in Queues : Ended'[q] = Ended[q] /\ Ended[q] \in Nat
  BY EndedFacts
<1>4. WithinLoads'
  <2>1. ASSUME NEW q \in Queues PROVE Ended'[q] + Loading' <= loads'
    <3> DEFINE e == Ended[q]
               d == Ended'[q]
               a == Loading
               b == Loading'
               m == loads
               n == loads'
    <3>1. e + a <= m /\ d = e /\ e \in Nat
      BY <1>3 DEF WithinLoads
    <3>2. a \in Nat /\ b \in Nat /\ m \in Nat /\ n \in Nat
      BY <1>1
    <3>3. m - a = n - b
      OBVIOUS
    <3> HIDE DEF a, b, d, e, m, n
    <3>4. d + b <= n
      BY <3>1, <3>2, <3>3
    <3>5. QED
      BY <3>4 DEF b, d, n
  <2>2. QED
    BY <2>1 DEF WithinLoads
<1>5. LoadsCounted'
  BY <1>1, <1>3, CountStays
<1>6. TestsOwn' /\ DroppedOnce'
  BY DEF TestsOwn, DroppedOnce, AboutToDrop
<1>7. SlotsWritten'
  <2>1. \A q \in Queues : Writes(q)' = Writes(q)
    BY DEF Writes
  <2>2. QED
    BY <2>1 DEF SlotsWritten
<1>8. ReaderClaims' /\ PacketsExact'
  BY DEF ReaderClaims, PacketsExact
<1>9. QED
  BY <1>2, <1>4, <1>5, <1>6, <1>7, <1>8

\* rr_loader returns although queue call.q has refused its item.
LEMMA CallDrops ==
  ASSUME LoadInv, call.pc = "check", kind = "rr", queue[call.q].closed, call' = NoCall,
         q_id' \in Queues, Settle(FALSE), UNCHANGED <<queue, reader, closer, kind, loads>>
  PROVE  LoadInv'
<1> USE DEF LoadInv
<1> DEFINE q == call.q
<1>1. /\ q \in Queues /\ call' \in CallType /\ call'.pc = "idle" /\ call.told \in BOOLEAN
      /\ Loading = 1 /\ Loading' = 0 /\ loads \in Nat
  BY TypeFacts, ConstantFacts DEF NoCall, CallType, Loading
<1>2. dropped \in CountType /\ refused \in CountType
  BY TypeFacts
<1>3. Ended[q] + 1 <= loads /\ loads \in 0 .. MaxLoads
  BY <1>1, TypeFacts DEF WithinLoads
<1>4. ASSUME call.told
      PROVE  /\ TypeOK' /\ DroppedOnce'
             /\ \A x \in Queues : Ended'[x] = Ended[x] + (IF x = q THEN 1 ELSE 0)
  <2>1. dropped' = dropped /\ refused' = [refused EXCEPT ![q] = refused[q] + 1]
    BY <1>4 DEF Settle
  <2>2. refused[q] + 1 \in 0 .. MaxLoads
    BY <1>1, <1>3, EndedFacts, ConstantFacts
  <2>3. refused' \in CountType /\ \A x \in Queues : refused'[x] = refused[x] + (IF x = q THEN 1 ELSE 0)
    BY <1>1, <1>2, <2>1, <2>2, EndedFacts DEF CountType
  <2>4. TypeOK'
    BY <1>1, <1>2, <2>1, <2>3, TypeFacts, TypesGivenNext
  <2>5. DroppedOnce'
    BY <1>1, <2>1, <2>3, EndedFacts DEF DroppedOnce, AboutToDrop
  <2>6. ASSUME NEW x \in Queues PROVE Ended'[x] = Ended[x] + (IF x = q THEN 1 ELSE 0)
    <3> DEFINE c == IF x = q THEN 1 ELSE 0
               a == queue[x].enqueued
               b == dropped[x]
               d == refused[x]
    <3>1. a \in Nat /\ b \in Nat /\ d \in Nat /\ c \in Nat /\ Ended[x] = a + b + d
      BY EndedFacts
    <3>2. Ended'[x] = a + b + (d + c)
      BY <1>1, <2>1, <2>3, EndedFacts
    <3> HIDE DEF a, b, c, d
    <3>3. Ended'[x] = Ended[x] + c
      BY <3>1, <3>2
    <3>4. QED
      BY <3>3 DEF c
  <2>7. QED
    BY <2>4, <2>5, <2>6
<1>5. ASSUME ~call.told
      PROVE  /\ TypeOK' /\ DroppedOnce'
             /\ \A x \in Queues : Ended'[x] = Ended[x] + (IF x = q THEN 1 ELSE 0)
  <2>1. refused' = refused /\ dropped' = [dropped EXCEPT ![q] = dropped[q] + 1]
    BY <1>5 DEF Settle
  <2>2. dropped[q] + 1 \in 0 .. MaxLoads
    BY <1>1, <1>3, EndedFacts, ConstantFacts
  <2>3. dropped' \in CountType /\ \A x \in Queues : dropped'[x] = dropped[x] + (IF x = q THEN 1 ELSE 0)
    BY <1>1, <1>2, <2>1, <2>2, EndedFacts DEF CountType
  <2>4. TypeOK'
    BY <1>1, <1>2, <2>1, <2>3, TypeFacts, TypesGivenNext
  <2>5. DroppedOnce'
    <3>1. dropped[q] = 0
      <4>1. AboutToDrop(q)
        BY <1>5 DEF AboutToDrop
      <4>2. QED
        BY <1>1, <4>1, EndedFacts DEF DroppedOnce
    <3>2. QED
      BY <1>1, <2>1, <2>3, <3>1, EndedFacts DEF DroppedOnce, AboutToDrop
  <2>6. ASSUME NEW x \in Queues PROVE Ended'[x] = Ended[x] + (IF x = q THEN 1 ELSE 0)
    <3> DEFINE c == IF x = q THEN 1 ELSE 0
               a == queue[x].enqueued
               b == dropped[x]
               d == refused[x]
    <3>1. a \in Nat /\ b \in Nat /\ d \in Nat /\ c \in Nat /\ Ended[x] = a + b + d
      BY EndedFacts
    <3>2. Ended'[x] = a + (b + c) + d
      BY <1>1, <2>1, <2>3, EndedFacts
    <3> HIDE DEF a, b, c, d
    <3>3. Ended'[x] = Ended[x] + c
      BY <3>1, <3>2
    <3>4. QED
      BY <3>3 DEF c
  <2>7. QED
    BY <2>4, <2>5, <2>6
<1>6. /\ TypeOK' /\ DroppedOnce'
      /\ \A x \in Queues : Ended'[x] = Ended[x] + (IF x = q THEN 1 ELSE 0)
  BY <1>1, <1>4, <1>5
<1>7. WithinLoads'
  <2>1. ASSUME NEW x \in Queues PROVE Ended'[x] + Loading' <= loads'
    <3>1. Ended[x] + Loading <= loads /\ Ended[x] \in Nat
      BY EndedFacts DEF WithinLoads
    <3>2. QED
      BY <1>1, <1>6, <3>1
  <2>2. QED
    BY <2>1 DEF WithinLoads
<1>8. LoadsCounted'
  BY <1>1, <1>6, CountMoves
<1>9. TestsOwn'
  BY <1>1 DEF TestsOwn
<1>10. SlotsWritten'
  <2>1. \A x \in Queues : Writes(x)' = Writes(x)
    BY <1>1 DEF Writes
  <2>2. QED
    BY <2>1 DEF SlotsWritten
<1>11. ReaderClaims' /\ PacketsExact'
  BY DEF ReaderClaims, PacketsExact
<1>12. QED
  BY <1>6, <1>7, <1>8, <1>9, <1>10, <1>11

LEMMA LoadBeginPreserves ==
  ASSUME LoadInv, LoadBegin
  PROVE  LoadInv'
<1> USE DEF LoadInv
<1>1. /\ UNCHANGED <<queue, reader, closer, kind, q_id, dropped, refused>>
      /\ loads' = loads + 1 /\ loads < MaxLoads
  BY DEF LoadBegin
<1>2. call.pc = "idle" /\ call' \in CallType /\ call'.pc \in {"test", "check"}
  <2>1. \A l \in {"test", "check"}, x \in Queues, b \in BOOLEAN :
          [pc |-> l, q |-> x, told |-> b] \in CallType
    BY DEF CallType
  <2>2. call' \in CallType
    BY <2>1, TypeFacts DEF LoadBegin
  <2>3. QED
    BY <2>2 DEF LoadBegin
<1>3. loads \in Nat /\ loads' \in 0 .. MaxLoads /\ q_id' \in Queues
  BY <1>1, TypeFacts, ConstantFacts
<1>4. loads - Loading = loads' - Loading'
  BY <1>1, <1>2, <1>3 DEF Loading
<1>5. /\ call'.pc = "test" => call'.q = q_id'
      /\ call'.pc = "check" /\ ~call'.told /\ kind = "rr" => ~queue[call'.q].closed
  BY <1>1 DEF LoadBegin
<1>6. QED
  BY <1>1, <1>2, <1>3, <1>4, <1>5, CallMoves

LEMMA RoundRobinPreserves ==
  ASSUME LoadInv, RoundRobin
  PROVE  LoadInv'
<1> USE DEF LoadInv
<1>1. /\ UNCHANGED <<queue, reader, closer, kind, loads, dropped, refused>>
      /\ call.pc = "test" /\ call.q = q_id /\ call \in CallType
  BY TypeFacts DEF RoundRobin, TestsOwn
<1>2. call' \in CallType /\ call'.pc \in {"test", "check"} /\ q_id' \in Queues
  BY TypeFacts, ConstantFacts DEF RoundRobin, SkipClosed, CallType
<1>3. loads - Loading = loads' - Loading'
  BY <1>1, <1>2, TypeFacts, ConstantFacts DEF Loading
<1>4. /\ call'.pc = "test" => call'.q = q_id'
      /\ call'.pc = "check" /\ ~call'.told /\ kind = "rr" => ~queue[call'.q].closed
  BY <1>1 DEF RoundRobin, SkipClosed, CallType
<1>5. QED
  BY <1>1, <1>2, <1>3, <1>4, TypeFacts, CallMoves

LEMMA EnqueueCheckPreserves ==
  ASSUME LoadInv, EnqueueCheck
  PROVE  LoadInv'
<1> USE DEF LoadInv
<1>1. UNCHANGED <<queue, reader, closer, kind, loads>> /\ call.pc = "check"
  BY DEF EnqueueCheck
<1>2. loads \in Nat /\ Loading = 1 /\ q_id \in Queues /\ call \in CallType
  BY <1>1, TypeFacts, ConstantFacts DEF Loading
<1>3. CASE queue[call.q].closed /\ Answered(FALSE)
  <2>1. CASE kind = "rr"
    <3>1. call' = NoCall /\ Settle(FALSE) /\ q_id' \in Queues
      BY <1>2, <1>3, <2>1, ConstantFacts DEF Answered, Accepted
    <3>2. QED
      BY <1>1, <1>3, <2>1, <3>1, CallDrops
  <2>2. CASE kind = "ah"
    <3>1. /\ call' = [call EXCEPT !.pc = "check", !.q = IF call.told THEN @ ELSE Successor(@)]
          /\ UNCHANGED <<q_id, dropped, refused>>
      BY <1>3, <2>2 DEF Answered, Accepted
    <3>2. call' \in CallType /\ call'.pc = "check" /\ q_id' \in Queues
      BY <3>1, TypeFacts, ConstantFacts DEF CallType
    <3>3. loads - Loading = loads' - Loading'
      BY <1>1, <1>2, <3>2 DEF Loading
    <3>4. QED
      BY <1>1, <2>2, <3>1, <3>2, <3>3, TypeFacts, CallMoves
  <2>3. QED
    BY <2>1, <2>2, TypeFacts
<1>4. CASE call' = [call EXCEPT !.pc = "full?"] /\ UNCHANGED <<q_id, dropped, refused>>
  <2>1. call' \in CallType /\ call'.pc = "full?" /\ q_id' \in Queues
    BY <1>4, TypeFacts DEF CallType
  <2>2. loads - Loading = loads' - Loading'
    BY <1>1, <1>2, <2>1 DEF Loading
  <2>3. QED
    BY <1>1, <1>4, <2>1, <2>2, TypeFacts, CallMoves
<1>5. QED
  BY <1>3, <1>4 DEF EnqueueCheck

LEMMA EnqueueWaitPreserves ==
  ASSUME LoadInv, EnqueueFull \/ EnqueueWaited
  PROVE  LoadInv'
<1> USE DEF LoadInv
<1>1. /\ UNCHANGED <<queue, reader, closer, kind, q_id, loads, dropped, refused>>
      /\ call.pc \in {"full?", "wait"}
  BY DEF EnqueueFull, EnqueueWaited
<1>2. call' \in CallType /\ call'.pc \in {"wait", "write"}
  BY TypeFacts DEF EnqueueFull, EnqueueWaited, CallType
<1>3. loads - Loading = loads' - Loading'
  BY <1>1, <1>2, TypeFacts, ConstantFacts DEF Loading
<1>4. QED
  BY <1>1, <1>2, <1>3, TypeFacts, CallMoves

LEMMA EnqueueWritePreserves ==
  ASSUME LoadInv, EnqueueWrite
  PROVE  LoadInv'
<1> USE DEF LoadInv
<1> DEFINE t == (queue[call.q].tail + 1) % Capacity
<1>1. /\ queue' = [queue EXCEPT ![call.q].tail = t,
                                ![call.q].written = queue[call.q].written \cup {t}]
      /\ call' = [call EXCEPT !.pc = "count"] /\ call.pc = "write"
      /\ UNCHANGED <<reader, closer, kind, q_id, loads, dropped, refused>>
  BY DEF EnqueueWrite, WriteSlot
<1>2. t \in 0 .. Capacity - 1
  BY TypeFacts, ConstantFacts
<1> HIDE DEF t
<1>3. call' \in CallType /\ call'.pc = "count" /\ call'.q = call.q /\ call.q \in Queues
  BY <1>1, TypeFacts DEF CallType
<1>4. \A q \in Queues :
        /\ queue'[q].packets = queue[q].packets /\ queue'[q].head = queue[q].head
        /\ queue'[q].closed = queue[q].closed /\ queue'[q].enqueued = queue[q].enqueued
        /\ queue'[q].tail = IF q = call.q THEN t ELSE queue[q].tail
        /\ queue'[q].written = queue[q].written \cup (IF q = call.q THEN {t} ELSE {})
  <2>1. \A q \in Queues : queue[q] \in QueueType
    BY TypeFacts
  <2>2. QED
    BY <1>1, <1>3, <2>1, TypeFacts DEF QueueType
<1>5. TypeOK'
  <2>1. queue[call.q] \in QueueType
    BY <1>3, TypeFacts
  <2>2. [queue[call.q] EXCEPT !.tail = t, !.written = queue[call.q].written \cup {t}] \in QueueType
    BY <1>2, <2>1 DEF QueueType
  <2>3. queue' \in [Queues -> QueueType]
    BY <1>1, <2>2, TypeFacts
  <2>4. QED
    BY <1>1, <1>3, <2>3, TypeFacts, TypesGivenNext
<1>6. /\ Loading' = Loading /\ Loading \in {0, 1} /\ loads \in Nat /\ loads' = loads
      /\ \A q \in Queues : Ended'[q] = Ended[q]
  BY <1>1, <1>3, <1>4, TypeFacts, ConstantFacts, EndedFacts DEF Loading
<1>7. WithinLoads'
  BY <1>6 DEF WithinLoads
<1>8. LoadsCounted'
  BY <1>6, CountStays
<1>8a. TestsOwn' /\ DroppedOnce'
  <2>1. TestsOwn' /\ ~(call'.pc = "check")
    BY <1>3 DEF TestsOwn
  <2>2. \A q \in Queues : ~AboutToDrop(q)'
    BY <2>1 DEF AboutToDrop
  <2>3. ASSUME NEW q \in Queues
        PROVE  /\ refused'[q] > 0 => kind' = "rr" /\ queue'[q].closed
               /\ dropped'[q] > 0 => kind' = "rr" /\ queue'[q].closed /\ dropped'[q] = 1
    <3>1. /\ refused[q] > 0 => kind = "rr" /\ queue[q].closed
          /\ dropped[q] > 0 => kind = "rr" /\ queue[q].closed /\ dropped[q] = 1
      BY DEF DroppedOnce
    <3>2. queue'[q].closed = queue[q].closed
      BY <1>4
    <3>3. QED
      BY <1>1, <3>1, <3>2
  <2>4. QED
    BY <2>1, <2>2, <2>3 DEF DroppedOnce
<1>9. SlotsWritten'
  <2>1. ASSUME NEW q \in Queues
        PROVE  /\ queue'[q].tail = Writes(q)' % Capacity
               /\ \A k \in 1 .. Writes(q)' : k % Capacity \in queue'[q].written
    <3>1. /\ queue[q].tail = Writes(q) % Capacity
          /\ \A k \in 1 .. Writes(q) : k % Capacity \in queue[q].written
      BY DEF SlotsWritten
    <3>2. CASE q = call.q
      <4>1. Writes(q) \in Nat /\ Writes(q)' = Writes(q) + 1
        BY <1>1, <1>3, <1>4, <3>2, TypeFacts, ConstantFacts DEF Writes
      <4>2. t = (Writes(q) + 1) % Capacity
        BY <3>1, <3>2, <4>1, NextSlot DEF t
      <4>3. ASSUME NEW k \in 1 .. Writes(q)' PROVE k % Capacity \in queue'[q].written
        <5>1. CASE k \in 1 .. Writes(q)
          BY <1>4, <3>1, <5>1
        <5>2. CASE k = Writes(q) + 1
          BY <1>4, <3>2, <4>2, <5>2
        <5>3. QED
          BY <4>1, <5>1, <5>2
      <4>4. QED
        BY <1>4, <3>2, <4>1, <4>2, <4>3
    <3>3. CASE q # call.q
      <4>1. Writes(q)' = Writes(q)
        BY <1>3, <1>4, <3>3 DEF Writes
      <4>2. QED
        BY <1>4, <3>1, <3>3, <4>1
    <3>4. QED
      BY <3>2, <3>3
  <2>2. QED
    BY <2>1 DEF SlotsWritten
<1>10. ReaderClaims' /\ PacketsExact'
  <2>1. ReaderClaims'
    BY <1>1, <1>4 DEF ReaderClaims
  <2>2. ASSUME NEW q \in Queues
        PROVE  queue'[q].packets + queue'[q].head + (IF reader'[q].pc = "head" THEN 1 ELSE 0)
                 = queue'[q].enqueued
    <3>1. queue[q].packets + queue[q].head + (IF reader[q].pc = "head" THEN 1 ELSE 0)
            = queue[q].enqueued
      BY DEF PacketsExact
    <3>2. /\ queue'[q].packets = queue[q].packets /\ queue'[q].head = queue[q].head
          /\ queue'[q].enqueued = queue[q].enqueued /\ reader' = reader
      BY <1>1, <1>4
    <3>3. QED
      BY <3>1, <3>2
  <2>3. QED
    BY <2>1, <2>2 DEF PacketsExact
<1>11. QED
  BY <1>5, <1>7, <1>8, <1>9, <1>10, <1>8a

LEMMA EnqueueCountPreserves ==
  ASSUME LoadInv, EnqueueCount
  PROVE  LoadInv'
<1> USE DEF LoadInv
<1>1. /\ queue' = [queue EXCEPT ![call.q].packets = queue[call.q].packets + 1,
                                ![call.q].enqueued = queue[call.q].enqueued + 1]
      /\ call.pc = "count" /\ call' = NoCall
      /\ UNCHANGED <<reader, closer, kind, loads, dropped, refused>>
  BY DEF EnqueueCount, CountPacket, Answered, Accepted, Settle
<1>2. q_id' \in Queues
  BY TypeFacts, ConstantFacts DEF EnqueueCount, Answered, Accepted
<1>3. /\ call' \in CallType /\ call'.pc = "idle" /\ call.q \in Queues
      /\ Loading = 1 /\ Loading' = 0
  BY <1>1, TypeFacts, ConstantFacts DEF NoCall, CallType, Loading
<1>4. \A q \in Queues :
        /\ queue'[q].packets = queue[q].packets + (IF q = call.q THEN 1 ELSE 0)
        /\ queue'[q].enqueued = queue[q].enqueued + (IF q = call.q THEN 1 ELSE 0)
        /\ queue'[q].head = queue[q].head /\ queue'[q].closed = queue[q].closed
        /\ queue'[q].tail = queue[q].tail /\ queue'[q].written = queue[q].written
  <2>1. \A q \in Queues : /\ queue[q] \in QueueType /\ queue[q].packets \in Nat
                          /\ queue[q].enqueued \in Nat
    BY TypeFacts, ConstantFacts
  <2>2. QED
    BY <1>1, <1>3, <2>1, TypeFacts DEF QueueType
<1>5. queue[call.q].enqueued + 1 \in 0 .. MaxLoads
  <2>1. Ended[call.q] + 1 <= loads /\ loads \in 0 .. MaxLoads
    BY <1>3, TypeFacts DEF WithinLoads
  <2>2. QED
    BY <1>3, <2>1, EndedFacts, TypeFacts, ConstantFacts
<1>6. queue[call.q].packets + 1 \in 0 .. MaxLoads
  BY <1>3, <1>5, TypeFacts, ConstantFacts DEF PacketsExact
<1>7. TypeOK'
  <2>1. queue[call.q] \in QueueType
    BY <1>3, TypeFacts
  <2>2. [queue[call.q] EXCEPT !.packets = queue[call.q].packets + 1,
                              !.enqueued = queue[call.q].enqueued + 1] \in QueueType
    BY <1>5, <1>6, <2>1 DEF QueueType
  <2>3. queue' \in [Queues -> QueueType]
    BY <1>1, <2>2, TypeFacts
  <2>4. QED
    BY <1>1, <1>2, <1>3, <2>3, TypeFacts, TypesGivenNext
<1>8. \A q \in Queues : Ended'[q] = Ended[q] + (IF q = call.q THEN 1 ELSE 0)
  <2>1. ASSUME NEW q \in Queues PROVE Ended'[q] = Ended[q] + (IF q = call.q THEN 1 ELSE 0)
    <3> DEFINE a == queue[q].enqueued
               b == dropped[q]
               c == IF q = call.q THEN 1 ELSE 0
               d == refused[q]
    <3>1. a \in Nat /\ b \in Nat /\ c \in Nat /\ d \in Nat /\ Ended[q] = a + b + d
      BY EndedFacts
    <3>2. Ended'[q] = a + c + b + d
      <4>1. Ended'[q] = queue'[q].enqueued + dropped'[q] + refused'[q]
        BY EndedFacts
      <4>2. queue'[q].enqueued = a + c
        BY <1>4
      <4>3. QED
        BY <1>1, <4>1, <4>2
    <3> HIDE DEF a, b, c, d
    <3>3. Ended'[q] = Ended[q] + c
      BY <3>1, <3>2
    <3>4. QED
      BY <3>3 DEF c
  <2>2. QED
    BY <2>1
<1>9. WithinLoads' /\ LoadsCounted' /\ TestsOwn' /\ DroppedOnce'
  <2>1. ASSUME NEW q \in Queues PROVE Ended'[q] + Loading' <= loads'
    <3> DEFINE e == Ended[q]
               d == Ended'[q]
               m == loads
    <3>1. e + 1 <= m /\ e \in Nat
      BY <1>3, EndedFacts DEF WithinLoads
    <3>2. m \in Nat /\ (d = e \/ d = e + 1)
      BY <1>8, <3>1, TypeFacts, ConstantFacts
    <3> HIDE DEF d, e, m
    <3>3. d + 0 <= m
      BY <3>1, <3>2
    <3>4. QED
      BY <1>1, <1>3, <3>3 DEF d, m
  <2>2. LoadsCounted'
    <3>1. loads \in Nat
      BY TypeFacts, ConstantFacts
    <3>2. QED
      BY <1>1, <1>3, <1>8, <3>1, CountMoves
  <2>3. TestsOwn' /\ DroppedOnce'
    <3>1. TestsOwn' /\ ~(call'.pc = "check")
      BY <1>3 DEF TestsOwn
    <3>2. \A q \in Queues : ~AboutToDrop(q)'
      BY <3>1 DEF AboutToDrop
    <3>3. ASSUME NEW q \in Queues
          PROVE  /\ refused'[q] > 0 => kind' = "rr" /\ queue'[q].closed
                 /\ dropped'[q] > 0 => kind' = "rr" /\ queue'[q].closed /\ dropped'[q] = 1
      <4>1. /\ refused[q] > 0 => kind = "rr" /\ queue[q].closed
            /\ dropped[q] > 0 => kind = "rr" /\ queue[q].closed /\ dropped[q] = 1
        BY DEF DroppedOnce
      <4>2. queue'[q].closed = queue[q].closed
        BY <1>4
      <4>3. QED
        BY <1>1, <4>1, <4>2
    <3>4. QED
      BY <3>1, <3>2, <3>3 DEF DroppedOnce
  <2>4. QED
    BY <2>1, <2>2, <2>3 DEF WithinLoads
<1>10. SlotsWritten'
  <2>1. \A q \in Queues : Writes(q)' = Writes(q)
    BY <1>1, <1>3, <1>4, TypeFacts, ConstantFacts DEF Writes
  <2>2. QED
    BY <1>4, <2>1 DEF SlotsWritten
<1>11. ReaderClaims'
  BY <1>1, <1>4 DEF ReaderClaims
<1>12. PacketsExact'
  <2>1. ASSUME NEW q \in Queues
        PROVE  queue'[q].packets + queue'[q].head + (IF reader'[q].pc = "head" THEN 1 ELSE 0)
                 = queue'[q].enqueued
    BY <1>1, <1>4, TypeFacts, ConstantFacts DEF PacketsExact
  <2>2. QED
    BY <2>1 DEF PacketsExact
<1>13. QED
  BY <1>7, <1>9, <1>10, <1>11, <1>12

\* A step of a consumer or of the closing thread leaves the producer's side.
LEMMA ProducerUntouched ==
  ASSUME LoadInv, UNCHANGED LoaderVars,
         queue' \in [Queues -> QueueType], reader' \in [Queues -> ReaderType],
         closer' \in CloserType,
         \A q \in Queues :
           /\ queue'[q].enqueued = queue[q].enqueued /\ queue'[q].tail = queue[q].tail
           /\ queue'[q].written = queue[q].written /\ (queue[q].closed => queue'[q].closed)
  PROVE  /\ TypeOK' /\ WithinLoads' /\ LoadsCounted' /\ TestsOwn' /\ DroppedOnce'
         /\ SlotsWritten'
<1> USE DEF LoadInv, LoaderVars
<1>1. TypeOK'
  BY TypeFacts, TypesGivenNext
<1>2. /\ Loading' = Loading /\ Loading \in {0, 1} /\ loads \in Nat /\ loads' = loads
      /\ \A q \in Queues : Writes(q)' = Writes(q) /\ Ended'[q] = Ended[q]
  BY TypeFacts, ConstantFacts, EndedFacts DEF Loading, Writes
<1>3. WithinLoads' /\ SlotsWritten' /\ TestsOwn'
  BY <1>2 DEF WithinLoads, SlotsWritten, TestsOwn
<1>4. LoadsCounted'
  BY <1>2, CountStays
<1>5. DroppedOnce'
  <2>1. ASSUME NEW q \in Queues
        PROVE  /\ refused'[q] > 0 => kind' = "rr" /\ queue'[q].closed
               /\ dropped'[q] > 0 =>
                    kind' = "rr" /\ queue'[q].closed /\ dropped'[q] = 1 /\ ~AboutToDrop(q)'
    <3>1. /\ refused[q] > 0 => kind = "rr" /\ queue[q].closed
          /\ dropped[q] > 0 =>
               kind = "rr" /\ queue[q].closed /\ dropped[q] = 1 /\ ~AboutToDrop(q)
      BY DEF DroppedOnce
    <3>2. QED
      BY <3>1 DEF AboutToDrop
  <2>2. QED
    BY <2>1 DEF DroppedOnce
<1>6. QED
  BY <1>1, <1>3, <1>4, <1>5

\* A consumer moves without writing to its queue.
LEMMA ReaderMoves ==
  ASSUME LoadInv, NEW q \in Queues, NEW r \in ReaderType,
         reader' = [reader EXCEPT ![q] = r],
         UNCHANGED <<queue, closer>>, UNCHANGED LoaderVars,
         reader[q].pc # "head", r.pc \notin {"head", "read"},
         r.pc = "cas" => r.current_packets > 0
  PROVE  LoadInv'
<1> USE DEF LoadInv
<1>1. \A x \in Queues : reader'[x] = IF x = q THEN r ELSE reader[x]
  BY TypeFacts
<1>2. reader' \in [Queues -> ReaderType]
  BY TypeFacts
<1>3. TypeOK' /\ WithinLoads' /\ LoadsCounted' /\ TestsOwn' /\ DroppedOnce' /\ SlotsWritten'
  BY <1>2, TypeFacts, ProducerUntouched
<1>4. ReaderClaims'
  BY <1>1 DEF ReaderClaims
<1>5. PacketsExact'
  BY <1>1 DEF PacketsExact
<1>6. QED
  BY <1>3, <1>4, <1>5

LEMMA DequeueReadsPreserve ==
  ASSUME LoadInv, NEW q \in Queues, DequeueBegin(q) \/ DequeueLoad(q) \/ DequeueRead(q),
         UNCHANGED LoaderVars
  PROVE  LoadInv'
<1> USE DEF LoadInv
<1>1. reader[q] \in ReaderType /\ IdleReader \in ReaderType /\ IdleReader.pc = "idle"
  BY TypeFacts, ConstantFacts DEF IdleReader, ReaderType
<1>2. CASE DequeueBegin(q)
  <2>1. PICK l \in {"idle", "load"} : reader' = [reader EXCEPT ![q] = [reader[q] EXCEPT !.pc = l]]
    BY <1>2 DEF DequeueBegin, Goto
  <2> DEFINE r == [reader[q] EXCEPT !.pc = l]
  <2>2. r \in ReaderType /\ r.pc = l
    BY <1>1 DEF ReaderType
  <2> HIDE DEF r
  <2>3. QED
    BY <1>2, <2>1, <2>2, ReaderMoves DEF DequeueBegin, r
<1>3. CASE DequeueLoad(q)
  <2>1. CASE NoPackets(q)
    BY <1>1, <1>3, <2>1, ReaderMoves DEF DequeueLoad
  <2>2. CASE ~NoPackets(q)
    <3> DEFINE r == [reader[q] EXCEPT !.pc = "cas", !.current_packets = queue[q].packets]
    <3>1. r \in ReaderType /\ r.pc = "cas" /\ r.current_packets = queue[q].packets
      BY <1>1, TypeFacts DEF ReaderType
    <3>2. queue[q].packets > 0
      BY <2>2, TypeFacts, ConstantFacts DEF NoPackets
    <3>3. reader' = [reader EXCEPT ![q] = r]
      BY <1>3, <2>2 DEF DequeueLoad
    <3> HIDE DEF r
    <3>4. QED
      BY <1>3, <3>1, <3>2, <3>3, ReaderMoves DEF DequeueLoad
  <2>3. QED
    BY <2>1, <2>2
<1>4. CASE DequeueRead(q)
  BY <1>1, <1>4, ReaderMoves DEF DequeueRead
<1>5. QED
  BY <1>2, <1>3, <1>4

LEMMA DequeueCasPreserves ==
  ASSUME LoadInv, NEW q \in Queues, DequeueCas(q), UNCHANGED LoaderVars
  PROVE  LoadInv'
<1> USE DEF LoadInv
<1>1. reader[q].pc = "cas" /\ reader[q] \in ReaderType /\ queue[q] \in QueueType
  BY TypeFacts DEF DequeueCas
<1>2. CASE ~CasSucceeds(q)
  <2>1. IdleReader \in ReaderType /\ IdleReader.pc = "idle"
    BY ConstantFacts DEF IdleReader, ReaderType
  <2>2. QED
    BY <1>1, <1>2, <2>1, ReaderMoves DEF DequeueCas
<1>3. CASE CasSucceeds(q)
  <2> DEFINE p == reader[q].current_packets - 1
             r == [reader[q] EXCEPT !.pc = "head"]
  <2>1. p \in 0 .. MaxLoads /\ p = queue[q].packets - 1
    BY <1>1, <1>3, TypeFacts, ConstantFacts DEF CasSucceeds, ReaderClaims
  <2>2. queue' = [queue EXCEPT ![q].packets = p] /\ reader' = [reader EXCEPT ![q] = r]
        /\ closer' = closer
    BY <1>3 DEF DequeueCas, Goto
  <2> HIDE DEF p
  <2>3. [queue[q] EXCEPT !.packets = p] \in QueueType
    BY <1>1, <2>1 DEF QueueType
  <2>4. r \in ReaderType /\ r.pc = "head"
    BY <1>1 DEF ReaderType
  <2> HIDE DEF r
  <2>5. queue' \in [Queues -> QueueType] /\ reader' \in [Queues -> ReaderType]
    BY <2>2, <2>3, <2>4, TypeFacts
  <2>6. \A x \in Queues :
          /\ queue'[x].packets = (IF x = q THEN p ELSE queue[x].packets)
          /\ queue'[x].head = queue[x].head /\ queue'[x].closed = queue[x].closed
          /\ queue'[x].enqueued = queue[x].enqueued /\ queue'[x].tail = queue[x].tail
          /\ queue'[x].written = queue[x].written
    <3>1. \A x \in Queues : queue[x] \in QueueType
      BY TypeFacts
    <3>2. QED
      BY <2>2, <3>1, TypeFacts DEF QueueType
  <2>7. \A x \in Queues : reader'[x] = IF x = q THEN r ELSE reader[x]
    BY <2>2, TypeFacts
  <2>8. TypeOK' /\ WithinLoads' /\ LoadsCounted' /\ TestsOwn' /\ DroppedOnce' /\ SlotsWritten'
    BY <2>2, <2>5, <2>6, TypeFacts, ProducerUntouched
  <2>9. ReaderClaims'
    BY <2>4, <2>6, <2>7 DEF ReaderClaims
  <2>10. PacketsExact'
    <3>1. ASSUME NEW x \in Queues
          PROVE  queue'[x].packets + queue'[x].head + (IF reader'[x].pc = "head" THEN 1 ELSE 0)
                   = queue'[x].enqueued
      <4>1. queue[x].packets + queue[x].head + (IF reader[x].pc = "head" THEN 1 ELSE 0)
              = queue[x].enqueued
        BY DEF PacketsExact
      <4>2. queue[x].packets \in Nat /\ queue[x].head \in Nat
        BY TypeFacts, ConstantFacts
      <4>3. CASE x = q
        <5>1. queue'[x].packets = queue[x].packets - 1 /\ reader'[x].pc = "head"
          BY <2>1, <2>4, <2>6, <2>7, <4>3
        <5>2. queue'[x].head = queue[x].head /\ queue'[x].enqueued = queue[x].enqueued
          BY <2>6
        <5>3. QED
          BY <1>1, <4>1, <4>2, <4>3, <5>1, <5>2
      <4>4. CASE x # q
        BY <2>6, <2>7, <4>1, <4>4
      <4>5. QED
        BY <4>3, <4>4
    <3>2. QED
      BY <3>1 DEF PacketsExact
  <2>11. QED
    BY <2>8, <2>9, <2>10
<1>4. QED
  BY <1>2, <1>3

LEMMA DequeueHeadPreserves ==
  ASSUME LoadInv, NEW q \in Queues, DequeueHead(q), UNCHANGED LoaderVars
  PROVE  LoadInv'
<1> USE DEF LoadInv
<1>1. reader[q].pc = "head" /\ reader[q] \in ReaderType /\ queue[q] \in QueueType
  BY TypeFacts DEF DequeueHead
<1> DEFINE h == queue[q].head + 1
           r == [reader[q] EXCEPT !.pc = "read", !.my_head = queue[q].head % Capacity]
<1>2. h \in 0 .. MaxLoads /\ h > 0 /\ queue[q].head = h - 1 /\ queue[q].head \in Nat
  BY <1>1, TypeFacts, ConstantFacts DEF PacketsExact
<1>3. queue' = [queue EXCEPT ![q].head = h] /\ reader' = [reader EXCEPT ![q] = r]
      /\ closer' = closer
  BY DEF DequeueHead
<1>4. r \in ReaderType /\ r.pc = "read" /\ r.my_head = (h - 1) % Capacity
  <2>1. queue[q].head % Capacity \in 0 .. Capacity - 1
    BY <1>2, ConstantFacts
  <2>2. r \in ReaderType
    BY <1>1, <2>1 DEF ReaderType
  <2>3. r.pc = "read" /\ r.my_head = queue[q].head % Capacity
    BY <1>1 DEF ReaderType
  <2> HIDE DEF h, r
  <2>4. QED
    BY <1>2, <2>2, <2>3
<1> HIDE DEF h, r
<1>5. [queue[q] EXCEPT !.head = h] \in QueueType
  BY <1>1, <1>2 DEF QueueType
<1>6. queue' \in [Queues -> QueueType] /\ reader' \in [Queues -> ReaderType]
  BY <1>3, <1>4, <1>5, TypeFacts
<1>7. \A x \in Queues :
        /\ queue'[x].head = (IF x = q THEN h ELSE queue[x].head)
        /\ queue'[x].packets = queue[x].packets /\ queue'[x].closed = queue[x].closed
        /\ queue'[x].enqueued = queue[x].enqueued /\ queue'[x].tail = queue[x].tail
        /\ queue'[x].written = queue[x].written
  <2>1. \A x \in Queues : queue[x] \in QueueType
    BY TypeFacts
  <2>2. QED
    BY <1>3, <2>1, TypeFacts DEF QueueType
<1>8. \A x \in Queues : reader'[x] = IF x = q THEN r ELSE reader[x]
  BY <1>3, TypeFacts
<1>9. TypeOK' /\ WithinLoads' /\ LoadsCounted' /\ TestsOwn' /\ DroppedOnce' /\ SlotsWritten'
  BY <1>3, <1>6, <1>7, TypeFacts, ProducerUntouched
<1>10. ReaderClaims'
  BY <1>2, <1>4, <1>7, <1>8 DEF ReaderClaims
<1>11. PacketsExact'
  <2>1. ASSUME NEW x \in Queues
        PROVE  queue'[x].packets + queue'[x].head + (IF reader'[x].pc = "head" THEN 1 ELSE 0)
                 = queue'[x].enqueued
    <3>1. queue[x].packets + queue[x].head + (IF reader[x].pc = "head" THEN 1 ELSE 0)
            = queue[x].enqueued
      BY DEF PacketsExact
    <3>2. queue[x].packets \in Nat /\ queue[x].head \in Nat
      BY TypeFacts, ConstantFacts
    <3>3. CASE x = q
      <4>1. queue'[x].head = queue[x].head + 1 /\ reader'[x].pc = "read"
        BY <1>4, <1>7, <1>8, <3>3 DEF h
      <4>2. queue'[x].packets = queue[x].packets /\ queue'[x].enqueued = queue[x].enqueued
        BY <1>7
      <4>3. QED
        BY <1>1, <3>1, <3>2, <3>3, <4>1, <4>2
    <3>4. CASE x # q
      BY <1>7, <1>8, <3>1, <3>4
    <3>5. QED
      BY <3>3, <3>4
  <2>2. QED
    BY <2>1 DEF PacketsExact
<1>12. QED
  BY <1>9, <1>10, <1>11

LEMMA ClosePreserves ==
  ASSUME LoadInv, CloseNext
  PROVE  LoadInv'
<1> USE DEF LoadInv
<1>1. reader' = reader /\ UNCHANGED LoaderVars
  BY DEF CloseNext, CloseStep, CloseDrained, CloseStore, CloseBegin
<1>2. closer' \in CloserType
  BY TypeFacts, ConstantFacts
  DEF CloseNext, CloseStep, CloseDrained, CloseStore, CloseBegin, CloserType
<1>3. queue' = queue \/ queue' = [queue EXCEPT ![closer.q].closed = TRUE]
  BY DEF CloseNext, CloseStep, CloseDrained, CloseStore, CloseBegin
<1>4. queue' \in [Queues -> QueueType]
  <2>1. queue[closer.q] \in QueueType
    BY TypeFacts
  <2>2. [queue[closer.q] EXCEPT !.closed = TRUE] \in QueueType
    BY <2>1 DEF QueueType
  <2>3. QED
    BY <1>3, <2>2, TypeFacts
<1>5. \A x \in Queues :
        /\ queue'[x].head = queue[x].head /\ queue'[x].packets = queue[x].packets
        /\ (queue[x].closed => queue'[x].closed)
        /\ queue'[x].enqueued = queue[x].enqueued /\ queue'[x].tail = queue[x].tail
        /\ queue'[x].written = queue[x].written
  <2>1. \A x \in Queues : queue[x] \in QueueType
    BY TypeFacts
  <2>2. QED
    BY <1>3, <2>1, TypeFacts DEF QueueType
<1>6. TypeOK' /\ WithinLoads' /\ LoadsCounted' /\ TestsOwn' /\ DroppedOnce' /\ SlotsWritten'
  BY <1>1, <1>2, <1>4, <1>5, TypeFacts, ProducerUntouched
<1>7. ReaderClaims'
  BY <1>1, <1>5 DEF ReaderClaims
<1>8. PacketsExact'
  BY <1>1, <1>5 DEF PacketsExact
<1>9. QED
  BY <1>6, <1>7, <1>8

LEMMA Stutters ==
  ASSUME LoadInv, UNCHANGED vars
  PROVE  LoadInv'
<1> USE DEF LoadInv, vars, LoaderVars
<1>1. TypeOK' /\ WithinLoads' /\ LoadsCounted' /\ TestsOwn' /\ DroppedOnce' /\ SlotsWritten'
  BY TypeFacts, ProducerUntouched
<1>2. ReaderClaims' /\ PacketsExact'
  BY DEF ReaderClaims, PacketsExact
<1>3. QED
  BY <1>1, <1>2

-----------------------------------------------------------------------------
\* What the loader, the consumers and the closing thread rely on.
THEOREM LoadersInductive == Spec => []LoadInv
<1>1. Init => LoadInv
  BY Initial
<1>2. LoadInv /\ [Next]_vars => LoadInv'
  <2>1. SUFFICES ASSUME LoadInv, [Next]_vars PROVE LoadInv'
    OBVIOUS
  <2>2. CASE LoadBegin
    BY <2>1, <2>2, LoadBeginPreserves
  <2>3. CASE LoadStep
    BY <2>1, <2>3, RoundRobinPreserves, EnqueueCheckPreserves, EnqueueWaitPreserves,
       EnqueueWritePreserves, EnqueueCountPreserves
    DEF LoadStep
  <2>4. CASE Consume
    BY <2>1, <2>4, DequeueReadsPreserve, DequeueCasPreserves, DequeueHeadPreserves
    DEF Consume, DequeueStep
  <2>5. CASE CloseNext
    BY <2>1, <2>5, ClosePreserves
  <2>6. CASE UNCHANGED vars
    BY <2>1, <2>6, Stutters
  <2>7. QED
    BY <2>1, <2>2, <2>3, <2>4, <2>5, <2>6 DEF Next
<1>3. QED
  BY <1>1, <1>2, PTL DEF Spec

\* The indices of spsc_queue stay inside the ring, and packets, which dequeue
\* lowers with a compare and exchange, never goes below 0.
THEOREM LoadersTypeCorrect == Spec => []TypeOK
<1>1. LoadInv => TypeOK
  BY DEF LoadInv
<1>2. QED
  BY <1>1, LoadersInductive, PTL

\* No update of packets is lost between fetch_add and compare_exchange: it is
\* what was enqueued less what was claimed.
THEOREM PacketsNeverLost == Spec => []PacketsExact
<1>1. LoadInv => PacketsExact
  BY DEF LoadInv
<1>2. QED
  BY <1>1, LoadersInductive, PTL

\* Whatever the interleaving, dequeue returns true with a null item at most
\* once in the life of a queue, the first time.
THEOREM OnlyFirstIsNull == Spec => []NullOnlyFirst
<1>1. LoadInv => NullOnlyFirst
  <2>1. SUFFICES ASSUME LoadInv, NEW q \in Queues, reader[q].pc = "read",
                        reader[q].my_head \notin queue[q].written
                 PROVE  queue[q].head = 1
    BY DEF NullOnlyFirst
  <2> USE DEF LoadInv
  <2> DEFINE h == queue[q].head
  <2>2. h \in Nat /\ h > 0 /\ reader[q].my_head = (h - 1) % Capacity
    BY <2>1, TypeFacts, ConstantFacts DEF ReaderClaims
  <2>3. h <= Writes(q) /\ Writes(q) \in Nat
    <3>1. h <= queue[q].enqueued /\ queue[q].enqueued \in Nat
      BY <2>1, TypeFacts, ConstantFacts DEF PacketsExact
    <3>2. QED
      BY <2>2, <3>1 DEF Writes
  <2>4. ASSUME h # 1 PROVE FALSE
    <3>1. h - 1 \in 1 .. Writes(q)
      BY <2>2, <2>3, <2>4
    <3>2. (h - 1) % Capacity \in queue[q].written
      BY <2>1, <3>1 DEF SlotsWritten
    <3>3. QED
      BY <2>1, <2>2, <3>2
  <2>5. QED
    BY <2>4
<1>2. QED
  BY <1>1, LoadersInductive, PTL

\* Every load that has returned ended on one queue: with its item in that queue,
\* or, for rr_loader, refused by it: a load told a queue that is closed, and of the
\* loads that chose their queue at most one for each queue ever closed.
THEOREM EveryLoadEnqueued == Spec => []LoadEnqueues
<1>1. LoadInv => LoadEnqueues
  <2>1. SUFFICES ASSUME LoadInv PROVE LoadEnqueues
    OBVIOUS
  <2>2. ASSUME call.pc = "idle" PROVE Total(Ended) = loads
    <3>1. Total(Ended) \in Nat
      BY <2>1, SameTotal DEF LoadInv
    <3>2. Total(Ended) + 0 = loads
      BY <2>1, <2>2, CountedForm DEF LoadInv, Loading
    <3>3. QED
      BY <3>1, <3>2
  <2>3. \A q \in Queues :
          /\ refused[q] > 0 => kind = "rr" /\ queue[q].closed
          /\ dropped[q] > 0 => kind = "rr" /\ queue[q].closed /\ dropped[q] = 1
    BY <2>1 DEF LoadInv, DroppedOnce
  <2>4. QED
    BY <2>2, <2>3 DEF LoadEnqueues, Total
<1>2. QED
  BY <1>1, LoadersInductive, PTL
=============================================================================
