-------------------------- MODULE FiberPoolProofs --------------------------
(***************************************************************************)
(* The free list of FiberPool with one acquirer: its invariants, and that  *)
(* it implements PoolContract, for any number of releasing threads and any *)
(* size of the pool.                                                       *)
(***************************************************************************)
EXTENDS FiberPoolInvariant, Integers, FiniteSetTheorems, WellFoundedInduction, TLAPS

-----------------------------------------------------------------------------
(* The list that starts at h, with the links of link, as a function.       *)

Steps == 0 .. MaxFibers

Follow(p, link) == IF p = Null THEN Null ELSE link[p]

\* w follows link from h.
IsWalk(w, h, link) ==
  w = [n \in Steps |-> IF n = 0 THEN h ELSE Follow(w[n - 1], link)]

Listed(w) == {w[n] : n \in Steps} \ {Null}

Ends(w) == w[MaxFibers] = Null

Once(w) == \A i, j \in Steps : w[i] # Null /\ w[i] = w[j] => i = j

\* A nonempty set of natural numbers has a smallest element.
LEMMA LeastNat ==
  ASSUME NEW S \in SUBSET Nat, S # {}
  PROVE  \E x \in S : \A y \in S : x <= y
<1>1. PICK x \in S : \A y \in S : ~(<<y, x>> \in OpToRel(<, Nat))
  BY NatLessThanWellFounded, WFMin
<1>2. ASSUME NEW y \in S PROVE x <= y
  <2>1. y < x => <<y, x>> \in OpToRel(<, Nat)
    BY DEF OpToRel
  <2>2. ~(y < x)
    BY <1>1, <2>1, Zenon
  <2>3. QED
    BY <2>2
<1>3. QED
  BY <1>2

LEMMA StepFacts ==
  /\ MaxFibers \in Nat /\ 0 \in Steps /\ MaxFibers \in Steps
  /\ \A n \in 1 .. MaxFibers : n \in Steps /\ n - 1 \in Steps
  /\ Null \in Pointers /\ Null \notin Fibers /\ Fibers \subseteq Pointers
  BY PoolAssumption DEF Steps, Pointers, Null, Fibers

\* Two walks over the same links are the same.
LEMMA WalksAgree ==
  ASSUME NEW h, NEW link, NEW v, NEW w, IsWalk(v, h, link), IsWalk(w, h, link)
  PROVE  v = w
<1> DEFINE S == {n \in Steps : v[n] # w[n]}
<1>1. ASSUME S # {} PROVE FALSE
  <2>1. S \in SUBSET Nat
    BY StepFacts DEF Steps
  <2>2. PICK n \in S : \A y \in S : n <= y
    BY <1>1, <2>1, LeastNat
  <2>3. n # 0 /\ n \in Steps /\ v[n] # w[n]
    BY DEF IsWalk
  <2>4. n \in 1 .. MaxFibers /\ n - 1 \in Steps /\ n - 1 \notin S
    BY <2>1, <2>2, <2>3, StepFacts DEF Steps
  <2>5. v[n - 1] = w[n - 1]
    BY <2>4
  <2>6. QED
    BY <2>3, <2>4, <2>5 DEF IsWalk
<1>2. QED
  BY <1>1 DEF IsWalk

\* A walk exists from anywhere.
LEMMA WalkExists ==
  ASSUME NEW h \in Pointers, NEW link \in [Fibers -> Pointers]
  PROVE  \E w \in [Steps -> Pointers] : IsWalk(w, h, link)
<1> DEFINE Part(w, m) == /\ w \in [0 .. m -> Pointers] /\ w[0] = h
                         /\ \A n \in 1 .. m : w[n] = Follow(w[n - 1], link)
           S == {m \in Steps : ~\E w : Part(w, m)}
<1>1. ASSUME S # {} PROVE FALSE
  <2>1. S \in SUBSET Nat
    BY StepFacts DEF Steps
  <2> HIDE DEF S
  <2>2. PICK m \in S : \A y \in S : m <= y
    BY <1>1, <2>1, LeastNat
  <2>3. m \in Steps /\ ~\E w : Part(w, m)
    BY DEF S
  <2>4. CASE m = 0
    <3>1. Part([n \in 0 .. 0 |-> h], 0)
      OBVIOUS
    <3>2. QED
      BY <2>3, <2>4, <3>1
  <2>5. CASE m # 0
    <3>1. m \in Nat /\ m - 1 \in Steps /\ m - 1 \notin S
      BY <2>1, <2>2, <2>3, <2>5, StepFacts DEF Steps
    <3>2. PICK w : Part(w, m - 1)
      BY <3>1 DEF S
    <3> DEFINE v == [n \in 0 .. m |-> IF n = m THEN Follow(w[m - 1], link) ELSE w[n]]
    <3>3. Follow(w[m - 1], link) \in Pointers
      <4>1. w[m - 1] \in Pointers
        BY <2>5, <3>1, <3>2
      <4>2. QED
        BY <4>1, StepFacts DEF Follow, Pointers
    <3>4. Part(v, m)
      <4>1. v \in [0 .. m -> Pointers]
        BY <2>5, <3>1, <3>2, <3>3
      <4>2. v[0] = h
        BY <2>5, <3>1, <3>2
      <4>3. ASSUME NEW n \in 1 .. m PROVE v[n] = Follow(v[n - 1], link)
        BY <2>5, <3>1, <3>2
      <4>4. QED
        BY <4>1, <4>2, <4>3
    <3>5. QED
      BY <2>3, <3>4
  <2>6. QED
    BY <2>4, <2>5
<1>2. MaxFibers \notin S
  BY <1>1
<1>3. PICK w : Part(w, MaxFibers)
  BY <1>2, StepFacts
<1>4. w \in [Steps -> Pointers] /\ IsWalk(w, h, link)
  <2>1. w \in [Steps -> Pointers]
    BY <1>3 DEF Steps
  <2>2. \A n \in Steps : w[n] = IF n = 0 THEN h ELSE Follow(w[n - 1], link)
    BY <1>3 DEF Steps
  <2>3. QED
    BY <2>1, <2>2 DEF IsWalk
<1>5. QED
  BY <1>4

LEMMA WalkTyped ==
  ASSUME NEW h \in Pointers, NEW link \in [Fibers -> Pointers], NEW w, IsWalk(w, h, link)
  PROVE  /\ w \in [Steps -> Pointers] /\ w[0] = h
         /\ \A n \in 1 .. MaxFibers : w[n] = Follow(w[n - 1], link)
<1>1. PICK v \in [Steps -> Pointers] : IsWalk(v, h, link)
  BY WalkExists
<1>2. w \in [Steps -> Pointers]
  BY <1>1, WalksAgree
<1>3. \A n \in Steps : w[n] = IF n = 0 THEN h ELSE Follow(w[n - 1], link)
  BY DEF IsWalk
<1>4. QED
  BY <1>2, <1>3, StepFacts

\* The recursive definition of Chain denotes a walk.
LEMMA RecursionWalks ==
  ASSUME NEW h \in Pointers, NEW link \in [Fibers -> Pointers]
  PROVE  IsWalk(CHOOSE g : g = [n \in 0 .. MaxFibers |->
                  IF n = 0 THEN h ELSE IF g[n - 1] = Null THEN Null ELSE link[g[n - 1]]], h, link)
<1> DEFINE R(g) == [n \in 0 .. MaxFibers |->
                     IF n = 0 THEN h ELSE IF g[n - 1] = Null THEN Null ELSE link[g[n - 1]]]
<1>1. PICK w : IsWalk(w, h, link)
  BY WalkExists
<1>2. w = R(w)
  BY <1>1 DEF IsWalk, Steps, Follow
<1>3. (CHOOSE g : g = R(g)) = R(CHOOSE g : g = R(g))
  BY <1>2
<1>4. \A g : g = R(g) => IsWalk(g, h, link)
  BY DEF IsWalk, Steps, Follow
<1>5. QED
  BY <1>3, <1>4

\* Chain is the walk from _head, before and after a step.
LEMMA ChainWalks ==
  /\ TypeOK => IsWalk(Chain, head, pool_next)
  /\ TypeOK' => IsWalk(Chain', head', pool_next')
<1>1. ASSUME TypeOK PROVE IsWalk(Chain, head, pool_next)
  BY <1>1, RecursionWalks DEF TypeOK, Chain
<1>2. ASSUME TypeOK' PROVE IsWalk(Chain', head', pool_next')
  BY <1>2, RecursionWalks DEF TypeOK, Chain
<1>3. QED
  BY <1>1, <1>2

LEMMA ListedFibers ==
  ASSUME NEW w \in [Steps -> Pointers]
  PROVE  Listed(w) \subseteq Fibers
  BY DEF Listed, Pointers

\* What is listed from Null, and that a list contains its head.
LEMMA HeadListed ==
  ASSUME NEW h \in Pointers, NEW link \in [Fibers -> Pointers], NEW w, IsWalk(w, h, link)
  PROVE  /\ h = Null => Listed(w) = {}
         /\ h # Null => h \in Listed(w)
<1>1. /\ w \in [Steps -> Pointers] /\ w[0] = h
      /\ \A n \in 1 .. MaxFibers : w[n] = Follow(w[n - 1], link)
  BY WalkTyped
<1>2. ASSUME h = Null, Listed(w) # {} PROVE FALSE
  <2> DEFINE S == {n \in Steps : w[n] # Null}
  <2>1. S \in SUBSET Nat /\ S # {}
    BY <1>2, StepFacts DEF Listed, Steps
  <2>2. PICK n \in S : \A y \in S : n <= y
    BY <2>1, LeastNat
  <2>3. n \in Steps /\ w[n] # Null
    OBVIOUS
  <2>4. n # 0
    BY <1>1, <1>2, <2>3
  <2>5. n \in 1 .. MaxFibers /\ n - 1 \in Steps /\ n - 1 < n
    BY <2>3, <2>4, StepFacts DEF Steps
  <2>6. n - 1 \notin S
    BY <2>1, <2>2, <2>5
  <2>7. w[n - 1] = Null
    BY <2>5, <2>6
  <2>8. QED
    BY <1>1, <2>3, <2>5, <2>7 DEF Follow
<1>3. QED
  BY <1>1, <1>2, StepFacts DEF Listed

\* A list that lacks a fiber ends a step earlier than it has to.
LEMMA Room ==
  ASSUME NEW h \in Pointers, NEW link \in [Fibers -> Pointers], NEW w, IsWalk(w, h, link),
         Once(w), NEW x \in Fibers, x \notin Listed(w)
  PROVE  MaxFibers \in 1 .. MaxFibers /\ w[MaxFibers - 1] = Null
<1>1. /\ w \in [Steps -> Pointers] /\ w[0] = h
      /\ \A n \in 1 .. MaxFibers : w[n] = Follow(w[n - 1], link)
  BY WalkTyped
<1>2. MaxFibers \in Nat \ {0} /\ MaxFibers \in 1 .. MaxFibers
  BY StepFacts DEF Fibers
<1> DEFINE D == 0 .. MaxFibers - 1
           T == Fibers \ {x}
<1>3. ASSUME w[MaxFibers - 1] # Null PROVE FALSE
  <2>1. \A i \in D : w[i] # Null
    <3> DEFINE S == {k \in D : w[MaxFibers - 1 - k] = Null}
    <3>1. ASSUME S # {} PROVE FALSE
      <4>1. S \in SUBSET Nat
        OBVIOUS
      <4>2. PICK k \in S : \A y \in S : k <= y
        BY <3>1, <4>1, LeastNat
      <4>3. k \in D /\ w[MaxFibers - 1 - k] = Null
        OBVIOUS
      <4>4. k # 0
        BY <1>2, <1>3, <4>3
      <4> DEFINE n == MaxFibers - k
      <4>5. n \in 1 .. MaxFibers /\ n - 1 = MaxFibers - 1 - k /\ n = MaxFibers - 1 - (k - 1)
        BY <1>2, <4>3, <4>4
      <4>6. w[n] = Null
        BY <1>1, <4>3, <4>5 DEF Follow
      <4>7. k - 1 \in D /\ k - 1 < k
        BY <1>2, <4>3, <4>4
      <4> HIDE DEF n
      <4>8. k - 1 \in S
        BY <4>5, <4>6, <4>7
      <4>9. QED
        BY <4>2, <4>7, <4>8
    <3>2. SUFFICES ASSUME NEW i \in D PROVE w[i] # Null
      OBVIOUS
    <3>3. MaxFibers - 1 - i \in D /\ MaxFibers - 1 - (MaxFibers - 1 - i) = i
      BY <1>2
    <3>4. QED
      BY <3>1, <3>3
  <2> DEFINE g == [i \in D |-> w[i]]
  <2>2. D \subseteq Steps
    BY <1>2 DEF Steps
  <2>3. g \in [D -> T]
    BY <1>1, <2>1, <2>2 DEF Listed, Pointers
  <2>4. IsFiniteSet(D) /\ Cardinality(D) = MaxFibers
    BY <1>2, FS_Interval
  <2>5. IsFiniteSet(Fibers) /\ Cardinality(Fibers) = MaxFibers
    BY <1>2, FS_Interval DEF Fibers
  <2>6. IsFiniteSet(T) /\ Cardinality(T) = MaxFibers - 1
    BY <2>5, FS_RemoveElement
  <2> HIDE DEF T
  <2>7. \E i, j \in D : i # j /\ g[i] = g[j]
    <3>1. Cardinality(T) < Cardinality(D)
      BY <1>2, <2>4, <2>6
    <3> HIDE DEF D, g
    <3>2. QED
      BY <2>3, <2>4, <2>6, <3>1, FS_PigeonHole
  <2>8. QED
    BY <2>1, <2>2, <2>7 DEF Once
<1>4. QED
  BY <1>2, <1>3

\* push: the list grows by the fiber at its head.
LEMMA Push ==
  ASSUME NEW h \in Pointers, NEW link \in [Fibers -> Pointers], NEW w, IsWalk(w, h, link),
         Once(w), NEW x \in Fibers, x \notin Listed(w), link[x] = h, NEW v, IsWalk(v, x, link)
  PROVE  Listed(v) = Listed(w) \cup {x} /\ Once(v) /\ Ends(v)
<1>1. /\ w \in [Steps -> Pointers] /\ w[0] = h
      /\ \A n \in 1 .. MaxFibers : w[n] = Follow(w[n - 1], link)
  BY WalkTyped
<1>2. MaxFibers \in 1 .. MaxFibers /\ w[MaxFibers - 1] = Null
  BY Room
<1> DEFINE u == [n \in Steps |-> IF n = 0 THEN x ELSE w[n - 1]]
<1>3. u[0] = x /\ \A n \in 1 .. MaxFibers : u[n] = w[n - 1]
  BY StepFacts
<1>4. ASSUME NEW n \in 1 .. MaxFibers PROVE u[n] = Follow(u[n - 1], link)
  <2>1. CASE n = 1
    <3>1. u[n] = h /\ u[n - 1] = x
      BY <1>1, <1>3, <2>1
    <3>2. QED
      BY <3>1, StepFacts DEF Follow
  <2>2. CASE n # 1
    <3>1. n - 1 \in 1 .. MaxFibers
      BY <2>2, StepFacts
    <3>2. u[n] = w[n - 1] /\ u[n - 1] = w[(n - 1) - 1]
      BY <1>3, <3>1
    <3>3. QED
      BY <1>1, <3>1, <3>2
  <2>3. QED
    BY <2>1, <2>2
<1>5. u = v
  <2> HIDE DEF u
  <2>1. \A n \in Steps : u[n] = IF n = 0 THEN x ELSE Follow(u[n - 1], link)
    BY <1>3, <1>4, StepFacts DEF Steps
  <2>2. IsWalk(u, x, link)
    BY <2>1 DEF IsWalk, u
  <2>3. QED
    BY <2>2, WalksAgree
<1> HIDE DEF u
<1>6. w[MaxFibers] = Null
  BY <1>1, <1>2 DEF Follow
<1>7. \A n \in Steps : n = MaxFibers \/ n + 1 \in 1 .. MaxFibers
  BY StepFacts DEF Steps
<1>8. x # Null
  BY StepFacts
<1>9. Listed(v) = Listed(w) \cup {x}
  <2>1. ASSUME NEW y \in Listed(v) PROVE y \in Listed(w) \cup {x}
    <3>1. PICK n \in Steps : y = u[n] /\ y # Null
      BY <1>5 DEF Listed
    <3>2. CASE n = 0
      BY <1>3, <3>1, <3>2
    <3>3. CASE n # 0
      <4>1. n \in 1 .. MaxFibers
        BY <3>3 DEF Steps
      <4>2. QED
        BY <1>3, <3>1, <4>1, StepFacts DEF Listed
    <3>4. QED
      BY <3>2, <3>3
  <2>2. ASSUME NEW y \in Listed(w) PROVE y \in Listed(v)
    <3>1. PICK n \in Steps : y = w[n] /\ y # Null
      BY DEF Listed
    <3>2. n + 1 \in 1 .. MaxFibers /\ (n + 1) - 1 = n
      BY <1>6, <1>7, <3>1 DEF Steps
    <3>3. u[n + 1] = w[n]
      BY <1>3, <3>2
    <3>4. QED
      BY <1>5, <3>1, <3>2, <3>3, StepFacts DEF Listed
  <2>3. x \in Listed(v)
    BY <1>3, <1>5, <1>8, StepFacts DEF Listed
  <2>4. QED
    BY <2>1, <2>2, <2>3
<1>10. Once(v)
  <2> SUFFICES ASSUME NEW i \in Steps, NEW j \in Steps, u[i] # Null, u[i] = u[j] PROVE i = j
    BY <1>5 DEF Once
  <2>1. \A n \in Steps \ {0} : n \in 1 .. MaxFibers /\ n - 1 \in Steps /\ u[n] = w[n - 1]
    BY <1>3, StepFacts DEF Steps
  <2>2. \A n \in Steps \ {0} : u[n] # Null => u[n] # x
    BY <2>1 DEF Listed
  <2>3. CASE i = 0 \/ j = 0
    BY <1>3, <2>2, <2>3
  <2>4. CASE i # 0 /\ j # 0
    <3>1. i - 1 = j - 1
      BY <2>1, <2>4 DEF Once
    <3>2. QED
      BY <3>1 DEF Steps
  <2>5. QED
    BY <2>3, <2>4
<1>11. Ends(v)
  BY <1>2, <1>3, <1>5 DEF Ends
<1>12. QED
  BY <1>9, <1>10, <1>11

\* pop: the list loses its head.
LEMMA Pop ==
  ASSUME NEW h \in Fibers, NEW link \in [Fibers -> Pointers], NEW w, IsWalk(w, h, link),
         Once(w), Ends(w), NEW v, IsWalk(v, link[h], link)
  PROVE  Listed(v) = Listed(w) \ {h} /\ Once(v) /\ Ends(v)
<1>1. /\ w \in [Steps -> Pointers] /\ w[0] = h
      /\ \A n \in 1 .. MaxFibers : w[n] = Follow(w[n - 1], link)
  BY WalkTyped, StepFacts
<1> DEFINE u == [n \in Steps |-> IF n = MaxFibers THEN Null ELSE w[n + 1]]
<1>2. MaxFibers \in Nat \ {0} /\ 1 \in 1 .. MaxFibers /\ h # Null
  BY StepFacts DEF Fibers, Null
<1>3. /\ u[MaxFibers] = Null
      /\ \A n \in Steps \ {MaxFibers} : n + 1 \in 1 .. MaxFibers /\ n + 1 \in Steps /\ u[n] = w[n + 1]
      /\ \A n \in 1 .. MaxFibers : n - 1 \in Steps \ {MaxFibers} /\ u[n - 1] = w[n]
  <2>1. \A n \in Steps \ {MaxFibers} : n + 1 \in 1 .. MaxFibers /\ n + 1 \in Steps
    BY <1>2 DEF Steps
  <2>2. \A n \in 1 .. MaxFibers : n - 1 \in Steps \ {MaxFibers} /\ (n - 1) + 1 = n
    BY <1>2 DEF Steps
  <2>3. QED
    BY <2>1, <2>2, StepFacts
<1>4. u[0] = link[h]
  <2>1. u[0] = w[1] /\ w[1] = Follow(w[0], link)
    BY <1>1, <1>2, <1>3
  <2>2. QED
    BY <1>1, <1>2, <2>1 DEF Follow
<1> HIDE DEF u
<1>5. ASSUME NEW n \in 1 .. MaxFibers PROVE u[n] = Follow(u[n - 1], link)
  <2>1. u[n - 1] = w[n]
    BY <1>3
  <2>2. CASE n = MaxFibers
    BY <1>3, <2>1, <2>2 DEF Ends, Follow
  <2>3. CASE n # MaxFibers
    <3>1. n + 1 \in 1 .. MaxFibers /\ (n + 1) - 1 = n /\ u[n] = w[n + 1]
      BY <1>2, <1>3, <2>3, StepFacts
    <3>2. QED
      BY <1>1, <2>1, <3>1
  <2>4. QED
    BY <2>2, <2>3
<1>6. u = v
  <2>1. \A n \in Steps : u[n] = IF n = 0 THEN link[h] ELSE Follow(u[n - 1], link)
    BY <1>4, <1>5 DEF Steps
  <2>2. IsWalk(u, link[h], link)
    BY <2>1 DEF IsWalk, u
  <2>3. QED
    BY <2>2, WalksAgree
<1>7. Listed(v) = Listed(w) \ {h}
  <2>1. ASSUME NEW y \in Listed(v) PROVE y \in Listed(w) /\ y # h
    <3>1. PICK n \in Steps : y = u[n] /\ y # Null
      BY <1>6 DEF Listed
    <3>2. n + 1 \in Steps /\ y = w[n + 1] /\ n + 1 # 0
      BY <1>3, <3>1 DEF Steps
    <3>3. QED
      BY <1>1, <3>1, <3>2, StepFacts DEF Listed, Once
  <2>2. ASSUME NEW y \in Listed(w), y # h PROVE y \in Listed(v)
    <3>1. PICK n \in Steps : y = w[n] /\ y # Null
      BY DEF Listed
    <3>2. n \in 1 .. MaxFibers
      BY <1>1, <2>2, <3>1 DEF Steps
    <3>3. n - 1 \in Steps /\ u[n - 1] = w[n]
      BY <1>3, <3>2
    <3>4. QED
      BY <1>6, <3>1, <3>3 DEF Listed
  <2>3. QED
    BY <2>1, <2>2
<1>8. Once(v)
  <2> SUFFICES ASSUME NEW i \in Steps, NEW j \in Steps, u[i] # Null, u[i] = u[j] PROVE i = j
    BY <1>6 DEF Once
  <2>1. i # MaxFibers /\ j # MaxFibers
    BY <1>3
  <2>2. i + 1 = j + 1
    BY <1>3, <2>1 DEF Once
  <2>3. QED
    BY <2>2 DEF Steps
<1>9. QED
  BY <1>3, <1>6, <1>7, <1>8 DEF Ends

\* The link of a fiber that is not on the list does not matter.
LEMMA Relink ==
  ASSUME NEW h \in Pointers, NEW link \in [Fibers -> Pointers], NEW w, IsWalk(w, h, link),
         NEW x \in Fibers, x \notin Listed(w), NEW p,
         NEW v, IsWalk(v, h, [link EXCEPT ![x] = p])
  PROVE  v = w
<1>1. w \in [Steps -> Pointers]
  BY WalkTyped
<1>2. ASSUME NEW n \in Steps, n # 0
      PROVE  Follow(w[n - 1], link) = Follow(w[n - 1], [link EXCEPT ![x] = p])
  <2>1. n - 1 \in Steps
    BY <1>2, StepFacts DEF Steps
  <2>2. w[n - 1] = Null \/ (w[n - 1] \in Fibers /\ w[n - 1] # x)
    BY <1>1, <2>1 DEF Listed, Pointers
  <2>3. QED
    BY <2>2 DEF Follow
<1>3. IsWalk(w, h, [link EXCEPT ![x] = p])
  BY <1>2 DEF IsWalk
<1>4. QED
  BY <1>3, WalksAgree

-----------------------------------------------------------------------------
(* Types.  They need no bound on the number of acquirers. *)

LEMMA PoolTypeInit == Init => TypeOK
<1> SUFFICES ASSUME Init PROVE TypeOK
  OBVIOUS
<1>1. head \in Pointers /\ allocated \in 0 .. MaxFibers /\ inUse \subseteq Fibers
  BY PoolAssumption DEF Init, Pointers, Fibers, Null
<1>2. pool_next \in [Fibers -> Pointers]
  BY PoolAssumption DEF Init, Pointers, Fibers, Null
<1>3. pc \in [Threads -> PC] /\ \A t \in Threads : pc[t] = "idle"
  BY DEF Init, PC
<1>4. f \in [Threads -> Pointers] /\ next \in [Threads -> Pointers]
  BY StepFacts DEF Init
<1>5. QED
  BY <1>1, <1>2, <1>3, <1>4 DEF TypeOK

LEMMA ThreadSets == Acquirers \subseteq Threads /\ Releasers \subseteq Threads
  BY DEF Threads

LEMMA AcquireType ==
  ASSUME TypeOK, NEW t \in Threads, Acquire(t)
  PROVE  TypeOK'
<1>1. f[t] \in Pointers /\ next[t] \in Pointers /\ (pc[t] \notin {"idle", "a_new"} => f[t] \in Fibers)
  BY DEF TypeOK, Pointers
<1>2. head' \in Pointers
  BY <1>1 DEF Acquire, AcquireLoad, AcquireNext, AcquireCas, AcquireReset, AcquireNew, TypeOK
<1>3. pool_next' \in [Fibers -> Pointers]
  BY StepFacts DEF Acquire, AcquireLoad, AcquireNext, AcquireCas, AcquireReset, AcquireNew, TypeOK
<1>4. allocated' \in 0 .. MaxFibers
  BY StepFacts DEF Acquire, AcquireLoad, AcquireNext, AcquireCas, AcquireReset, AcquireNew, TypeOK
<1>5. inUse' \subseteq Fibers
  <2>1. CASE AcquireNew(t)
    <3>1. allocated + 1 \in Fibers
      BY <2>1, StepFacts DEF AcquireNew, Fibers, TypeOK
    <3>2. QED
      BY <2>1, <3>1 DEF AcquireNew, HandOut, TypeOK
  <2>2. CASE AcquireReset(t)
    BY <1>1, <2>2 DEF AcquireReset, HandOut, TypeOK
  <2>3. QED
    BY <2>1, <2>2 DEF Acquire, AcquireLoad, AcquireNext, AcquireCas, TypeOK
<1>6. pc' \in [Threads -> PC]
  BY DEF Acquire, AcquireLoad, AcquireNext, AcquireCas, AcquireReset, AcquireNew, AcquireRetry,
         Inspect, HandOut, Goto, TypeOK, PC
<1>7. f' \in [Threads -> Pointers]
  BY StepFacts DEF Acquire, AcquireLoad, AcquireNext, AcquireCas, AcquireReset, AcquireNew,
                   AcquireRetry, Inspect, HandOut, TypeOK
<1>8. next' \in [Threads -> Pointers]
  <2>1. CASE AcquireNext(t)
    <3>1. pool_next[f[t]] \in Pointers
      BY <1>1, <2>1 DEF AcquireNext, TypeOK
    <3>2. QED
      BY <2>1, <3>1 DEF AcquireNext, TypeOK
  <2>2. QED
    BY <2>1, StepFacts DEF Acquire, AcquireLoad, AcquireCas, AcquireReset, AcquireNew, HandOut, TypeOK
<1>9. \A u \in Threads : pc'[u] \notin {"idle", "a_new"} => f'[u] # Null
  BY DEF Acquire, AcquireLoad, AcquireNext, AcquireCas, AcquireReset, AcquireNew, AcquireRetry,
         Inspect, HandOut, Goto, TypeOK
<1>10. QED
  BY <1>2, <1>3, <1>4, <1>5, <1>6, <1>7, <1>8, <1>9 DEF TypeOK

LEMMA ReleaseType ==
  ASSUME TypeOK, NEW t \in Threads, Release(t)
  PROVE  TypeOK'
<1>1. f[t] \in Pointers /\ next[t] \in Pointers /\ (pc[t] \notin {"idle", "a_new"} => f[t] \in Fibers)
  BY DEF TypeOK, Pointers
<1>2. CASE \E x \in Fibers : ReleaseBegin(t, x)
  BY <1>2, StepFacts DEF ReleaseBegin, Goto, TypeOK, PC
<1>3. CASE ReleaseLink(t)
  BY <1>1, <1>3, StepFacts DEF ReleaseLink, Goto, TypeOK, PC
<1>4. CASE ReleaseCas(t)
  <2>1. CASE LinkedToHead(t)
    <3>1. head' \in Pointers
      BY <1>1, <1>4, <2>1 DEF ReleaseCas
    <3>2. QED
      BY <1>4, <2>1, <3>1, StepFacts DEF ReleaseCas, Goto, TypeOK, PC
  <2>2. CASE ~LinkedToHead(t)
    BY <1>4, <2>2 DEF ReleaseCas, Goto, TypeOK, PC
  <2>3. QED
    BY <2>1, <2>2
<1>5. QED
  BY <1>2, <1>3, <1>4 DEF Release

LEMMA PoolTypeStep == TypeOK /\ [Next]_vars => TypeOK'
<1> SUFFICES ASSUME TypeOK, [Next]_vars PROVE TypeOK'
  OBVIOUS
<1>1. CASE Next
  BY <1>1, ThreadSets, AcquireType, ReleaseType DEF Next
<1>2. CASE UNCHANGED vars
  BY <1>2 DEF vars, TypeOK
<1>3. QED
  BY <1>1, <1>2

\* The pool's variables keep their types, whatever the number of acquirers: no
\* thread follows or pushes a null pointer.
THEOREM PoolTypeCorrect == Spec => []TypeOK
  BY PoolTypeInit, PoolTypeStep, PTL DEF Spec

-----------------------------------------------------------------------------
(* What a step does to the free list. *)

LEMMA ListIsChain ==
  /\ FreeList = Listed(Chain) /\ FreeList' = Listed(Chain')
  /\ ListEnds <=> Ends(Chain)
  /\ ListEnds' <=> Ends(Chain')
  /\ ListedOnce <=> Once(Chain)
  /\ ListedOnce' <=> Once(Chain')
  BY DEF FreeList, Listed, Steps, ListEnds, Ends, ListedOnce, Once

LEMMA ListFacts ==
  ASSUME TypeOK
  PROVE  /\ FreeList \subseteq Fibers
         /\ head = Null => FreeList = {}
         /\ head # Null => head \in FreeList
<1>1. IsWalk(Chain, head, pool_next) /\ head \in Pointers /\ pool_next \in [Fibers -> Pointers]
  BY ChainWalks DEF TypeOK
<1>2. Chain \in [Steps -> Pointers]
  BY <1>1, WalkTyped
<1>3. QED
  BY <1>1, <1>2, ListIsChain, ListedFibers, HeadListed

LEMMA ListStays ==
  ASSUME TypeOK, TypeOK', ListEnds, ListedOnce, head' = head,
         \/ UNCHANGED pool_next
         \/ \E x \in Fibers : \E p : x \notin FreeList /\ pool_next' = [pool_next EXCEPT ![x] = p]
  PROVE  FreeList' = FreeList /\ ListEnds' /\ ListedOnce'
<1>1. /\ IsWalk(Chain, head, pool_next) /\ IsWalk(Chain', head, pool_next')
      /\ head \in Pointers /\ pool_next \in [Fibers -> Pointers]
  BY ChainWalks DEF TypeOK
<1>2. CASE UNCHANGED pool_next
  <2>1. Chain' = Chain
    BY <1>1, <1>2, WalksAgree
  <2>2. QED
    BY <2>1, ListIsChain
<1>3. CASE \E x \in Fibers : \E p : x \notin FreeList /\ pool_next' = [pool_next EXCEPT ![x] = p]
  <2>0. PICK x \in Fibers : \E p : x \notin FreeList /\ pool_next' = [pool_next EXCEPT ![x] = p]
    BY <1>3
  <2>1. PICK p : x \notin FreeList /\ pool_next' = [pool_next EXCEPT ![x] = p]
    BY <2>0
  <2>2. x \notin Listed(Chain)
    BY <2>1, ListIsChain
  <2>3. Chain' = Chain
    BY <1>1, <2>1, <2>2, Relink
  <2>4. QED
    BY <2>3, ListIsChain
<1>4. QED
  BY <1>2, <1>3

LEMMA ListPush ==
  ASSUME TypeOK, TypeOK', ListEnds, ListedOnce, NEW x \in Fibers, x \notin FreeList,
         pool_next[x] = head, head' = x, UNCHANGED pool_next
  PROVE  FreeList' = FreeList \cup {x} /\ ListEnds' /\ ListedOnce'
<1>1. /\ IsWalk(Chain, head, pool_next) /\ IsWalk(Chain', x, pool_next)
      /\ head \in Pointers /\ pool_next \in [Fibers -> Pointers]
  BY ChainWalks DEF TypeOK
<1>2. Once(Chain) /\ x \notin Listed(Chain)
  BY ListIsChain
<1>3. Listed(Chain') = Listed(Chain) \cup {x} /\ Once(Chain') /\ Ends(Chain')
  BY <1>1, <1>2, Push
<1>4. QED
  BY <1>3, ListIsChain

LEMMA ListPop ==
  ASSUME TypeOK, TypeOK', ListEnds, ListedOnce, head # Null,
         head' = pool_next[head], UNCHANGED pool_next
  PROVE  FreeList' = FreeList \ {head} /\ ListEnds' /\ ListedOnce'
<1>1. /\ IsWalk(Chain, head, pool_next) /\ IsWalk(Chain', pool_next[head], pool_next)
      /\ head \in Fibers /\ pool_next \in [Fibers -> Pointers]
  BY ChainWalks DEF TypeOK, Pointers
<1>2. Once(Chain) /\ Ends(Chain)
  BY ListIsChain
<1>3. Listed(Chain') = Listed(Chain) \ {head} /\ Once(Chain') /\ Ends(Chain')
  BY <1>1, <1>2, Pop
<1>4. QED
  BY <1>3, ListIsChain

-----------------------------------------------------------------------------
(* Who has which fiber. *)

\* Thread t is alone inside acquire.
LEMMA AloneInAcquire ==
  ASSUME OneAcquirer, ByAcquirers, NEW t \in Acquirers, NEW u \in Threads, u # t
  PROVE  pc[u] \notin {"a_next", "a_cas", "a_reset", "a_new"}
  BY DEF OneAcquirer, ByAcquirers

\* A step of thread t that leaves the list, the users and the holders alone.
LEMMA OwnersStay ==
  ASSUME FreeListInv, FreeList' = FreeList, inUse' = inUse, allocated' = allocated,
         Holders' = Holders, \A u \in Holders : f'[u] = f[u]
  PROVE  OneOwner' /\ AllocatedOnly' /\ NoneLeaked'
<1>1. OneOwner'
  BY DEF FreeListInv, OneOwner
<1>2. {f'[u] : u \in Holders'} = {f[u] : u \in Holders}
  OBVIOUS
<1>3. AllocatedOnly' /\ NoneLeaked'
  BY <1>2 DEF FreeListInv, AllocatedOnly, NoneLeaked, Holders
<1>4. QED
  BY <1>1, <1>3

\* Fiber x passes to thread t from the list or from its user.
LEMMA OwnerGains ==
  ASSUME FreeListInv, NEW t \in Threads, t \notin Holders, NEW x, x \in FreeList \cup inUse,
         FreeList' = FreeList \ {x}, inUse' = inUse \ {x}, allocated' = allocated,
         Holders' = Holders \cup {t}, f'[t] = x, \A u \in Holders : f'[u] = f[u]
  PROVE  OneOwner' /\ AllocatedOnly' /\ NoneLeaked'
<1>1. {f'[u] : u \in Holders'} = {f[u] : u \in Holders} \cup {x}
  OBVIOUS
<1>2. AllocatedOnly'
  BY <1>1 DEF FreeListInv, AllocatedOnly
<1>3. NoneLeaked'
  BY <1>1 DEF FreeListInv, NoneLeaked, Holders
<1>4. OneOwner'
  BY DEF FreeListInv, OneOwner
<1>5. QED
  BY <1>2, <1>3, <1>4

\* Thread t puts its fiber on the list or hands it out.
LEMMA OwnerLoses ==
  ASSUME FreeListInv, NEW t \in Threads, t \in Holders,
         \/ FreeList' = FreeList \cup {f[t]} /\ inUse' = inUse
         \/ FreeList' = FreeList /\ inUse' = inUse \cup {f[t]},
         allocated' = allocated, Holders' = Holders \ {t}, \A u \in Holders \ {t} : f'[u] = f[u]
  PROVE  OneOwner' /\ AllocatedOnly' /\ NoneLeaked'
<1>1. {f'[u] : u \in Holders'} \cup {f[t]} = {f[u] : u \in Holders}
  OBVIOUS
<1>2. FreeList' \cup inUse' = FreeList \cup inUse \cup {f[t]}
  OBVIOUS
<1>3. AllocatedOnly'
  BY <1>1, <1>2 DEF FreeListInv, AllocatedOnly
<1>4. NoneLeaked'
  BY <1>1, <1>2 DEF FreeListInv, NoneLeaked, Holders
<1>5. OneOwner'
  BY DEF FreeListInv, OneOwner
<1>6. QED
  BY <1>3, <1>4, <1>5

LEMMA HoldersChange ==
  ASSUME TypeOK, NEW t \in Threads, NEW l, pc' = [pc EXCEPT ![t] = l]
  PROVE  Holders' = IF l \in {"a_reset", "r_link", "r_cas"} THEN Holders \cup {t} ELSE Holders \ {t}
<1>1. \A u \in Threads : pc'[u] = IF u = t THEN l ELSE pc[u]
  BY DEF TypeOK
<1>2. QED
  BY <1>1 DEF Holders, Popped, Pushing

-----------------------------------------------------------------------------
(* The parts of the inductive invariant, action by action. *)

Rest == ByAcquirers /\ ListEnds /\ ListedOnce /\ Inspecting /\ OneOwner /\ AllocatedOnly /\ NoneLeaked

LEMMA LookAt ==
  ASSUME OneAcquirer, FreeListInv, TypeOK', NEW t \in Acquirers, t \in Threads,
         pc[t] \in {"idle", "a_cas"}, Inspect(t, head),
         UNCHANGED <<head, pool_next, allocated, inUse, next>>
  PROVE  Rest'
<1>1. TypeOK /\ ListEnds /\ ListedOnce /\ ByAcquirers /\ Inspecting
  BY DEF FreeListInv
<1>2. FreeList' = FreeList /\ ListEnds' /\ ListedOnce'
  BY <1>1, ListStays
<1>3. /\ pc' = [pc EXCEPT ![t] = IF head = Null THEN "a_new" ELSE "a_next"]
      /\ f' = [f EXCEPT ![t] = head]
  BY DEF Inspect, Goto
<1>4. \A u \in Threads : /\ pc'[u] = IF u = t THEN (IF head = Null THEN "a_new" ELSE "a_next") ELSE pc[u]
                         /\ f'[u] = IF u = t THEN head ELSE f[u]
  BY <1>1, <1>3 DEF TypeOK
<1>5. Holders' = Holders /\ t \notin Holders
  BY <1>4 DEF Holders, Popped, Pushing
<1>6. OneOwner' /\ AllocatedOnly' /\ NoneLeaked'
  <2>1. \A u \in Holders : f'[u] = f[u]
    BY <1>4, <1>5 DEF Holders, Popped, Pushing
  <2>2. QED
    BY <1>2, <1>5, <2>1, OwnersStay
<1>7. ByAcquirers'
  BY <1>1, <1>4 DEF ByAcquirers
<1>8. Inspecting'
  BY <1>1, <1>2, <1>4, ListFacts DEF Inspecting
<1>9. QED
  BY <1>2, <1>6, <1>7, <1>8 DEF Rest

LEMMA AcquireNextRest ==
  ASSUME OneAcquirer, FreeListInv, TypeOK', NEW t \in Acquirers, t \in Threads, AcquireNext(t)
  PROVE  Rest'
<1>1. TypeOK /\ ListEnds /\ ListedOnce /\ ByAcquirers /\ Inspecting
  BY DEF FreeListInv
<1>2. FreeList' = FreeList /\ ListEnds' /\ ListedOnce'
  BY <1>1, ListStays DEF AcquireNext
<1>3. pc[t] = "a_next" /\ f' = f /\ pool_next' = pool_next
      /\ \A u \in Threads : /\ pc'[u] = IF u = t THEN "a_cas" ELSE pc[u]
                            /\ next'[u] = IF u = t THEN pool_next[f[t]] ELSE next[u]
  BY <1>1 DEF AcquireNext, Goto, TypeOK
<1>4. Holders' = Holders
  BY <1>3 DEF Holders, Popped, Pushing
<1>5. OneOwner' /\ AllocatedOnly' /\ NoneLeaked'
  BY <1>2, <1>3, <1>4, OwnersStay DEF AcquireNext
<1>6. ByAcquirers' /\ Inspecting'
  BY <1>1, <1>2, <1>3 DEF ByAcquirers, Inspecting
<1>7. QED
  BY <1>2, <1>5, <1>6 DEF Rest

\* The CAS of acquire succeeded: it popped the head of the list.
LEMMA AcquirePops ==
  ASSUME FreeListInv, TypeOK', NEW t \in Threads, AcquireCas(t), head = f[t]
  PROVE  /\ FreeList' = FreeList \ {f[t]} /\ ListEnds' /\ ListedOnce'
         /\ f[t] \in FreeList /\ f[t] \notin inUse
         /\ UNCHANGED <<inUse, allocated, f, next, pool_next>>
         /\ t \notin Holders
         /\ \A u \in Threads : pc'[u] = IF u = t THEN "a_reset" ELSE pc[u]
<1>1. TypeOK /\ ListEnds /\ ListedOnce /\ Inspecting /\ OneOwner
  BY DEF FreeListInv
<1>2. /\ pc[t] = "a_cas" /\ head' = next[t] /\ pc' = [pc EXCEPT ![t] = "a_reset"]
      /\ UNCHANGED <<inUse, allocated, f, next, pool_next>>
  BY DEF AcquireCas, Goto
<1>3. head # Null /\ next[t] = pool_next[head]
  BY <1>1, <1>2 DEF TypeOK, Inspecting
<1>4. FreeList' = FreeList \ {f[t]} /\ ListEnds' /\ ListedOnce'
  BY <1>1, <1>2, <1>3, ListPop
<1>5. f[t] \in FreeList /\ f[t] \notin inUse /\ t \notin Holders
  BY <1>1, <1>2 DEF Inspecting, OneOwner, Holders, Popped, Pushing
<1>6. \A u \in Threads : pc'[u] = IF u = t THEN "a_reset" ELSE pc[u]
  BY <1>1, <1>2 DEF TypeOK
<1>7. QED
  BY <1>2, <1>4, <1>5, <1>6

LEMMA AcquireCasRest ==
  ASSUME OneAcquirer, FreeListInv, TypeOK', NEW t \in Acquirers, t \in Threads, AcquireCas(t)
  PROVE  Rest'
<1>1. TypeOK /\ ByAcquirers /\ Inspecting
  BY DEF FreeListInv
<1>2. CASE head = f[t]
  <2>1. /\ FreeList' = FreeList \ {f[t]} /\ ListEnds' /\ ListedOnce'
        /\ f[t] \in FreeList /\ f[t] \notin inUse
        /\ UNCHANGED <<inUse, allocated, f, next, pool_next>>
        /\ t \notin Holders
        /\ \A u \in Threads : pc'[u] = IF u = t THEN "a_reset" ELSE pc[u]
    BY <1>2, AcquirePops
  <2>2. Holders' = Holders \cup {t}
    BY <2>1 DEF Holders, Popped, Pushing
  <2>3. OneOwner' /\ AllocatedOnly' /\ NoneLeaked'
    BY <2>1, <2>2, OwnerGains
  <2>4. ByAcquirers' /\ Inspecting'
    BY <1>1, <2>1, AloneInAcquire DEF ByAcquirers, Inspecting
  <2>5. QED
    BY <2>1, <2>3, <2>4 DEF Rest
<1>3. CASE head # f[t]
  BY <1>3, LookAt DEF AcquireCas, AcquireRetry
<1>4. QED
  BY <1>2, <1>3

LEMMA AcquireResetRest ==
  ASSUME OneAcquirer, FreeListInv, TypeOK', NEW t \in Acquirers, t \in Threads, AcquireReset(t)
  PROVE  Rest' /\ FreeList' = FreeList
<1>1. TypeOK /\ ListEnds /\ ListedOnce /\ ByAcquirers /\ Inspecting /\ OneOwner
  BY DEF FreeListInv
<1>2. pc[t] = "a_reset" /\ head' = head /\ allocated' = allocated
      /\ pool_next' = [pool_next EXCEPT ![f[t]] = Null] /\ inUse' = inUse \cup {f[t]}
      /\ \A u \in Threads : /\ pc'[u] = IF u = t THEN "idle" ELSE pc[u]
                            /\ f'[u] = IF u = t THEN Null ELSE f[u]
                            /\ next'[u] = IF u = t THEN Null ELSE next[u]
  BY <1>1 DEF AcquireReset, HandOut, Goto, TypeOK
<1>3. t \in Holders /\ f[t] \in Fibers /\ f[t] \notin FreeList
  BY <1>1, <1>2 DEF Holders, Popped, TypeOK, Pointers, OneOwner
<1>4. FreeList' = FreeList /\ ListEnds' /\ ListedOnce'
  BY <1>1, <1>2, <1>3, ListStays
<1>5. Holders' = Holders \ {t}
  BY <1>2 DEF Holders, Popped, Pushing
<1>6. OneOwner' /\ AllocatedOnly' /\ NoneLeaked'
  <2>1. \A u \in Holders \ {t} : f'[u] = f[u]
    BY <1>2 DEF Holders, Popped, Pushing
  <2>2. QED
    BY <1>2, <1>3, <1>4, <1>5, <2>1, OwnerLoses
<1>7. ByAcquirers' /\ Inspecting'
  BY <1>1, <1>2, AloneInAcquire DEF ByAcquirers, Inspecting
<1>8. QED
  BY <1>4, <1>6, <1>7 DEF Rest

LEMMA AcquireNewRest ==
  ASSUME OneAcquirer, FreeListInv, TypeOK', NEW t \in Acquirers, t \in Threads, AcquireNew(t)
  PROVE  Rest' /\ FreeList' = FreeList
<1>1. TypeOK /\ ListEnds /\ ListedOnce /\ ByAcquirers /\ Inspecting /\ OneOwner /\ AllocatedOnly /\ NoneLeaked
  BY DEF FreeListInv
<1>2. pc[t] = "a_new" /\ UNCHANGED <<head, pool_next>>
      /\ allocated' = allocated + 1 /\ inUse' = inUse \cup {allocated + 1}
      /\ \A u \in Threads : /\ pc'[u] = IF u = t THEN "idle" ELSE pc[u]
                            /\ f'[u] = IF u = t THEN Null ELSE f[u]
                            /\ next'[u] = IF u = t THEN Null ELSE next[u]
  BY <1>1 DEF AcquireNew, HandOut, Goto, TypeOK
<1>3. FreeList' = FreeList /\ ListEnds' /\ ListedOnce'
  BY <1>1, <1>2, ListStays
<1>4. Holders' = Holders /\ t \notin Holders
  BY <1>2 DEF Holders, Popped, Pushing
<1>5. \A u \in Holders : f'[u] = f[u]
  BY <1>2, <1>4 DEF Holders, Popped, Pushing
<1>6. {f'[u] : u \in Holders'} = {f[u] : u \in Holders}
  BY <1>4, <1>5
<1>7. allocated \in Nat /\ allocated + 1 \notin 1 .. allocated
      /\ 1 .. allocated + 1 = (1 .. allocated) \cup {allocated + 1}
  BY <1>1 DEF TypeOK
<1>8. AllocatedOnly'
  BY <1>1, <1>2, <1>3, <1>6, <1>7 DEF AllocatedOnly
<1>9. NoneLeaked'
  BY <1>1, <1>2, <1>3, <1>6, <1>7 DEF NoneLeaked, Holders
<1>10. OneOwner'
  <2>1. allocated + 1 \notin FreeList /\ \A u \in Holders : f[u] # allocated + 1
    BY <1>1, <1>7 DEF AllocatedOnly
  <2>2. QED
    BY <1>1, <1>2, <1>3, <1>4, <1>5, <2>1 DEF OneOwner
<1>11. ByAcquirers' /\ Inspecting'
  BY <1>1, <1>2, <1>3 DEF ByAcquirers, Inspecting
<1>12. QED
  BY <1>3, <1>8, <1>9, <1>10, <1>11 DEF Rest

LEMMA ReleaseBeginRest ==
  ASSUME FreeListInv, TypeOK', NEW t \in Threads, NEW x \in Fibers, ReleaseBegin(t, x)
  PROVE  Rest' /\ FreeList' = FreeList
<1>1. TypeOK /\ ListEnds /\ ListedOnce /\ ByAcquirers /\ Inspecting /\ OneOwner
  BY DEF FreeListInv
<1>2. pc[t] = "idle" /\ x \in inUse /\ UNCHANGED <<head, pool_next, allocated>>
      /\ inUse' = inUse \ {x}
      /\ \A u \in Threads : /\ pc'[u] = IF u = t THEN "r_link" ELSE pc[u]
                            /\ f'[u] = IF u = t THEN x ELSE f[u]
                            /\ next'[u] = IF u = t THEN head ELSE next[u]
  BY <1>1 DEF ReleaseBegin, Goto, TypeOK
<1>3. FreeList' = FreeList /\ ListEnds' /\ ListedOnce'
  BY <1>1, <1>2, ListStays
<1>4. Holders' = Holders \cup {t} /\ t \notin Holders
  BY <1>2 DEF Holders, Popped, Pushing
<1>5. OneOwner' /\ AllocatedOnly' /\ NoneLeaked'
  <2>1. \A u \in Holders : f'[u] = f[u]
    BY <1>2, <1>4 DEF Holders, Popped, Pushing
  <2>2. FreeList' = FreeList \ {x}
    BY <1>1, <1>2, <1>3 DEF OneOwner
  <2>3. QED
    BY <1>2, <1>4, <2>1, <2>2, OwnerGains
<1>6. ByAcquirers' /\ Inspecting'
  BY <1>1, <1>2, <1>3 DEF ByAcquirers, Inspecting
<1>7. QED
  BY <1>3, <1>5, <1>6 DEF Rest

LEMMA ReleaseLinkRest ==
  ASSUME FreeListInv, TypeOK', NEW t \in Threads, ReleaseLink(t)
  PROVE  Rest' /\ FreeList' = FreeList
<1>1. TypeOK /\ ListEnds /\ ListedOnce /\ ByAcquirers /\ Inspecting /\ OneOwner
  BY DEF FreeListInv
<1>2. pc[t] = "r_link" /\ UNCHANGED <<head, allocated, inUse, f>>
      /\ pool_next' = [pool_next EXCEPT ![f[t]] = next[t]]
      /\ \A u \in Threads : /\ pc'[u] = IF u = t THEN "r_cas" ELSE pc[u]
                            /\ next'[u] = IF u = t THEN Null ELSE next[u]
  BY <1>1 DEF ReleaseLink, Goto, TypeOK
<1>3. f[t] \in Fibers /\ f[t] \notin FreeList
  BY <1>1, <1>2 DEF Holders, Pushing, TypeOK, Pointers, OneOwner
<1>4. FreeList' = FreeList /\ ListEnds' /\ ListedOnce'
  BY <1>1, <1>2, <1>3, ListStays
<1>5. Holders' = Holders
  BY <1>2 DEF Holders, Popped, Pushing
<1>6. OneOwner' /\ AllocatedOnly' /\ NoneLeaked'
  BY <1>2, <1>4, <1>5, OwnersStay
<1>7. ByAcquirers'
  BY <1>1, <1>2 DEF ByAcquirers
<1>8. Inspecting'
  <2>1. \A x \in FreeList : pool_next'[x] = pool_next[x]
    BY <1>1, <1>2, <1>3, ListFacts DEF TypeOK
  <2>2. QED
    BY <1>1, <1>2, <1>4, <2>1 DEF Inspecting
<1>9. QED
  BY <1>4, <1>6, <1>7, <1>8 DEF Rest

\* The CAS of release succeeded: it pushed its fiber.
LEMMA ReleasePushes ==
  ASSUME FreeListInv, TypeOK', NEW t \in Threads, ReleaseCas(t), LinkedToHead(t)
  PROVE  /\ FreeList' = FreeList \cup {f[t]} /\ ListEnds' /\ ListedOnce'
         /\ UNCHANGED <<inUse, allocated, next, pool_next>>
         /\ pc[t] = "r_cas" /\ t \in Holders
         /\ \A u \in Threads : /\ pc'[u] = IF u = t THEN "idle" ELSE pc[u]
                               /\ f'[u] = IF u = t THEN Null ELSE f[u]
<1>1. TypeOK /\ ListEnds /\ ListedOnce /\ OneOwner
  BY DEF FreeListInv
<1>2. pc[t] = "r_cas" /\ head' = f[t] /\ UNCHANGED <<inUse, allocated, next, pool_next>>
      /\ \A u \in Threads : /\ pc'[u] = IF u = t THEN "idle" ELSE pc[u]
                            /\ f'[u] = IF u = t THEN Null ELSE f[u]
  BY <1>1 DEF ReleaseCas, Goto, TypeOK
<1>3. t \in Holders /\ f[t] \in Fibers /\ f[t] \notin FreeList /\ pool_next[f[t]] = head
  BY <1>1, <1>2 DEF Holders, Pushing, TypeOK, Pointers, OneOwner, LinkedToHead
<1>4. FreeList' = FreeList \cup {f[t]} /\ ListEnds' /\ ListedOnce'
  BY <1>1, <1>2, <1>3, ListPush
<1>5. QED
  BY <1>2, <1>3, <1>4

LEMMA ReleaseCasRest ==
  ASSUME FreeListInv, TypeOK', NEW t \in Threads, ReleaseCas(t)
  PROVE  Rest'
<1>1. TypeOK /\ ListEnds /\ ListedOnce /\ ByAcquirers /\ Inspecting
  BY DEF FreeListInv
<1>2. CASE LinkedToHead(t)
  <2>1. /\ FreeList' = FreeList \cup {f[t]} /\ ListEnds' /\ ListedOnce'
        /\ UNCHANGED <<inUse, allocated, next, pool_next>>
        /\ pc[t] = "r_cas" /\ t \in Holders
        /\ \A u \in Threads : /\ pc'[u] = IF u = t THEN "idle" ELSE pc[u]
                              /\ f'[u] = IF u = t THEN Null ELSE f[u]
    BY <1>2, ReleasePushes
  <2>2. Holders' = Holders \ {t}
    BY <2>1 DEF Holders, Popped, Pushing
  <2>3. OneOwner' /\ AllocatedOnly' /\ NoneLeaked'
    <3>1. \A u \in Holders \ {t} : f'[u] = f[u]
      BY <2>1 DEF Holders, Popped, Pushing
    <3>2. QED
      BY <2>1, <2>2, <3>1, OwnerLoses
  <2>4. ByAcquirers' /\ Inspecting'
    BY <1>1, <2>1 DEF ByAcquirers, Inspecting
  <2>5. QED
    BY <2>1, <2>3, <2>4 DEF Rest
<1>3. CASE ~LinkedToHead(t)
  <2>1. pc[t] = "r_cas" /\ UNCHANGED <<head, pool_next, allocated, inUse, f>>
        /\ \A u \in Threads : /\ pc'[u] = IF u = t THEN "r_link" ELSE pc[u]
                              /\ next'[u] = IF u = t THEN head ELSE next[u]
    BY <1>1, <1>3 DEF ReleaseCas, Goto, TypeOK
  <2>2. FreeList' = FreeList /\ ListEnds' /\ ListedOnce'
    BY <1>1, <2>1, ListStays
  <2>3. Holders' = Holders
    BY <2>1 DEF Holders, Popped, Pushing
  <2>4. OneOwner' /\ AllocatedOnly' /\ NoneLeaked'
    BY <2>1, <2>2, <2>3, OwnersStay
  <2>5. ByAcquirers' /\ Inspecting'
    BY <1>1, <2>1, <2>2 DEF ByAcquirers, Inspecting
  <2>6. QED
    BY <2>2, <2>4, <2>5 DEF Rest
<1>4. QED
  BY <1>2, <1>3

\* The constructor's list: fiber Prewarm on top, each linked to the one below.
LEMMA PoolInit ==
  ASSUME Init
  PROVE  FreeListInv /\ FreeList = 1 .. Prewarm
<1>1. TypeOK
  BY PoolTypeInit
<1>2. head = Prewarm /\ pool_next = [x \in Fibers |-> IF x <= Prewarm THEN x - 1 ELSE Null]
      /\ allocated = Prewarm /\ inUse = {} /\ \A t \in Threads : pc[t] = "idle"
  BY DEF Init
<1> DEFINE w == [n \in Steps |-> IF n <= Prewarm THEN Prewarm - n ELSE 0]
<1>3. IsWalk(w, head, pool_next)
  <2>1. w[0] = head
    BY <1>2, PoolAssumption, StepFacts
  <2>2. ASSUME NEW n \in Steps, n # 0 PROVE w[n] = Follow(w[n - 1], pool_next)
    <3>1. n - 1 \in Steps /\ n \in Nat /\ n - 1 \in Nat /\ Prewarm \in Nat
      BY <2>2, PoolAssumption DEF Steps
    <3>2. CASE n <= Prewarm
      <4>1. w[n] = Prewarm - n /\ w[n - 1] = Prewarm - n + 1
        BY <3>1, <3>2
      <4>2. Prewarm - n + 1 \in Fibers /\ Prewarm - n + 1 <= Prewarm /\ Prewarm - n + 1 # 0
        BY <2>2, <3>1, <3>2, PoolAssumption DEF Fibers, Steps
      <4> HIDE DEF w
      <4>3. pool_next[Prewarm - n + 1] = (Prewarm - n + 1) - 1
        BY <1>2, <4>2
      <4>4. QED
        BY <3>1, <4>1, <4>2, <4>3 DEF Follow, Null
    <3>3. CASE n > Prewarm
      <4>1. w[n] = 0 /\ w[n - 1] = 0
        BY <3>1, <3>3
      <4>2. QED
        BY <4>1 DEF Follow, Null
    <3>4. QED
      BY <3>1, <3>2, <3>3
  <2> HIDE DEF w
  <2>3. \A n \in Steps : w[n] = IF n = 0 THEN head ELSE Follow(w[n - 1], pool_next)
    BY <2>1, <2>2
  <2>4. QED
    BY <2>3 DEF IsWalk, w
<1>4. Chain = w
  BY <1>1, <1>3, ChainWalks, WalksAgree
<1>5. /\ ListEnds
      /\ ListedOnce
  <2>1. w[MaxFibers] = 0
    BY PoolAssumption, StepFacts
  <2>2. \A i, j \in Steps : w[i] # 0 /\ w[i] = w[j] => i = j
    BY PoolAssumption DEF Steps
  <2> HIDE DEF w
  <2>3. QED
    BY <1>4, <2>1, <2>2, ListIsChain DEF Ends, Once, Null
<1>6. FreeList = 1 .. Prewarm
  <2>1. FreeList = {w[n] : n \in Steps} \ {0}
    BY <1>4, ListIsChain DEF Listed, Null
  <2>2. ASSUME NEW x \in FreeList PROVE x \in 1 .. Prewarm
    <3>1. PICK n \in Steps : x = w[n] /\ x # 0
      BY <2>1
    <3>2. QED
      BY <3>1, PoolAssumption DEF Steps
  <2>3. ASSUME NEW x \in 1 .. Prewarm PROVE x \in FreeList
    <3>1. Prewarm - x \in Steps /\ Prewarm - x <= Prewarm /\ Prewarm - (Prewarm - x) = x /\ x # 0
      BY PoolAssumption DEF Steps
    <3>2. w[Prewarm - x] = x
      BY <3>1
    <3> HIDE DEF w
    <3>3. QED
      BY <2>1, <3>1, <3>2
  <2>4. QED
    BY <2>2, <2>3
<1>7. Holders = {} /\ Popped = {} /\ Pushing = {}
  BY <1>2 DEF Holders, Popped, Pushing
<1>8. ByAcquirers /\ Inspecting
  BY <1>2 DEF ByAcquirers, Inspecting
<1>9. OneOwner /\ AllocatedOnly /\ NoneLeaked
  BY <1>2, <1>6, <1>7 DEF OneOwner, AllocatedOnly, NoneLeaked
<1>10. QED
  BY <1>1, <1>5, <1>6, <1>8, <1>9 DEF FreeListInv

LEMMA PoolStep ==
  ASSUME OneAcquirer, FreeListInv, [Next]_vars
  PROVE  FreeListInv'
<1>1. TypeOK'
  BY PoolTypeStep DEF FreeListInv
<1>2. Rest'
  <2>1. ASSUME NEW t \in Acquirers, Acquire(t) PROVE Rest'
    <3>1. t \in Threads
      BY ThreadSets
    <3>2. AcquireLoad(t) => Rest'
      BY <1>1, <3>1, LookAt DEF AcquireLoad
    <3>3. QED
      BY <1>1, <2>1, <3>1, <3>2, AcquireNextRest, AcquireCasRest, AcquireResetRest, AcquireNewRest
        DEF Acquire
  <2>2. ASSUME NEW t \in Releasers, Release(t) PROVE Rest'
    <3>1. t \in Threads
      BY ThreadSets
    <3>2. QED
      BY <1>1, <2>2, <3>1, ReleaseBeginRest, ReleaseLinkRest, ReleaseCasRest DEF Release
  <2>3. CASE UNCHANGED vars
    <3>1. TypeOK /\ ListEnds /\ ListedOnce /\ ByAcquirers /\ Inspecting
      BY DEF FreeListInv
    <3>2. FreeList' = FreeList /\ ListEnds' /\ ListedOnce'
      BY <1>1, <2>3, <3>1, ListStays DEF vars
    <3>3. Holders' = Holders
      BY <2>3 DEF vars, Holders, Popped, Pushing
    <3>4. OneOwner' /\ AllocatedOnly' /\ NoneLeaked'
      BY <2>3, <3>2, <3>3, OwnersStay DEF vars
    <3>5. QED
      BY <2>3, <3>1, <3>2, <3>4 DEF vars, Rest, ByAcquirers, Inspecting
  <2>4. QED
    BY <2>1, <2>2, <2>3 DEF Next
<1>3. QED
  BY <1>1, <1>2 DEF FreeListInv, Rest

-----------------------------------------------------------------------------
(* The theorems about one acquirer. *)

\* The inductive invariant, for any number of releasing threads, any number of
\* fibers and any interleaving of their steps with acquire's.
THEOREM PoolInductive ==
  ASSUME OneAcquirer
  PROVE  Spec => []FreeListInv
<1>1. Init => FreeListInv
  BY PoolInit
<1>2. FreeListInv /\ [Next]_vars => FreeListInv'
  BY PoolStep
<1>3. QED
  BY <1>1, <1>2, PTL DEF Spec

\* acquire never hands out a fiber that is in use, being released or handed to
\* somebody else.
THEOREM FreeFibersHandedOut ==
  ASSUME OneAcquirer
  PROVE  Spec => []HandsOutFreeFiber
<1>1. FreeListInv => HandsOutFreeFiber
  BY DEF FreeListInv, OneOwner, Holders, HandsOutFreeFiber
<1>2. QED
  BY <1>1, PoolInductive, PTL

\* No fiber drops out of the pool.
THEOREM NoFiberDropped ==
  ASSUME OneAcquirer
  PROVE  Spec => []NoneLeaked
<1>1. FreeListInv => NoneLeaked
  BY DEF FreeListInv
<1>2. QED
  BY <1>1, PoolInductive, PTL

\* The free list never becomes a circle.
THEOREM FreeListEnds ==
  ASSUME OneAcquirer
  PROVE  Spec => []ListEnds
<1>1. FreeListInv => ListEnds
  BY DEF FreeListInv
<1>2. QED
  BY <1>1, PoolInductive, PTL

-----------------------------------------------------------------------------
(* The refinement of PoolContract. *)

LEMMA BarTypes ==
  ASSUME TypeOK, NEW t \in Threads, NEW l, NEW p,
         \A u \in Threads : /\ OpBar'[u] = IF u = t THEN l ELSE OpBar[u]
                            /\ ItemBar'[u] = IF u = t THEN p ELSE ItemBar[u]
  PROVE  /\ OpBar' = [OpBar EXCEPT ![t] = l]
         /\ ItemBar' = [ItemBar EXCEPT ![t] = p]
  BY DEF OpBar, ItemBar

\* OpBar and ItemBar of one thread, before and after a step.
LEMMA BarValues ==
  ASSUME NEW u \in Threads
  PROVE  /\ OpBar[u] = IF pc[u] = "a_new" THEN "allocate"
                       ELSE IF pc[u] \in {"r_link", "r_cas"} THEN "release" ELSE "idle"
         /\ ItemBar[u] = IF pc[u] \in {"r_link", "r_cas"} THEN f[u] ELSE Null
         /\ OpBar'[u] = IF pc'[u] = "a_new" THEN "allocate"
                       ELSE IF pc'[u] \in {"r_link", "r_cas"} THEN "release" ELSE "idle"
         /\ ItemBar'[u] = IF pc'[u] \in {"r_link", "r_cas"} THEN f'[u] ELSE Null
  BY DEF OpBar, ItemBar, Pushing

\* A step of t that keeps its place in the contract is a stutter there.
LEMMA Stutters ==
  ASSUME TypeOK, NEW t \in Threads, NEW l,
         \A u \in Threads : pc'[u] = IF u = t THEN l ELSE pc[u],
         \A u \in Threads : u # t => f'[u] = f[u],
         \/ {pc[t], l} \subseteq {"idle", "a_next", "a_cas", "a_reset"}
         \/ {pc[t], l} \subseteq {"r_link", "r_cas"} /\ f'[t] = f[t]
  PROVE  OpBar' = OpBar /\ ItemBar' = ItemBar
<1>1. \A u \in Threads : OpBar'[u] = OpBar[u] /\ ItemBar'[u] = ItemBar[u]
  BY BarValues
<1>2. QED
  BY <1>1 DEF OpBar, ItemBar

LEMMA LookAtRefines ==
  ASSUME FreeListInv, TypeOK', NEW t \in Threads, pc[t] \in {"idle", "a_cas"}, Inspect(t, head),
         UNCHANGED <<head, pool_next, allocated, inUse>>
  PROVE  Contract!Next \/ UNCHANGED Contract!vars
<1>1. TypeOK /\ ListEnds /\ ListedOnce
  BY DEF FreeListInv
<1>2. FreeList' = FreeList
  BY <1>1, ListStays
<1>3. /\ \A u \in Threads : pc'[u] = IF u = t THEN (IF head = Null THEN "a_new" ELSE "a_next") ELSE pc[u]
      /\ \A u \in Threads : u # t => f'[u] = f[u]
  BY <1>1 DEF Inspect, Goto, TypeOK
<1>4. InUseBar' = InUseBar
  <2>1. Popped' = Popped /\ t \notin Popped
    BY <1>3 DEF Popped
  <2>2. \A u \in Popped : f'[u] = f[u]
    BY <1>3, <2>1 DEF Popped
  <2>3. QED
    BY <2>1, <2>2 DEF InUseBar
<1>5. CASE head = Null
  <2>1. \A u \in Threads : /\ OpBar'[u] = IF u = t THEN "allocate" ELSE OpBar[u]
                           /\ ItemBar'[u] = IF u = t THEN Null ELSE ItemBar[u]
    BY <1>3, <1>5, BarValues
  <2>2. OpBar' = [OpBar EXCEPT ![t] = "allocate"]
    BY <1>1, <2>1, BarTypes
  <2>3. ItemBar' = ItemBar
    <3>1. \A u \in Threads : ItemBar'[u] = ItemBar[u]
      BY <2>1, BarValues
    <3>2. QED
      BY <3>1 DEF ItemBar
  <2>4. OpBar[t] = "idle"
    BY BarValues
  <2>5. FreeList = {}
    BY <1>1, <1>5, ListFacts
  <2>6. Contract!Exhausted(t)
    BY <1>2, <1>4, <2>2, <2>3, <2>4, <2>5 DEF Contract!Exhausted
  <2>7. QED
    BY <2>6 DEF Contract!Next
<1>6. CASE head # Null
  <2>1. OpBar' = OpBar /\ ItemBar' = ItemBar
    BY <1>1, <1>3, <1>6, Stutters
  <2>2. QED
    BY <1>2, <1>4, <2>1 DEF Contract!vars
<1>7. QED
  BY <1>5, <1>6

LEMMA AcquireRefines ==
  ASSUME OneAcquirer, FreeListInv, TypeOK', NEW t \in Acquirers, t \in Threads, Acquire(t)
  PROVE  Contract!Next \/ UNCHANGED Contract!vars
<1>1. TypeOK /\ ListEnds /\ ListedOnce /\ OneOwner
  BY DEF FreeListInv
<1>2. CASE AcquireLoad(t)
  BY <1>2, LookAtRefines DEF AcquireLoad
<1>3. CASE AcquireNext(t)
  <2>1. FreeList' = FreeList
    BY <1>1, <1>3, ListStays DEF AcquireNext
  <2>2. pc[t] = "a_next" /\ f' = f /\ UNCHANGED <<inUse, allocated>>
        /\ \A u \in Threads : pc'[u] = IF u = t THEN "a_cas" ELSE pc[u]
    BY <1>1, <1>3 DEF AcquireNext, Goto, TypeOK
  <2>3. InUseBar' = InUseBar
    BY <2>2 DEF InUseBar, Popped
  <2>4. OpBar' = OpBar /\ ItemBar' = ItemBar
    BY <1>1, <2>2, Stutters
  <2>5. QED
    BY <2>1, <2>2, <2>3, <2>4 DEF Contract!vars
<1>4. CASE AcquireCas(t)
  <2>1. CASE head = f[t]
    <3>1. /\ FreeList' = FreeList \ {f[t]}
          /\ f[t] \in FreeList
          /\ UNCHANGED <<inUse, allocated, f>>
          /\ t \notin Holders
          /\ \A u \in Threads : pc'[u] = IF u = t THEN "a_reset" ELSE pc[u]
      BY <1>4, <2>1, AcquirePops
    <3>2. InUseBar' = InUseBar \cup {f[t]}
      <4>1. Popped' = Popped \cup {t}
        BY <3>1 DEF Popped
      <4>2. QED
        BY <3>1, <4>1 DEF InUseBar
    <3>3. pc[t] = "a_cas"
      BY <1>4 DEF AcquireCas
    <3>4. OpBar' = OpBar /\ ItemBar' = ItemBar
      BY <1>1, <3>1, <3>3, Stutters
    <3>5. OpBar[t] = "idle"
      BY <3>3, BarValues
    <3>6. Contract!Acquire(t)
      BY <3>1, <3>2, <3>4, <3>5 DEF Contract!Acquire
    <3>7. QED
      BY <3>6 DEF Contract!Next
  <2>2. CASE head # f[t]
    BY <1>4, <2>2, LookAtRefines DEF AcquireCas, AcquireRetry
  <2>3. QED
    BY <2>1, <2>2
<1>5. CASE AcquireReset(t)
  <2>1. FreeList' = FreeList
    BY <1>5, AcquireResetRest
  <2>2. pc[t] = "a_reset" /\ allocated' = allocated /\ inUse' = inUse \cup {f[t]}
        /\ (\A u \in Threads : pc'[u] = IF u = t THEN "idle" ELSE pc[u])
        /\ \A u \in Threads : u # t => f'[u] = f[u]
    BY <1>1, <1>5 DEF AcquireReset, HandOut, Goto, TypeOK
  <2>3. InUseBar' = InUseBar
    <3>1. Popped' = Popped \ {t} /\ t \in Popped
      BY <2>2 DEF Popped
    <3>2. \A u \in Popped' : f'[u] = f[u]
      BY <2>2, <3>1 DEF Popped
    <3>3. {f'[u] : u \in Popped'} \cup {f[t]} = {f[u] : u \in Popped}
      BY <3>1, <3>2
    <3>4. QED
      BY <2>2, <3>3 DEF InUseBar
  <2>4. OpBar' = OpBar /\ ItemBar' = ItemBar
    BY <1>1, <2>2, Stutters
  <2>5. QED
    BY <2>1, <2>2, <2>3, <2>4 DEF Contract!vars
<1>6. CASE AcquireNew(t)
  <2>1. FreeList' = FreeList
    BY <1>6, AcquireNewRest
  <2>2. pc[t] = "a_new" /\ allocated < MaxFibers /\ allocated' = allocated + 1
        /\ inUse' = inUse \cup {allocated + 1}
        /\ (\A u \in Threads : pc'[u] = IF u = t THEN "idle" ELSE pc[u])
        /\ \A u \in Threads : u # t => f'[u] = f[u]
    BY <1>1, <1>6 DEF AcquireNew, HandOut, Goto, TypeOK
  <2>3. InUseBar' = InUseBar \cup {allocated + 1}
    <3>1. Popped' = Popped /\ t \notin Popped
      BY <2>2 DEF Popped
    <3>2. \A u \in Popped : f'[u] = f[u]
      BY <2>2, <3>1 DEF Popped
    <3>3. QED
      BY <2>2, <3>1, <3>2 DEF InUseBar
  <2>4. OpBar[t] = "allocate" /\ \A u \in Threads : /\ OpBar'[u] = IF u = t THEN "idle" ELSE OpBar[u]
                                                    /\ ItemBar'[u] = ItemBar[u]
    BY <2>2, BarValues
  <2>5. OpBar' = [OpBar EXCEPT ![t] = "idle"] /\ ItemBar' = ItemBar
    BY <2>4 DEF OpBar, ItemBar
  <2>6. Contract!Allocate(t)
    BY <2>1, <2>2, <2>3, <2>4, <2>5 DEF Contract!Allocate
  <2>7. QED
    BY <2>6 DEF Contract!Next
<1>7. QED
  BY <1>2, <1>3, <1>4, <1>5, <1>6 DEF Acquire

LEMMA ReleaseRefines ==
  ASSUME FreeListInv, TypeOK', NEW t \in Threads, Release(t)
  PROVE  Contract!Next \/ UNCHANGED Contract!vars
<1>1. TypeOK /\ ListEnds /\ ListedOnce /\ OneOwner
  BY DEF FreeListInv
<1>2. ASSUME NEW x \in Fibers, ReleaseBegin(t, x)
      PROVE  Contract!Next
  <2>1. FreeList' = FreeList
    BY <1>2, ReleaseBeginRest
  <2>2. pc[t] = "idle" /\ x \in inUse /\ allocated' = allocated /\ inUse' = inUse \ {x}
        /\ \A u \in Threads : /\ pc'[u] = IF u = t THEN "r_link" ELSE pc[u]
                              /\ f'[u] = IF u = t THEN x ELSE f[u]
    BY <1>1, <1>2 DEF ReleaseBegin, Goto, TypeOK
  <2>3. InUseBar' = InUseBar \ {x} /\ x \in InUseBar
    <3>1. Popped' = Popped /\ t \notin Popped
      BY <2>2 DEF Popped
    <3>2. \A u \in Popped : f'[u] = f[u] /\ f[u] # x
      BY <1>1, <2>2, <3>1 DEF Popped, OneOwner, Holders
    <3>3. QED
      BY <2>2, <3>1, <3>2 DEF InUseBar
  <2>4. OpBar[t] = "idle" /\ \A u \in Threads : /\ OpBar'[u] = IF u = t THEN "release" ELSE OpBar[u]
                                                /\ ItemBar'[u] = IF u = t THEN x ELSE ItemBar[u]
    BY <2>2, BarValues
  <2>5. OpBar' = [OpBar EXCEPT ![t] = "release"] /\ ItemBar' = [ItemBar EXCEPT ![t] = x]
    BY <1>1, <2>4, BarTypes
  <2>6. Contract!ReleaseBegin(t)
    BY <2>1, <2>2, <2>3, <2>4, <2>5 DEF Contract!ReleaseBegin
  <2>7. QED
    BY <2>6 DEF Contract!Next
<1>3. CASE ReleaseLink(t)
  <2>1. FreeList' = FreeList
    BY <1>3, ReleaseLinkRest
  <2>2. pc[t] = "r_link" /\ UNCHANGED <<allocated, inUse, f>>
        /\ \A u \in Threads : pc'[u] = IF u = t THEN "r_cas" ELSE pc[u]
    BY <1>1, <1>3 DEF ReleaseLink, Goto, TypeOK
  <2>3. InUseBar' = InUseBar
    BY <2>2 DEF InUseBar, Popped
  <2>4. OpBar' = OpBar /\ ItemBar' = ItemBar
    BY <1>1, <2>2, Stutters
  <2>5. QED
    BY <2>1, <2>2, <2>3, <2>4 DEF Contract!vars
<1>4. CASE ReleaseCas(t)
  <2>1. CASE LinkedToHead(t)
    <3>1. /\ FreeList' = FreeList \cup {f[t]}
          /\ UNCHANGED <<inUse, allocated>>
          /\ pc[t] = "r_cas"
          /\ \A u \in Threads : /\ pc'[u] = IF u = t THEN "idle" ELSE pc[u]
                                /\ f'[u] = IF u = t THEN Null ELSE f[u]
      BY <1>4, <2>1, ReleasePushes
    <3>2. InUseBar' = InUseBar
      <4>1. Popped' = Popped /\ t \notin Popped
        BY <3>1 DEF Popped
      <4>2. \A u \in Popped : f'[u] = f[u]
        BY <3>1, <4>1 DEF Popped
      <4>3. QED
        BY <3>1, <4>1, <4>2 DEF InUseBar
    <3>3. /\ OpBar[t] = "release" /\ ItemBar[t] = f[t]
          /\ \A u \in Threads : /\ OpBar'[u] = IF u = t THEN "idle" ELSE OpBar[u]
                                /\ ItemBar'[u] = IF u = t THEN Null ELSE ItemBar[u]
      BY <3>1, BarValues
    <3>4. OpBar' = [OpBar EXCEPT ![t] = "idle"] /\ ItemBar' = [ItemBar EXCEPT ![t] = 0]
      BY <1>1, <3>3, BarTypes DEF Null
    <3>5. Contract!ReleaseEnd(t)
      BY <3>1, <3>2, <3>3, <3>4 DEF Contract!ReleaseEnd
    <3>6. QED
      BY <3>5 DEF Contract!Next
  <2>2. CASE ~LinkedToHead(t)
    <3>1. pc[t] = "r_cas" /\ UNCHANGED <<head, pool_next, allocated, inUse, f>>
          /\ \A u \in Threads : pc'[u] = IF u = t THEN "r_link" ELSE pc[u]
      BY <1>1, <1>4, <2>2 DEF ReleaseCas, Goto, TypeOK
    <3>2. FreeList' = FreeList
      BY <1>1, <3>1, ListStays
    <3>3. InUseBar' = InUseBar
      BY <3>1 DEF InUseBar, Popped
    <3>4. OpBar' = OpBar /\ ItemBar' = ItemBar
      BY <1>1, <3>1, Stutters
    <3>5. QED
      BY <3>1, <3>2, <3>3, <3>4 DEF Contract!vars
  <2>3. QED
    BY <2>1, <2>2
<1>5. QED
  BY <1>2, <1>3, <1>4 DEF Release

\* With one acquirer the free list implements PoolContract: acquire takes
\* effect at its CAS, release at its own, and every other access to _head and
\* pool_next is a stutter of the contract.
THEOREM PoolImplementsContract ==
  ASSUME OneAcquirer
  PROVE  Spec => ImplementsPool
<1>1. Init => Contract!Init
  <2> SUFFICES ASSUME Init PROVE Contract!Init
    OBVIOUS
  <2>1. FreeList = 1 .. Prewarm
    BY PoolInit
  <2>2. \A u \in Threads : pc[u] = "idle"
    BY DEF Init
  <2>3. InUseBar = {}
    BY <2>2 DEF Init, InUseBar, Popped
  <2>4. OpBar = [t \in Threads |-> "idle"] /\ ItemBar = [t \in Threads |-> 0]
    BY <2>2 DEF OpBar, ItemBar, Pushing, Null
  <2>5. QED
    BY <2>1, <2>3, <2>4 DEF Contract!Init, Init
<1>2. FreeListInv /\ [Next]_vars => [Contract!Next]_(Contract!vars)
  <2> SUFFICES ASSUME FreeListInv, [Next]_vars PROVE Contract!Next \/ UNCHANGED Contract!vars
    OBVIOUS
  <2>1. TypeOK'
    BY PoolTypeStep DEF FreeListInv
  <2>2. CASE UNCHANGED vars
    <3>1. FreeList' = FreeList
      BY <2>1, <2>2, ListStays DEF FreeListInv, vars
    <3>2. QED
      BY <2>2, <3>1 DEF vars, Contract!vars, InUseBar, OpBar, ItemBar, Popped, Pushing
  <2>3. QED
    BY <2>1, <2>2, ThreadSets, AcquireRefines, ReleaseRefines DEF Next
<1>3. QED
  BY <1>1, <1>2, PoolInductive, PTL DEF Spec, ImplementsPool, Contract!Spec
=============================================================================
