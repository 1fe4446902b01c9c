-------------------------- MODULE SlotQueueProofs --------------------------
(***************************************************************************)
(* What the operators of SlotQueue do to a window, whatever its length:    *)
(* which slots wait for a dequeuer afterwards, and with which values.      *)
(***************************************************************************)
EXTENDS SlotQueue, SequenceTheorems, WellFoundedInduction, TLAPS

\* The windows of slots that hold values of V and are owned by members of T.
Windows(V, T) == Seq([val : V, own : T, st : {"claimed", "ready", "taken", "done"}])

\* A nonempty set of natural numbers has a smallest element, and Min is it.
LEMMA MinOfNats ==
  ASSUME NEW S \in SUBSET Nat, S # {}
  PROVE  Min(S) \in S /\ \A y \in S : Min(S) <= y
<1>1. \E x \in S : \A y \in S : ~(<<y, x>> \in OpToRel(<, Nat))
  BY NatLessThanWellFounded, WFMin
<1>2. PICK x \in S : \A y \in S : ~(<<y, x>> \in OpToRel(<, Nat))
  BY <1>1
<1>3. ASSUME NEW y \in S PROVE x <= y
  <2>1. y < x => <<y, x>> \in OpToRel(<, Nat)
    BY DEF OpToRel
  <2>2. ~(y < x)
    BY <1>2, <2>1, Zenon
  <2>3. QED
    BY <2>2
<1>4. QED
  BY <1>3 DEF Min

\* A window as a function.
LEMMA WindowFacts ==
  ASSUME NEW V, NEW T, NEW w \in Windows(V, T)
  PROVE  /\ Len(w) \in Nat
         /\ DOMAIN w = 1 .. Len(w)
         /\ \A i \in 1 .. Len(w) :
              w[i] \in [val : V, own : T, st : {"claimed", "ready", "taken", "done"}]
  BY LenProperties, ElementOfSeq DEF Windows

LEMMA FrontSlotWaits ==
  ASSUME NEW V, NEW T, NEW w \in Windows(V, T), Waiting(w) # {}
  PROVE  FrontSlot(w) \in Waiting(w) /\ \A i \in Waiting(w) : FrontSlot(w) <= i
<1>1. Waiting(w) \in SUBSET Nat
  BY WindowFacts DEF Waiting
<1>2. QED
  BY <1>1, MinOfNats DEF FrontSlot

\* A claim adds one waiting slot, with its value, at the end.
LEMMA ClaimWaits ==
  ASSUME NEW V, NEW T, NEW w \in Windows(V, T), NEW v \in V, NEW t \in T
  PROVE  /\ Claim(w, v, t) \in Windows(V, T)
         /\ Waiting(Claim(w, v, t)) = Waiting(w) \cup {Len(w) + 1}
         /\ Len(w) + 1 \notin Waiting(w)
         /\ \A i \in Waiting(w) : Claim(w, v, t)[i] = w[i]
         /\ Claim(w, v, t)[Len(w) + 1].val = v
<1> DEFINE S == [val : V, own : T, st : {"claimed", "ready", "taken", "done"}]
           n == Slot(v, "claimed", t)
           u == Append(w, n)
<1>1. n \in S /\ n.val = v /\ n.st = "claimed"
  BY DEF Slot
<1>2. w \in Seq(S)
  BY DEF Windows
<1>3. /\ u \in Seq(S)
      /\ Len(u) = Len(w) + 1
      /\ \A i \in 1 .. Len(w) : u[i] = w[i]
      /\ u[Len(w) + 1] = n
  BY <1>1, <1>2, AppendProperties
<1>4. u \in Windows(V, T) /\ Claim(w, v, t) = u
  BY <1>3 DEF Windows, Claim
<1> HIDE DEF n, u, S
<1>5. DOMAIN w = 1 .. Len(w) /\ DOMAIN u = 1 .. Len(u) /\ Len(w) \in Nat
  BY <1>4, WindowFacts
<1>6. QED
  BY <1>1, <1>3, <1>4, <1>5 DEF Waiting

\* A publish leaves the waiting slots waiting, with their values.
LEMMA PublishWaits ==
  ASSUME NEW V, NEW T, NEW w \in Windows(V, T), NEW t, NoThread \in T
  PROVE  /\ Publish(w, t) \in Windows(V, T)
         /\ Waiting(Publish(w, t)) = Waiting(w)
         /\ \A i \in Waiting(w) : Publish(w, t)[i].val = w[i].val
<1> DEFINE S == [val : V, own : T, st : {"claimed", "ready", "taken", "done"}]
           u == [i \in DOMAIN w |-> IF w[i].own = t /\ w[i].st = "claimed"
                                    THEN Slot(w[i].val, "ready", NoThread) ELSE w[i]]
<1>1. /\ Len(w) \in Nat /\ DOMAIN w = 1 .. Len(w)
      /\ \A i \in 1 .. Len(w) : w[i] \in S
  BY WindowFacts
<1>2. Publish(w, t) = u /\ DOMAIN u = DOMAIN w
  BY DEF Publish
<1>3. \A i \in DOMAIN w : /\ u[i] \in S /\ u[i].val = w[i].val
                          /\ u[i].st \in {"claimed", "ready"} <=> w[i].st \in {"claimed", "ready"}
  BY <1>1 DEF Slot
<1>4. u \in Seq(S)
  <2>1. u \in [1 .. Len(w) -> S]
    BY <1>1, <1>3
  <2>2. QED
    BY <1>1, <2>1, SeqDef
<1>5. QED
  BY <1>2, <1>3, <1>4 DEF Windows, Waiting

\* A dequeuer that takes the front slot makes it the one that waits no more.
LEMMA TakeWaits ==
  ASSUME NEW V, NEW T, NEW w \in Windows(V, T), NEW t \in T, HasReady(w)
  PROVE  /\ Take(w, t) \in Windows(V, T)
         /\ FrontSlot(w) \in Waiting(w)
         /\ Waiting(Take(w, t)) = Waiting(w) \ {FrontSlot(w)}
         /\ \A i \in Waiting(w) : Take(w, t)[i].val = w[i].val
<1> DEFINE S == [val : V, own : T, st : {"claimed", "ready", "taken", "done"}]
           k == FrontSlot(w)
           n == Slot(w[k].val, "taken", t)
           u == [w EXCEPT ![k] = n]
<1>1. /\ Len(w) \in Nat /\ DOMAIN w = 1 .. Len(w)
      /\ \A i \in 1 .. Len(w) : w[i] \in S
  BY WindowFacts
<1>2. k \in Waiting(w) /\ k \in 1 .. Len(w)
  BY <1>1, FrontSlotWaits DEF HasReady, Waiting
<1>3. n \in S /\ n.val = w[k].val /\ n.st = "taken"
  BY <1>1, <1>2 DEF Slot
<1>4. Take(w, t) = u
  BY DEF Take
<1> HIDE DEF n, k
<1>5. /\ u \in Seq(S)
      /\ Len(u) = Len(w)
      /\ \A i \in 1 .. Len(w) : u[i] = IF i = k THEN n ELSE w[i]
  BY <1>2, <1>3, ExceptSeq DEF Windows
<1>6. DOMAIN u = 1 .. Len(w)
  BY <1>1
<1> HIDE DEF u, S
<1>7. Waiting(u) = Waiting(w) \ {k}
  BY <1>1, <1>3, <1>5, <1>6 DEF Waiting
<1>8. \A i \in Waiting(w) : u[i].val = w[i].val
  BY <1>1, <1>3, <1>5 DEF Waiting
<1>9. QED
  BY <1>2, <1>4, <1>5, <1>7, <1>8 DEF Windows, S, k

\* A window keeps a suffix of its slots when it is trimmed; what it drops is done.
LEMMA TrimKeepsSuffix ==
  ASSUME NEW V, NEW T, NEW w \in Windows(V, T)
  PROVE  /\ Trim(w) \in Windows(V, T)
         /\ \E k \in 0 .. Len(w) :
              /\ Len(Trim(w)) = Len(w) - k
              /\ \A i \in 1 .. Len(w) - k : Trim(w)[i] = w[i + k]
              /\ \A i \in 1 .. k : w[i].st = "done"
<1> DEFINE S == [val : V, own : T, st : {"claimed", "ready", "taken", "done"}]
<1>1. /\ Len(w) \in Nat /\ DOMAIN w = 1 .. Len(w)
      /\ \A i \in 1 .. Len(w) : w[i] \in S
  BY WindowFacts
<1>2. CASE Live(w) = {}
  <2>1. Trim(w) = <<>> /\ Len(<<>>) = 0 /\ <<>> \in Seq(S)
    BY <1>2, EmptySeq DEF Trim, EmptyWindow
  <2>2. \A i \in 1 .. Len(w) : w[i].st = "done"
    BY <1>1, <1>2 DEF Live
  <2>3. Len(w) \in 0 .. Len(w) /\ 1 .. Len(w) - Len(w) = {}
    BY <1>1
  <2>4. /\ Len(Trim(w)) = Len(w) - Len(w)
        /\ \A i \in 1 .. Len(w) - Len(w) : Trim(w)[i] = w[i + Len(w)]
    BY <1>1, <2>1, <2>3
  <2>5. QED
    BY <2>1, <2>2, <2>3, <2>4 DEF Windows
<1>3. CASE Live(w) # {}
  <2> DEFINE m == Min(Live(w))
             k == m - 1
  <2>1. Live(w) \in SUBSET Nat
    BY <1>1 DEF Live
  <2>2. m \in 1 .. Len(w) /\ \A i \in Live(w) : m <= i
    BY <1>1, <1>3, <2>1, MinOfNats DEF Live
  <2>3. Trim(w) = SubSeq(w, m, Len(w))
    BY <1>3 DEF Trim
  <2> HIDE DEF m
  <2>4. /\ SubSeq(w, m, Len(w)) \in Seq(S)
        /\ Len(SubSeq(w, m, Len(w))) = Len(w) - m + 1
        /\ \A i \in 1 .. Len(w) - m + 1 : SubSeq(w, m, Len(w))[i] = w[m + i - 1]
    <3>1. \A i \in m .. Len(w) : w[i] \in S
      BY <1>1, <2>2
    <3>2. m \in Int /\ Len(w) \in Int /\ m <= Len(w)
      BY <1>1, <2>2
    <3>3. QED
      BY <3>1, <3>2, SubSeqProperties
  <2>5. k \in 0 .. Len(w) /\ Len(w) - k = Len(w) - m + 1 /\ \A i \in 1 .. Len(w) - k : m + i - 1 = i + k
    BY <1>1, <2>2
  <2>6. \A i \in 1 .. k : w[i].st = "done"
    BY <1>1, <2>2 DEF Live
  <2>7. QED
    BY <2>3, <2>4, <2>5, <2>6 DEF Windows
<1>4. QED
  BY <1>2, <1>3

\* Giving a cell back shifts the waiting slots to the front, with their values,
\* and neither adds nor removes one.
LEMMA GiveBackWaits ==
  ASSUME NEW V, NEW T, NEW w \in Windows(V, T), NEW t, NoVal \in V, NoThread \in T
  PROVE  /\ GiveBack(w, t) \in Windows(V, T)
         /\ \E k \in Nat :
              /\ Waiting(GiveBack(w, t)) = {i - k : i \in Waiting(w)}
              /\ \A i \in Waiting(w) : i > k /\ GiveBack(w, t)[i - k].val = w[i].val
<1> DEFINE S == [val : V, own : T, st : {"claimed", "ready", "taken", "done"}]
           u == [i \in DOMAIN w |-> IF w[i].own = t /\ w[i].st = "taken"
                                    THEN Slot(NoVal, "done", NoThread) ELSE w[i]]
           x == Trim(u)
<1>1. /\ Len(w) \in Nat /\ DOMAIN w = 1 .. Len(w)
      /\ \A i \in 1 .. Len(w) : w[i] \in S
  BY WindowFacts
<1>2. GiveBack(w, t) = x
  BY DEF GiveBack
<1>3. \A i \in DOMAIN w :
        /\ u[i] \in S
        /\ w[i].st \in {"claimed", "ready"} => u[i] = w[i]
        /\ u[i].st \in {"claimed", "ready"} => w[i].st \in {"claimed", "ready"}
  BY <1>1 DEF Slot
<1>4. u \in Windows(V, T) /\ Len(u) = Len(w)
  <2>1. u \in [1 .. Len(w) -> S]
    BY <1>1, <1>3
  <2>2. u \in Seq(S)
    BY <1>1, <2>1, SeqDef
  <2>3. DOMAIN u = 1 .. Len(w) /\ DOMAIN u = 1 .. Len(u) /\ Len(u) \in Nat
    BY <1>1, <2>2, LenProperties
  <2>4. QED
    BY <1>1, <2>2, <2>3 DEF Windows
<1> HIDE DEF u
<1>5. x \in Windows(V, T)
  BY <1>4, TrimKeepsSuffix
<1>6. PICK k \in 0 .. Len(w) :
        /\ Len(x) = Len(w) - k
        /\ \A i \in 1 .. Len(w) - k : x[i] = u[i + k]
        /\ \A i \in 1 .. k : u[i].st = "done"
  BY <1>4, TrimKeepsSuffix
<1>7. DOMAIN x = 1 .. Len(w) - k
  BY <1>5, <1>6, WindowFacts
<1> HIDE DEF x
<1>8. \A i \in Waiting(w) : i \in 1 .. Len(w) /\ i > k /\ u[i] = w[i]
  BY <1>1, <1>3, <1>6 DEF Waiting
<1>9. \A i \in Waiting(w) : i - k \in Waiting(x) /\ x[i - k] = w[i]
  <2> SUFFICES ASSUME NEW i \in Waiting(w) PROVE i - k \in Waiting(x) /\ x[i - k] = w[i]
    OBVIOUS
  <2>1. i - k \in 1 .. Len(w) - k /\ (i - k) + k = i
    BY <1>1, <1>8
  <2>2. x[i - k] = w[i]
    BY <1>6, <1>8, <2>1
  <2>3. QED
    BY <1>7, <2>1, <2>2 DEF Waiting
<1>10. ASSUME NEW j \in Waiting(x) PROVE \E i \in Waiting(w) : j = i - k
  <2>1. j \in 1 .. Len(w) - k /\ x[j].st \in {"claimed", "ready"}
    BY <1>7 DEF Waiting
  <2>2. j + k \in 1 .. Len(w) /\ x[j] = u[j + k] /\ j = (j + k) - k
    BY <1>1, <1>6, <2>1
  <2>3. w[j + k].st \in {"claimed", "ready"}
    BY <1>1, <1>3, <2>1, <2>2
  <2>4. j + k \in Waiting(w)
    BY <1>1, <2>2, <2>3 DEF Waiting
  <2>5. QED
    BY <2>2, <2>4
<1>11. Waiting(x) = {i - k : i \in Waiting(w)}
  BY <1>9, <1>10
<1>12. k \in Nat
  BY <1>1
<1>13. \A i \in Waiting(w) : i > k /\ x[i - k].val = w[i].val
  BY <1>8, <1>9
<1>14. QED
  BY <1>2, <1>5, <1>11, <1>12, <1>13
=============================================================================
