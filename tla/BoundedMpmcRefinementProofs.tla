--------------------- MODULE BoundedMpmcRefinementProofs ---------------------
(***************************************************************************)
(* The ring implements QueueContract, for every number of threads, every   *)
(* capacity of at least two cells and every run length.                    *)
(***************************************************************************)
EXTENDS BoundedMpmcRefinement, BoundedMpmcQueueProofs, SequenceTheorems, WellFoundedInduction

-----------------------------------------------------------------------------
(* The threads inside the cells. *)

RefInv == RingInv /\ CellsAttended /\ DataWritten

\* Steps that leave the counters alone and take nobody out of a cell.
LEMMA AttendedQuiet ==
  ASSUME CellsAttended, NEW t \in Threads, OnlyMoves(t),
         UNCHANGED <<sequence, enqueue_pos, dequeue_pos>>,
         InCell(t) => pos'[t] = pos[t],
         Writing(t) => pc'[t] \in {"e_write", "e_publish"},
         Reading(t) => pc'[t] \in {"d_read", "d_release"}
  PROVE  CellsAttended'
<1>1. \A u \in Threads : /\ Writing(u) => Writing(u)' /\ pos'[u] = pos[u]
                         /\ Reading(u) => Reading(u)' /\ pos'[u] = pos[u]
  BY DEF OnlyMoves, InCell, Writing, Reading
<1>2. QED
  BY <1>1 DEF CellsAttended, Cell

LEMMA AttendedEnqueueCas ==
  ASSUME RefInv, NEW t \in Threads, EnqueueCas(t)
  PROVE  CellsAttended'
<1>1. TypeOK /\ pc[t] = "e_cas" /\ UNCHANGED <<sequence, dequeue_pos>>
  BY DEF RefInv, RingInv, EnqueueCas
<1>2. OnlyMoves(t) /\ ~InCell(t)
  BY <1>1 DEF EnqueueCas, Goto, OnlyMoves, TypeOK, InCell, Writing, Reading
<1>3. CASE enqueue_pos = pos[t]
  <2>1. /\ enqueue_pos' = enqueue_pos + 1 /\ pc'[t] = "e_write" /\ pos' = pos
        /\ enqueue_pos \in Nat /\ dequeue_pos \in Nat
    BY <1>1, <1>3 DEF EnqueueCas, Goto, TypeOK
  <2>2. \A u \in Threads : /\ Writing(u) => Writing(u)' /\ pos'[u] = pos[u]
                           /\ Reading(u) => Reading(u)' /\ pos'[u] = pos[u]
    BY <1>2 DEF OnlyMoves, InCell, Writing, Reading
  <2>3. Writing(t)' /\ pos'[t] = enqueue_pos
    BY <1>3, <2>1 DEF Writing
  <2>4. \A p \in dequeue_pos .. enqueue_pos :
          p \in dequeue_pos .. enqueue_pos - 1 \/ p = enqueue_pos
    BY <2>1
  <2>5. \A p \in enqueue_pos + 1 .. dequeue_pos + Capacity - 1 :
          p \in enqueue_pos .. dequeue_pos + Capacity - 1
    BY <2>1, CapacityAssumption
  <2>6. enqueue_pos' - 1 = enqueue_pos
    BY <2>1
  <2>7. QED
    BY <1>1, <2>1, <2>2, <2>3, <2>4, <2>5, <2>6 DEF RefInv, CellsAttended, Cell
<1>4. CASE enqueue_pos # pos[t]
  <2>1. UNCHANGED enqueue_pos
    BY <1>4 DEF EnqueueCas
  <2>2. QED
    BY <1>1, <1>2, <2>1, AttendedQuiet DEF RefInv, InCell
<1>5. QED
  BY <1>3, <1>4

LEMMA AttendedDequeueCas ==
  ASSUME RefInv, NEW t \in Threads, DequeueCas(t)
  PROVE  CellsAttended'
<1>1. TypeOK /\ pc[t] = "d_cas" /\ UNCHANGED <<sequence, enqueue_pos>>
  BY DEF RefInv, RingInv, DequeueCas
<1>2. OnlyMoves(t) /\ ~InCell(t)
  BY <1>1 DEF DequeueCas, Goto, OnlyMoves, TypeOK, InCell, Writing, Reading
<1>3. CASE dequeue_pos = pos[t]
  <2>1. /\ dequeue_pos' = dequeue_pos + 1 /\ pc'[t] = "d_read" /\ pos' = pos
        /\ enqueue_pos \in Nat /\ dequeue_pos \in Nat
    BY <1>1, <1>3 DEF DequeueCas, Goto, TypeOK
  <2>2. \A u \in Threads : /\ Writing(u) => Writing(u)' /\ pos'[u] = pos[u]
                           /\ Reading(u) => Reading(u)' /\ pos'[u] = pos[u]
    BY <1>2 DEF OnlyMoves, InCell, Writing, Reading
  <2>3. Reading(t)' /\ pos'[t] = dequeue_pos
    BY <1>3, <2>1 DEF Reading
  <2>4. \A p \in enqueue_pos .. dequeue_pos + 1 + Capacity - 1 :
          p \in enqueue_pos .. dequeue_pos + Capacity - 1 \/ p = dequeue_pos + Capacity
    BY <2>1, CapacityAssumption
  <2>5. \A p \in dequeue_pos + 1 .. enqueue_pos - 1 : p \in dequeue_pos .. enqueue_pos - 1
    BY <2>1
  <2>6. QED
    BY <1>1, <2>1, <2>2, <2>3, <2>4, <2>5 DEF RefInv, CellsAttended, Cell
<1>4. CASE dequeue_pos # pos[t]
  <2>1. UNCHANGED dequeue_pos
    BY <1>4 DEF DequeueCas
  <2>2. QED
    BY <1>1, <1>2, <2>1, AttendedQuiet DEF RefInv, InCell
<1>5. QED
  BY <1>3, <1>4

\* The two stores of sequence give the cell back in a state that needs nobody.
LEMMA AttendedLeave ==
  ASSUME RefInv, NEW t \in Threads, EnqueuePublish(t) \/ DequeueRelease(t)
  PROVE  CellsAttended'
<1> DEFINE q == LapPos(t)
           x == IF Writing(t) THEN pos[t] + 1 ELSE pos[t] + Capacity
<1>1. /\ TypeOK /\ InCell(t) /\ UNCHANGED <<enqueue_pos, dequeue_pos>>
      /\ sequence' = [sequence EXCEPT ![Cell(pos[t])] = x]
  BY DEF RefInv, RingInv, EnqueuePublish, DequeueRelease, InCell, Writing, Reading
<1>2. /\ enqueue_pos \in Nat /\ dequeue_pos \in Nat /\ Capacity \in Nat /\ Capacity >= 2
      /\ pos[t] \in Nat /\ dequeue_pos <= enqueue_pos /\ enqueue_pos <= dequeue_pos + Capacity
  BY <1>1, Typed, CapacityAssumption DEF RefInv, RingInv, PositionsInLap
<1>3. q \in Nat /\ dequeue_pos <= q /\ q < dequeue_pos + Capacity /\ Cell(q) = Cell(pos[t])
  BY <1>1, OwnerInLap DEF RefInv
<1>4. OnlyMoves(t)
  BY <1>1 DEF EnqueuePublish, DequeueRelease, EnqueueReturn, Return, Goto, OnlyMoves, TypeOK
<1>5. ASSUME NEW p \in Nat, dequeue_pos <= p, p < dequeue_pos + Capacity, p # q
      PROVE  sequence'[Cell(p)] = sequence[Cell(p)]
  <2>1. Cell(p) # Cell(pos[t])
    BY <1>1, <1>3, <1>5, LapInjective
  <2>2. QED
    BY <1>1, <1>5, <2>1, CellType DEF TypeOK
<1>6. sequence'[Cell(q)] = x
  BY <1>1, <1>2, <1>3, CellType DEF TypeOK
<1>7. \A u \in Threads : /\ Writing(u) /\ u # t => Writing(u)' /\ pos'[u] = pos[u]
                         /\ Reading(u) /\ u # t => Reading(u)' /\ pos'[u] = pos[u]
  BY <1>4 DEF OnlyMoves, Writing, Reading
<1>8. /\ Writing(t) => q = pos[t] /\ x = q + 1
      /\ Reading(t) => q = pos[t] + Capacity /\ x = q
      /\ ~(Writing(t) /\ Reading(t))
  BY DEF LapPos, Writing, Reading
<1>9. /\ Writing(t) => q < enqueue_pos
      /\ Reading(t) => q >= enqueue_pos
  BY <1>1, <1>2, <1>8 DEF RefInv, RingInv, WriterInside, ReaderInside
<1> HIDE DEF q, x
<1>10. ASSUME NEW p \in dequeue_pos .. enqueue_pos - 1, sequence'[Cell(p)] = p
       PROVE  \E u \in Threads : Writing(u)' /\ pos'[u] = p
  <2>1. p \in Nat /\ dequeue_pos <= p /\ p < dequeue_pos + Capacity /\ p < enqueue_pos
    BY <1>2
  <2>2. p # q
    <3>1. p = q => x = q /\ ~Reading(t)
      BY <1>2, <1>3, <1>6, <1>9, <1>10, <2>1
    <3>2. QED
      BY <1>1, <1>3, <1>8, <3>1 DEF InCell
  <2>3. PICK u \in Threads : Writing(u) /\ pos[u] = p
    BY <1>5, <1>10, <2>1, <2>2 DEF RefInv, CellsAttended
  <2>4. u # t
    BY <1>8, <2>2, <2>3
  <2>5. QED
    BY <1>7, <2>3, <2>4
<1>11. ASSUME NEW p \in enqueue_pos .. dequeue_pos + Capacity - 1,
              sequence'[Cell(p)] + Capacity = p + 1
       PROVE  \E u \in Threads : Reading(u)' /\ pos'[u] + Capacity = p
  <2>1. p \in Nat /\ dequeue_pos <= p /\ p < dequeue_pos + Capacity /\ enqueue_pos <= p
    BY <1>2
  <2>2. p # q
    BY <1>1, <1>2, <1>3, <1>6, <1>8, <1>9, <1>11, <2>1 DEF InCell
  <2>3. PICK u \in Threads : Reading(u) /\ pos[u] + Capacity = p
    BY <1>5, <1>11, <2>1, <2>2 DEF RefInv, CellsAttended
  <2>4. u # t
    BY <1>8, <2>2, <2>3
  <2>5. QED
    BY <1>7, <2>3, <2>4
<1>12. QED
  BY <1>1, <1>10, <1>11 DEF CellsAttended, Cell

LEMMA AttendedStep == RefInv /\ [Next]_vars => CellsAttended'
<1> SUFFICES ASSUME RefInv, [Next]_vars PROVE CellsAttended'
  OBVIOUS
<1>1. TypeOK /\ CellsAttended
  BY DEF RefInv, RingInv
<1>2. CASE Close \/ UNCHANGED vars
  BY <1>1, <1>2 DEF Close, vars, CellsAttended, Cell, Writing, Reading
<1>3. ASSUME NEW t \in Threads, NEW v \in Values, EnqueueBegin(t, v) PROVE CellsAttended'
  <2>1. OnlyMoves(t) /\ pc[t] = "idle" /\ UNCHANGED <<sequence, enqueue_pos, dequeue_pos>>
    BY <1>1, <1>3 DEF EnqueueBegin, EnqueueReturn, Return, Goto, OnlyMoves, TypeOK, shared
  <2>2. QED
    BY <1>1, <2>1, AttendedQuiet DEF InCell, Writing, Reading
<1>4. ASSUME NEW t \in Threads,
             DequeueBegin(t) \/ EnqueueLoad(t) \/ DequeueLoad(t) \/ EnqueueSeq(t) \/ DequeueSeq(t)
      PROVE  CellsAttended'
  <2>1. /\ pc[t] \in {"idle", "e_load", "d_load", "e_seq", "d_seq"}
        /\ UNCHANGED <<sequence, enqueue_pos, dequeue_pos>>
    BY <1>4 DEF DequeueBegin, EnqueueLoad, DequeueLoad, EnqueueSeq, DequeueSeq, shared
  <2>2. OnlyMoves(t)
    BY <1>1, <1>4 DEF DequeueBegin, EnqueueLoad, DequeueLoad, EnqueueSeq, DequeueSeq,
       EnqueueReturn, Return, Goto, OnlyMoves, TypeOK
  <2>3. QED
    BY <1>1, <2>1, <2>2, AttendedQuiet DEF InCell, Writing, Reading
<1>5. ASSUME NEW t \in Threads, EnqueueWrite(t) \/ DequeueRead(t) PROVE CellsAttended'
  <2>1. /\ \/ pc[t] = "e_write" /\ pc' = [pc EXCEPT ![t] = "e_publish"]
           \/ pc[t] = "d_read" /\ pc' = [pc EXCEPT ![t] = "d_release"]
        /\ UNCHANGED <<sequence, enqueue_pos, dequeue_pos, pos>>
    BY <1>5 DEF EnqueueWrite, DequeueRead, Goto, shared
  <2>2. /\ pc[t] = "e_write" => pc'[t] = "e_publish"
        /\ pc[t] = "d_read" => pc'[t] = "d_release"
        /\ OnlyMoves(t)
    BY <1>1, <2>1 DEF OnlyMoves, TypeOK
  <2>3. QED
    BY <1>1, <2>1, <2>2, AttendedQuiet DEF InCell, Writing, Reading
<1>6. QED
  BY <1>2, <1>3, <1>4, <1>5, AttendedEnqueueCas, AttendedDequeueCas, AttendedLeave
     DEF Next, EnqueueStep, DequeueStep

LEMMA DataStays ==
  ASSUME RefInv, [Next]_vars
  PROVE  DataWritten'
<1>1. TypeOK /\ RingInv /\ DataWritten
  BY DEF RefInv, RingInv
<1>2. CASE \E t \in Threads : EnqueueWrite(t)
  <2>1. PICK t \in Threads : EnqueueWrite(t)
    BY <1>2
  <2>2. /\ pc[t] = "e_write" /\ data' = [data EXCEPT ![Cell(pos[t])] = m[t]]
        /\ pc' = [pc EXCEPT ![t] = "e_publish"] /\ UNCHANGED <<pos, m>>
    BY <2>1 DEF EnqueueWrite, Goto
  <2>3. \A u \in Threads : Cell(pos[u]) \in Cells
    BY <1>1, Typed, CellType
  <2>4. ASSUME NEW u \in Threads, pc'[u] = "e_publish" PROVE data'[Cell(pos[u])] = m[u]
    <3>1. CASE u = t
      BY <1>1, <2>2, <2>3, <3>1 DEF TypeOK
    <3>2. CASE u # t
      <4>1. pc[u] = "e_publish"
        BY <1>1, <2>2, <2>4, <3>2 DEF TypeOK
      <4>2. Cell(pos[u]) # Cell(pos[t])
        BY <1>1, <2>2, <3>2, <4>1, OtherCell DEF InCell, Writing
      <4>3. QED
        BY <1>1, <2>2, <2>3, <4>1, <4>2 DEF TypeOK, DataWritten
    <3>3. QED
      BY <3>1, <3>2
  <2>5. QED
    BY <2>2, <2>4 DEF DataWritten, Cell
<1>3. CASE ~\E t \in Threads : EnqueueWrite(t)
  <2>1. UNCHANGED data
    BY <1>3 DEF Next, vars, shared, Close, EnqueueBegin, DequeueBegin, EnqueueStep, DequeueStep,
       EnqueueLoad, EnqueueSeq, EnqueueCas, EnqueuePublish, DequeueLoad, DequeueSeq, DequeueCas,
       DequeueRead, DequeueRelease
  <2>2. ASSUME NEW u \in Threads, pc'[u] = "e_publish"
        PROVE  pc[u] = "e_publish" /\ pos'[u] = pos[u] /\ m'[u] = m[u]
    BY <1>1, <1>3, <2>2 DEF TypeOK, Next, vars, shared, Close, EnqueueBegin, DequeueBegin,
       EnqueueStep, DequeueStep, Goto, Return, EnqueueReturn,
       EnqueueLoad, EnqueueSeq, EnqueueCas, EnqueuePublish, DequeueLoad, DequeueSeq, DequeueCas,
       DequeueRead, DequeueRelease
  <2>3. QED
    BY <1>1, <2>1, <2>2 DEF DataWritten, Cell
<1>4. QED
  BY <1>2, <1>3

LEMMA RefInit == Init => RefInv
<1> SUFFICES ASSUME Init PROVE RefInv
  OBVIOUS
<1>1. DataWritten
  BY DEF Init, DataWritten
<1>2. \A p \in enqueue_pos .. dequeue_pos + Capacity - 1 : sequence[Cell(p)] + Capacity # p + 1
  <2> SUFFICES ASSUME NEW p \in 0 .. Capacity - 1 PROVE sequence[Cell(p)] + Capacity # p + 1
    BY CapacityAssumption DEF Init
  <2>1. Cell(p) = p /\ p \in Cells
    BY CellFirstLap, CapacityAssumption DEF Cells
  <2>2. QED
    BY <2>1, CapacityAssumption DEF Init
<1>3. dequeue_pos .. enqueue_pos - 1 = {}
  BY DEF Init
<1>4. QED
  BY <1>1, <1>2, <1>3, IndInit DEF RefInv, CellsAttended

LEMMA RefStep == RefInv /\ [Next]_vars => RefInv'
  BY IndStep, AttendedStep, DataStays DEF RefInv

\* A cell out of use has a thread between the CAS and the store of sequence
\* of enqueue or dequeue, for every number of threads and every capacity.
THEOREM CellsAlwaysAttended == Spec => []CellsAttended
<1>1. RefInv => CellsAttended
  BY DEF RefInv
<1>2. QED
  BY <1>1, RefInit, RefStep, PTL DEF Spec

-----------------------------------------------------------------------------
(* What the window shows of a state. *)

Rec(v, s, t) == [val |-> v, st |-> s, own |-> t]

SlotSet == [val : Values \cup {NoVal}, st : {"claimed", "ready", "taken", "done"},
            own : Threads \cup {NoThread}]

\* The slot of each position: its thread's, or nobody's.
SlotsRead ==
  /\ \A t \in Threads : Writing(t) => SlotAt(pos[t]) = Rec(m[t], "claimed", t)
  /\ \A t \in Threads : Reading(t) => SlotAt(pos[t]) = Rec(data[Cell(pos[t])], "taken", t)
  /\ \A p \in Nat : (\A t \in Threads : InCell(t) => pos[t] # p) =>
       SlotAt(p) = IF p >= dequeue_pos THEN Rec(data[Cell(p)], "ready", NoThread)
                                       ELSE Rec(NoVal, "done", NoThread)

LEMMA SlotsAreRead == RingInv => SlotsRead
<1> SUFFICES ASSUME RingInv PROVE SlotsRead
  OBVIOUS
<1>1. ASSUME NEW t \in Threads, InCell(t) PROVE Owner(pos[t]) = {t}
  BY <1>1, OtherCell DEF Owner
<1>2. ASSUME NEW p, \A t \in Threads : InCell(t) => pos[t] # p PROVE Owner(p) = {}
  BY <1>2 DEF Owner
<1>3. ASSUME NEW t \in Threads, Writing(t) PROVE SlotAt(pos[t]) = Rec(m[t], "claimed", t)
  BY <1>1, <1>3 DEF SlotAt, Slots!Slot, Rec, InCell
<1>4. ASSUME NEW t \in Threads, Reading(t)
      PROVE  SlotAt(pos[t]) = Rec(data[Cell(pos[t])], "taken", t)
  <2>1. ~Writing(t)
    BY <1>4 DEF Reading, Writing
  <2>2. QED
    BY <1>1, <1>4, <2>1 DEF SlotAt, Slots!Slot, Rec, InCell
<1>5. ASSUME NEW p \in Nat, \A t \in Threads : InCell(t) => pos[t] # p
      PROVE  SlotAt(p) = IF p >= dequeue_pos THEN Rec(data[Cell(p)], "ready", NoThread)
                                             ELSE Rec(NoVal, "done", NoThread)
  BY <1>2, <1>5 DEF SlotAt, Slots!Slot, Rec
<1>6. QED
  BY <1>3, <1>4, <1>5 DEF SlotsRead

LEMMA SlotsAreReadNext == RingInv' => SlotsRead'
  BY SlotsAreRead, PTL

\* Where the window starts, what it is long, and what its slots are.
WindowRead ==
  /\ enqueue_pos \in Nat /\ dequeue_pos \in Nat /\ Oldest \in Nat
  /\ Oldest <= dequeue_pos /\ dequeue_pos <= enqueue_pos /\ enqueue_pos <= Oldest + Capacity
  /\ Oldest = dequeue_pos \/ \E t \in Threads : Reading(t) /\ pos[t] = Oldest
  /\ \A t \in Threads : pos[t] \in Nat
  /\ \A t \in Threads : Reading(t) => Oldest <= pos[t] /\ pos[t] < dequeue_pos
  /\ \A t \in Threads : Writing(t) => dequeue_pos <= pos[t] /\ pos[t] < enqueue_pos
  /\ \A p \in Nat : SlotAt(p) \in SlotSet
  /\ \A p \in Nat : p < dequeue_pos => SlotAt(p).st \in {"taken", "done"}
  /\ \A p \in Nat : p >= dequeue_pos => SlotAt(p).st \in {"claimed", "ready"}

\* A nonempty set of numbers has a least one, and Min is it.
LEMMA LeastOf ==
  ASSUME NEW S \in SUBSET Nat, S # {}
  PROVE  /\ Min(S) \in S /\ \A y \in S : Min(S) <= y
         /\ Contract!Min(S) = Min(S)
<1>1. PICK x \in S : \A y \in S : ~(<<y, x>> \in OpToRel(<, Nat))
  BY NatLessThanWellFounded, WFMin
<1>2. ASSUME NEW y \in S PROVE x <= y
  <2>1. y < x => <<y, x>> \in OpToRel(<, Nat)
    BY DEF OpToRel
  <2>2. ~(y < x)
    BY <1>1, <2>1, Zenon
  <2>3. QED
    BY <2>2
<1>3. Min(S) \in S /\ \A y \in S : Min(S) <= y
  BY <1>2 DEF Min
<1>4. Contract!Min(S) = Min(S)
  BY DEF Min, Contract!Min
<1>5. QED
  BY <1>3, <1>4

LEMMA WindowIsRead == RingInv => WindowRead
<1> SUFFICES ASSUME RingInv PROVE WindowRead
  OBVIOUS
<1> DEFINE P == {dequeue_pos} \cup {pos[t] : t \in {t \in Threads : Reading(t)}}
<1>1. /\ enqueue_pos \in Nat /\ dequeue_pos \in Nat /\ Capacity \in Nat
      /\ \A t \in Threads : pos[t] \in Nat
  BY Typed, CapacityAssumption DEF RingInv
<1>2. P \in SUBSET Nat /\ dequeue_pos \in P
  BY <1>1
<1>3. Oldest = Min(P)
  BY DEF Oldest
<1>4. \A t \in Threads : Reading(t) => pos[t] \in P
  OBVIOUS
<1>5. \A y \in P : y = dequeue_pos \/ \E t \in Threads : Reading(t) /\ pos[t] = y
  OBVIOUS
<1> HIDE DEF P
<1>6. Oldest \in P /\ \A y \in P : Oldest <= y
  BY <1>2, <1>3, LeastOf
<1>7. /\ \A t \in Threads : Reading(t) => enqueue_pos <= pos[t] + Capacity /\ pos[t] < dequeue_pos
      /\ \A t \in Threads : Writing(t) => dequeue_pos <= pos[t] /\ pos[t] < enqueue_pos
      /\ dequeue_pos <= enqueue_pos /\ enqueue_pos <= dequeue_pos + Capacity
  BY DEF RingInv, WriterInside, ReaderInside, PositionsInLap
<1>8. Oldest \in Nat /\ Oldest <= dequeue_pos /\ enqueue_pos <= Oldest + Capacity
  BY <1>1, <1>2, <1>5, <1>6, <1>7
<1>9. ASSUME NEW p \in Nat
      PROVE  /\ SlotAt(p) \in SlotSet
             /\ p < dequeue_pos => SlotAt(p).st \in {"taken", "done"}
             /\ p >= dequeue_pos => SlotAt(p).st \in {"claimed", "ready"}
  <2>1. SlotsRead /\ Cell(p) \in Cells /\ data[Cell(p)] \in Values \cup {NoVal}
        /\ \A t \in Threads : m[t] \in Values \cup {NoVal}
    BY SlotsAreRead, CellType DEF RingInv, TypeOK
  <2>2. CASE \E t \in Threads : Writing(t) /\ pos[t] = p
    <3>1. PICK t \in Threads : Writing(t) /\ pos[t] = p
      BY <2>2
    <3>2. SlotAt(p) = Rec(m[t], "claimed", t) /\ ~(p < dequeue_pos)
      BY <1>1, <1>7, <2>1, <3>1 DEF SlotsRead
    <3>3. QED
      BY <2>1, <3>2 DEF Rec, SlotSet
  <2>3. CASE \E t \in Threads : Reading(t) /\ pos[t] = p
    <3>1. PICK t \in Threads : Reading(t) /\ pos[t] = p
      BY <2>3
    <3>2. SlotAt(p) = Rec(data[Cell(p)], "taken", t) /\ ~(p >= dequeue_pos)
      BY <1>1, <1>7, <2>1, <3>1 DEF SlotsRead
    <3>3. QED
      BY <2>1, <3>2 DEF Rec, SlotSet
  <2>4. CASE \A t \in Threads : InCell(t) => pos[t] # p
    <3>1. SlotAt(p) = IF p >= dequeue_pos THEN Rec(data[Cell(p)], "ready", NoThread)
                                          ELSE Rec(NoVal, "done", NoThread)
      BY <2>1, <2>4 DEF SlotsRead
    <3>2. QED
      BY <1>1, <2>1, <3>1 DEF Rec, SlotSet
  <2>5. QED
    BY <2>2, <2>3, <2>4 DEF InCell
<1>10. QED
  BY <1>1, <1>4, <1>5, <1>6, <1>7, <1>8, <1>9 DEF WindowRead

LEMMA WindowIsReadNext == RingInv' => WindowRead'
  BY WindowIsRead, PTL

\* The window as a sequence.
LEMMA WindowSeq ==
  ASSUME WindowRead
  PROVE  /\ WindowBar \in Seq(SlotSet) /\ Len(WindowBar) = enqueue_pos - Oldest
         /\ enqueue_pos - Oldest \in Nat
         /\ DOMAIN WindowBar = 1 .. enqueue_pos - Oldest
         /\ \A i \in 1 .. enqueue_pos - Oldest :
              WindowBar[i] = SlotAt(Oldest + i - 1) /\ Oldest + i - 1 \in Nat
<1> DEFINE k == enqueue_pos - Oldest
           Get(i) == SlotAt(Oldest + i - 1)
<1>1. k \in Nat /\ \A i \in 1 .. k : Oldest + i - 1 \in Nat
  BY DEF WindowRead
<1>2. WindowBar = [i \in 1 .. k |-> Get(i)]
  BY DEF WindowBar
<1>3. \A i \in 1 .. k : Get(i) \in SlotSet
  BY <1>1 DEF WindowRead
<1> HIDE DEF k, Get
<1>4. [i \in 1 .. k |-> Get(i)] \in Seq(SlotSet)
  BY <1>1, <1>3, IsASeq
<1>5. Len(WindowBar) = k /\ DOMAIN WindowBar = 1 .. k
  BY <1>1, <1>2, <1>4, LenProperties
<1>6. \A i \in 1 .. k : WindowBar[i] = Get(i)
  BY <1>2
<1>7. QED
  BY <1>1, <1>2, <1>4, <1>5, <1>6 DEF k, Get

\* The start of the window, from what it has to be.
LEMMA OldestNext ==
  ASSUME WindowRead', NEW x \in Nat, x <= dequeue_pos',
         \A t \in Threads : Reading(t)' => x <= pos'[t],
         x = dequeue_pos' \/ \E t \in Threads : Reading(t)' /\ pos'[t] = x
  PROVE  Oldest' = x
<1>1. /\ Oldest' \in Nat /\ dequeue_pos' \in Nat /\ Oldest' <= dequeue_pos'
      /\ Oldest' = dequeue_pos' \/ \E t \in Threads : Reading(t)' /\ pos'[t] = Oldest'
      /\ \A t \in Threads : pos'[t] \in Nat
      /\ \A t \in Threads : Reading(t)' => Oldest' <= pos'[t]
  BY DEF WindowRead
<1>2. Oldest' <= x
  BY <1>1
<1>3. x <= Oldest'
  BY <1>1
<1>4. QED
  BY <1>1, <1>2, <1>3

\* A slot that is claimed or taken belongs to the thread at its position.
LEMMA SlotOwner ==
  ASSUME SlotsRead, NEW p \in Nat, NEW t \in Threads, SlotAt(p).own = t
  PROVE  /\ SlotAt(p).st = "claimed" => Writing(t) /\ pos[t] = p
         /\ SlotAt(p).st = "taken" => Reading(t) /\ pos[t] = p
<1>1. CASE \A u \in Threads : InCell(u) => pos[u] # p
  BY <1>1 DEF SlotsRead, Rec
<1>2. CASE \E u \in Threads : InCell(u) /\ pos[u] = p
  <2>1. PICK u \in Threads : InCell(u) /\ pos[u] = p
    BY <1>2
  <2>2. CASE Writing(u)
    <3>1. SlotAt(p) = Rec(m[u], "claimed", u)
      BY <2>1, <2>2 DEF SlotsRead
    <3>2. QED
      BY <2>1, <2>2, <3>1 DEF Rec
  <2>3. CASE Reading(u)
    <3>1. SlotAt(p) = Rec(data[Cell(pos[u])], "taken", u)
      BY <2>1, <2>3 DEF SlotsRead
    <3>2. QED
      BY <2>1, <2>3, <3>1 DEF Rec
  <2>4. QED
    BY <2>1, <2>2, <2>3 DEF InCell
<1>3. QED
  BY <1>1, <1>2

LEMMA TakenHasReader ==
  ASSUME SlotsRead, NEW p \in Nat, SlotAt(p).st = "taken"
  PROVE  \E t \in Threads : Reading(t) /\ pos[t] = p
<1>1. CASE \A u \in Threads : InCell(u) => pos[u] # p
  BY <1>1 DEF SlotsRead, Rec
<1>2. ASSUME NEW u \in Threads, Writing(u), pos[u] = p PROVE FALSE
  <2>1. SlotAt(p) = Rec(m[u], "claimed", u)
    BY <1>2 DEF SlotsRead
  <2>2. QED
    BY <2>1 DEF Rec
<1>3. QED
  BY <1>1, <1>2 DEF InCell

LEMMA TakenHasReaderNext ==
  ASSUME SlotsRead', NEW p \in Nat, SlotAt(p)'.st = "taken"
  PROVE  \E t \in Threads : Reading(t)' /\ pos'[t] = p
<1>1. CASE \A u \in Threads : InCell(u)' => pos'[u] # p
  BY <1>1 DEF SlotsRead, Rec
<1>2. ASSUME NEW u \in Threads, Writing(u)', pos'[u] = p PROVE FALSE
  <2>1. SlotAt(p)' = Rec(m'[u], "claimed", u)
    BY <1>2 DEF SlotsRead, Rec
  <2>2. QED
    BY <2>1 DEF Rec
<1>3. QED
  BY <1>1, <1>2 DEF InCell

\* A slot changes only with its thread, its side of dequeue_pos or its item.
LEMMA SlotStays ==
  ASSUME SlotsRead, SlotsRead', NEW p \in Nat,
         \A t \in Threads : (Writing(t)' /\ pos'[t] = p) <=> (Writing(t) /\ pos[t] = p),
         \A t \in Threads : (Reading(t)' /\ pos'[t] = p) <=> (Reading(t) /\ pos[t] = p),
         \A t \in Threads : Writing(t) /\ pos[t] = p => m'[t] = m[t],
         data'[Cell(p)] = data[Cell(p)] \/ \E t \in Threads : Writing(t) /\ pos[t] = p,
         p >= dequeue_pos' <=> p >= dequeue_pos
  PROVE  SlotAt(p)' = SlotAt(p)
<1>1. CASE \E t \in Threads : Writing(t) /\ pos[t] = p
  <2>1. PICK t \in Threads : Writing(t) /\ pos[t] = p
    BY <1>1
  <2>2. SlotAt(p) = Rec(m[t], "claimed", t)
    BY <2>1 DEF SlotsRead
  <2>3. Writing(t)' /\ pos'[t] = p /\ m'[t] = m[t]
    BY <2>1
  <2>4. SlotAt(p)' = Rec(m'[t], "claimed", t)
    BY <2>3 DEF SlotsRead, Rec
  <2>5. QED
    BY <2>2, <2>3, <2>4
<1>2. CASE \E t \in Threads : Reading(t) /\ pos[t] = p
  <2>1. PICK t \in Threads : Reading(t) /\ pos[t] = p
    BY <1>2
  <2>2. CASE \E u \in Threads : Writing(u) /\ pos[u] = p
    BY <1>1, <2>2
  <2>3. CASE data'[Cell(p)] = data[Cell(p)]
    <3>1. SlotAt(p) = Rec(data[Cell(p)], "taken", t)
      BY <2>1 DEF SlotsRead
    <3>2. Reading(t)' /\ pos'[t] = p
      BY <2>1
    <3>3. SlotAt(p)' = Rec(data'[Cell(p)], "taken", t)
      BY <3>2 DEF SlotsRead, Rec, Cell
    <3>4. QED
      BY <2>3, <3>1, <3>3
  <2>4. QED
    BY <2>2, <2>3
<1>3. CASE \A t \in Threads : InCell(t) => pos[t] # p
  <2>1. data'[Cell(p)] = data[Cell(p)]
    BY <1>3 DEF InCell
  <2>2. \A t \in Threads : InCell(t)' => pos'[t] # p
    BY <1>3 DEF InCell
  <2>3. SlotAt(p) = IF p >= dequeue_pos THEN Rec(data[Cell(p)], "ready", NoThread)
                                        ELSE Rec(NoVal, "done", NoThread)
    BY <1>3 DEF SlotsRead
  <2>4. SlotAt(p)' = IF p >= dequeue_pos' THEN Rec(data'[Cell(p)], "ready", NoThread)
                                          ELSE Rec(NoVal, "done", NoThread)
    BY <2>2 DEF SlotsRead, Rec, Cell
  <2>5. QED
    BY <2>1, <2>3, <2>4
<1>4. QED
  BY <1>1, <1>2, <1>3 DEF InCell

LEMMA WindowStays ==
  ASSUME WindowRead, UNCHANGED enqueue_pos, Oldest' = Oldest,
         \A p \in Nat : Oldest <= p /\ p < enqueue_pos => SlotAt(p)' = SlotAt(p)
  PROVE  WindowBar' = WindowBar
<1>1. PICK o \in Nat : o = Oldest
  BY DEF WindowRead
<1>2. PICK k : k = enqueue_pos - o
  OBVIOUS
<1>3. enqueue_pos \in Nat /\ o <= enqueue_pos
  BY <1>1 DEF WindowRead
<1>4. WindowBar = [i \in 1 .. k |-> SlotAt(o + i - 1)]
  BY <1>1, <1>2 DEF WindowBar
<1>5. WindowBar' = [i \in 1 .. k |-> SlotAt(o + i - 1)']
  BY <1>1, <1>2 DEF WindowBar
<1>6. \A i \in 1 .. k : SlotAt(o + i - 1)' = SlotAt(o + i - 1)
  <2> SUFFICES ASSUME NEW i \in 1 .. k PROVE SlotAt(o + i - 1)' = SlotAt(o + i - 1)
    OBVIOUS
  <2>1. o + i - 1 \in Nat /\ o <= o + i - 1 /\ o + i - 1 < enqueue_pos
    BY <1>2, <1>3
  <2>2. PICK p \in Nat : p = o + i - 1
    BY <2>1
  <2>3. SlotAt(p)' = SlotAt(p)
    BY <1>1, <2>1, <2>2
  <2>4. QED
    BY <2>2, <2>3
<1>7. QED
  BY <1>4, <1>5, <1>6

-----------------------------------------------------------------------------
(* What a step does to the abstract operations and items. *)

OpOf(l) ==
  CASE l \in {"e_load", "e_seq", "e_cas"} -> "enqueue"
    [] l \in {"e_write", "e_publish"}     -> "publish"
    [] l \in {"d_load", "d_seq", "d_cas"} -> "dequeue"
    [] l \in {"d_read", "d_release"}      -> "giveback"
    [] OTHER                              -> "idle"

LEMMA OpRead == OpBar = [t \in Threads |-> OpOf(pc[t])]
  BY DEF OpBar, OpOf, Writing, Reading

LEMMA OpReadNext == OpBar' = [t \in Threads |-> OpOf(pc'[t])]
  BY DEF OpBar, OpOf, Writing, Reading

LEMMA OpStep ==
  ASSUME TypeOK, NEW t \in Threads, NEW l, Goto(t, l)
  PROVE  OpBar' = [OpBar EXCEPT ![t] = OpOf(l)]
<1>1. pc \in [Threads -> PC] /\ pc' = [pc EXCEPT ![t] = l]
  BY DEF TypeOK, Goto
<1>2. \A u \in Threads : pc'[u] = IF u = t THEN l ELSE pc[u]
  BY <1>1
<1>3. QED
  BY <1>2, OpRead, OpReadNext

LEMMA OpSame ==
  ASSUME TypeOK, NEW t \in Threads, NEW l, Goto(t, l), OpOf(pc[t]) = OpOf(l)
  PROVE  OpBar' = OpBar
<1>1. OpBar' = [OpBar EXCEPT ![t] = OpOf(l)]
  BY OpStep
<1>2. QED
  BY <1>1, OpRead

\* The item of a thread that is not about to read one.
LEMMA ItemRead ==
  ASSUME NEW t \in Threads
  PROVE  /\ pc[t] # "d_read" => ItemBar[t] = m[t]
         /\ pc[t] = "d_read" => ItemBar[t] = data[Cell(pos[t])]
  BY DEF ItemBar

\* The other threads' items stay: what they are about to read does.
LEMMA ItemStep ==
  ASSUME NEW t \in Threads, NEW x, OnlyMoves(t), \A u \in Threads : u # t => m'[u] = m[u],
         \A u \in Threads : u # t /\ pc[u] = "d_read" => data'[Cell(pos[u])] = data[Cell(pos[u])],
         x = IF pc'[t] = "d_read" THEN data'[Cell(pos'[t])] ELSE m'[t]
  PROVE  ItemBar' = [ItemBar EXCEPT ![t] = x]
<1>1. ItemBar' = [u \in Threads |-> IF pc'[u] = "d_read" THEN data'[Cell(pos'[u])] ELSE m'[u]]
  BY DEF ItemBar, Cell
<1>2. ASSUME NEW u \in Threads, u # t
      PROVE  (IF pc'[u] = "d_read" THEN data'[Cell(pos'[u])] ELSE m'[u]) = ItemBar[u]
  BY <1>2, ItemRead DEF OnlyMoves
<1>3. ItemBar = [u \in Threads |-> ItemBar[u]]
  BY DEF ItemBar
<1>4. QED
  BY <1>1, <1>2, <1>3

LEMMA ItemSame ==
  ASSUME NEW t \in Threads, OnlyMoves(t), \A u \in Threads : u # t => m'[u] = m[u],
         \A u \in Threads : u # t /\ pc[u] = "d_read" => data'[Cell(pos[u])] = data[Cell(pos[u])],
         ItemBar[t] = IF pc'[t] = "d_read" THEN data'[Cell(pos'[t])] ELSE m'[t]
  PROVE  ItemBar' = ItemBar
<1>1. ItemBar' = [ItemBar EXCEPT ![t] = ItemBar[t]]
  BY ItemStep
<1>2. ItemBar = [u \in Threads |-> ItemBar[u]]
  BY DEF ItemBar
<1>3. QED
  BY <1>1, <1>2

\* A step that neither enters nor leaves a cell, nor changes the item of one
\* in the window, leaves the window as it is.
LEMMA WindowQuiet ==
  ASSUME RingInv, RingInv', NEW t \in Threads, OnlyMoves(t),
         UNCHANGED <<enqueue_pos, dequeue_pos>>,
         Writing(t)' <=> Writing(t), Reading(t)' <=> Reading(t),
         InCell(t) => pos'[t] = pos[t],
         Writing(t) => m'[t] = m[t], \A u \in Threads : u # t => m'[u] = m[u],
         \A p \in Nat : Oldest <= p /\ p < enqueue_pos =>
           data'[Cell(p)] = data[Cell(p)] \/ (Writing(t) /\ pos[t] = p)
  PROVE  WindowBar' = WindowBar
<1>1. WindowRead /\ WindowRead' /\ SlotsRead /\ SlotsRead'
  BY WindowIsRead, WindowIsReadNext, SlotsAreRead, SlotsAreReadNext
<1>2. \A u \in Threads : /\ Writing(u)' <=> Writing(u)
                         /\ Reading(u)' <=> Reading(u)
                         /\ InCell(u) => pos'[u] = pos[u]
  BY DEF OnlyMoves, InCell, Writing, Reading
<1>3. PICK o \in Nat : o = Oldest
  BY <1>1 DEF WindowRead
<1>4. /\ o <= dequeue_pos
      /\ \A u \in Threads : Reading(u) => o <= pos[u]
      /\ o = dequeue_pos \/ \E u \in Threads : Reading(u) /\ pos[u] = o
  BY <1>1, <1>3 DEF WindowRead
<1>5. /\ o <= dequeue_pos'
      /\ \A u \in Threads : Reading(u)' => o <= pos'[u]
      /\ o = dequeue_pos' \/ \E u \in Threads : Reading(u)' /\ pos'[u] = o
  BY <1>2, <1>4 DEF InCell
<1>6. Oldest' = Oldest
  BY <1>1, <1>3, <1>5, OldestNext
<1>7. ASSUME NEW p \in Nat, Oldest <= p, p < enqueue_pos PROVE SlotAt(p)' = SlotAt(p)
  <2>1. \A u \in Threads : (Writing(u)' /\ pos'[u] = p) <=> (Writing(u) /\ pos[u] = p)
    BY <1>2 DEF InCell
  <2>2. \A u \in Threads : (Reading(u)' /\ pos'[u] = p) <=> (Reading(u) /\ pos[u] = p)
    BY <1>2 DEF InCell
  <2>3. data'[Cell(p)] = data[Cell(p)] \/ \E u \in Threads : Writing(u) /\ pos[u] = p
    BY <1>7
  <2>4. \A u \in Threads : Writing(u) /\ pos[u] = p => m'[u] = m[u]
    OBVIOUS
  <2>5. QED
    BY <1>1, <2>1, <2>2, <2>3, <2>4, SlotStays
<1>8. QED
  BY <1>1, <1>6, <1>7, WindowStays

\* Steps of a thread that is in no cell: the window stays, and its item is m.
LEMMA OutsideStep ==
  ASSUME RingInv, RingInv', NEW t \in Threads, OnlyMoves(t), ~InCell(t), ~InCell(t)',
         UNCHANGED <<data, enqueue_pos, dequeue_pos>>,
         \A u \in Threads : u # t => m'[u] = m[u]
  PROVE  /\ WindowBar' = WindowBar
         /\ ItemBar' = [ItemBar EXCEPT ![t] = m'[t]]
         /\ m'[t] = m[t] => ItemBar' = ItemBar
<1>1. /\ ~Writing(t) /\ ~Writing(t)' /\ ~Reading(t) /\ ~Reading(t)'
      /\ pc[t] # "d_read" /\ pc'[t] # "d_read"
  BY DEF InCell, Writing, Reading
<1>2. WindowBar' = WindowBar
  BY <1>1, WindowQuiet
<1>3. ItemBar' = [ItemBar EXCEPT ![t] = m'[t]]
  BY <1>1, ItemStep
<1>4. ItemBar[t] = m[t]
  BY <1>1, ItemRead
<1>5. ASSUME m'[t] = m[t] PROVE ItemBar' = ItemBar
  BY <1>1, <1>4, <1>5, ItemSame
<1>6. QED
  BY <1>2, <1>3, <1>5

LEMMA EnqueueBeginMaps ==
  ASSUME RefInv, RingInv', NEW t \in Threads, NEW v \in Values, EnqueueBegin(t, v)
  PROVE  Contract!EnqueueBegin(t, v)
<1>1. /\ RingInv /\ TypeOK /\ pc[t] = "idle" /\ UNCHANGED <<data, enqueue_pos, dequeue_pos, closed>>
      /\ m \in [Threads -> Values \cup {NoVal}]
  BY DEF RefInv, RingInv, TypeOK, EnqueueBegin, shared
<1>2. OpBar[t] = "idle"
  BY <1>1, OpRead DEF OpOf
<1>3. CASE closed
  <2>1. /\ Return(t, FALSE) /\ m' = [m EXCEPT ![t] = NoVal] /\ ret' = [ret EXCEPT ![t] = FALSE]
        /\ Goto(t, "idle")
    BY <1>3 DEF EnqueueBegin, EnqueueReturn, Return
  <2>2. OnlyMoves(t) /\ pc'[t] = "idle"
    BY <1>1, <2>1, ReturnMoves
  <2>3. ~InCell(t) /\ ~InCell(t)'
    BY <1>1, <2>2 DEF InCell, Writing, Reading
  <2>4. m'[t] = NoVal /\ \A u \in Threads : u # t => m'[u] = m[u]
    BY <1>1, <2>1
  <2>5. WindowBar' = WindowBar /\ ItemBar' = [ItemBar EXCEPT ![t] = NoVal]
    BY <1>1, <2>2, <2>3, <2>4, OutsideStep
  <2>6. OpBar' = [OpBar EXCEPT ![t] = "idle"]
    BY <1>1, <2>1, OpStep DEF OpOf
  <2>7. QED
    BY <1>1, <1>2, <1>3, <2>1, <2>5, <2>6
       DEF Contract!EnqueueBegin, Contract!EnqueueReturn, Contract!Return
<1>4. CASE ~closed
  <2>1. Goto(t, "e_load") /\ m' = [m EXCEPT ![t] = v] /\ UNCHANGED <<pos, ret>>
    BY <1>4 DEF EnqueueBegin
  <2>2. OnlyMoves(t) /\ pc'[t] = "e_load"
    BY <1>1, <2>1, GotoMoves
  <2>3. ~InCell(t) /\ ~InCell(t)'
    BY <1>1, <2>2 DEF InCell, Writing, Reading
  <2>4. m'[t] = v /\ \A u \in Threads : u # t => m'[u] = m[u]
    BY <1>1, <2>1
  <2>5. WindowBar' = WindowBar /\ ItemBar' = [ItemBar EXCEPT ![t] = v]
    BY <1>1, <2>2, <2>3, <2>4, OutsideStep
  <2>6. OpBar' = [OpBar EXCEPT ![t] = "enqueue"]
    BY <1>1, <2>1, OpStep DEF OpOf
  <2>7. QED
    BY <1>1, <1>2, <1>4, <2>1, <2>5, <2>6 DEF Contract!EnqueueBegin
<1>5. QED
  BY <1>3, <1>4

LEMMA DequeueBeginMaps ==
  ASSUME RefInv, RingInv', NEW t \in Threads, DequeueBegin(t)
  PROVE  Contract!DequeueBegin(t)
<1>1. /\ RingInv /\ TypeOK /\ pc[t] = "idle"
      /\ UNCHANGED <<data, enqueue_pos, dequeue_pos, closed, pos, ret>>
      /\ m \in [Threads -> Values \cup {NoVal}]
      /\ Goto(t, "d_load") /\ m' = [m EXCEPT ![t] = NoVal]
  BY DEF RefInv, RingInv, TypeOK, DequeueBegin, shared
<1>2. OpBar[t] = "idle"
  BY <1>1, OpRead DEF OpOf
<1>3. OnlyMoves(t) /\ pc'[t] = "d_load"
  BY <1>1, GotoMoves
<1>4. ~InCell(t) /\ ~InCell(t)'
  BY <1>1, <1>3 DEF InCell, Writing, Reading
<1>5. m'[t] = NoVal /\ \A u \in Threads : u # t => m'[u] = m[u]
  BY <1>1
<1>6. WindowBar' = WindowBar /\ ItemBar' = [ItemBar EXCEPT ![t] = NoVal]
  BY <1>1, <1>3, <1>4, <1>5, OutsideStep
<1>7. OpBar' = [OpBar EXCEPT ![t] = "dequeue"]
  BY <1>1, OpStep DEF OpOf
<1>8. QED
  BY <1>1, <1>2, <1>6, <1>7 DEF Contract!DequeueBegin

\* Loops, reloads and failed CASes show nothing.
LEMMA LoopMaps ==
  ASSUME RefInv, RingInv', NEW t \in Threads, NEW l, Goto(t, l), OpOf(pc[t]) = OpOf(l),
         pc[t] \in {"e_load", "e_seq", "e_cas", "d_load", "d_seq", "d_cas"},
         pos' = pos \/ \E p \in Nat : pos' = [pos EXCEPT ![t] = p],
         UNCHANGED <<data, enqueue_pos, dequeue_pos, closed, m, ret>>
  PROVE  UNCHANGED Contract!vars
<1>1. RingInv /\ TypeOK
  BY DEF RefInv, RingInv
<1>2. OnlyMoves(t) /\ pc'[t] = l
  BY <1>1, GotoMoves
<1>3. ~InCell(t) /\ ~InCell(t)'
  BY <1>2 DEF InCell, Writing, Reading, OpOf
<1>4. WindowBar' = WindowBar /\ ItemBar' = ItemBar
  BY <1>1, <1>2, <1>3, OutsideStep
<1>5. OpBar' = OpBar
  BY <1>1, OpSame
<1>6. QED
  BY <1>4, <1>5 DEF Contract!vars

LEMMA LoadMaps ==
  ASSUME RefInv, RingInv', NEW t \in Threads, EnqueueLoad(t) \/ DequeueLoad(t)
  PROVE  UNCHANGED Contract!vars
<1>1. enqueue_pos \in Nat /\ dequeue_pos \in Nat
  BY Typed DEF RefInv, RingInv
<1>2. CASE EnqueueLoad(t)
  <2>1. /\ pc[t] = "e_load" /\ Goto(t, "e_seq") /\ pos' = [pos EXCEPT ![t] = enqueue_pos]
        /\ UNCHANGED <<data, enqueue_pos, dequeue_pos, closed, m, ret>>
        /\ OpOf("e_load") = OpOf("e_seq")
    BY <1>2 DEF EnqueueLoad, shared, OpOf
  <2>2. QED
    BY <1>1, <2>1, LoopMaps
<1>3. CASE DequeueLoad(t)
  <2>1. /\ pc[t] = "d_load" /\ Goto(t, "d_seq") /\ pos' = [pos EXCEPT ![t] = dequeue_pos]
        /\ UNCHANGED <<data, enqueue_pos, dequeue_pos, closed, m, ret>>
        /\ OpOf("d_load") = OpOf("d_seq")
    BY <1>3 DEF DequeueLoad, shared, OpOf
  <2>2. QED
    BY <1>1, <2>1, LoopMaps
<1>4. QED
  BY <1>2, <1>3

-----------------------------------------------------------------------------
(* A refusal is justified by the window. *)

\* Each cell belongs to a position of the current lap.
LEMMA LapOfCell ==
  ASSUME NEW d \in Nat, NEW c \in Cells
  PROVE  \E q \in Nat : d <= q /\ q < d + Capacity /\ Cell(q) = c
<1> DEFINE k == d \div Capacity
           r == d % Capacity
<1>1. d = Capacity * k + r /\ r \in Cells /\ k \in Nat
  BY DivMod
<1> HIDE DEF k, r
<1>2. Capacity * k \in Nat /\ Capacity * (k + 1) = Capacity * k + Capacity /\ k + 1 \in Nat
  BY <1>1, CapacityAssumption
<1>3. ASSUME NEW j \in Nat, Capacity * j \in Nat
      PROVE  Capacity * j + c \in Nat /\ Cell(Capacity * j + c) = c
  <2>1. Capacity * j + c \in Nat
    BY <1>3, CapacityAssumption DEF Cells
  <2>2. PICK a \in Nat : a = Capacity * j + c
    BY <2>1
  <2>3. /\ a = Capacity * (a \div Capacity) + (a % Capacity)
        /\ a % Capacity \in Cells /\ a \div Capacity \in Nat
    BY DivMod
  <2>4. PICK x \in Nat, y \in Cells : x = a \div Capacity /\ y = a % Capacity
    BY <2>3
  <2>5. Capacity * x + y = Capacity * j + c
    BY <2>2, <2>3, <2>4
  <2>6. y = c
    BY <2>5, DivModUnique
  <2>7. QED
    BY <2>1, <2>2, <2>4, <2>6 DEF Cell
<1>4. CASE c >= r
  <2>1. Capacity * k + c >= d /\ Capacity * k + c < d + Capacity
    BY <1>1, <1>2, <1>4, CapacityAssumption DEF Cells
  <2>2. QED
    BY <1>1, <1>2, <1>3, <2>1
<1>5. CASE c < r
  <2>1. Capacity * (k + 1) + c >= d /\ Capacity * (k + 1) + c < d + Capacity
    BY <1>1, <1>2, <1>5, CapacityAssumption DEF Cells
  <2>2. Capacity * (k + 1) \in Nat
    BY <1>2, CapacityAssumption
  <2>3. QED
    BY <1>2, <1>3, <2>1, <2>2
<1>6. QED
  BY <1>4, <1>5, CapacityAssumption, <1>1 DEF Cells

\* The cell of a position dequeuers have passed has moved on to a later one.
LEMMA NeverBehind ==
  ASSUME RingInv, NEW p \in Nat, p < dequeue_pos
  PROVE  sequence[Cell(p)] >= p + 1
<1>1. /\ enqueue_pos \in Nat /\ dequeue_pos \in Nat /\ Capacity \in Nat
      /\ sequence[Cell(p)] \in Nat /\ Cell(p) \in Cells
  BY Typed, CellType, CapacityAssumption DEF RingInv
<1>2. PICK q \in Nat : dequeue_pos <= q /\ q < dequeue_pos + Capacity /\ Cell(q) = Cell(p)
  BY <1>1, LapOfCell
<1>3. q >= p + Capacity
  BY <1>1, <1>2, CellInjective
<1>4. CASE q < enqueue_pos
  <2>1. sequence[Cell(q)] = q \/ sequence[Cell(q)] = q + 1
    BY <1>1, <1>2, <1>4 DEF RingInv, FilledCells
  <2>2. QED
    BY <1>1, <1>2, <1>3, <2>1, CapacityAssumption
<1>5. CASE q >= enqueue_pos
  <2>1. sequence[Cell(q)] = q \/ sequence[Cell(q)] + Capacity = q + 1
    BY <1>1, <1>2, <1>5 DEF RingInv, EmptyCells
  <2>2. QED
    BY <1>1, <1>2, <1>3, <2>1, CapacityAssumption
<1>6. QED
  BY <1>1, <1>2, <1>4, <1>5

\* enqueue's "full": the cell of its position is still held a lap behind.
LEMMA RefusedIsFull ==
  ASSUME RefInv, NEW t \in Threads, pc[t] = "e_seq", sequence[Cell(pos[t])] < pos[t]
  PROVE  Contract!Full(WindowBar, Capacity)
<1>1. /\ enqueue_pos \in Nat /\ dequeue_pos \in Nat /\ Capacity \in Nat /\ pos[t] \in Nat
      /\ sequence[Cell(pos[t])] \in Nat /\ RingInv
  BY Typed, CapacityAssumption DEF RefInv, RingInv
<1>2. /\ WindowRead /\ Oldest \in Nat /\ Oldest <= dequeue_pos /\ dequeue_pos <= enqueue_pos
      /\ enqueue_pos <= Oldest + Capacity
  BY <1>1, WindowIsRead DEF WindowRead
<1>3. pos[t] <= enqueue_pos
  BY DEF RefInv, RingInv, EnqueueCasSound
<1>4. pos[t] = enqueue_pos
  <2>1. ~(pos[t] < dequeue_pos)
    BY <1>1, NeverBehind
  <2>2. ~(dequeue_pos <= pos[t] /\ pos[t] < enqueue_pos)
    BY <1>1 DEF RingInv, FilledCells
  <2>3. QED
    BY <1>1, <1>3, <2>1, <2>2
<1>5. enqueue_pos = Oldest + Capacity
  <2>1. CASE enqueue_pos = dequeue_pos + Capacity
    BY <1>1, <1>2, <2>1
  <2>2. CASE enqueue_pos < dequeue_pos + Capacity
    <3>1. enqueue_pos \in enqueue_pos .. dequeue_pos + Capacity - 1
      BY <1>1, <2>2
    <3>2. sequence[Cell(enqueue_pos)] + Capacity = enqueue_pos + 1
      BY <1>1, <1>4, <3>1 DEF RingInv, EmptyCells
    <3>3. PICK u \in Threads : Reading(u) /\ pos[u] + Capacity = enqueue_pos
      BY <3>1, <3>2 DEF RefInv, CellsAttended
    <3>4. Oldest <= pos[u] /\ pos[u] \in Nat
      BY <1>2, <3>3 DEF WindowRead
    <3>5. QED
      BY <1>1, <1>2, <3>3, <3>4
  <2>3. enqueue_pos <= dequeue_pos + Capacity
    BY <1>1, <1>2
  <2>4. QED
    BY <1>1, <2>1, <2>2, <2>3
<1>6. Len(WindowBar) = Capacity
  BY <1>1, <1>2, <1>5, WindowSeq
<1>7. QED
  BY <1>6 DEF Contract!Full

LEMMA EnqueueSeqMaps ==
  ASSUME RefInv, RingInv', NEW t \in Threads, EnqueueSeq(t)
  PROVE  Contract!EnqueueFull(t) \/ UNCHANGED Contract!vars
<1>1. /\ RingInv /\ TypeOK /\ pc[t] = "e_seq"
      /\ UNCHANGED <<data, enqueue_pos, dequeue_pos, closed>>
      /\ m \in [Threads -> Values \cup {NoVal}]
  BY DEF RefInv, RingInv, TypeOK, EnqueueSeq, shared
<1>2. \/ sequence[Cell(pos[t])] < pos[t] /\ EnqueueReturn(t, FALSE)
      \/ Goto(t, "e_cas") /\ UNCHANGED <<pos, m, ret>>
      \/ Goto(t, "e_load") /\ UNCHANGED <<pos, m, ret>>
  BY Zenon DEF EnqueueSeq
<1>3. OpOf("e_seq") = OpOf("e_cas") /\ OpOf("e_seq") = OpOf("e_load") /\ OpOf("idle") = "idle"
  BY DEF OpOf
<1>4. CASE Goto(t, "e_cas") /\ UNCHANGED <<pos, m, ret>>
  BY <1>1, <1>3, <1>4, LoopMaps
<1>5. CASE Goto(t, "e_load") /\ UNCHANGED <<pos, m, ret>>
  BY <1>1, <1>3, <1>5, LoopMaps
<1>6. CASE sequence[Cell(pos[t])] < pos[t] /\ EnqueueReturn(t, FALSE)
  <2>1. Contract!Full(WindowBar, Capacity)
    BY <1>1, <1>6, RefusedIsFull
  <2>2. /\ Return(t, FALSE) /\ m' = [m EXCEPT ![t] = NoVal] /\ ret' = [ret EXCEPT ![t] = FALSE]
        /\ Goto(t, "idle")
    BY <1>6 DEF EnqueueReturn, Return
  <2>3. OnlyMoves(t) /\ pc'[t] = "idle"
    BY <1>1, <2>2, ReturnMoves
  <2>4. ~InCell(t) /\ ~InCell(t)'
    BY <1>1, <2>3 DEF InCell, Writing, Reading
  <2>5. m'[t] = NoVal /\ \A u \in Threads : u # t => m'[u] = m[u]
    BY <1>1, <2>2
  <2>6. WindowBar' = WindowBar /\ ItemBar' = [ItemBar EXCEPT ![t] = NoVal]
    BY <1>1, <2>3, <2>4, <2>5, OutsideStep
  <2>7. OpBar' = [OpBar EXCEPT ![t] = "idle"] /\ OpBar[t] = "enqueue"
    BY <1>1, <1>3, <2>2, OpStep, OpRead DEF OpOf
  <2>8. QED
    BY <1>1, <2>1, <2>2, <2>6, <2>7
       DEF Contract!EnqueueFull, Contract!EnqueueReturn, Contract!Return
<1>7. QED
  BY <1>2, <1>4, <1>5, <1>6

\* The slots that wait for a dequeuer are those from dequeue_pos on, and the
\* first of them is the slot of dequeue_pos.
LEMMA WaitingBar ==
  ASSUME WindowRead
  PROVE  /\ Contract!Waiting(WindowBar) = dequeue_pos - Oldest + 1 .. enqueue_pos - Oldest
         /\ dequeue_pos < enqueue_pos =>
              /\ Contract!FrontSlot(WindowBar) = dequeue_pos - Oldest + 1
              /\ dequeue_pos - Oldest + 1 \in 1 .. enqueue_pos - Oldest
              /\ WindowBar[dequeue_pos - Oldest + 1] = SlotAt(dequeue_pos)
<1>1. PICK o \in Nat, d \in Nat, e \in Nat :
        o = Oldest /\ d = dequeue_pos /\ e = enqueue_pos /\ o <= d /\ d <= e
  BY DEF WindowRead
<1>2. /\ DOMAIN WindowBar = 1 .. e - o
      /\ \A i \in 1 .. e - o : WindowBar[i] = SlotAt(o + i - 1) /\ o + i - 1 \in Nat
  BY <1>1, WindowSeq
<1>3. ASSUME NEW i \in 1 .. e - o
      PROVE  WindowBar[i].st \in {"claimed", "ready"} <=> i >= d - o + 1
  <2>1. WindowBar[i] = SlotAt(o + i - 1) /\ o + i - 1 \in Nat
    BY <1>2
  <2>2. PICK p \in Nat : p = o + i - 1
    BY <2>1
  <2>3. /\ p < d => SlotAt(p).st \in {"taken", "done"}
        /\ p >= d => SlotAt(p).st \in {"claimed", "ready"}
    BY <1>1 DEF WindowRead
  <2>4. p >= d <=> i >= d - o + 1
    BY <1>1, <2>2
  <2>5. QED
    BY <1>1, <2>1, <2>2, <2>3, <2>4
<1>4. Contract!Waiting(WindowBar) = d - o + 1 .. e - o
  <2>1. Contract!Waiting(WindowBar) = {i \in 1 .. e - o : WindowBar[i].st \in {"claimed", "ready"}}
    BY <1>2 DEF Contract!Waiting
  <2>2. {i \in 1 .. e - o : i >= d - o + 1} = d - o + 1 .. e - o
    BY <1>1
  <2>3. QED
    BY <1>3, <2>1, <2>2
<1>5. ASSUME d < e
      PROVE  /\ Contract!FrontSlot(WindowBar) = d - o + 1
             /\ d - o + 1 \in 1 .. e - o
             /\ WindowBar[d - o + 1] = SlotAt(d)
  <2>1. d - o + 1 \in d - o + 1 .. e - o /\ (d - o + 1 .. e - o) \in SUBSET Nat
    BY <1>1, <1>5
  <2>2. PICK S \in SUBSET Nat : S = d - o + 1 .. e - o
    BY <2>1
  <2>3. S # {} /\ d - o + 1 \in S /\ \A y \in S : d - o + 1 <= y
    BY <2>1, <2>2
  <2>4. Contract!Min(S) \in S /\ \A y \in S : Contract!Min(S) <= y
    BY <2>3, LeastOf
  <2>5. Contract!Min(S) = d - o + 1
    <3>1. PICK x \in Nat : x = Contract!Min(S)
      BY <2>4
    <3>2. x \in d - o + 1 .. e - o /\ x <= d - o + 1
      BY <2>2, <2>3, <2>4, <3>1
    <3>3. x = d - o + 1
      BY <1>1, <3>2
    <3>4. QED
      BY <3>1, <3>3
  <2>6. Contract!FrontSlot(WindowBar) = d - o + 1
    BY <1>4, <2>2, <2>5 DEF Contract!FrontSlot
  <2>7. d - o + 1 \in 1 .. e - o /\ o + (d - o + 1) - 1 = d
    BY <1>1, <1>5
  <2>8. QED
    BY <1>2, <2>6, <2>7
<1>6. QED
  BY <1>1, <1>4, <1>5

\* dequeue's "empty": the oldest unclaimed position is not published.
LEMMA RefusedIsEmpty ==
  ASSUME RefInv, NEW t \in Threads, pc[t] = "d_seq", sequence[Cell(pos[t])] < pos[t] + 1
  PROVE  ~Contract!HasReady(WindowBar)
<1>1. /\ enqueue_pos \in Nat /\ dequeue_pos \in Nat /\ pos[t] \in Nat
      /\ sequence[Cell(pos[t])] \in Nat /\ RingInv
  BY Typed DEF RefInv, RingInv
<1>2. WindowRead /\ SlotsRead /\ Oldest \in Nat /\ dequeue_pos <= enqueue_pos
  BY <1>1, WindowIsRead, SlotsAreRead DEF WindowRead
<1>3. pos[t] <= dequeue_pos
  BY DEF RefInv, RingInv, DequeueCasSound
<1>4. pos[t] = dequeue_pos
  BY <1>1, <1>3, NeverBehind
<1>5. CASE dequeue_pos = enqueue_pos
  <2>1. dequeue_pos - Oldest + 1 .. enqueue_pos - Oldest = {}
    BY <1>1, <1>2, <1>5
  <2>2. QED
    BY <1>2, <2>1, WaitingBar DEF Contract!HasReady
<1>6. CASE dequeue_pos < enqueue_pos
  <2>1. dequeue_pos \in dequeue_pos .. enqueue_pos - 1
    BY <1>1, <1>6
  <2>2. sequence[Cell(dequeue_pos)] = dequeue_pos
    BY <1>1, <1>4, <2>1 DEF RingInv, FilledCells
  <2>3. PICK u \in Threads : Writing(u) /\ pos[u] = dequeue_pos
    BY <2>1, <2>2 DEF RefInv, CellsAttended
  <2>4. SlotAt(dequeue_pos) = Rec(m[u], "claimed", u)
    BY <1>2, <2>3 DEF SlotsRead
  <2>5. WindowBar[Contract!FrontSlot(WindowBar)] = SlotAt(dequeue_pos)
    BY <1>2, <1>6, WaitingBar
  <2>6. SlotAt(dequeue_pos).st # "ready"
    BY <2>4 DEF Rec
  <2>7. QED
    BY <2>5, <2>6 DEF Contract!HasReady
<1>7. QED
  BY <1>1, <1>2, <1>5, <1>6

LEMMA DequeueSeqMaps ==
  ASSUME RefInv, RingInv', NEW t \in Threads, DequeueSeq(t)
  PROVE  Contract!DequeueEmpty(t) \/ UNCHANGED Contract!vars
<1>1. /\ RingInv /\ TypeOK /\ pc[t] = "d_seq"
      /\ UNCHANGED <<data, enqueue_pos, dequeue_pos, closed, m>>
  BY DEF RefInv, RingInv, DequeueSeq, shared
<1>2. \/ sequence[Cell(pos[t])] < pos[t] + 1 /\ Return(t, FALSE)
      \/ Goto(t, "d_cas") /\ UNCHANGED <<pos, ret>>
      \/ Goto(t, "d_load") /\ UNCHANGED <<pos, ret>>
  BY Zenon DEF DequeueSeq
<1>3. OpOf("d_seq") = OpOf("d_cas") /\ OpOf("d_seq") = OpOf("d_load") /\ OpOf("idle") = "idle"
  BY DEF OpOf
<1>4. CASE Goto(t, "d_cas") /\ UNCHANGED <<pos, ret>>
  BY <1>1, <1>3, <1>4, LoopMaps
<1>5. CASE Goto(t, "d_load") /\ UNCHANGED <<pos, ret>>
  BY <1>1, <1>3, <1>5, LoopMaps
<1>6. CASE sequence[Cell(pos[t])] < pos[t] + 1 /\ Return(t, FALSE)
  <2>1. ~Contract!HasReady(WindowBar)
    BY <1>1, <1>6, RefusedIsEmpty
  <2>2. ret' = [ret EXCEPT ![t] = FALSE] /\ Goto(t, "idle")
    BY <1>6 DEF Return
  <2>3. OnlyMoves(t) /\ pc'[t] = "idle"
    BY <1>1, <1>6, ReturnMoves
  <2>4. ~InCell(t) /\ ~InCell(t)'
    BY <1>1, <2>3 DEF InCell, Writing, Reading
  <2>5. WindowBar' = WindowBar /\ ItemBar' = ItemBar
    BY <1>1, <2>3, <2>4, OutsideStep
  <2>6. OpBar' = [OpBar EXCEPT ![t] = "idle"] /\ OpBar[t] = "dequeue"
    BY <1>1, <1>3, <2>2, OpStep, OpRead DEF OpOf
  <2>7. QED
    BY <1>1, <2>1, <2>2, <2>5, <2>6 DEF Contract!DequeueEmpty, Contract!Return
<1>7. QED
  BY <1>2, <1>4, <1>5, <1>6

-----------------------------------------------------------------------------
(* The steps inside a cell. *)

\* Two positions of the window have different cells.
LEMMA WindowCells ==
  ASSUME WindowRead, NEW p \in Nat, NEW q \in Nat, Cell(p) = Cell(q),
         Oldest <= p, p < enqueue_pos, Oldest <= q, q < enqueue_pos
  PROVE  p = q
<1>1. /\ enqueue_pos \in Nat /\ Oldest \in Nat /\ Capacity \in Nat
      /\ enqueue_pos <= Oldest + Capacity
  BY CapacityAssumption DEF WindowRead
<1>2. CASE p <= q
  BY <1>1, <1>2, CellInjective
<1>3. CASE q <= p
  BY <1>1, <1>3, CellInjective
<1>4. QED
  BY <1>2, <1>3

\* The store of the item: its slot shows it since the CAS.
LEMMA EnqueueWriteMaps ==
  ASSUME RefInv, RingInv', NEW t \in Threads, EnqueueWrite(t)
  PROVE  UNCHANGED Contract!vars
<1>1. /\ RingInv /\ TypeOK /\ pc[t] = "e_write"
      /\ data' = [data EXCEPT ![Cell(pos[t])] = m[t]] /\ Goto(t, "e_publish")
      /\ UNCHANGED <<enqueue_pos, dequeue_pos, closed, pos, m, ret>>
  BY DEF RefInv, RingInv, EnqueueWrite
<1>2. OnlyMoves(t) /\ pc'[t] = "e_publish"
  BY <1>1, GotoMoves
<1>3. /\ Writing(t) /\ Writing(t)' /\ ~Reading(t) /\ ~Reading(t)' /\ InCell(t)
  BY <1>1, <1>2 DEF Writing, Reading, InCell
<1>4. /\ WindowRead /\ pos[t] \in Nat /\ Oldest <= pos[t] /\ pos[t] < enqueue_pos
  <2>1. WindowRead
    BY <1>1, WindowIsRead
  <2>2. /\ pos[t] \in Nat /\ Oldest \in Nat /\ dequeue_pos \in Nat /\ Oldest <= dequeue_pos
        /\ dequeue_pos <= pos[t] /\ pos[t] < enqueue_pos
    BY <1>3, <2>1 DEF WindowRead
  <2>3. QED
    BY <2>1, <2>2
<1>5. \A c \in Cells : c # Cell(pos[t]) => data'[c] = data[c]
  BY <1>1 DEF TypeOK
<1>6. ASSUME NEW p \in Nat, Oldest <= p, p < enqueue_pos
      PROVE  data'[Cell(p)] = data[Cell(p)] \/ (Writing(t) /\ pos[t] = p)
  <2>1. CASE Cell(p) = Cell(pos[t])
    BY <1>3, <1>4, <1>6, <2>1, WindowCells
  <2>2. CASE Cell(p) # Cell(pos[t])
    BY <1>5, <2>2, CellType
  <2>3. QED
    BY <2>1, <2>2
<1>7. WindowBar' = WindowBar
  BY <1>1, <1>2, <1>3, <1>6, WindowQuiet
<1>8. ASSUME NEW u \in Threads, u # t, pc[u] = "d_read"
      PROVE  data'[Cell(pos[u])] = data[Cell(pos[u])]
  <2>1. Cell(pos[u]) # Cell(pos[t]) /\ Cell(pos[u]) \in Cells
    BY <1>1, <1>3, <1>8, OtherCell, Typed, CellType DEF InCell, Reading
  <2>2. QED
    BY <1>5, <2>1
<1>9. ItemBar' = ItemBar
  <2>1. ItemBar[t] = m[t]
    BY <1>1, ItemRead
  <2>2. QED
    BY <1>1, <1>2, <1>8, <2>1, ItemSame
<1>10. OpBar' = OpBar
  <2>1. OpOf(pc[t]) = OpOf("e_publish")
    BY <1>1 DEF OpOf
  <2>2. QED
    BY <1>1, <2>1, OpSame
<1>11. QED
  BY <1>1, <1>7, <1>9, <1>10 DEF Contract!vars

\* The load of the item: the dequeuer has had it since its CAS.
LEMMA DequeueReadMaps ==
  ASSUME RefInv, RingInv', NEW t \in Threads, DequeueRead(t)
  PROVE  UNCHANGED Contract!vars
<1>1. /\ RingInv /\ TypeOK /\ pc[t] = "d_read" /\ m \in [Threads -> Values \cup {NoVal}]
      /\ m' = [m EXCEPT ![t] = data[Cell(pos[t])]] /\ Goto(t, "d_release")
      /\ UNCHANGED <<data, enqueue_pos, dequeue_pos, closed, pos, ret>>
  BY DEF RefInv, RingInv, TypeOK, DequeueRead, shared
<1>2. OnlyMoves(t) /\ pc'[t] = "d_release"
  BY <1>1, GotoMoves
<1>3. /\ ~Writing(t) /\ ~Writing(t)' /\ Reading(t) /\ Reading(t)'
  BY <1>1, <1>2 DEF Writing, Reading
<1>4. m'[t] = data[Cell(pos[t])] /\ \A u \in Threads : u # t => m'[u] = m[u]
  BY <1>1
<1>5. WindowBar' = WindowBar
  BY <1>1, <1>2, <1>3, <1>4, WindowQuiet
<1>6. ItemBar' = ItemBar
  <2>1. ItemBar[t] = m'[t]
    BY <1>1, <1>4, ItemRead
  <2>2. QED
    BY <1>1, <1>2, <1>4, <2>1, ItemSame
<1>7. OpBar' = OpBar
  <2>1. OpOf(pc[t]) = OpOf("d_release")
    BY <1>1 DEF OpOf
  <2>2. QED
    BY <1>1, <2>1, OpSame
<1>8. QED
  BY <1>1, <1>5, <1>6, <1>7 DEF Contract!vars

\* The window after a step, position by position.
LEMMA WindowNext ==
  ASSUME WindowRead', NEW o \in Nat, NEW e \in Nat, Oldest' = o, enqueue_pos' = e
  PROVE  /\ WindowBar' \in Seq(SlotSet) /\ Len(WindowBar') = e - o
         /\ DOMAIN WindowBar' = 1 .. e - o /\ e - o \in Nat
         /\ \A i \in 1 .. e - o :
              WindowBar'[i] = SlotAt(o + i - 1)' /\ SlotAt(o + i - 1)' \in SlotSet
<1> DEFINE G(i) == SlotAt(o + i - 1)'
<1>1. e - o \in Nat
  BY DEF WindowRead
<1>2. WindowBar' = [i \in 1 .. e - o |-> G(i)]
  BY DEF WindowBar
<1>3. \A i \in 1 .. e - o : G(i) \in SlotSet
  <2> SUFFICES ASSUME NEW i \in 1 .. e - o PROVE G(i) \in SlotSet
    OBVIOUS
  <2>1. PICK p \in Nat : p = o + i - 1
    BY <1>1
  <2>2. SlotAt(p)' \in SlotSet
    BY DEF WindowRead, SlotSet
  <2>3. QED
    BY <2>1, <2>2
<1> HIDE DEF G
<1>4. WindowBar' \in Seq(SlotSet)
  BY <1>1, <1>2, <1>3, IsASeq
<1>5. Len(WindowBar') = e - o /\ DOMAIN WindowBar' = 1 .. e - o
  BY <1>1, <1>2, <1>4, LenProperties
<1>6. \A i \in 1 .. e - o : WindowBar'[i] = G(i)
  BY <1>2
<1>7. QED
  BY <1>1, <1>3, <1>4, <1>5, <1>6 DEF G

\* The CAS of enqueue adds a claimed slot at the end of the window.
LEMMA EnqueueCasMaps ==
  ASSUME RefInv, RingInv', NEW t \in Threads, EnqueueCas(t)
  PROVE  Contract!EnqueueClaim(t) \/ UNCHANGED Contract!vars
<1>1. /\ RingInv /\ TypeOK /\ pc[t] = "e_cas"
      /\ UNCHANGED <<sequence, data, dequeue_pos, closed, m, ret>>
      /\ enqueue_pos \in Nat /\ dequeue_pos \in Nat /\ Capacity \in Nat
  BY Typed, CapacityAssumption DEF RefInv, RingInv, EnqueueCas
<1>2. CASE enqueue_pos # pos[t]
  <2>1. /\ Goto(t, "e_seq") /\ pos' = [pos EXCEPT ![t] = enqueue_pos] /\ UNCHANGED enqueue_pos
        /\ OpOf("e_cas") = OpOf("e_seq")
    BY <1>2 DEF EnqueueCas, OpOf
  <2>2. QED
    BY <1>1, <2>1, LoopMaps
<1>3. CASE enqueue_pos = pos[t]
  <2>1. /\ Goto(t, "e_write") /\ pos' = pos /\ enqueue_pos' = enqueue_pos + 1
    BY <1>3 DEF EnqueueCas
  <2>2. OnlyMoves(t) /\ pc'[t] = "e_write"
    BY <1>1, <2>1, GotoMoves
  <2>3. /\ ~InCell(t) /\ Writing(t)' /\ ~Reading(t)' /\ ~Reading(t) /\ ~Writing(t)
    BY <1>1, <2>2 DEF InCell, Writing, Reading
  <2>4. WindowRead /\ WindowRead' /\ SlotsRead /\ SlotsRead'
    BY <1>1, WindowIsRead, WindowIsReadNext, SlotsAreRead, SlotsAreReadNext
  <2>5. PICK o \in Nat : o = Oldest
    BY <2>4 DEF WindowRead
  <2>6. /\ o <= dequeue_pos /\ dequeue_pos <= enqueue_pos /\ enqueue_pos <= o + Capacity
        /\ \A u \in Threads : Reading(u) => o <= pos[u]
        /\ o = dequeue_pos \/ \E u \in Threads : Reading(u) /\ pos[u] = o
    BY <2>4, <2>5 DEF WindowRead
  <2>7. \A u \in Threads : u # t => /\ Writing(u)' <=> Writing(u)
                                    /\ Reading(u)' <=> Reading(u)
                                    /\ pos'[u] = pos[u]
    BY <2>2 DEF OnlyMoves, Writing, Reading
  <2>8. Oldest' = o
    <3>1. /\ o <= dequeue_pos'
          /\ \A u \in Threads : Reading(u)' => o <= pos'[u]
          /\ o = dequeue_pos' \/ \E u \in Threads : Reading(u)' /\ pos'[u] = o
      BY <1>1, <2>3, <2>6, <2>7
    <3>2. QED
      BY <2>4, <3>1, OldestNext
  <2>9. enqueue_pos # o + Capacity
    <3>1. sequence[Cell(enqueue_pos)] = enqueue_pos
      BY <1>1, <1>3 DEF RingInv, EnqueueCasSound
    <3>2. /\ enqueue_pos < dequeue_pos + Capacity
          /\ \A u \in Threads : InCell(u) => LapPos(u) # enqueue_pos
      BY <1>1, <3>1, EnqueueCasFree
    <3>3. \A u \in Threads : Reading(u) => pos[u] + Capacity # enqueue_pos
      BY <3>2 DEF InCell, LapPos, Reading, Writing
    <3>4. QED
      BY <1>1, <2>6, <3>2, <3>3
  <2>10. ASSUME NEW p \in Nat, p < enqueue_pos PROVE SlotAt(p)' = SlotAt(p)
    <3>1. \A u \in Threads : (Writing(u)' /\ pos'[u] = p) <=> (Writing(u) /\ pos[u] = p)
      BY <1>3, <2>1, <2>3, <2>7, <2>10
    <3>2. \A u \in Threads : (Reading(u)' /\ pos'[u] = p) <=> (Reading(u) /\ pos[u] = p)
      BY <2>3, <2>7
    <3>3. QED
      BY <1>1, <2>4, <3>1, <3>2, SlotStays
  <2>11. pos'[t] = enqueue_pos /\ m'[t] = m[t]
    BY <1>1, <1>3, <2>1
  <2>12. PICK e \in Nat : e = enqueue_pos
    BY <1>1
  <2>13. SlotAt(e)' = Rec(m[t], "claimed", t)
    BY <2>3, <2>4, <2>11, <2>12 DEF SlotsRead, Rec
  <2>14. Rec(m[t], "claimed", t) \in SlotSet
    BY <1>1 DEF TypeOK, Rec, SlotSet
  <2>15. PICK n \in SlotSet : n = Rec(m[t], "claimed", t)
    BY <2>14
  <2>16. /\ WindowBar \in Seq(SlotSet) /\ Len(WindowBar) = e - o /\ e - o \in Nat
         /\ \A i \in 1 .. e - o : WindowBar[i] = SlotAt(o + i - 1) /\ o + i - 1 \in Nat
    BY <2>4, <2>5, <2>12, WindowSeq
  <2>17. /\ Append(WindowBar, n) \in Seq(SlotSet)
         /\ Len(Append(WindowBar, n)) = e - o + 1
         /\ \A i \in 1 .. e - o : Append(WindowBar, n)[i] = WindowBar[i]
         /\ Append(WindowBar, n)[e - o + 1] = n
    BY <2>15, <2>16, AppendProperties
  <2>18. /\ WindowBar' \in Seq(SlotSet) /\ Len(WindowBar') = e - o + 1
         /\ \A i \in 1 .. e - o + 1 : WindowBar'[i] = SlotAt(o + i - 1)'
    <3>1. PICK f \in Nat : f = e + 1 /\ f - o = e - o + 1
      BY <2>5, <2>6, <2>12
    <3>2. enqueue_pos' = f
      BY <2>1, <2>12, <3>1
    <3>3. QED
      BY <2>4, <2>8, <3>1, <3>2, WindowNext
  <2>19. \A i \in 1 .. e - o + 1 : WindowBar'[i] = Append(WindowBar, n)[i]
    <3> SUFFICES ASSUME NEW i \in 1 .. e - o + 1 PROVE WindowBar'[i] = Append(WindowBar, n)[i]
      OBVIOUS
    <3>1. CASE i \in 1 .. e - o
      <4>1. PICK p \in Nat : p = o + i - 1
        BY <2>16, <3>1
      <4>2. p < enqueue_pos
        BY <2>12, <3>1, <4>1, <2>16
      <4>3. SlotAt(p)' = SlotAt(p)
        BY <2>10, <4>2
      <4>4. QED
        BY <2>16, <2>17, <2>18, <3>1, <4>1, <4>3
    <3>2. CASE i = e - o + 1
      <4>1. o + i - 1 = e
        BY <2>16, <3>2
      <4>2. WindowBar'[i] = SlotAt(e)'
        BY <2>18, <4>1
      <4>3. QED
        BY <2>13, <2>15, <2>17, <3>2, <4>2
    <3>3. QED
      BY <2>16, <3>1, <3>2
  <2>20. WindowBar' = Append(WindowBar, n)
    BY <2>16, <2>17, <2>18, <2>19, SeqEqual
  <2>21. ItemBar[t] = m[t] /\ ItemBar' = ItemBar
    <3>1. ItemBar[t] = m[t]
      BY <1>1, ItemRead
    <3>2. QED
      BY <1>1, <2>2, <3>1, ItemSame
  <2>22. OpBar' = [OpBar EXCEPT ![t] = "publish"] /\ OpBar[t] = "enqueue"
    BY <1>1, <2>1, OpStep, OpRead DEF OpOf
  <2>23. ~Contract!Full(WindowBar, Capacity)
    BY <1>1, <2>9, <2>12, <2>16 DEF Contract!Full
  <2>24. WindowBar' = Contract!Claim(WindowBar, ItemBar[t], t)
    BY <2>15, <2>20, <2>21 DEF Contract!Claim, Contract!Slot, Rec
  <2>25. QED
    BY <1>1, <2>21, <2>22, <2>23, <2>24 DEF Contract!EnqueueClaim
<1>4. QED
  BY <1>2, <1>3

\* The store of sequence by enqueue makes its slot ready.
LEMMA EnqueuePublishMaps ==
  ASSUME RefInv, RingInv', NEW t \in Threads, EnqueuePublish(t)
  PROVE  Contract!EnqueuePublish(t)
<1>1. /\ RingInv /\ TypeOK /\ pc[t] = "e_publish" /\ m \in [Threads -> Values \cup {NoVal}]
      /\ Return(t, TRUE) /\ m' = [m EXCEPT ![t] = NoVal] /\ ret' = [ret EXCEPT ![t] = TRUE]
      /\ Goto(t, "idle") /\ UNCHANGED <<data, enqueue_pos, dequeue_pos, closed>>
  BY DEF RefInv, RingInv, TypeOK, EnqueuePublish, EnqueueReturn, Return
<1>2. OnlyMoves(t) /\ pc'[t] = "idle"
  BY <1>1, ReturnMoves
<1>3. /\ Writing(t) /\ ~Reading(t) /\ ~Writing(t)' /\ ~Reading(t)' /\ ~InCell(t)' /\ InCell(t)
  BY <1>1, <1>2 DEF Writing, Reading, InCell
<1>4. WindowRead /\ WindowRead' /\ SlotsRead /\ SlotsRead'
  BY <1>1, WindowIsRead, WindowIsReadNext, SlotsAreRead, SlotsAreReadNext
<1>5. PICK o \in Nat, d \in Nat, e \in Nat, q \in Nat :
        o = Oldest /\ d = dequeue_pos /\ e = enqueue_pos /\ q = pos[t]
  BY <1>4 DEF WindowRead
<1>6. /\ o <= d /\ d <= e /\ d <= q /\ q < e
      /\ \A u \in Threads : Reading(u) => o <= pos[u]
      /\ o = dequeue_pos \/ \E u \in Threads : Reading(u) /\ pos[u] = o
  BY <1>3, <1>4, <1>5 DEF WindowRead
<1>7. \A u \in Threads : u # t => /\ Writing(u)' <=> Writing(u)
                                  /\ Reading(u)' <=> Reading(u)
                                  /\ InCell(u)' <=> InCell(u)
                                  /\ pos'[u] = pos[u] /\ m'[u] = m[u]
  BY <1>1, <1>2 DEF OnlyMoves, Writing, Reading, InCell
<1>8. Oldest' = o
  <2>1. /\ o <= dequeue_pos'
        /\ \A u \in Threads : Reading(u)' => o <= pos'[u]
        /\ o = dequeue_pos' \/ \E u \in Threads : Reading(u)' /\ pos'[u] = o
    BY <1>1, <1>3, <1>5, <1>6, <1>7
  <2>2. QED
    BY <1>4, <2>1, OldestNext
<1>9. SlotAt(q) = Rec(m[t], "claimed", t)
  BY <1>3, <1>4, <1>5 DEF SlotsRead
<1>10. SlotAt(q)' = Rec(m[t], "ready", NoThread)
  <2>1. data[Cell(q)] = m[t]
    BY <1>1, <1>5 DEF RefInv, DataWritten
  <2>2. \A u \in Threads : InCell(u)' => pos'[u] # q
    <3> SUFFICES ASSUME NEW u \in Threads, InCell(u)' PROVE pos'[u] # q
      OBVIOUS
    <3>1. u # t /\ InCell(u) /\ pos'[u] = pos[u]
      BY <1>3, <1>7
    <3>2. Cell(pos[u]) # Cell(pos[t])
      BY <1>1, <1>3, <3>1, OtherCell
    <3>3. QED
      BY <1>5, <3>1, <3>2
  <2>3. q >= dequeue_pos'
    BY <1>1, <1>5, <1>6
  <2>4. SlotAt(q)' = Rec(data'[Cell(q)], "ready", NoThread)
    BY <1>4, <2>2, <2>3 DEF SlotsRead, Rec, Cell
  <2>5. QED
    BY <1>1, <2>1, <2>4
<1>11. ASSUME NEW p \in Nat, p # q PROVE SlotAt(p)' = SlotAt(p)
  <2>1. \A u \in Threads : (Writing(u)' /\ pos'[u] = p) <=> (Writing(u) /\ pos[u] = p)
    BY <1>3, <1>5, <1>7, <1>11
  <2>2. \A u \in Threads : (Reading(u)' /\ pos'[u] = p) <=> (Reading(u) /\ pos[u] = p)
    BY <1>3, <1>7
  <2>3. \A u \in Threads : Writing(u) /\ pos[u] = p => m'[u] = m[u]
    BY <1>5, <1>7, <1>11
  <2>4. QED
    BY <1>1, <1>4, <2>1, <2>2, <2>3, SlotStays
<1>12. ASSUME NEW p \in Nat, p # q PROVE ~(SlotAt(p).own = t /\ SlotAt(p).st = "claimed")
  BY <1>4, <1>5, <1>12, SlotOwner
<1>13. /\ DOMAIN WindowBar = 1 .. e - o
       /\ \A i \in 1 .. e - o : WindowBar[i] = SlotAt(o + i - 1) /\ o + i - 1 \in Nat
  BY <1>4, <1>5, WindowSeq
<1>14. WindowBar' = [i \in 1 .. e - o |-> SlotAt(o + i - 1)']
  BY <1>1, <1>5, <1>8 DEF WindowBar
<1>15. ASSUME NEW i \in 1 .. e - o
       PROVE  SlotAt(o + i - 1)' = IF WindowBar[i].own = t /\ WindowBar[i].st = "claimed"
                                   THEN Rec(WindowBar[i].val, "ready", NoThread) ELSE WindowBar[i]
  <2>1. PICK p \in Nat : p = o + i - 1 /\ WindowBar[i] = SlotAt(p)
    BY <1>13
  <2>2. CASE p = q
    BY <1>9, <1>10, <2>1, <2>2 DEF Rec
  <2>3. CASE p # q
    BY <1>11, <1>12, <2>1, <2>3
  <2>4. QED
    BY <2>2, <2>3
<1>16. WindowBar' = Contract!Publish(WindowBar, t)
  BY <1>13, <1>14, <1>15 DEF Contract!Publish, Contract!Slot, Rec
<1>17. ItemBar' = [ItemBar EXCEPT ![t] = NoVal]
  <2>1. m'[t] = NoVal /\ pc'[t] # "d_read"
    BY <1>1, <1>2
  <2>2. QED
    BY <1>1, <1>2, <1>7, <2>1, ItemStep
<1>18. OpBar' = [OpBar EXCEPT ![t] = "idle"] /\ OpBar[t] = "publish"
  BY <1>1, OpStep, OpRead DEF OpOf
<1>19. QED
  BY <1>1, <1>16, <1>17, <1>18
     DEF Contract!EnqueuePublish, Contract!EnqueueReturn, Contract!Return

\* The CAS of dequeue takes the oldest unclaimed slot, which is ready.
LEMMA DequeueCasMaps ==
  ASSUME RefInv, RingInv', NEW t \in Threads, DequeueCas(t)
  PROVE  Contract!DequeueTake(t) \/ UNCHANGED Contract!vars
<1>1. /\ RingInv /\ TypeOK /\ pc[t] = "d_cas"
      /\ UNCHANGED <<sequence, data, enqueue_pos, closed, m, ret>>
      /\ enqueue_pos \in Nat /\ dequeue_pos \in Nat
  BY Typed DEF RefInv, RingInv, DequeueCas
<1>2. CASE dequeue_pos # pos[t]
  <2>1. /\ Goto(t, "d_seq") /\ pos' = [pos EXCEPT ![t] = dequeue_pos] /\ UNCHANGED dequeue_pos
        /\ OpOf("d_cas") = OpOf("d_seq")
    BY <1>2 DEF DequeueCas, OpOf
  <2>2. QED
    BY <1>1, <2>1, LoopMaps
<1>3. CASE dequeue_pos = pos[t]
  <2>1. /\ Goto(t, "d_read") /\ pos' = pos /\ dequeue_pos' = dequeue_pos + 1
    BY <1>3 DEF DequeueCas
  <2>2. OnlyMoves(t) /\ pc'[t] = "d_read"
    BY <1>1, <2>1, GotoMoves
  <2>3. /\ ~InCell(t) /\ Reading(t)' /\ ~Writing(t)' /\ ~Reading(t) /\ ~Writing(t)
    BY <1>1, <2>2 DEF InCell, Writing, Reading
  <2>4. WindowRead /\ WindowRead' /\ SlotsRead /\ SlotsRead'
    BY <1>1, WindowIsRead, WindowIsReadNext, SlotsAreRead, SlotsAreReadNext
  <2>5. PICK o \in Nat, d \in Nat, e \in Nat : o = Oldest /\ d = dequeue_pos /\ e = enqueue_pos
    BY <2>4 DEF WindowRead
  <2>6. /\ o <= d /\ d <= e
        /\ \A u \in Threads : Reading(u) => o <= pos[u] /\ pos[u] < d
        /\ o = d \/ \E u \in Threads : Reading(u) /\ pos[u] = o
    BY <2>4, <2>5 DEF WindowRead
  <2>7. d < e /\ \A u \in Threads : Writing(u) => pos[u] # d
    <3>1. sequence[Cell(dequeue_pos)] = dequeue_pos + 1
      BY <1>1, <1>3 DEF RingInv, DequeueCasSound
    <3>2. QED
      BY <1>1, <2>5, <3>1, DequeueCasReady
  <2>8. \A u \in Threads : u # t => /\ Writing(u)' <=> Writing(u)
                                    /\ Reading(u)' <=> Reading(u)
                                    /\ pos'[u] = pos[u]
    BY <2>2 DEF OnlyMoves, Writing, Reading
  <2>9. pos[t] = d /\ pos'[t] = d /\ dequeue_pos' = d + 1
    BY <1>3, <2>1, <2>5
  <2>10. Oldest' = o
    <3>1. /\ o <= dequeue_pos'
          /\ \A u \in Threads : Reading(u)' => o <= pos'[u]
      BY <2>3, <2>6, <2>8, <2>9
    <3>2. \E u \in Threads : Reading(u)' /\ pos'[u] = o
      <4>1. CASE o = d
        BY <2>3, <2>9, <4>1
      <4>2. CASE \E u \in Threads : Reading(u) /\ pos[u] = o
        BY <2>3, <2>8, <4>2
      <4>3. QED
        BY <2>6, <4>1, <4>2
    <3>3. QED
      BY <2>4, <3>1, <3>2, OldestNext
  <2>11. SlotAt(d) = Rec(data[Cell(d)], "ready", NoThread)
    <3>1. \A u \in Threads : InCell(u) => pos[u] # d
      BY <2>6, <2>7 DEF InCell
    <3>2. QED
      BY <2>4, <2>5, <3>1 DEF SlotsRead
  <2>12. SlotAt(d)' = Rec(data[Cell(d)], "taken", t)
    <3>1. SlotAt(d)' = Rec(data'[Cell(d)], "taken", t)
      BY <2>3, <2>4, <2>9 DEF SlotsRead, Rec, Cell
    <3>2. QED
      BY <1>1, <3>1
  <2>13. ASSUME NEW p \in Nat, p # d PROVE SlotAt(p)' = SlotAt(p)
    <3>1. \A u \in Threads : (Writing(u)' /\ pos'[u] = p) <=> (Writing(u) /\ pos[u] = p)
      BY <2>3, <2>8
    <3>2. \A u \in Threads : (Reading(u)' /\ pos'[u] = p) <=> (Reading(u) /\ pos[u] = p)
      BY <2>3, <2>8, <2>9, <2>13
    <3>3. p >= dequeue_pos' <=> p >= dequeue_pos
      BY <2>5, <2>9, <2>13
    <3>4. QED
      BY <1>1, <2>4, <3>1, <3>2, <3>3, SlotStays
  <2>14. /\ WindowBar \in Seq(SlotSet) /\ DOMAIN WindowBar = 1 .. e - o
         /\ \A i \in 1 .. e - o : WindowBar[i] = SlotAt(o + i - 1) /\ o + i - 1 \in Nat
    BY <2>4, <2>5, WindowSeq
  <2>15. /\ Contract!Waiting(WindowBar) = d - o + 1 .. e - o
         /\ Contract!FrontSlot(WindowBar) = d - o + 1
         /\ d - o + 1 \in 1 .. e - o
         /\ WindowBar[d - o + 1] = SlotAt(d)
    BY <2>4, <2>5, <2>7, WaitingBar
  <2>16. PICK j \in 1 .. e - o : j = d - o + 1
    BY <2>15
  <2>17. WindowBar' = [i \in 1 .. e - o |-> SlotAt(o + i - 1)']
    BY <1>1, <2>5, <2>10 DEF WindowBar
  <2>18. WindowBar' = [WindowBar EXCEPT ![j] = Rec(data[Cell(d)], "taken", t)]
    <3>1. ASSUME NEW i \in 1 .. e - o
          PROVE  SlotAt(o + i - 1)' = IF i = j THEN Rec(data[Cell(d)], "taken", t) ELSE WindowBar[i]
      <4>1. PICK p \in Nat : p = o + i - 1 /\ WindowBar[i] = SlotAt(p)
        BY <2>14
      <4>2. i = j <=> p = d
        BY <2>16, <4>1
      <4>3. QED
        BY <2>12, <2>13, <4>1, <4>2
    <3>2. WindowBar = [i \in 1 .. e - o |-> WindowBar[i]]
      BY <2>14 DEF WindowBar
    <3>3. QED
      BY <2>17, <3>1, <3>2
  <2>19. WindowBar[j].val = data[Cell(d)] /\ WindowBar[j].st = "ready"
    BY <2>11, <2>15, <2>16 DEF Rec
  <2>20. WindowBar' = Contract!Take(WindowBar, t)
    <3>1. Contract!Take(WindowBar, t) =
            [WindowBar EXCEPT ![j] = Rec(WindowBar[j].val, "taken", t)]
      BY <2>15, <2>16 DEF Contract!Take, Contract!Slot, Rec
    <3>2. QED
      BY <2>18, <2>19, <3>1
  <2>21. Contract!HasReady(WindowBar)
    <3>1. Contract!Waiting(WindowBar) # {}
      BY <2>5, <2>6, <2>7, <2>15
    <3>2. QED
      BY <2>15, <2>16, <2>19, <3>1 DEF Contract!HasReady
  <2>22. ItemBar' = [ItemBar EXCEPT ![t] = data[Cell(d)]]
    <3>1. data[Cell(d)] = IF pc'[t] = "d_read" THEN data'[Cell(pos'[t])] ELSE m'[t]
      BY <1>1, <2>2, <2>9
    <3>2. QED
      BY <1>1, <2>2, <3>1, ItemStep
  <2>23. OpBar' = [OpBar EXCEPT ![t] = "giveback"] /\ OpBar[t] = "dequeue"
    BY <1>1, <2>1, OpStep, OpRead DEF OpOf
  <2>24. ItemBar' = [ItemBar EXCEPT ![t] = WindowBar[Contract!FrontSlot(WindowBar)].val]
    BY <2>15, <2>16, <2>19, <2>22
  <2>25. QED
    BY <1>1, <2>20, <2>21, <2>23, <2>24 DEF Contract!DequeueTake
<1>4. QED
  BY <1>2, <1>3

\* The store of sequence by dequeue gives its slot back; the window then
\* starts at the oldest slot that is not given back.
LEMMA DequeueReleaseMaps ==
  ASSUME RefInv, RingInv', NEW t \in Threads, DequeueRelease(t)
  PROVE  Contract!DequeueGiveBack(t)
<1>1. /\ RingInv /\ TypeOK /\ pc[t] = "d_release"
      /\ Return(t, TRUE) /\ ret' = [ret EXCEPT ![t] = TRUE]
      /\ Goto(t, "idle") /\ UNCHANGED <<data, enqueue_pos, dequeue_pos, closed, m>>
  BY DEF RefInv, RingInv, DequeueRelease, Return
<1>2. OnlyMoves(t) /\ pc'[t] = "idle"
  BY <1>1, ReturnMoves
<1>3. /\ ~Writing(t) /\ Reading(t) /\ ~Writing(t)' /\ ~Reading(t)' /\ ~InCell(t)' /\ InCell(t)
  BY <1>1, <1>2 DEF Writing, Reading, InCell
<1>4. WindowRead /\ WindowRead' /\ SlotsRead /\ SlotsRead'
  BY <1>1, WindowIsRead, WindowIsReadNext, SlotsAreRead, SlotsAreReadNext
<1>5. PICK o \in Nat, d \in Nat, e \in Nat, q \in Nat :
        o = Oldest /\ d = dequeue_pos /\ e = enqueue_pos /\ q = pos[t]
  BY <1>4 DEF WindowRead
<1>6. /\ o <= d /\ d <= e /\ o <= q /\ q < d /\ \A u \in Threads : pos[u] \in Nat
      /\ \A u \in Threads : Reading(u) => o <= pos[u] /\ pos[u] < d
  BY <1>3, <1>4, <1>5 DEF WindowRead
<1>7. \A u \in Threads : u # t => /\ Writing(u)' <=> Writing(u)
                                  /\ Reading(u)' <=> Reading(u)
                                  /\ InCell(u)' <=> InCell(u)
                                  /\ pos'[u] = pos[u]
  BY <1>2 DEF OnlyMoves, Writing, Reading, InCell
<1>8. SlotAt(q) = Rec(data[Cell(q)], "taken", t)
  BY <1>3, <1>4, <1>5 DEF SlotsRead
<1>9. SlotAt(q)' = Rec(NoVal, "done", NoThread)
  <2>1. \A u \in Threads : InCell(u)' => pos'[u] # q
    <3> SUFFICES ASSUME NEW u \in Threads, InCell(u)' PROVE pos'[u] # q
      OBVIOUS
    <3>1. u # t /\ InCell(u) /\ pos'[u] = pos[u]
      BY <1>3, <1>7
    <3>2. Cell(pos[u]) # Cell(pos[t])
      BY <1>1, <1>3, <3>1, OtherCell
    <3>3. QED
      BY <1>5, <3>1, <3>2
  <2>2. ~(q >= dequeue_pos')
    BY <1>1, <1>5, <1>6
  <2>3. QED
    BY <1>4, <2>1, <2>2 DEF SlotsRead, Rec
<1>10. ASSUME NEW p \in Nat, p # q PROVE SlotAt(p)' = SlotAt(p)
  <2>1. \A u \in Threads : (Writing(u)' /\ pos'[u] = p) <=> (Writing(u) /\ pos[u] = p)
    BY <1>3, <1>7
  <2>2. \A u \in Threads : (Reading(u)' /\ pos'[u] = p) <=> (Reading(u) /\ pos[u] = p)
    BY <1>3, <1>5, <1>7, <1>10
  <2>3. QED
    BY <1>1, <1>4, <2>1, <2>2, SlotStays
<1>11. ASSUME NEW p \in Nat, p # q PROVE ~(SlotAt(p).own = t /\ SlotAt(p).st = "taken")
  BY <1>4, <1>5, <1>11, SlotOwner
<1>12. /\ DOMAIN WindowBar = 1 .. e - o /\ e - o \in Nat
       /\ \A i \in 1 .. e - o : WindowBar[i] = SlotAt(o + i - 1) /\ o + i - 1 \in Nat
  BY <1>4, <1>5, WindowSeq
<1> DEFINE G(i) == SlotAt(o + i - 1)'
           w == [i \in 1 .. e - o |-> G(i)]
           given == [i \in DOMAIN WindowBar |->
                       IF WindowBar[i].own = t /\ WindowBar[i].st = "taken"
                       THEN Rec(NoVal, "done", NoThread) ELSE WindowBar[i]]
<1>13. w = given
  <2>1. ASSUME NEW i \in 1 .. e - o
        PROVE  G(i) = IF WindowBar[i].own = t /\ WindowBar[i].st = "taken"
                      THEN Rec(NoVal, "done", NoThread) ELSE WindowBar[i]
    <3>1. PICK p \in Nat : p = o + i - 1 /\ WindowBar[i] = SlotAt(p)
      BY <1>12
    <3>2. CASE p = q
      BY <1>8, <1>9, <3>1, <3>2 DEF Rec
    <3>3. CASE p # q
      BY <1>10, <1>11, <3>1, <3>3
    <3>4. QED
      BY <3>2, <3>3
  <2>2. QED
    BY <1>12, <2>1
<1>14. Contract!GiveBack(WindowBar, t) = Contract!Trim(w)
  BY <1>13 DEF Contract!GiveBack, Contract!Slot, Rec
<1>15. ASSUME NEW p \in Nat, o <= p, p < e
       PROVE  /\ p - o + 1 \in 1 .. e - o /\ G(p - o + 1) = SlotAt(p)'
              /\ p >= d => SlotAt(p)'.st # "done"
              /\ (\E u \in Threads : Reading(u)' /\ pos'[u] = p) => SlotAt(p)'.st # "done"
              /\ p < d /\ SlotAt(p)'.st # "done" => \E u \in Threads : Reading(u)' /\ pos'[u] = p
              /\ SlotAt(p)' \in SlotSet
  <2>1. p - o + 1 \in 1 .. e - o /\ o + (p - o + 1) - 1 = p
    BY <1>12, <1>15
  <2>2. /\ SlotAt(p)' \in SlotSet
        /\ p < d => SlotAt(p)'.st \in {"taken", "done"}
        /\ p >= d => SlotAt(p)'.st \in {"claimed", "ready"}
    BY <1>1, <1>4, <1>5 DEF WindowRead, SlotSet
  <2>3. ASSUME NEW u \in Threads, Reading(u)', pos'[u] = p PROVE SlotAt(p)'.st = "taken"
    <3>1. SlotAt(p)' = Rec(data'[Cell(p)], "taken", u)
      BY <1>4, <2>3 DEF SlotsRead, Rec, Cell
    <3>2. QED
      BY <3>1 DEF Rec
  <2>4. SlotAt(p)'.st = "taken" => \E u \in Threads : Reading(u)' /\ pos'[u] = p
    BY <1>4, TakenHasReaderNext
  <2>5. QED
    BY <2>1, <2>2, <2>3, <2>4
<1>16. \A u \in Threads : Reading(u)' => pos'[u] \in Nat /\ o <= pos'[u] /\ pos'[u] < d
  BY <1>3, <1>6, <1>7
<1> HIDE DEF G
<1>17. DOMAIN w = 1 .. e - o /\ \A i \in 1 .. e - o : w[i] = G(i)
  OBVIOUS
<1>18. Contract!Live(w) = {i \in 1 .. e - o : G(i).st # "done"}
  BY <1>17 DEF Contract!Live
<1>19. w \in Seq(SlotSet) /\ Len(w) = e - o
  <2>1. \A i \in 1 .. e - o : G(i) \in SlotSet
    <3> SUFFICES ASSUME NEW i \in 1 .. e - o PROVE G(i) \in SlotSet
      OBVIOUS
    <3>1. PICK p \in Nat : p = o + i - 1 /\ o <= p /\ p < e /\ p - o + 1 = i
      BY <1>12
    <3>2. QED
      BY <1>15, <3>1
  <2>2. w \in Seq(SlotSet)
    BY <1>12, <2>1, IsASeq
  <2>3. QED
    BY <1>12, <1>17, <2>2, LenProperties
<1> HIDE DEF w, given
<1>20. WindowBar' = Contract!Trim(w)
  <2>1. CASE Contract!Live(w) = {}
    <3>1. d = e
      <4>1. ASSUME d < e PROVE FALSE
        <5>1. d - o + 1 \in 1 .. e - o /\ G(d - o + 1).st # "done"
          BY <1>6, <1>15, <4>1
        <5>2. QED
          BY <1>18, <2>1, <5>1
      <4>2. QED
        BY <1>6, <4>1
    <3>2. ASSUME NEW u \in Threads, Reading(u)' PROVE FALSE
      <4>1. PICK p \in Nat : p = pos'[u] /\ o <= p /\ p < d
        BY <1>16, <3>2
      <4>2. p - o + 1 \in 1 .. e - o /\ G(p - o + 1).st # "done"
        BY <1>6, <1>15, <3>2, <4>1
      <4>3. QED
        BY <1>18, <2>1, <4>2
    <3>3. Oldest' = d
      BY <1>1, <1>4, <1>5, <3>2, OldestNext
    <3>4. Len(WindowBar') = 0 /\ WindowBar' \in Seq(SlotSet)
      BY <1>1, <1>4, <1>5, <3>1, <3>3, WindowNext
    <3>5. WindowBar' = << >>
      BY <3>4, EmptySeq
    <3>6. QED
      BY <2>1, <3>5 DEF Contract!Trim, Contract!EmptyWindow
  <2>2. CASE Contract!Live(w) # {}
    <3>1. PICK L \in SUBSET Nat : L = Contract!Live(w) /\ L # {}
      <4>1. Contract!Live(w) \in SUBSET Nat
        BY <1>12, <1>18
      <4>2. QED
        BY <2>2, <4>1
    <3>2. PICK k \in Nat : k = Contract!Min(L) /\ k \in L /\ \A y \in L : k <= y
      <4>1. Contract!Min(L) \in L /\ \A y \in L : Contract!Min(L) <= y
        BY <3>1, LeastOf
      <4>2. QED
        BY <4>1
    <3>3. k \in 1 .. e - o /\ G(k).st # "done"
      BY <1>18, <3>1, <3>2
    <3>4. PICK x \in Nat : x = o + k - 1 /\ o <= x /\ x < e /\ x - o + 1 = k
      BY <1>12, <3>3
    <3>5. \A p \in Nat : o <= p /\ p < e /\ SlotAt(p)'.st # "done" => x <= p
      <4> SUFFICES ASSUME NEW p \in Nat, o <= p, p < e, SlotAt(p)'.st # "done" PROVE x <= p
        OBVIOUS
      <4>1. PICK i \in 1 .. e - o : i = p - o + 1 /\ G(i) = SlotAt(p)'
        BY <1>15
      <4>2. i \in L
        BY <1>18, <3>1, <4>1
      <4>3. k <= i
        BY <3>2, <4>2
      <4>4. QED
        BY <3>4, <4>1, <4>3
    <3>6. SlotAt(x)'.st # "done"
      BY <1>15, <3>3, <3>4
    <3>7. x <= d
      <4>1. d < e => x <= d
        BY <1>6, <1>15, <3>5
      <4>2. QED
        BY <1>6, <3>4, <4>1
    <3>8. \A u \in Threads : Reading(u)' => x <= pos'[u]
      <4> SUFFICES ASSUME NEW u \in Threads, Reading(u)' PROVE x <= pos'[u]
        OBVIOUS
      <4>1. PICK p \in Nat : p = pos'[u] /\ o <= p /\ p < d /\ p < e
        BY <1>6, <1>16
      <4>2. SlotAt(p)'.st # "done"
        BY <1>15, <4>1
      <4>3. QED
        BY <3>5, <4>1, <4>2
    <3>9. x = d \/ \E u \in Threads : Reading(u)' /\ pos'[u] = x
      <4>1. CASE x < d
        BY <1>15, <3>4, <3>6, <4>1
      <4>2. QED
        BY <3>7, <4>1
    <3>10. Oldest' = x
      BY <1>1, <1>4, <1>5, <3>7, <3>8, <3>9, OldestNext
    <3>11. /\ WindowBar' \in Seq(SlotSet) /\ Len(WindowBar') = e - x /\ e - x \in Nat
           /\ \A i \in 1 .. e - x : WindowBar'[i] = SlotAt(x + i - 1)'
      BY <1>1, <1>4, <1>5, <3>10, WindowNext
    <3>12. /\ SubSeq(w, k, e - o) \in Seq(SlotSet)
           /\ Len(SubSeq(w, k, e - o)) = e - x
           /\ \A i \in 1 .. e - x : SubSeq(w, k, e - o)[i] = w[k + i - 1]
      <4>1. e - x = (e - o) - k + 1
        BY <3>4, <1>12
      <4>2. PICK n \in Nat : n = e - o /\ k <= n
        BY <1>12, <3>3
      <4>3. \A i \in k .. n : w[i] \in SlotSet
        BY <1>19, <3>3, <4>2, ElementOfSeq
      <4>4. /\ SubSeq(w, k, n) \in Seq(SlotSet)
            /\ Len(SubSeq(w, k, n)) = n - k + 1
            /\ \A i \in 1 .. n - k + 1 : SubSeq(w, k, n)[i] = w[k + i - 1]
        BY <4>2, <4>3, SubSeqProperties
      <4>5. QED
        BY <4>1, <4>2, <4>4
    <3>13. \A i \in 1 .. e - x : WindowBar'[i] = SubSeq(w, k, e - o)[i]
      <4> SUFFICES ASSUME NEW i \in 1 .. e - x PROVE WindowBar'[i] = SubSeq(w, k, e - o)[i]
        OBVIOUS
      <4>1. PICK j \in 1 .. e - o : j = k + i - 1
        BY <1>12, <3>3, <3>4
      <4>2. PICK p \in Nat : p = x + i - 1 /\ p = o + j - 1 /\ o <= p /\ p < e /\ p - o + 1 = j
        BY <1>12, <3>4, <4>1
      <4>3. w[j] = SlotAt(p)'
        BY <1>15, <1>17, <4>2
      <4>4. WindowBar'[i] = SlotAt(p)'
        BY <3>11, <4>2
      <4>5. QED
        BY <3>12, <4>1, <4>3, <4>4
    <3>14. WindowBar' = SubSeq(w, k, e - o)
      BY <3>11, <3>12, <3>13, SeqEqual
    <3>15. QED
      BY <1>19, <2>2, <3>1, <3>2, <3>14 DEF Contract!Trim
  <2>3. QED
    BY <2>1, <2>2
<1>21. ItemBar' = ItemBar
  <2>1. ItemBar[t] = m[t]
    BY <1>1, ItemRead
  <2>2. QED
    BY <1>1, <1>2, <2>1, ItemSame
<1>22. OpBar' = [OpBar EXCEPT ![t] = "idle"] /\ OpBar[t] = "giveback"
  BY <1>1, OpStep, OpRead DEF OpOf
<1>23. QED
  BY <1>1, <1>14, <1>20, <1>21, <1>22 DEF Contract!DequeueGiveBack, Contract!Return

-----------------------------------------------------------------------------
(* The theorem. *)

LEMMA CloseMaps ==
  ASSUME RingInv, RingInv', Close \/ UNCHANGED vars
  PROVE  Contract!Close \/ UNCHANGED Contract!vars
<1>1. UNCHANGED <<data, enqueue_pos, dequeue_pos, pc, pos, m, ret>>
  BY DEF Close, vars
<1>2. SlotsRead /\ SlotsRead' /\ WindowRead /\ WindowRead'
  BY SlotsAreRead, SlotsAreReadNext, WindowIsRead, WindowIsReadNext
<1>3. /\ \A u \in Threads : Writing(u)' <=> Writing(u)
      /\ \A u \in Threads : Reading(u)' <=> Reading(u)
  BY <1>1 DEF Writing, Reading
<1>4. PICK o \in Nat : o = Oldest
  BY <1>2 DEF WindowRead
<1>5. /\ o <= dequeue_pos'
      /\ \A u \in Threads : Reading(u)' => o <= pos'[u]
      /\ o = dequeue_pos' \/ \E u \in Threads : Reading(u)' /\ pos'[u] = o
  BY <1>1, <1>2, <1>3, <1>4 DEF WindowRead
<1>6. Oldest' = Oldest
  BY <1>2, <1>4, <1>5, OldestNext
<1>7. \A p \in Nat : SlotAt(p)' = SlotAt(p)
  BY <1>1, <1>2, <1>3, SlotStays
<1>8. WindowBar' = WindowBar
  BY <1>1, <1>2, <1>6, <1>7, WindowStays
<1>9. OpBar' = OpBar
  BY <1>1, OpRead, OpReadNext
<1>10. ItemBar' = ItemBar
  BY <1>1 DEF ItemBar, Cell
<1>11. QED
  BY <1>1, <1>8, <1>9, <1>10 DEF Close, vars, Contract!Close, Contract!vars

LEMMA ContractStep == RefInv /\ [Next]_vars => [Contract!Next]_(Contract!vars)
<1> SUFFICES ASSUME RefInv, [Next]_vars PROVE Contract!Next \/ UNCHANGED Contract!vars
  BY Zenon
<1>1. RingInv /\ RingInv'
  BY IndStep DEF RefInv
<1>2. ASSUME NEW t \in Threads, NEW v \in Values, EnqueueBegin(t, v) PROVE Contract!Next
  BY <1>1, <1>2, EnqueueBeginMaps DEF Contract!Next
<1>3. ASSUME NEW t \in Threads,
             DequeueBegin(t) \/ EnqueueStep(t) \/ DequeueStep(t)
      PROVE  Contract!Next \/ UNCHANGED Contract!vars
  BY <1>1, <1>3, DequeueBeginMaps, LoadMaps, EnqueueSeqMaps, EnqueueCasMaps, EnqueueWriteMaps,
     EnqueuePublishMaps, DequeueSeqMaps, DequeueCasMaps, DequeueReadMaps, DequeueReleaseMaps
     DEF EnqueueStep, DequeueStep, Contract!Next
<1>4. CASE Close \/ UNCHANGED vars
  BY <1>1, <1>4, CloseMaps DEF Contract!Next
<1>5. QED
  BY <1>2, <1>3, <1>4 DEF Next

LEMMA ContractInit == Init => Contract!Init
<1> SUFFICES ASSUME Init PROVE Contract!Init
  OBVIOUS
<1>1. RingInv /\ WindowRead
  BY IndInit, WindowIsRead
<1>2. enqueue_pos = 0 /\ dequeue_pos = 0 /\ closed = FALSE /\ ret = [t \in Threads |-> FALSE]
  BY DEF Init
<1>3. Oldest = 0
  BY <1>1, <1>2 DEF WindowRead
<1>4. WindowBar \in Seq(SlotSet) /\ Len(WindowBar) = 0
  BY <1>1, <1>2, <1>3, WindowSeq
<1>5. WindowBar = << >>
  BY <1>4, EmptySeq
<1>6. OpBar = [t \in Threads |-> "idle"]
  BY OpRead DEF Init, OpOf
<1>7. ItemBar = [t \in Threads |-> NoVal]
  BY DEF Init, ItemBar
<1>8. QED
  BY <1>2, <1>5, <1>6, <1>7 DEF Contract!Init, Contract!EmptyWindow

\* Every behaviour of the ring is a behaviour of QueueContract, for every
\* number of threads, every capacity of at least two cells and every run
\* length: enqueue, dequeue and close do what the scheduler relies on.
THEOREM RingImplementsContract == Spec => ImplementsContract
<1>1. Spec => []RefInv
  BY RefInit, RefStep, PTL DEF Spec
<1>2. QED
  BY <1>1, ContractInit, ContractStep, PTL DEF Spec, ImplementsContract, Contract!Spec
=============================================================================
