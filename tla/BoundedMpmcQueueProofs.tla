------------------------ MODULE BoundedMpmcQueueProofs ------------------------
(***************************************************************************)
(* The ring of BoundedMpmcQueue is safe for every number of threads, every *)
(* capacity of at least two cells and every run length.                    *)
(***************************************************************************)
EXTENDS BoundedMpmcInvariant, TLAPS

-----------------------------------------------------------------------------
(* Arithmetic of the cell index. *)

\* A number is its quotient times Capacity plus its cell index.
LEMMA DivMod ==
  ASSUME NEW a \in Nat
  PROVE  /\ a = Capacity * (a \div Capacity) + (a % Capacity)
         /\ a % Capacity \in Cells
         /\ a \div Capacity \in Nat
  BY CapacityAssumption DEF Cells

\* Quotient and remainder are unique.
LEMMA DivModUnique ==
  ASSUME NEW q \in Nat, NEW r \in Cells, NEW p \in Nat, NEW s \in Cells,
         Capacity * q + r = Capacity * p + s
  PROVE  q = p /\ r = s
<1>1. ASSUME NEW x \in Nat, NEW y \in Nat, x < y
      PROVE  Capacity * x + Capacity <= Capacity * y
  <2>1. PICK k \in Nat : y = x + 1 + k
    <3>1. y - x - 1 \in Nat /\ y = x + 1 + (y - x - 1)
      BY <1>1
    <3>2. QED
      BY <3>1
  <2>2. Capacity * y = Capacity * x + Capacity + Capacity * k
    BY <2>1, CapacityAssumption
  <2>3. Capacity * k \in Nat /\ Capacity * x \in Nat
    BY CapacityAssumption
  <2>4. QED
    BY <2>2, <2>3, CapacityAssumption
<1>2. Capacity * q \in Nat /\ Capacity * p \in Nat
  BY CapacityAssumption
<1>3. ~(q < p) /\ ~(p < q)
  BY <1>1, <1>2, CapacityAssumption DEF Cells
<1>4. q = p
  BY <1>3
<1>5. QED
  BY <1>2, <1>4 DEF Cells

\* Two positions less than a lap apart share a cell only if they are equal.
LEMMA CellInjective ==
  ASSUME NEW a \in Nat, NEW b \in Nat, Cell(a) = Cell(b), a <= b, b < a + Capacity
  PROVE  a = b
<1> DEFINE q == a \div Capacity
           p == b \div Capacity
           r == a % Capacity
<1>1. a = Capacity * q + r /\ r \in Cells /\ q \in Nat
  BY DivMod
<1>2. b = Capacity * p + r /\ p \in Nat
  BY DivMod DEF Cell
<1>3. PICK k \in Cells : b = a + k
  <2>1. b - a \in Cells /\ b = a + (b - a)
    BY CapacityAssumption DEF Cells
  <2>2. QED
    BY <2>1
<1> HIDE DEF q, p, r
<1>4. Capacity * p \in Nat /\ Capacity * q \in Nat
  BY <1>1, <1>2, CapacityAssumption
<1>5. Capacity * p + 0 = Capacity * q + k /\ 0 \in Cells
  BY <1>1, <1>2, <1>3, <1>4, CapacityAssumption DEF Cells
<1>6. k = 0
  BY <1>5, <1>1, <1>2, DivModUnique
<1>7. QED
  BY <1>3, <1>6

\* A position and the one a lap later share a cell.
LEMMA CellNextLap ==
  ASSUME NEW a \in Nat
  PROVE  Cell(a + Capacity) = Cell(a)
<1> DEFINE b == a + Capacity
           q == a \div Capacity
           p == b \div Capacity
           r == a % Capacity
           s == b % Capacity
<1>1. b \in Nat
  BY CapacityAssumption
<1>2. a = Capacity * q + r /\ r \in Cells /\ q \in Nat
  BY DivMod
<1>3. b = Capacity * p + s /\ s \in Cells /\ p \in Nat
  BY <1>1, DivMod
<1>4. Capacity * (q + 1) = Capacity * q + Capacity /\ Capacity * q \in Nat /\ q + 1 \in Nat
  BY <1>2, CapacityAssumption
<1>5. Capacity * (q + 1) + r = Capacity * p + s
  BY <1>2, <1>3, <1>4, CapacityAssumption DEF Cells
<1> HIDE DEF q, p, r, s
<1>6. r = s
  BY <1>2, <1>3, <1>4, <1>5, DivModUnique
<1>7. QED
  BY <1>6 DEF Cell, r, s

\* Every position has a cell, and the first lap's is the position itself.
LEMMA CellType ==
  ASSUME NEW a \in Nat
  PROVE  Cell(a) \in Cells
  BY CapacityAssumption DEF Cell, Cells

LEMMA CellFirstLap ==
  ASSUME NEW a \in Nat, a < Capacity
  PROVE  Cell(a) = a
  BY CapacityAssumption DEF Cell

-----------------------------------------------------------------------------
(* Types. *)

LEMMA TypeInit == Init => TypeOK
<1> SUFFICES ASSUME Init PROVE TypeOK
  OBVIOUS
<1>1. \A c \in Cells : c \in Nat
  BY CapacityAssumption DEF Cells
<1>2. sequence \in [Cells -> Nat] /\ data \in [Cells -> Values \cup {NoVal}]
  BY <1>1 DEF Init
<1>3. enqueue_pos \in Nat /\ dequeue_pos \in Nat /\ closed \in BOOLEAN
  BY DEF Init
<1>4. pc \in [Threads -> PC]
  BY DEF Init, PC
<1>5. /\ pos \in [Threads -> Nat]
      /\ m \in [Threads -> Values \cup {NoVal}]
      /\ ret \in [Threads -> BOOLEAN]
  BY DEF Init
<1>6. QED
  BY <1>2, <1>3, <1>4, <1>5 DEF TypeOK

\* An operation that returns leaves its thread's locals well typed.
LEMMA ReturnType ==
  ASSUME TypeOK, NEW t \in Threads, NEW r \in BOOLEAN, Return(t, r)
  PROVE  /\ pc' \in [Threads -> PC]
         /\ pos' \in [Threads -> Nat]
         /\ ret' \in [Threads -> BOOLEAN]
<1>1. pc' \in [Threads -> PC] /\ pos' \in [Threads -> Nat]
  BY DEF TypeOK, Return, Goto, PC
<1>2. ret \in [Threads -> BOOLEAN] /\ ret' = [ret EXCEPT ![t] = r]
  BY DEF TypeOK, Return
<1>3. ret' \in [Threads -> BOOLEAN]
  BY <1>2, Zenon
<1>4. QED
  BY <1>1, <1>3

LEMMA EnqueueReturnType ==
  ASSUME TypeOK, NEW t \in Threads, NEW r \in BOOLEAN, EnqueueReturn(t, r)
  PROVE  /\ pc' \in [Threads -> PC]
         /\ pos' \in [Threads -> Nat]
         /\ m' \in [Threads -> Values \cup {NoVal}]
         /\ ret' \in [Threads -> BOOLEAN]
<1>1. Return(t, r) /\ m' = [m EXCEPT ![t] = NoVal]
  BY DEF EnqueueReturn
<1>2. m' \in [Threads -> Values \cup {NoVal}]
  BY <1>1 DEF TypeOK
<1>3. QED
  BY <1>1, <1>2, ReturnType

LEMMA TypeStep == TypeOK /\ [Next]_vars => TypeOK'
<1> SUFFICES ASSUME TypeOK, [Next]_vars PROVE TypeOK'
  OBVIOUS
<1> USE DEF PC, Enqueuing, Dequeuing, Goto, shared
<1>1. ASSUME NEW t \in Threads, NEW v \in Values, EnqueueBegin(t, v) PROVE TypeOK'
  <2>1. CASE closed
    BY <1>1, <2>1, EnqueueReturnType DEF EnqueueBegin, TypeOK
  <2>2. CASE ~closed
    BY <1>1, <2>2 DEF EnqueueBegin, TypeOK
  <2>3. QED
    BY <2>1, <2>2
<1>2. ASSUME NEW t \in Threads, DequeueBegin(t) PROVE TypeOK'
  BY <1>2 DEF DequeueBegin, TypeOK
<1>3. ASSUME NEW t \in Threads, EnqueueLoad(t) PROVE TypeOK'
  BY <1>3 DEF EnqueueLoad, TypeOK
<1>4. ASSUME NEW t \in Threads, EnqueueSeq(t) PROVE TypeOK'
  <2>1. CASE EnqueueReturn(t, FALSE)
    BY <1>4, <2>1, EnqueueReturnType DEF EnqueueSeq, TypeOK
  <2>2. CASE Goto(t, "e_cas") /\ UNCHANGED <<pos, m, ret>>
    BY <1>4, <2>2 DEF EnqueueSeq, TypeOK
  <2>3. CASE Goto(t, "e_load") /\ UNCHANGED <<pos, m, ret>>
    BY <1>4, <2>3 DEF EnqueueSeq, TypeOK
  <2>4. \/ EnqueueReturn(t, FALSE)
        \/ Goto(t, "e_cas") /\ UNCHANGED <<pos, m, ret>>
        \/ Goto(t, "e_load") /\ UNCHANGED <<pos, m, ret>>
    BY <1>4, Zenon DEF EnqueueSeq
  <2>5. QED
    BY <2>1, <2>2, <2>3, <2>4, Zenon
<1>5. ASSUME NEW t \in Threads, EnqueueCas(t) PROVE TypeOK'
  BY <1>5 DEF EnqueueCas, TypeOK
<1>6. ASSUME NEW t \in Threads, EnqueueWrite(t) PROVE TypeOK'
  BY <1>6 DEF EnqueueWrite, TypeOK
<1>7. ASSUME NEW t \in Threads, EnqueuePublish(t) PROVE TypeOK'
  <2>1. sequence' \in [Cells -> Nat]
    <3>1. pos[t] + 1 \in Nat /\ sequence \in [Cells -> Nat]
      BY DEF TypeOK
    <3>2. sequence' = [sequence EXCEPT ![Cell(pos[t])] = pos[t] + 1]
      BY <1>7 DEF EnqueuePublish
    <3>3. QED
      BY <3>1, <3>2
  <2>2. QED
    BY <1>7, <2>1, EnqueueReturnType DEF EnqueuePublish, TypeOK
<1>8. ASSUME NEW t \in Threads, DequeueLoad(t) PROVE TypeOK'
  BY <1>8 DEF DequeueLoad, TypeOK
<1>9. ASSUME NEW t \in Threads, DequeueSeq(t) PROVE TypeOK'
  <2>1. CASE Return(t, FALSE)
    BY <1>9, <2>1, ReturnType DEF DequeueSeq, TypeOK
  <2>2. CASE Goto(t, "d_cas") /\ UNCHANGED <<pos, ret>>
    BY <1>9, <2>2 DEF DequeueSeq, TypeOK
  <2>3. CASE Goto(t, "d_load") /\ UNCHANGED <<pos, ret>>
    BY <1>9, <2>3 DEF DequeueSeq, TypeOK
  <2>4. \/ Return(t, FALSE)
        \/ Goto(t, "d_cas") /\ UNCHANGED <<pos, ret>>
        \/ Goto(t, "d_load") /\ UNCHANGED <<pos, ret>>
    BY <1>9, Zenon DEF DequeueSeq
  <2>5. QED
    BY <2>1, <2>2, <2>3, <2>4, Zenon
<1>10. ASSUME NEW t \in Threads, DequeueCas(t) PROVE TypeOK'
  BY <1>10 DEF DequeueCas, TypeOK
<1>11. ASSUME NEW t \in Threads, DequeueRead(t) PROVE TypeOK'
  <2>1. Cell(pos[t]) \in Cells
    BY CellType DEF TypeOK
  <2>2. QED
    BY <1>11, <2>1 DEF DequeueRead, TypeOK
<1>12. ASSUME NEW t \in Threads, DequeueRelease(t) PROVE TypeOK'
  <2>1. sequence' \in [Cells -> Nat]
    <3>1. pos[t] + Capacity \in Nat /\ sequence \in [Cells -> Nat]
      BY CapacityAssumption DEF TypeOK
    <3>2. sequence' = [sequence EXCEPT ![Cell(pos[t])] = pos[t] + Capacity]
      BY <1>12 DEF DequeueRelease
    <3>3. QED
      BY <3>1, <3>2
  <2>2. QED
    BY <1>12, <2>1, ReturnType DEF DequeueRelease, TypeOK
<1>13. CASE Close
  BY <1>13 DEF Close, TypeOK
<1>14. CASE UNCHANGED vars
  BY <1>14 DEF vars, TypeOK
<1>15. QED
  BY <1>1, <1>2, <1>3, <1>4, <1>5, <1>6, <1>7, <1>8, <1>9, <1>10, <1>11, <1>12,
     <1>13, <1>14 DEF Next, EnqueueStep, DequeueStep

\* The type invariant of the ring, for every Threads, Values and Capacity.
THEOREM TypeCorrect == Spec => []TypeOK
  BY TypeInit, TypeStep, PTL DEF Spec

-----------------------------------------------------------------------------
(* Facts about one state of the invariant. *)

\* What the types give for one thread and one position.
LEMMA Typed ==
  ASSUME TypeOK
  PROVE  /\ enqueue_pos \in Nat /\ dequeue_pos \in Nat
         /\ \A t \in Threads : pos[t] \in Nat
         /\ \A p \in Nat : sequence[Cell(p)] \in Nat
  BY CellType DEF TypeOK

\* Within the current lap a cell belongs to one position.
LEMMA LapInjective ==
  ASSUME TypeOK, NEW a \in Nat, NEW b \in Nat, Cell(a) = Cell(b),
         dequeue_pos <= a, a < dequeue_pos + Capacity,
         dequeue_pos <= b, b < dequeue_pos + Capacity
  PROVE  a = b
<1>1. dequeue_pos \in Nat
  BY Typed
<1>2. CASE a <= b
  BY <1>1, <1>2, CellInjective, CapacityAssumption
<1>3. CASE b <= a
  BY <1>1, <1>3, CellInjective, CapacityAssumption
<1>4. QED
  BY <1>2, <1>3

\* A thread inside a cell owns a position of the current lap: below
\* enqueue_pos when it writes, from enqueue_pos on when it reads.
LEMMA OwnerInLap ==
  ASSUME RingInv, NEW t \in Threads, InCell(t)
  PROVE  /\ LapPos(t) \in Nat
         /\ dequeue_pos <= LapPos(t) /\ LapPos(t) < dequeue_pos + Capacity
         /\ Cell(LapPos(t)) = Cell(pos[t])
<1>1. pos[t] \in Nat /\ enqueue_pos \in Nat /\ dequeue_pos \in Nat
  BY Typed DEF RingInv
<1>2. dequeue_pos <= enqueue_pos /\ enqueue_pos <= dequeue_pos + Capacity
  BY DEF RingInv, PositionsInLap
<1>3. CASE Writing(t)
  <2>1. dequeue_pos <= pos[t] /\ pos[t] < enqueue_pos
    BY <1>3 DEF RingInv, WriterInside
  <2>2. LapPos(t) = pos[t]
    BY <1>3 DEF LapPos
  <2>3. QED
    BY <1>1, <1>2, <2>1, <2>2, CapacityAssumption
<1>4. CASE Reading(t)
  <2>1. enqueue_pos <= pos[t] + Capacity /\ pos[t] < dequeue_pos
    BY <1>4 DEF RingInv, ReaderInside
  <2>2. LapPos(t) = pos[t] + Capacity
    BY <1>4 DEF LapPos, Reading, Writing
  <2>3. Cell(pos[t] + Capacity) = Cell(pos[t])
    BY <1>1, CellNextLap
  <2>4. QED
    BY <1>1, <1>2, <2>1, <2>2, <2>3, CapacityAssumption
<1>5. QED
  BY <1>3, <1>4 DEF InCell

\* Two threads inside cells are in different ones.
LEMMA OtherCell ==
  ASSUME RingInv, NEW t \in Threads, NEW u \in Threads, t # u, InCell(t), InCell(u)
  PROVE  Cell(pos[t]) # Cell(pos[u])
<1>1. LapPos(t) # LapPos(u)
  BY DEF RingInv, OneOwner
<1>2. TypeOK
  BY DEF RingInv
<1>3. QED
  BY <1>1, <1>2, OwnerInLap, LapInjective

\* The invariant holds initially.
LEMMA IndInit == Init => RingInv
<1> SUFFICES ASSUME Init PROVE RingInv
  OBVIOUS
<1>1. TypeOK
  BY TypeInit
<1>2. enqueue_pos = 0 /\ dequeue_pos = 0 /\ PositionsInLap /\ FilledCells
  BY CapacityAssumption DEF Init, PositionsInLap, FilledCells
<1>3. EmptyCells
  <2> SUFFICES ASSUME NEW p \in 0 .. Capacity - 1 PROVE sequence[Cell(p)] = p
    BY <1>2, CapacityAssumption DEF EmptyCells
  <2>1. Cell(p) = p /\ p \in Cells
    BY CellFirstLap, CapacityAssumption DEF Cells
  <2>2. QED
    BY <2>1 DEF Init
<1>4. \A t \in Threads : pc[t] = "idle"
  BY DEF Init
<1>5. WriterInside /\ ReaderInside /\ OneOwner /\ EnqueueCasSound /\ DequeueCasSound
  BY <1>4 DEF WriterInside, ReaderInside, OneOwner, EnqueueCasSound, DequeueCasSound,
              InCell, Writing, Reading
<1>6. QED
  BY <1>1, <1>2, <1>3, <1>5 DEF RingInv

-----------------------------------------------------------------------------
(* Steps that move one thread and leave the shared counters alone. *)

\* Only t's pc and locals change between the two states.
OnlyMoves(t) ==
  \A u \in Threads : u # t => pc'[u] = pc[u] /\ pos'[u] = pos[u]

\* Such a step keeps the invariant if t enters no cell and what it has read
\* is true.
LEMMA QuietStep ==
  ASSUME RingInv, TypeOK', NEW t \in Threads, OnlyMoves(t),
         UNCHANGED <<sequence, enqueue_pos, dequeue_pos>>,
         Writing(t)' => Writing(t) /\ pos'[t] = pos[t],
         Reading(t)' => Reading(t) /\ pos'[t] = pos[t],
         pc'[t] \in {"e_seq", "e_cas"} => pos'[t] <= enqueue_pos,
         pc'[t] = "e_cas" /\ pos'[t] = enqueue_pos
           => sequence[Cell(enqueue_pos)] = enqueue_pos,
         pc'[t] \in {"d_seq", "d_cas"} => pos'[t] <= dequeue_pos,
         pc'[t] = "d_cas" /\ pos'[t] = dequeue_pos
           => sequence[Cell(dequeue_pos)] = dequeue_pos + 1
  PROVE  RingInv'
<1>1. PositionsInLap' /\ FilledCells' /\ EmptyCells'
  BY DEF RingInv, PositionsInLap, FilledCells, EmptyCells, Cell
<1>2. ASSUME NEW u \in Threads
      PROVE  /\ Writing(u)' => Writing(u) /\ pos'[u] = pos[u]
             /\ Reading(u)' => Reading(u) /\ pos'[u] = pos[u]
  BY DEF OnlyMoves, Writing, Reading
<1>3. WriterInside'
  BY <1>2 DEF RingInv, WriterInside, Cell
<1>4. ReaderInside'
  BY <1>2 DEF RingInv, ReaderInside, Cell
<1>5. ASSUME NEW u \in Threads, InCell(u)'
      PROVE  InCell(u) /\ LapPos(u)' = LapPos(u)
  BY <1>2, <1>5 DEF InCell, LapPos, Writing, Reading
<1>6. OneOwner'
  BY <1>5 DEF RingInv, OneOwner
<1>7. EnqueueCasSound'
  BY DEF RingInv, EnqueueCasSound, OnlyMoves, Cell
<1>8. DequeueCasSound'
  BY DEF RingInv, DequeueCasSound, OnlyMoves, Cell
<1>9. QED
  BY <1>1, <1>3, <1>4, <1>6, <1>7, <1>8 DEF RingInv

\* Going to a label moves only the thread that goes, if the locals follow.
LEMMA GotoMoves ==
  ASSUME TypeOK, NEW t \in Threads, NEW l, Goto(t, l),
         pos' = pos \/ \E p \in Nat : pos' = [pos EXCEPT ![t] = p]
  PROVE  OnlyMoves(t) /\ pc'[t] = l
  BY DEF TypeOK, Goto, OnlyMoves

LEMMA ReturnMoves ==
  ASSUME TypeOK, NEW t \in Threads, NEW r, Return(t, r)
  PROVE  OnlyMoves(t) /\ pc'[t] = "idle"
  BY GotoMoves DEF Return

\* A step after which t is idle or has just begun an operation is quiet.
LEMMA StartOrEndStep ==
  ASSUME RingInv, TypeOK', NEW t \in Threads, OnlyMoves(t),
         UNCHANGED <<sequence, enqueue_pos, dequeue_pos>>,
         pc'[t] \in {"idle", "e_load", "d_load"}
  PROVE  RingInv'
  BY QuietStep DEF Writing, Reading

-----------------------------------------------------------------------------
(* One lemma per action. *)

LEMMA BeginStep ==
  ASSUME RingInv, TypeOK', NEW t \in Threads,
         (\E v \in Values : EnqueueBegin(t, v)) \/ DequeueBegin(t)
  PROVE  RingInv'
<1>1. TypeOK /\ UNCHANGED <<sequence, enqueue_pos, dequeue_pos>>
  BY DEF RingInv, EnqueueBegin, DequeueBegin, shared
<1>2. ASSUME NEW v \in Values, EnqueueBegin(t, v)
      PROVE  OnlyMoves(t) /\ pc'[t] \in {"idle", "e_load"}
  <2>1. CASE closed
    BY <1>1, <1>2, <2>1, ReturnMoves DEF EnqueueBegin, EnqueueReturn
  <2>2. CASE ~closed
    BY <1>1, <1>2, <2>2, GotoMoves DEF EnqueueBegin
  <2>3. QED
    BY <2>1, <2>2
<1>3. ASSUME DequeueBegin(t)
      PROVE  OnlyMoves(t) /\ pc'[t] = "d_load"
  BY <1>1, <1>3, GotoMoves DEF DequeueBegin
<1>4. QED
  BY <1>1, <1>2, <1>3, StartOrEndStep

LEMMA LoadStep ==
  ASSUME RingInv, TypeOK', NEW t \in Threads, EnqueueLoad(t) \/ DequeueLoad(t)
  PROVE  RingInv'
<1>1. /\ TypeOK /\ enqueue_pos \in Nat /\ dequeue_pos \in Nat
      /\ UNCHANGED <<sequence, enqueue_pos, dequeue_pos>>
  BY Typed DEF RingInv, EnqueueLoad, DequeueLoad, shared
<1>2. CASE EnqueueLoad(t)
  <2>1. OnlyMoves(t) /\ pc'[t] = "e_seq" /\ pos'[t] = enqueue_pos
    BY <1>1, <1>2, GotoMoves DEF EnqueueLoad, TypeOK
  <2>2. QED
    BY <1>1, <2>1, QuietStep DEF Writing, Reading
<1>3. CASE DequeueLoad(t)
  <2>1. OnlyMoves(t) /\ pc'[t] = "d_seq" /\ pos'[t] = dequeue_pos
    BY <1>1, <1>3, GotoMoves DEF DequeueLoad, TypeOK
  <2>2. QED
    BY <1>1, <2>1, QuietStep DEF Writing, Reading
<1>4. QED
  BY <1>2, <1>3

LEMMA EnqueueSeqStep ==
  ASSUME RingInv, TypeOK', NEW t \in Threads, EnqueueSeq(t)
  PROVE  RingInv'
<1>1. /\ TypeOK
      /\ UNCHANGED <<sequence, enqueue_pos, dequeue_pos>>
      /\ pc[t] = "e_seq"
  BY DEF RingInv, EnqueueSeq, shared
<1>2. CASE sequence[Cell(pos[t])] = pos[t] /\ Goto(t, "e_cas") /\ UNCHANGED <<pos, m, ret>>
  <2>1. OnlyMoves(t) /\ pc'[t] = "e_cas" /\ pos'[t] = pos[t]
    BY <1>1, <1>2, GotoMoves
  <2>2. pos[t] <= enqueue_pos
    BY <1>1 DEF RingInv, EnqueueCasSound
  <2>3. QED
    BY <1>1, <1>2, <2>1, <2>2, QuietStep DEF Writing, Reading
<1>3. CASE EnqueueReturn(t, FALSE)
  BY <1>1, <1>3, ReturnMoves, StartOrEndStep DEF EnqueueReturn
<1>4. CASE Goto(t, "e_load") /\ UNCHANGED <<pos, m, ret>>
  BY <1>1, <1>4, GotoMoves, StartOrEndStep
<1>5. \/ sequence[Cell(pos[t])] = pos[t] /\ Goto(t, "e_cas") /\ UNCHANGED <<pos, m, ret>>
      \/ EnqueueReturn(t, FALSE)
      \/ Goto(t, "e_load") /\ UNCHANGED <<pos, m, ret>>
  BY Zenon DEF EnqueueSeq
<1>6. QED
  BY <1>2, <1>3, <1>4, <1>5, Zenon

LEMMA DequeueSeqStep ==
  ASSUME RingInv, TypeOK', NEW t \in Threads, DequeueSeq(t)
  PROVE  RingInv'
<1>1. /\ TypeOK
      /\ UNCHANGED <<sequence, enqueue_pos, dequeue_pos>>
      /\ pc[t] = "d_seq"
  BY DEF RingInv, DequeueSeq, shared
<1>2. CASE sequence[Cell(pos[t])] = pos[t] + 1 /\ Goto(t, "d_cas") /\ UNCHANGED <<pos, ret>>
  <2>1. OnlyMoves(t) /\ pc'[t] = "d_cas" /\ pos'[t] = pos[t]
    BY <1>1, <1>2, GotoMoves
  <2>2. pos[t] <= dequeue_pos
    BY <1>1 DEF RingInv, DequeueCasSound
  <2>3. QED
    BY <1>1, <1>2, <2>1, <2>2, QuietStep DEF Writing, Reading
<1>3. CASE Return(t, FALSE)
  BY <1>1, <1>3, ReturnMoves, StartOrEndStep
<1>4. CASE Goto(t, "d_load") /\ UNCHANGED <<pos, ret>>
  BY <1>1, <1>4, GotoMoves, StartOrEndStep
<1>5. \/ sequence[Cell(pos[t])] = pos[t] + 1 /\ Goto(t, "d_cas") /\ UNCHANGED <<pos, ret>>
      \/ Return(t, FALSE)
      \/ Goto(t, "d_load") /\ UNCHANGED <<pos, ret>>
  BY Zenon DEF DequeueSeq
<1>6. QED
  BY <1>2, <1>3, <1>4, <1>5, Zenon

\* The accesses to cell->data happen inside the cell.
LEMMA DataStep ==
  ASSUME RingInv, TypeOK', NEW t \in Threads, EnqueueWrite(t) \/ DequeueRead(t)
  PROVE  RingInv'
<1>1. TypeOK /\ UNCHANGED <<sequence, enqueue_pos, dequeue_pos, pos>>
  BY DEF RingInv, EnqueueWrite, DequeueRead, shared
<1>2. CASE EnqueueWrite(t)
  <2>1. OnlyMoves(t) /\ pc[t] = "e_write" /\ pc'[t] = "e_publish"
    BY <1>1, <1>2, GotoMoves DEF EnqueueWrite
  <2>2. QED
    BY <1>1, <2>1, QuietStep DEF Writing, Reading
<1>3. CASE DequeueRead(t)
  <2>1. OnlyMoves(t) /\ pc[t] = "d_read" /\ pc'[t] = "d_release"
    BY <1>1, <1>3, GotoMoves DEF DequeueRead
  <2>2. QED
    BY <1>1, <2>1, QuietStep DEF Writing, Reading
<1>4. QED
  BY <1>2, <1>3

\* enqueue's CAS succeeds only on a position whose cell is free: the queue is
\* not full and the dequeuer of the lap before has left the cell.
LEMMA EnqueueCasFree ==
  ASSUME RingInv, sequence[Cell(enqueue_pos)] = enqueue_pos
  PROVE  /\ enqueue_pos < dequeue_pos + Capacity
         /\ \A u \in Threads : InCell(u) => LapPos(u) # enqueue_pos
<1> USE CapacityAssumption
<1>1. /\ TypeOK /\ enqueue_pos \in Nat /\ dequeue_pos \in Nat
      /\ \A u \in Threads : pos[u] \in Nat
  BY Typed DEF RingInv
<1>2. dequeue_pos <= enqueue_pos /\ enqueue_pos <= dequeue_pos + Capacity
  BY DEF RingInv, PositionsInLap
<1>3. enqueue_pos # dequeue_pos + Capacity
  <2> SUFFICES ASSUME enqueue_pos = dequeue_pos + Capacity PROVE FALSE
    OBVIOUS
  <2>1. Cell(enqueue_pos) = Cell(dequeue_pos)
    BY <1>1, CellNextLap
  <2>2. dequeue_pos \in dequeue_pos .. enqueue_pos - 1
    BY <1>1
  <2>3. \/ sequence[Cell(dequeue_pos)] = dequeue_pos
        \/ sequence[Cell(dequeue_pos)] = dequeue_pos + 1
    BY <2>2 DEF RingInv, FilledCells
  <2>4. QED
    BY <1>1, <2>1, <2>3
<1>4. ASSUME NEW u \in Threads, InCell(u), LapPos(u) = enqueue_pos PROVE FALSE
  <2>1. Cell(pos[u]) = Cell(enqueue_pos)
    BY <1>4, OwnerInLap
  <2>2. CASE Writing(u)
    BY <1>1, <1>4, <2>2 DEF RingInv, WriterInside, LapPos
  <2>3. CASE Reading(u)
    <3>1. pos[u] + Capacity = enqueue_pos
      BY <1>4, <2>3 DEF LapPos, Writing, Reading
    <3>2. sequence[Cell(pos[u])] = pos[u] + 1
      BY <2>3 DEF RingInv, ReaderInside
    <3>3. QED
      BY <1>1, <2>1, <3>1, <3>2
  <2>4. QED
    BY <1>4, <2>2, <2>3 DEF InCell
<1>5. QED
  BY <1>1, <1>2, <1>3, <1>4

\* dequeue's CAS succeeds only on a published position nobody is inside of.
LEMMA DequeueCasReady ==
  ASSUME RingInv, sequence[Cell(dequeue_pos)] = dequeue_pos + 1
  PROVE  /\ dequeue_pos < enqueue_pos
         /\ \A u \in Threads : Writing(u) => pos[u] # dequeue_pos
<1> USE CapacityAssumption
<1>1. enqueue_pos \in Nat /\ dequeue_pos \in Nat /\ \A u \in Threads : pos[u] \in Nat
  BY Typed DEF RingInv
<1>2. dequeue_pos <= enqueue_pos
  BY DEF RingInv, PositionsInLap
<1>3. dequeue_pos # enqueue_pos
  <2> SUFFICES ASSUME dequeue_pos = enqueue_pos PROVE FALSE
    OBVIOUS
  <2>1. dequeue_pos \in enqueue_pos .. dequeue_pos + Capacity - 1
    BY <1>1
  <2>2. \/ sequence[Cell(dequeue_pos)] = dequeue_pos
        \/ sequence[Cell(dequeue_pos)] + Capacity = dequeue_pos + 1
    BY <2>1 DEF RingInv, EmptyCells
  <2>3. QED
    BY <1>1, <2>2
<1>4. \A u \in Threads : Writing(u) => pos[u] # dequeue_pos
  BY <1>1 DEF RingInv, WriterInside
<1>5. QED
  BY <1>1, <1>2, <1>3, <1>4

LEMMA EnqueueCasStep ==
  ASSUME RingInv, TypeOK', NEW t \in Threads, EnqueueCas(t)
  PROVE  RingInv'
<1> USE CapacityAssumption
<1>1. /\ TypeOK /\ enqueue_pos \in Nat /\ dequeue_pos \in Nat
      /\ \A u \in Threads : pos[u] \in Nat
  BY Typed DEF RingInv
<1>2. UNCHANGED <<sequence, dequeue_pos>> /\ pc[t] = "e_cas"
  BY DEF EnqueueCas
<1>3. CASE enqueue_pos # pos[t]
  <2>1. OnlyMoves(t) /\ pc'[t] = "e_seq" /\ pos'[t] = enqueue_pos /\ enqueue_pos' = enqueue_pos
    BY <1>1, <1>3, GotoMoves DEF EnqueueCas, TypeOK
  <2>2. QED
    BY <1>1, <1>2, <2>1, QuietStep DEF Writing, Reading
<1>4. CASE enqueue_pos = pos[t]
  <2>1. OnlyMoves(t) /\ pc'[t] = "e_write" /\ pos' = pos /\ enqueue_pos' = enqueue_pos + 1
    BY <1>1, <1>4, GotoMoves DEF EnqueueCas
  <2>2. sequence[Cell(enqueue_pos)] = enqueue_pos
    BY <1>2, <1>4 DEF RingInv, EnqueueCasSound
  <2>3. /\ enqueue_pos < dequeue_pos + Capacity
        /\ \A u \in Threads : InCell(u) => LapPos(u) # enqueue_pos
    BY <2>2, EnqueueCasFree
  <2>4. PositionsInLap'
    BY <1>1, <1>2, <2>1, <2>3 DEF RingInv, PositionsInLap
  <2>5. FilledCells'
    <3> SUFFICES ASSUME NEW p \in dequeue_pos .. (enqueue_pos + 1) - 1
                 PROVE  sequence[Cell(p)] = p \/ sequence[Cell(p)] = p + 1
      BY <1>1, <1>2, <2>1 DEF FilledCells, Cell
    <3>1. CASE p = enqueue_pos
      BY <2>2, <3>1
    <3>2. CASE p \in dequeue_pos .. enqueue_pos - 1
      BY <3>2 DEF RingInv, FilledCells
    <3>3. QED
      BY <1>1, <3>1, <3>2
  <2>6. EmptyCells'
    <3> SUFFICES ASSUME NEW p \in enqueue_pos + 1 .. dequeue_pos + Capacity - 1
                 PROVE  sequence[Cell(p)] = p \/ sequence[Cell(p)] + Capacity = p + 1
      BY <1>1, <1>2, <2>1 DEF EmptyCells, Cell
    <3>1. p \in enqueue_pos .. dequeue_pos + Capacity - 1
      BY <1>1
    <3>2. QED
      BY <3>1 DEF RingInv, EmptyCells
  <2>7. ASSUME NEW u \in Threads, u # t
        PROVE  (Writing(u)' <=> Writing(u)) /\ (Reading(u)' <=> Reading(u)) /\ LapPos(u)' = LapPos(u)
    BY <2>1, <2>7 DEF OnlyMoves, Writing, Reading, LapPos
  <2>8. Writing(t)' /\ ~Reading(t)' /\ LapPos(t)' = enqueue_pos
    BY <1>4, <2>1 DEF Writing, Reading, LapPos
  <2>9. WriterInside'
    <3> SUFFICES ASSUME NEW u \in Threads, Writing(u)'
                 PROVE  /\ dequeue_pos <= pos[u] /\ pos[u] < enqueue_pos + 1
                        /\ sequence[Cell(pos[u])] = pos[u]
      BY <1>2, <2>1 DEF WriterInside, Cell
    <3>1. CASE u = t
      BY <1>1, <1>4, <2>2, <3>1 DEF RingInv, PositionsInLap
    <3>2. CASE u # t
      BY <1>1, <2>7, <3>2 DEF RingInv, WriterInside
    <3>3. QED
      BY <3>1, <3>2
  <2>10. ReaderInside'
    <3> SUFFICES ASSUME NEW u \in Threads, Reading(u)'
                 PROVE  /\ enqueue_pos + 1 <= pos[u] + Capacity /\ pos[u] < dequeue_pos
                        /\ sequence[Cell(pos[u])] = pos[u] + 1
      BY <1>2, <2>1 DEF ReaderInside, Cell
    <3>1. Reading(u)
      BY <2>7, <2>8
    <3>2. /\ enqueue_pos <= pos[u] + Capacity /\ pos[u] < dequeue_pos
          /\ sequence[Cell(pos[u])] = pos[u] + 1
      BY <3>1 DEF RingInv, ReaderInside
    <3>3. pos[u] + Capacity # enqueue_pos
      BY <2>3, <3>1 DEF InCell, LapPos, Writing, Reading
    <3>4. QED
      BY <1>1, <3>2, <3>3
  <2>11. OneOwner'
    <3> SUFFICES ASSUME NEW u \in Threads, NEW w \in Threads, u # w, InCell(u)', InCell(w)'
                 PROVE  LapPos(u)' # LapPos(w)'
      BY DEF OneOwner
    <3>1. CASE u # t /\ w # t
      BY <2>7, <3>1 DEF RingInv, OneOwner, InCell
    <3>2. CASE u = t \/ w = t
      BY <2>3, <2>7, <2>8, <3>2 DEF InCell
    <3>3. QED
      BY <3>1, <3>2
  <2>12. EnqueueCasSound'
    <3>1. ASSUME NEW u \in Threads, pc'[u] \in {"e_seq", "e_cas"}
          PROVE  pos'[u] <= enqueue_pos
      BY <2>1, <3>1 DEF RingInv, EnqueueCasSound, OnlyMoves
    <3>2. ASSUME NEW u \in Threads, pc'[u] \in {"e_seq", "e_cas"}
          PROVE  pos'[u] <= enqueue_pos' /\ pos'[u] # enqueue_pos'
      BY <1>1, <2>1, <3>1, <3>2
    <3>3. QED
      BY <3>2 DEF EnqueueCasSound
  <2>13. DequeueCasSound'
    BY <1>2, <2>1 DEF RingInv, DequeueCasSound, OnlyMoves, Cell
  <2>14. QED
    BY <2>4, <2>5, <2>6, <2>9, <2>10, <2>11, <2>12, <2>13 DEF RingInv
<1>5. QED
  BY <1>3, <1>4

LEMMA DequeueCasStep ==
  ASSUME RingInv, TypeOK', NEW t \in Threads, DequeueCas(t)
  PROVE  RingInv'
<1> USE CapacityAssumption
<1>1. /\ TypeOK /\ enqueue_pos \in Nat /\ dequeue_pos \in Nat
      /\ \A u \in Threads : pos[u] \in Nat
  BY Typed DEF RingInv
<1>2. UNCHANGED <<sequence, enqueue_pos>> /\ pc[t] = "d_cas"
  BY DEF DequeueCas
<1>3. CASE dequeue_pos # pos[t]
  <2>1. OnlyMoves(t) /\ pc'[t] = "d_seq" /\ pos'[t] = dequeue_pos /\ dequeue_pos' = dequeue_pos
    BY <1>1, <1>3, GotoMoves DEF DequeueCas, TypeOK
  <2>2. QED
    BY <1>1, <1>2, <2>1, QuietStep DEF Writing, Reading
<1>4. CASE dequeue_pos = pos[t]
  <2>1. OnlyMoves(t) /\ pc'[t] = "d_read" /\ pos' = pos /\ dequeue_pos' = dequeue_pos + 1
    BY <1>1, <1>4, GotoMoves DEF DequeueCas
  <2>2. sequence[Cell(dequeue_pos)] = dequeue_pos + 1
    BY <1>2, <1>4 DEF RingInv, DequeueCasSound
  <2>3. /\ dequeue_pos < enqueue_pos
        /\ \A u \in Threads : Writing(u) => pos[u] # dequeue_pos
    BY <2>2, DequeueCasReady
  <2>4. enqueue_pos <= dequeue_pos + Capacity
    BY DEF RingInv, PositionsInLap
  <2>5. PositionsInLap'
    BY <1>1, <1>2, <2>1, <2>3, <2>4 DEF PositionsInLap
  <2>6. FilledCells'
    <3> SUFFICES ASSUME NEW p \in dequeue_pos + 1 .. enqueue_pos - 1
                 PROVE  sequence[Cell(p)] = p \/ sequence[Cell(p)] = p + 1
      BY <1>1, <1>2, <2>1 DEF FilledCells, Cell
    <3>1. p \in dequeue_pos .. enqueue_pos - 1
      BY <1>1
    <3>2. QED
      BY <3>1 DEF RingInv, FilledCells
  <2>7. EmptyCells'
    <3> SUFFICES ASSUME NEW p \in enqueue_pos .. (dequeue_pos + 1) + Capacity - 1
                 PROVE  sequence[Cell(p)] = p \/ sequence[Cell(p)] + Capacity = p + 1
      BY <1>1, <1>2, <2>1 DEF EmptyCells, Cell
    <3>1. CASE p = dequeue_pos + Capacity
      <4>1. Cell(p) = Cell(dequeue_pos)
        BY <1>1, <3>1, CellNextLap
      <4>2. QED
        BY <1>1, <2>2, <3>1, <4>1
    <3>2. CASE p \in enqueue_pos .. dequeue_pos + Capacity - 1
      BY <3>2 DEF RingInv, EmptyCells
    <3>3. QED
      BY <1>1, <3>1, <3>2
  <2>8. ASSUME NEW u \in Threads, u # t
        PROVE  (Writing(u)' <=> Writing(u)) /\ (Reading(u)' <=> Reading(u)) /\ LapPos(u)' = LapPos(u)
    BY <2>1, <2>8 DEF OnlyMoves, Writing, Reading, LapPos
  <2>9. ~Writing(t)' /\ Reading(t)' /\ LapPos(t)' = dequeue_pos + Capacity
    BY <1>4, <2>1 DEF Writing, Reading, LapPos
  <2>10. WriterInside'
    <3> SUFFICES ASSUME NEW u \in Threads, Writing(u)'
                 PROVE  /\ dequeue_pos + 1 <= pos[u] /\ pos[u] < enqueue_pos
                        /\ sequence[Cell(pos[u])] = pos[u]
      BY <1>2, <2>1 DEF WriterInside, Cell
    <3>1. Writing(u)
      BY <2>8, <2>9
    <3>2. /\ dequeue_pos <= pos[u] /\ pos[u] < enqueue_pos
          /\ sequence[Cell(pos[u])] = pos[u]
      BY <3>1 DEF RingInv, WriterInside
    <3>3. QED
      BY <1>1, <2>3, <3>1, <3>2
  <2>11. ReaderInside'
    <3> SUFFICES ASSUME NEW u \in Threads, Reading(u)'
                 PROVE  /\ enqueue_pos <= pos[u] + Capacity /\ pos[u] < dequeue_pos + 1
                        /\ sequence[Cell(pos[u])] = pos[u] + 1
      BY <1>2, <2>1 DEF ReaderInside, Cell
    <3>1. CASE u = t
      BY <1>1, <1>4, <2>2, <2>4, <3>1
    <3>2. CASE u # t
      BY <1>1, <2>8, <3>2 DEF RingInv, ReaderInside
    <3>3. QED
      BY <3>1, <3>2
  <2>12. ASSUME NEW u \in Threads, InCell(u) PROVE LapPos(u) # dequeue_pos + Capacity
    BY <1>1, <2>12, OwnerInLap
  <2>13. OneOwner'
    <3> SUFFICES ASSUME NEW u \in Threads, NEW w \in Threads, u # w, InCell(u)', InCell(w)'
                 PROVE  LapPos(u)' # LapPos(w)'
      BY DEF OneOwner
    <3>1. CASE u # t /\ w # t
      BY <2>8, <3>1 DEF RingInv, OneOwner, InCell
    <3>2. CASE u = t \/ w = t
      BY <2>8, <2>9, <2>12, <3>2 DEF InCell
    <3>3. QED
      BY <3>1, <3>2
  <2>14. EnqueueCasSound'
    BY <1>2, <2>1 DEF RingInv, EnqueueCasSound, OnlyMoves, Cell
  <2>15. DequeueCasSound'
    <3>1. ASSUME NEW u \in Threads, pc'[u] \in {"d_seq", "d_cas"}
          PROVE  pos'[u] <= dequeue_pos
      BY <2>1, <3>1 DEF RingInv, DequeueCasSound, OnlyMoves
    <3>2. ASSUME NEW u \in Threads, pc'[u] \in {"d_seq", "d_cas"}
          PROVE  pos'[u] <= dequeue_pos' /\ pos'[u] # dequeue_pos'
      BY <1>1, <2>1, <3>1, <3>2
    <3>3. QED
      BY <3>2 DEF DequeueCasSound
  <2>16. QED
    BY <2>5, <2>6, <2>7, <2>10, <2>11, <2>13, <2>14, <2>15 DEF RingInv
<1>5. QED
  BY <1>3, <1>4

\* The two stores of sequence: t leaves its cell, published after a write and
\* free for the next lap after a read.
LEMMA LeaveCell ==
  ASSUME RingInv, TypeOK', NEW t \in Threads, InCell(t), OnlyMoves(t), pc'[t] = "idle",
         UNCHANGED <<enqueue_pos, dequeue_pos>>, NEW x \in Nat,
         sequence' = [sequence EXCEPT ![Cell(pos[t])] = x],
         Writing(t) => x = pos[t] + 1,
         Reading(t) => x = pos[t] + Capacity
  PROVE  RingInv'
<1> USE CapacityAssumption
<1>1. /\ TypeOK /\ enqueue_pos \in Nat /\ dequeue_pos \in Nat
      /\ \A u \in Threads : pos[u] \in Nat
  BY Typed DEF RingInv
<1>2. dequeue_pos <= enqueue_pos /\ enqueue_pos <= dequeue_pos + Capacity
  BY DEF RingInv, PositionsInLap
<1>3. \A p \in Nat : sequence'[Cell(p)] = IF Cell(p) = Cell(pos[t]) THEN x ELSE sequence[Cell(p)]
  BY <1>1, CellType DEF TypeOK
<1>4. /\ LapPos(t) \in Nat /\ Cell(LapPos(t)) = Cell(pos[t])
      /\ dequeue_pos <= LapPos(t) /\ LapPos(t) < dequeue_pos + Capacity
  BY OwnerInLap
<1>5. /\ Writing(t) => LapPos(t) = pos[t] /\ LapPos(t) < enqueue_pos
      /\ Reading(t) => LapPos(t) = pos[t] + Capacity /\ enqueue_pos <= LapPos(t)
  BY DEF RingInv, WriterInside, ReaderInside, LapPos, Writing, Reading
<1>6. Writing(t) \/ Reading(t)
  BY DEF InCell
<1>7. ASSUME NEW p \in Nat, dequeue_pos <= p, p < dequeue_pos + Capacity
      PROVE  sequence'[Cell(p)] = IF p = LapPos(t) THEN x ELSE sequence[Cell(p)]
  BY <1>1, <1>3, <1>4, <1>7, LapInjective
<1>8. PositionsInLap'
  BY <1>2 DEF PositionsInLap
<1>9. FilledCells'
  <2> SUFFICES ASSUME NEW p \in dequeue_pos .. enqueue_pos - 1
               PROVE  sequence'[Cell(p)] = p \/ sequence'[Cell(p)] = p + 1
    BY DEF FilledCells, Cell
  <2>1. p \in Nat /\ dequeue_pos <= p /\ p < enqueue_pos
    BY <1>1
  <2>2. CASE p = LapPos(t)
    BY <1>1, <1>2, <1>5, <1>6, <1>7, <2>1, <2>2
  <2>3. CASE p # LapPos(t)
    <3>1. sequence'[Cell(p)] = sequence[Cell(p)]
      BY <1>1, <1>2, <1>7, <2>1, <2>3
    <3>2. QED
      BY <3>1 DEF RingInv, FilledCells
  <2>4. QED
    BY <2>2, <2>3
<1>10. EmptyCells'
  <2> SUFFICES ASSUME NEW p \in enqueue_pos .. dequeue_pos + Capacity - 1
               PROVE  sequence'[Cell(p)] = p \/ sequence'[Cell(p)] + Capacity = p + 1
    BY DEF EmptyCells, Cell
  <2>1. p \in Nat /\ enqueue_pos <= p /\ p < dequeue_pos + Capacity
    BY <1>1
  <2>2. CASE p = LapPos(t)
    BY <1>1, <1>2, <1>5, <1>6, <1>7, <2>1, <2>2
  <2>3. CASE p # LapPos(t)
    <3>1. sequence'[Cell(p)] = sequence[Cell(p)]
      BY <1>1, <1>2, <1>7, <2>1, <2>3
    <3>2. QED
      BY <3>1 DEF RingInv, EmptyCells
  <2>4. QED
    BY <2>2, <2>3
<1>11. ASSUME NEW u \in Threads, InCell(u)'
       PROVE  /\ u # t /\ InCell(u) /\ pos'[u] = pos[u] /\ LapPos(u)' = LapPos(u)
              /\ Writing(u)' = Writing(u) /\ Reading(u)' = Reading(u)
              /\ sequence'[Cell(pos[u])] = sequence[Cell(pos[u])]
  <2>1. u # t
    BY <1>11 DEF InCell, Writing, Reading
  <2>2. pc'[u] = pc[u] /\ pos'[u] = pos[u]
    BY <2>1 DEF OnlyMoves
  <2>3. /\ InCell(u) /\ LapPos(u)' = LapPos(u)
        /\ Writing(u)' = Writing(u) /\ Reading(u)' = Reading(u)
    BY <1>11, <2>2 DEF InCell, Writing, Reading, LapPos
  <2>4. Cell(pos[u]) # Cell(pos[t])
    BY <2>1, <2>3, OtherCell
  <2>5. QED
    BY <1>1, <1>3, <2>1, <2>2, <2>3, <2>4
<1>12. WriterInside'
  <2> SUFFICES ASSUME NEW u \in Threads, Writing(u)'
               PROVE  /\ dequeue_pos <= pos'[u] /\ pos'[u] < enqueue_pos
                      /\ sequence'[Cell(pos'[u])] = pos'[u]
    BY DEF WriterInside, Cell
  <2>1. InCell(u)'
    BY DEF InCell
  <2>2. QED
    BY <1>11, <2>1 DEF RingInv, WriterInside
<1>13. ReaderInside'
  <2> SUFFICES ASSUME NEW u \in Threads, Reading(u)'
               PROVE  /\ enqueue_pos <= pos'[u] + Capacity /\ pos'[u] < dequeue_pos
                      /\ sequence'[Cell(pos'[u])] = pos'[u] + 1
    BY DEF ReaderInside, Cell
  <2>1. InCell(u)'
    BY DEF InCell
  <2>2. QED
    BY <1>11, <2>1 DEF RingInv, ReaderInside
<1>14. OneOwner'
  BY <1>11 DEF RingInv, OneOwner
<1>15. ASSUME sequence[Cell(enqueue_pos)] = enqueue_pos
       PROVE  sequence'[Cell(enqueue_pos)] = enqueue_pos
  <2>1. enqueue_pos < dequeue_pos + Capacity /\ LapPos(t) # enqueue_pos
    BY <1>15, EnqueueCasFree
  <2>2. QED
    BY <1>1, <1>2, <1>7, <1>15, <2>1
<1>16. EnqueueCasSound'
  <2>1. ASSUME NEW u \in Threads, pc'[u] \in {"e_seq", "e_cas"}
        PROVE  /\ pos'[u] <= enqueue_pos
               /\ pc'[u] = "e_cas" /\ pos'[u] = enqueue_pos
                    => sequence[Cell(enqueue_pos)] = enqueue_pos
    <3>1. pc'[u] = pc[u] /\ pos'[u] = pos[u]
      BY <2>1 DEF OnlyMoves
    <3>2. QED
      BY <2>1, <3>1 DEF RingInv, EnqueueCasSound
  <2>2. QED
    BY <1>15, <2>1 DEF EnqueueCasSound, Cell
<1>17. ASSUME sequence[Cell(dequeue_pos)] = dequeue_pos + 1
       PROVE  sequence'[Cell(dequeue_pos)] = dequeue_pos + 1
  <2>1. dequeue_pos < enqueue_pos /\ (Writing(t) => pos[t] # dequeue_pos)
    BY <1>17, DequeueCasReady
  <2>2. LapPos(t) # dequeue_pos
    BY <1>1, <1>5, <1>6, <2>1
  <2>3. QED
    BY <1>1, <1>2, <1>7, <1>17, <2>2
<1>18. DequeueCasSound'
  <2>1. ASSUME NEW u \in Threads, pc'[u] \in {"d_seq", "d_cas"}
        PROVE  /\ pos'[u] <= dequeue_pos
               /\ pc'[u] = "d_cas" /\ pos'[u] = dequeue_pos
                    => sequence[Cell(dequeue_pos)] = dequeue_pos + 1
    <3>1. pc'[u] = pc[u] /\ pos'[u] = pos[u]
      BY <2>1 DEF OnlyMoves
    <3>2. QED
      BY <2>1, <3>1 DEF RingInv, DequeueCasSound
  <2>2. QED
    BY <1>17, <2>1 DEF DequeueCasSound, Cell
<1>19. QED
  BY <1>8, <1>9, <1>10, <1>12, <1>13, <1>14, <1>16, <1>18 DEF RingInv

LEMMA PublishStep ==
  ASSUME RingInv, TypeOK', NEW t \in Threads, EnqueuePublish(t)
  PROVE  RingInv'
<1>1. TypeOK /\ pos[t] + 1 \in Nat
  BY Typed DEF RingInv
<1>2. /\ InCell(t) /\ ~Reading(t) /\ UNCHANGED <<enqueue_pos, dequeue_pos>>
      /\ sequence' = [sequence EXCEPT ![Cell(pos[t])] = pos[t] + 1]
  BY DEF EnqueuePublish, InCell, Writing, Reading
<1>3. OnlyMoves(t) /\ pc'[t] = "idle"
  BY <1>1, ReturnMoves DEF EnqueuePublish, EnqueueReturn
<1>4. QED
  BY <1>1, <1>2, <1>3, LeaveCell

LEMMA ReleaseStep ==
  ASSUME RingInv, TypeOK', NEW t \in Threads, DequeueRelease(t)
  PROVE  RingInv'
<1>1. TypeOK /\ pos[t] + Capacity \in Nat
  BY Typed, CapacityAssumption DEF RingInv
<1>2. /\ InCell(t) /\ ~Writing(t) /\ UNCHANGED <<enqueue_pos, dequeue_pos>>
      /\ sequence' = [sequence EXCEPT ![Cell(pos[t])] = pos[t] + Capacity]
  BY DEF DequeueRelease, InCell, Writing, Reading
<1>3. OnlyMoves(t) /\ pc'[t] = "idle"
  BY <1>1, ReturnMoves DEF DequeueRelease
<1>4. QED
  BY <1>1, <1>2, <1>3, LeaveCell

-----------------------------------------------------------------------------
(* The theorems. *)

LEMMA IndStep == RingInv /\ [Next]_vars => RingInv'
<1> SUFFICES ASSUME RingInv, [Next]_vars PROVE RingInv'
  OBVIOUS
<1>1. TypeOK'
  BY TypeStep DEF RingInv
<1>2. CASE Close \/ UNCHANGED vars
  <2>1. UNCHANGED <<sequence, enqueue_pos, dequeue_pos, pc, pos>>
    BY <1>2 DEF Close, vars
  <2>2. QED
    BY <1>1, <2>1 DEF RingInv, PositionsInLap, FilledCells, EmptyCells, WriterInside,
       ReaderInside, OneOwner, EnqueueCasSound, DequeueCasSound, InCell, Writing,
       Reading, LapPos, Cell
<1>3. QED
  BY <1>1, <1>2, BeginStep, LoadStep, EnqueueSeqStep, DequeueSeqStep, DataStep,
     EnqueueCasStep, DequeueCasStep, PublishStep, ReleaseStep
     DEF Next, EnqueueStep, DequeueStep

\* The invariant that ties the sequence counters of the cells to the two
\* position counters and to the threads inside enqueue and dequeue.
THEOREM Inductive == Spec => []RingInv
  BY IndInit, IndStep, PTL DEF Spec

\* For every number of threads and every capacity from 2 on, no two threads
\* are ever between the CAS and the store of sequence on the same cell: the
\* plain field data is never raced on, overwritten early or read twice.
THEOREM CellExclusiveAlways == Spec => []CellExclusive
<1>1. RingInv => CellExclusive
  BY OtherCell DEF CellExclusive
<1>2. QED
  BY <1>1, Inductive, PTL

\* dequeue never overtakes enqueue and the queue never holds more than
\* Capacity items.
THEOREM PositionsInLapAlways == Spec => []PositionsInLap
<1>1. RingInv => PositionsInLap
  BY DEF RingInv
<1>2. QED
  BY <1>1, Inductive, PTL
=============================================================================
