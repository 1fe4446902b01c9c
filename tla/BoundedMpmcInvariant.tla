------------------------ MODULE BoundedMpmcInvariant ------------------------
(***************************************************************************)
(* The inductive invariant of BoundedMpmcQueue.  A lap is the Capacity     *)
(* positions from dequeue_pos on: each cell is the cell of exactly one of  *)
(* them, those below enqueue_pos are filled or being filled, the others    *)
(* are empty or still being emptied from the lap before.                   *)
(***************************************************************************)
EXTENDS BoundedMpmcQueue

\* A filled position's cell says "being written" (p) or "published" (p + 1).
FilledCells ==
  \A p \in dequeue_pos .. enqueue_pos - 1 :
    sequence[Cell(p)] = p \/ sequence[Cell(p)] = p + 1

\* An empty position's cell says "free" (p), or it is still as it was
\* published one lap before, because its dequeuer has not given it back.
EmptyCells ==
  \A p \in enqueue_pos .. dequeue_pos + Capacity - 1 :
    sequence[Cell(p)] = p \/ sequence[Cell(p)] + Capacity = p + 1

\* The position of the current lap whose cell t is in.
LapPos(t) == IF Writing(t) THEN pos[t] ELSE pos[t] + Capacity

WriterInside ==
  \A t \in Threads : Writing(t) =>
    /\ dequeue_pos <= pos[t] /\ pos[t] < enqueue_pos
    /\ sequence[Cell(pos[t])] = pos[t]

ReaderInside ==
  \A t \in Threads : Reading(t) =>
    /\ enqueue_pos <= pos[t] + Capacity /\ pos[t] < dequeue_pos
    /\ sequence[Cell(pos[t])] = pos[t] + 1

OneOwner ==
  \A t, u \in Threads : t # u /\ InCell(t) /\ InCell(u) => LapPos(t) # LapPos(u)

\* What a thread read before its CAS still holds if the CAS would succeed.
EnqueueCasSound ==
  \A t \in Threads :
    /\ pc[t] \in {"e_seq", "e_cas"} => pos[t] <= enqueue_pos
    /\ pc[t] = "e_cas" /\ pos[t] = enqueue_pos => sequence[Cell(enqueue_pos)] = enqueue_pos

DequeueCasSound ==
  \A t \in Threads :
    /\ pc[t] \in {"d_seq", "d_cas"} => pos[t] <= dequeue_pos
    /\ pc[t] = "d_cas" /\ pos[t] = dequeue_pos => sequence[Cell(dequeue_pos)] = dequeue_pos + 1

\* Every state the ring reaches satisfies these parts together: they are what
\* makes the two CAS loops and the per-cell counters of enqueue and dequeue
\* agree on who owns a cell.
RingInv ==
  /\ TypeOK
  /\ PositionsInLap
  /\ FilledCells
  /\ EmptyCells
  /\ WriterInside
  /\ ReaderInside
  /\ OneOwner
  /\ EnqueueCasSound
  /\ DequeueCasSound

\* A cell that is neither free nor published has its thread inside: the one
\* between enqueue's CAS and its store of sequence, or dequeue's.  No cell is
\* ever out of use without somebody who will put it back.
CellsAttended ==
  /\ \A p \in dequeue_pos .. enqueue_pos - 1 :
       sequence[Cell(p)] = p => \E t \in Threads : Writing(t) /\ pos[t] = p
  /\ \A p \in enqueue_pos .. dequeue_pos + Capacity - 1 :
       sequence[Cell(p)] + Capacity = p + 1 =>
         \E t \in Threads : Reading(t) /\ pos[t] + Capacity = p

\* What an enqueuer is about to publish is what it was called with.
DataWritten == \A t \in Threads : pc[t] = "e_publish" => data[Cell(pos[t])] = m[t]
=============================================================================
