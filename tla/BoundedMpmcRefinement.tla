------------------------ MODULE BoundedMpmcRefinement ------------------------
(***************************************************************************)
(* The ring of BoundedMpmcQueue implements QueueContract: the window is    *)
(* read off sequence, the two counters and the threads inside cells.       *)
(***************************************************************************)
EXTENDS BoundedMpmcQueue, FiniteSetsExt

CONSTANT NoThread

Owner(p) == {t \in Threads : InCell(t) /\ pos[t] = p}

Slots == INSTANCE SlotQueue

\* The slot of ring position p, for p below enqueue_pos.
SlotAt(p) ==
  LET owner == Owner(p)
      t     == CHOOSE u \in owner : TRUE IN
  IF owner # {}
  THEN IF Writing(t) THEN Slots!Slot(m[t], "claimed", t)
                     ELSE Slots!Slot(data[Cell(p)], "taken", t)
  ELSE IF p >= dequeue_pos THEN Slots!Slot(data[Cell(p)], "ready", NoThread)
                           ELSE Slots!Slot(NoVal, "done", NoThread)

\* The window starts where the slowest reader is, else at dequeue_pos.
Oldest == Min({dequeue_pos} \cup {pos[t] : t \in {t \in Threads : Reading(t)}})

WindowBar == [i \in 1 .. enqueue_pos - Oldest |-> SlotAt(Oldest + i - 1)]

OpBar == [t \in Threads |->
  CASE pc[t] \in {"e_load", "e_seq", "e_cas"} -> "enqueue"
    [] Writing(t)                             -> "publish"
    [] pc[t] \in {"d_load", "d_seq", "d_cas"} -> "dequeue"
    [] Reading(t)                             -> "giveback"
    [] OTHER                                  -> "idle"]

\* A dequeuer's item is decided at its CAS, before the load of cell->data.
ItemBar == [t \in Threads |-> IF pc[t] = "d_read" THEN data[Cell(pos[t])] ELSE m[t]]

Contract == INSTANCE QueueContract WITH window <- WindowBar, op <- OpBar, item <- ItemBar

\* Every behaviour of the ring is one of the contract: items leave in claim
\* order, each exactly once; enqueue answers false only when closed or when
\* the cell one lap back is still held; dequeue answers false only when the
\* oldest unclaimed position holds nothing readable at that instant.
ImplementsContract == Contract!Spec
=============================================================================
