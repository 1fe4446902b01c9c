-------------------------- MODULE BoundedMpmcQueue --------------------------
(***************************************************************************)
(* schedular/queues/bounded_mpmc_queue.h, one atomic access per step.      *)
(* Threads run enqueue and dequeue concurrently; close may come at any     *)
(* time.  Positions are unbounded naturals: a size_t wraps after 2^64      *)
(* operations.  compare_exchange_weak does not fail spuriously on x86, the *)
(* only target the headers build for (<x86intrin.h>, <emmintrin.h>).       *)
(***************************************************************************)
EXTENDS Naturals, FiniteSets

CONSTANTS Threads,   \* the callers: spawning threads and runners
          Values,    \* the items (fiber pointers)
          NoVal,     \* the null item
          Capacity,  \* number of cells, next_pow2 of the requested capacity
          MaxPos,    \* bound on _enqueue_pos
          Stalled    \* threads the kernel may deschedule forever

\* next_pow2 never returns less than 2, and the algorithm needs it: with one
\* cell a published position looks like a free one to the next enqueuer.
ASSUME CapacityAssumption == Capacity \in Nat /\ Capacity >= 2

VARIABLES sequence,     \* cell -> position counter of the cell
          data,         \* cell -> item stored in it
          enqueue_pos,
          dequeue_pos,
          closed,
          pc,           \* thread -> where it is
          pos,          \* thread -> local variable pos
          m,            \* thread -> argument of enqueue / result of dequeue
          ret           \* thread -> what its last operation returned

vars == <<sequence, data, enqueue_pos, dequeue_pos, closed, pc, pos, m, ret>>
shared == <<sequence, data, enqueue_pos, dequeue_pos, closed>>

Cells == 0 .. Capacity - 1

\* &_buffer[pos & _mask]; the capacity is a power of two.
Cell(p) == p % Capacity

Enqueuing == {"e_load", "e_seq", "e_cas", "e_write", "e_publish"}
Dequeuing == {"d_load", "d_seq", "d_cas", "d_read", "d_release"}
PC == {"idle"} \cup Enqueuing \cup Dequeuing

Init ==
  /\ sequence = [c \in Cells |-> c]
  /\ data = [c \in Cells |-> NoVal]
  /\ enqueue_pos = 0
  /\ dequeue_pos = 0
  /\ closed = FALSE
  /\ pc = [t \in Threads |-> "idle"]
  /\ pos = [t \in Threads |-> 0]
  /\ m = [t \in Threads |-> NoVal]
  /\ ret = [t \in Threads |-> FALSE]

Goto(t, l) == pc' = [pc EXCEPT ![t] = l]

\* The local variable pos goes out of scope.
Return(t, r) ==
  /\ Goto(t, "idle")
  /\ pos' = [pos EXCEPT ![t] = 0]
  /\ ret' = [ret EXCEPT ![t] = r]

\* So does the argument of enqueue; the result of dequeue stays.
EnqueueReturn(t, r) == Return(t, r) /\ m' = [m EXCEPT ![t] = NoVal]

-----------------------------------------------------------------------------
\* Enqueues that may still advance _enqueue_pos stay below MaxPos.
EnqueueBudget ==
  enqueue_pos + Cardinality({t \in Threads : pc[t] \in {"e_load", "e_seq", "e_cas"}}) < MaxPos

\* enqueue(v): the call and the load of _closed.
EnqueueBegin(t, v) ==
  /\ pc[t] = "idle"
  /\ EnqueueBudget
  /\ IF closed THEN EnqueueReturn(t, FALSE)
               ELSE Goto(t, "e_load") /\ m' = [m EXCEPT ![t] = v] /\ UNCHANGED <<pos, ret>>
  /\ UNCHANGED shared

\* pos = _enqueue_pos.load(), before the loop and in its last branch.
EnqueueLoad(t) ==
  /\ pc[t] = "e_load"
  /\ pos' = [pos EXCEPT ![t] = enqueue_pos]
  /\ Goto(t, "e_seq")
  /\ UNCHANGED <<shared, m, ret>>

\* Mutant of EnqueueSeq: a full queue is waited for instead of answered.
EnqueueSeqWaits(t) ==
  /\ pc[t] = "e_seq"
  /\ IF sequence[Cell(pos[t])] = pos[t] THEN Goto(t, "e_cas") ELSE Goto(t, "e_load")
  /\ UNCHANGED <<shared, pos, m, ret>>

\* Load the cell's sequence and branch on the sign of dif = seq - pos.
EnqueueSeq(t) ==
  /\ pc[t] = "e_seq"
  /\ LET seq == sequence[Cell(pos[t])] IN
       \/ seq = pos[t] /\ Goto(t, "e_cas") /\ UNCHANGED <<pos, m, ret>>
       \/ seq < pos[t] /\ EnqueueReturn(t, FALSE)
       \/ seq > pos[t] /\ Goto(t, "e_load") /\ UNCHANGED <<pos, m, ret>>
  /\ UNCHANGED shared

\* Mutant of EnqueueCas: after a failure the CAS is retried on the new
\* position without looking at its cell.
EnqueueCasBlind(t) ==
  /\ pc[t] = "e_cas"
  /\ \/ /\ enqueue_pos = pos[t]
        /\ enqueue_pos' = enqueue_pos + 1
        /\ Goto(t, "e_write")
        /\ UNCHANGED pos
     \/ /\ enqueue_pos # pos[t]
        /\ pos' = [pos EXCEPT ![t] = enqueue_pos]
        /\ UNCHANGED <<enqueue_pos, pc>>
  /\ UNCHANGED <<sequence, data, dequeue_pos, closed, m, ret>>

\* compare_exchange on _enqueue_pos; a failure reloads pos.
EnqueueCas(t) ==
  /\ pc[t] = "e_cas"
  /\ \/ /\ enqueue_pos = pos[t]
        /\ enqueue_pos' = enqueue_pos + 1
        /\ Goto(t, "e_write")
        /\ UNCHANGED pos
     \/ /\ enqueue_pos # pos[t]
        /\ pos' = [pos EXCEPT ![t] = enqueue_pos]
        /\ Goto(t, "e_seq")
        /\ UNCHANGED enqueue_pos
  /\ UNCHANGED <<sequence, data, dequeue_pos, closed, m, ret>>

\* cell->data = m, a plain store.
EnqueueWrite(t) ==
  /\ pc[t] = "e_write"
  /\ data' = [data EXCEPT ![Cell(pos[t])] = m[t]]
  /\ Goto(t, "e_publish")
  /\ UNCHANGED <<sequence, enqueue_pos, dequeue_pos, closed, pos, m, ret>>

\* sequence.store(pos + 1, release); return true.
EnqueuePublish(t) ==
  /\ pc[t] = "e_publish"
  /\ sequence' = [sequence EXCEPT ![Cell(pos[t])] = pos[t] + 1]
  /\ EnqueueReturn(t, TRUE)
  /\ UNCHANGED <<data, enqueue_pos, dequeue_pos, closed>>

-----------------------------------------------------------------------------
\* dequeue(m) with m null, as every caller passes it.
DequeueBegin(t) ==
  /\ pc[t] = "idle"
  /\ m' = [m EXCEPT ![t] = NoVal]
  /\ Goto(t, "d_load")
  /\ UNCHANGED <<shared, pos, ret>>

DequeueLoad(t) ==
  /\ pc[t] = "d_load"
  /\ pos' = [pos EXCEPT ![t] = dequeue_pos]
  /\ Goto(t, "d_seq")
  /\ UNCHANGED <<shared, m, ret>>

\* Mutant of DequeueSeq: dif is taken as seq - pos, as in enqueue.
DequeueSeqUnpublished(t) ==
  /\ pc[t] = "d_seq"
  /\ LET seq == sequence[Cell(pos[t])] IN
       \/ seq = pos[t] /\ Goto(t, "d_cas") /\ UNCHANGED <<pos, ret>>
       \/ seq < pos[t] /\ Return(t, FALSE)
       \/ seq > pos[t] /\ Goto(t, "d_load") /\ UNCHANGED <<pos, ret>>
  /\ UNCHANGED <<shared, m>>

\* Branch on the sign of dif = seq - (pos + 1).
DequeueSeq(t) ==
  /\ pc[t] = "d_seq"
  /\ LET seq == sequence[Cell(pos[t])] IN
       \/ seq = pos[t] + 1 /\ Goto(t, "d_cas") /\ UNCHANGED <<pos, ret>>
       \/ seq < pos[t] + 1 /\ Return(t, FALSE)
       \/ seq > pos[t] + 1 /\ Goto(t, "d_load") /\ UNCHANGED <<pos, ret>>
  /\ UNCHANGED <<shared, m>>

DequeueCas(t) ==
  /\ pc[t] = "d_cas"
  /\ \/ /\ dequeue_pos = pos[t]
        /\ dequeue_pos' = dequeue_pos + 1
        /\ Goto(t, "d_read")
        /\ UNCHANGED pos
     \/ /\ dequeue_pos # pos[t]
        /\ pos' = [pos EXCEPT ![t] = dequeue_pos]
        /\ Goto(t, "d_seq")
        /\ UNCHANGED dequeue_pos
  /\ UNCHANGED <<sequence, data, enqueue_pos, closed, m, ret>>

\* m = cell->data, a plain load.
DequeueRead(t) ==
  /\ pc[t] = "d_read"
  /\ m' = [m EXCEPT ![t] = data[Cell(pos[t])]]
  /\ Goto(t, "d_release")
  /\ UNCHANGED <<shared, pos, ret>>

\* Mutant of DequeueRelease: the cell's counter is advanced by _mask only.
DequeueReleaseShort(t) ==
  /\ pc[t] = "d_release"
  /\ sequence' = [sequence EXCEPT ![Cell(pos[t])] = pos[t] + Capacity - 1]
  /\ Return(t, TRUE)
  /\ UNCHANGED <<data, enqueue_pos, dequeue_pos, closed, m>>

\* sequence.store(pos + _mask + 1, release); return true.
DequeueRelease(t) ==
  /\ pc[t] = "d_release"
  /\ sequence' = [sequence EXCEPT ![Cell(pos[t])] = pos[t] + Capacity]
  /\ Return(t, TRUE)
  /\ UNCHANGED <<data, enqueue_pos, dequeue_pos, closed, m>>

-----------------------------------------------------------------------------
\* close(), by the scheduler's destructor.
Close == closed' = TRUE
         /\ UNCHANGED <<sequence, data, enqueue_pos, dequeue_pos, pc, pos, m, ret>>

EnqueueStep(t) ==
  \/ EnqueueLoad(t) \/ EnqueueSeq(t) \/ EnqueueCas(t)
  \/ EnqueueWrite(t) \/ EnqueuePublish(t)

DequeueStep(t) ==
  \/ DequeueLoad(t) \/ DequeueSeq(t) \/ DequeueCas(t)
  \/ DequeueRead(t) \/ DequeueRelease(t)

Next ==
  \/ \E t \in Threads :
       \/ \E v \in Values : EnqueueBegin(t, v)
       \/ DequeueBegin(t)
       \/ EnqueueStep(t)
       \/ DequeueStep(t)
  \/ Close

Spec == Init /\ [][Next]_vars

\* A thread that is inside an operation keeps executing it, except that the
\* threads of Stalled may stop between any two instructions.
Fairness == \A t \in Threads \ Stalled : WF_vars(EnqueueStep(t) \/ DequeueStep(t))

FairSpec == Spec /\ Fairness

-----------------------------------------------------------------------------
TypeOK ==
  /\ sequence \in [Cells -> Nat]
  /\ data \in [Cells -> Values \cup {NoVal}]
  /\ enqueue_pos \in Nat
  /\ dequeue_pos \in Nat
  /\ closed \in BOOLEAN
  /\ pc \in [Threads -> PC]
  /\ pos \in [Threads -> Nat]
  /\ m \in [Threads -> Values \cup {NoVal}]
  /\ ret \in [Threads -> BOOLEAN]

\* The threads between a successful CAS and the store of sequence that gives
\* the cell up: the only ones that touch the plain field data.
Writing(t) == pc[t] \in {"e_write", "e_publish"}
Reading(t) == pc[t] \in {"d_read", "d_release"}
InCell(t) == Writing(t) \/ Reading(t)

\* No two threads are ever inside the same cell: the plain accesses to
\* cell->data never race, and no item is overwritten before it is read or
\* read twice, whatever is stalled between its CAS and its store.
CellExclusive ==
  \A t, u \in Threads :
    t # u /\ InCell(t) /\ InCell(u) => Cell(pos[t]) # Cell(pos[u])

\* The two counters never cross and are never more than one lap apart: the
\* queue holds at most Capacity items, counting those being written.
PositionsInLap == dequeue_pos <= enqueue_pos /\ enqueue_pos <= dequeue_pos + Capacity

\* While every thread but the stalled ones keeps running, operations keep
\* returning: no thread, stopped anywhere inside an operation, blocks the rest.
SomeoneReturns ==
  \E t \in Threads \ Stalled : pc[t] # "idle" /\ pc'[t] = "idle"

AllLiveIdle == \A t \in Threads \ Stalled : pc[t] = "idle"

LockFree == []<>AllLiveIdle \/ []<><<SomeoneReturns>>_vars
=============================================================================
