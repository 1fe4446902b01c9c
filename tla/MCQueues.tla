------------------------------ MODULE MCQueues ------------------------------
(***************************************************************************)
(* Two queues that promise to be lock-free, for one run: a behaviour is    *)
(* one of MpmcQueue, the linked queue, or one of BoundedMpmcQueue, the     *)
(* ring, with threads that stop inside an operation; the state of the      *)
(* other one stays as it was at the start.                                 *)
(***************************************************************************)
EXTENDS MpmcQueueInvariant

CONSTANTS RingThreads, RingValues, NoVal, Capacity, MaxPos, Stalled

VARIABLES used,  \* the queue in use: "linked" or "ring"
          sequence, data, enqueue_pos, dequeue_pos, ring_closed, ring_pc, pos, m, ret
                 \* BoundedMpmcQueue's state

ringVars == <<sequence, data, enqueue_pos, dequeue_pos, ring_closed, ring_pc, pos, m, ret>>

Ring == INSTANCE BoundedMpmcQueue
          WITH Threads <- RingThreads, Values <- RingValues,
               closed <- ring_closed, pc <- ring_pc

BothInit == Init /\ Ring!Init /\ used \in {"linked", "ring"}

BothNext ==
  \/ used = "linked" /\ Next /\ UNCHANGED <<used, ringVars>>
  \/ used = "ring" /\ Ring!Next /\ UNCHANGED <<used, vars>>

\* The fairness of BoundedMpmcQueue; MpmcQueue has none.
BothSpec ==
  /\ BothInit /\ [][BothNext]_<<used, vars, ringVars>>
  /\ \A t \in RingThreads \ Stalled :
       WF_ringVars(used = "ring" /\ (Ring!EnqueueStep(t) \/ Ring!DequeueStep(t)))

\* With threads stopped anywhere in the ring the others keep returning, see
\* BoundedMpmcQueue.
LockFree == Ring!LockFree
=============================================================================
