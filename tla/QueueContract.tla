--------------------------- MODULE QueueContract ---------------------------
(***************************************************************************)
(* What queue.h's enqueue / dequeue / close promise when they are backed   *)
(* by bounded_mpmc_queue: a FIFO window of slots shared by threads, where  *)
(* an operation takes effect at its claim, and where an answer of false    *)
(* means "full or closed" (enqueue) or "the oldest slot is not readable"   *)
(* (dequeue) at one instant of the call.                                   *)
(***************************************************************************)
EXTENDS SlotQueue

CONSTANTS Threads, Values, Capacity

VARIABLES window,  \* the slots, see SlotQueue
          closed,  \* close() was called
          op,      \* what each thread is doing
          item,    \* the value it is enqueueing, or the one it received
          ret      \* what its last operation returned

vars == <<window, closed, op, item, ret>>

Init ==
  /\ window = EmptyWindow
  /\ closed = FALSE
  /\ op = [t \in Threads |-> "idle"]
  /\ item = [t \in Threads |-> NoVal]
  /\ ret = [t \in Threads |-> FALSE]

Return(t, r) ==
  /\ op' = [op EXCEPT ![t] = "idle"]
  /\ ret' = [ret EXCEPT ![t] = r]

EnqueueReturn(t, r) == Return(t, r) /\ item' = [item EXCEPT ![t] = NoVal]

EnqueueBegin(t, v) ==
  /\ op[t] = "idle"
  /\ IF closed THEN EnqueueReturn(t, FALSE)
               ELSE /\ op' = [op EXCEPT ![t] = "enqueue"]
                    /\ item' = [item EXCEPT ![t] = v]
                    /\ UNCHANGED ret
  /\ UNCHANGED <<window, closed>>

EnqueueFull(t) ==
  /\ op[t] = "enqueue"
  /\ Full(window, Capacity)
  /\ EnqueueReturn(t, FALSE)
  /\ UNCHANGED <<window, closed>>

EnqueueClaim(t) ==
  /\ op[t] = "enqueue"
  /\ ~Full(window, Capacity)
  /\ window' = Claim(window, item[t], t)
  /\ op' = [op EXCEPT ![t] = "publish"]
  /\ UNCHANGED <<closed, item, ret>>

EnqueuePublish(t) ==
  /\ op[t] = "publish"
  /\ window' = Publish(window, t)
  /\ EnqueueReturn(t, TRUE)
  /\ UNCHANGED closed

DequeueBegin(t) ==
  /\ op[t] = "idle"
  /\ item' = [item EXCEPT ![t] = NoVal]
  /\ op' = [op EXCEPT ![t] = "dequeue"]
  /\ UNCHANGED <<window, closed, ret>>

DequeueEmpty(t) ==
  /\ op[t] = "dequeue"
  /\ ~HasReady(window)
  /\ Return(t, FALSE)
  /\ UNCHANGED <<window, closed, item>>

\* The value is fixed at the claim: the oldest waiting slot's.
DequeueTake(t) ==
  /\ op[t] = "dequeue"
  /\ HasReady(window)
  /\ item' = [item EXCEPT ![t] = window[FrontSlot(window)].val]
  /\ window' = Take(window, t)
  /\ op' = [op EXCEPT ![t] = "giveback"]
  /\ UNCHANGED <<closed, ret>>

DequeueGiveBack(t) ==
  /\ op[t] = "giveback"
  /\ window' = GiveBack(window, t)
  /\ Return(t, TRUE)
  /\ UNCHANGED <<closed, item>>

Close == closed' = TRUE /\ UNCHANGED <<window, op, item, ret>>

Next ==
  \/ \E t \in Threads :
       \/ \E v \in Values : EnqueueBegin(t, v)
       \/ EnqueueFull(t) \/ EnqueueClaim(t) \/ EnqueuePublish(t)
       \/ DequeueBegin(t) \/ DequeueEmpty(t) \/ DequeueTake(t) \/ DequeueGiveBack(t)
  \/ Close

Spec == Init /\ [][Next]_vars
=============================================================================
