----------------------------- MODULE SlotQueue -----------------------------
(***************************************************************************)
(* The value of one bounded_mpmc_queue as its callers can observe it: the  *)
(* window of ring positions from the oldest one whose cell has not been    *)
(* given back up to _enqueue_pos.  A slot is                               *)
(*   "claimed"  an enqueuer won the CAS and has not yet published          *)
(*   "ready"    the enqueuer stored sequence = pos + 1                     *)
(*   "taken"    a dequeuer won the CAS and has not yet given the cell back *)
(*   "done"     given back, but an older slot of the window is not         *)
(* The owner of a slot is the thread that is inside the cell.              *)
(***************************************************************************)
EXTENDS Naturals, Sequences, FiniteSetsExt

CONSTANTS NoVal,    \* no item (the null fiber pointer)
          NoThread  \* the owner of a slot nobody is inside of

Slot(v, s, t) == [val |-> v, st |-> s, own |-> t]

EmptyWindow == <<>>

Live(q) == {i \in DOMAIN q : q[i].st # "done"}

\* The window starts at the oldest cell that has not been given back.
Trim(q) == IF Live(q) = {} THEN EmptyWindow ELSE SubSeq(q, Min(Live(q)), Len(q))

\* The slots dequeuers have not claimed yet, oldest first.
Waiting(q) == {i \in DOMAIN q : q[i].st \in {"claimed", "ready"}}

FrontSlot(q) == Min(Waiting(q))

\* A dequeuer finds its cell published: an older slot that is claimed but
\* unpublished hides every younger slot from it.
HasReady(q) == Waiting(q) # {} /\ q[FrontSlot(q)].st = "ready"

\* An enqueuer finds the cell of the previous lap not given back: a dequeuer
\* that stays inside a cell makes the queue look full behind it.
Full(q, capacity) == Len(q) = capacity

\* CAS on _enqueue_pos succeeded.
Claim(q, v, t) == Append(q, Slot(v, "claimed", t))

\* sequence.store(pos + 1): the slot becomes visible to dequeuers.
Publish(q, t) ==
  [i \in DOMAIN q |-> IF q[i].own = t /\ q[i].st = "claimed"
                      THEN Slot(q[i].val, "ready", NoThread) ELSE q[i]]

\* CAS on _dequeue_pos succeeded.
Take(q, t) == [q EXCEPT ![FrontSlot(q)] = Slot(@.val, "taken", t)]

\* sequence.store(pos + _mask + 1): the cell is free for the next lap.
GiveBack(q, t) ==
  Trim([i \in DOMAIN q |-> IF q[i].own = t /\ q[i].st = "taken"
                           THEN Slot(NoVal, "done", NoThread) ELSE q[i]])
=============================================================================
