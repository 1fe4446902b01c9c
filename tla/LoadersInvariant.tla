-------------------------- MODULE LoadersInvariant --------------------------
(***************************************************************************)
(* The inductive invariant of Loaders.                                     *)
(***************************************************************************)
EXTENDS Loaders

\* The load in progress has counted itself in loads.
Loading == IF call.pc = "idle" THEN 0 ELSE 1

\* No more loads ended on a queue than were made.
WithinLoads == \A q \in Queues : Ended[q] + Loading <= loads

\* Every load but the one in progress has ended on one queue.
LoadsCounted == MapThenSumSet(LAMBDA q : Ended[q], Queues) + Loading = loads

\* rr_loader tests the queue it would enqueue on.
TestsOwn == call.pc = "test" => call.q = q_id

\* rr_loader is about to offer an item it chose queue q for, closed since its test.
AboutToDrop(q) ==
  kind = "rr" /\ call.pc = "check" /\ ~call.told /\ call.q = q /\ queue[q].closed

\* A queue refuses once it is closed, and the next test of rr_loader sees that.
DroppedOnce ==
  \A q \in Queues :
    /\ refused[q] > 0 => kind = "rr" /\ queue[q].closed
    /\ dropped[q] > 0 => kind = "rr" /\ queue[q].closed /\ dropped[q] = 1 /\ ~AboutToDrop(q)

\* Items written to queue q: one may not be counted in packets yet.
Writes(q) == queue[q].enqueued + (IF call.pc = "count" /\ call.q = q THEN 1 ELSE 0)

\* Item k is in slot k modulo the capacity, and tail is at the last one: slot 0
\* is the last slot of the ring to be written.
SlotsWritten ==
  \A q \in Queues :
    /\ queue[q].tail = Writes(q) % Capacity
    /\ \A k \in 1 .. Writes(q) : k % Capacity \in queue[q].written

\* The consumer claims a packet only when it has seen one, and reads the slot
\* that was at the head when it advanced the head.
ReaderClaims ==
  \A q \in Queues :
    /\ reader[q].pc = "cas" => reader[q].current_packets > 0
    /\ reader[q].pc = "read" =>
         queue[q].head > 0 /\ reader[q].my_head = (queue[q].head - 1) % Capacity

LoadInv ==
  /\ TypeOK
  /\ WithinLoads
  /\ LoadsCounted
  /\ TestsOwn
  /\ DroppedOnce
  /\ SlotsWritten
  /\ ReaderClaims
  /\ PacketsExact
=============================================================================
