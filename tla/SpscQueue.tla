----------------------------- MODULE SpscQueue -----------------------------
(***************************************************************************)
(* schedular/queues/spsc_queue.h, one access to shared memory per step: a  *)
(* vector of such queues, each with one consumer, and a thread that closes *)
(* them.  enqueue is here as one operator per step; the loader that calls  *)
(* it is in Loaders.  Of an item only its presence in a ring slot matters: *)
(* a slot that was never written holds nullptr.                            *)
(***************************************************************************)
EXTENDS Naturals, FiniteSetsExt

CONSTANTS NumQ,     \* number of queues
          Capacity  \* buffer_capacity of each

ASSUME SpscAssumption == NumQ \in Nat \ {0} /\ Capacity \in Nat \ {0}

Queues == 0 .. NumQ - 1

VARIABLES
  queue,   \* queue -> its fields, the ring slots written so far, and how many
           \* calls of enqueue have answered true
  reader,  \* queue -> where its consumer is inside dequeue, and its locals
  closer   \* where the closing thread is inside close, and on which queue

EmptyQueue == [packets |-> 0, head |-> 0, tail |-> 0, closed |-> FALSE,
               written |-> {}, enqueued |-> 0]

IdleReader == [pc |-> "idle", current_packets |-> 0, my_head |-> 0]

SpscInit ==
  /\ queue = [q \in Queues |-> EmptyQueue]
  /\ reader = [q \in Queues |-> IdleReader]
  /\ closer = [pc |-> "idle", q |-> 0]

-----------------------------------------------------------------------------
(* enqueue on queue q, by its one producer *)

\* The ring is full: enqueue goes to its waiting loop.
AtCapacity(q) == queue[q].packets = Capacity

\* The waiting loop goes on.  head counts dequeues and is never reduced, so
\* the two can be equal only while fewer than Capacity items were dequeued.
MustWait(q) == queue[q].head = queue[q].tail

\* Mutant of WriteSlot: tail stays where it is.
WriteSlotKeepsTail(q) ==
  queue' = [queue EXCEPT ![q].written = @ \cup {queue[q].tail}]

\* Advance tail and write the slot it points to; tail is the producer's own.
WriteSlot(q) ==
  LET tail == (queue[q].tail + 1) % Capacity
  IN  queue' = [queue EXCEPT ![q].tail = tail, ![q].written = @ \cup {tail}]

\* packets.fetch_add: the item can be dequeued, and enqueue answers true.
CountPacket(q) ==
  queue' = [queue EXCEPT ![q].packets = @ + 1, ![q].enqueued = @ + 1]

-----------------------------------------------------------------------------
(* dequeue on queue q, which its consumer calls again and again *)

Goto(q, l) == reader' = [reader EXCEPT ![q].pc = l]

\* The load of closed; a closed queue answers false.
DequeueBegin(q) ==
  /\ reader[q].pc = "idle"
  /\ Goto(q, IF queue[q].closed THEN "idle" ELSE "load")
  /\ UNCHANGED <<queue, closer>>

\* Mutant of NoPackets: the last packet is taken for none.
NoPacketsOffByOne(q) == queue[q].packets <= 1

NoPackets(q) == queue[q].packets = 0

\* The load of packets; without any, answer false.
DequeueLoad(q) ==
  /\ reader[q].pc = "load"
  /\ reader' = [reader EXCEPT ![q] = IF NoPackets(q) THEN IdleReader
       ELSE [@ EXCEPT !.pc = "cas", !.current_packets = queue[q].packets]]
  /\ UNCHANGED <<queue, closer>>

\* Mutant of CasSucceeds: a plain store of what was loaded, less one.
CasSucceedsAlways(q) == TRUE

CasSucceeds(q) == queue[q].packets = reader[q].current_packets

\* compare_exchange_strong of packets; a failure answers false.
DequeueCas(q) ==
  /\ reader[q].pc = "cas"
  /\ \/ /\ CasSucceeds(q)
        /\ queue' = [queue EXCEPT ![q].packets = reader[q].current_packets - 1]
        /\ Goto(q, "head")
     \/ /\ ~CasSucceeds(q)
        /\ reader' = [reader EXCEPT ![q] = IdleReader]
        /\ UNCHANGED queue
  /\ UNCHANGED closer

\* head.fetch_add.
DequeueHead(q) ==
  /\ reader[q].pc = "head"
  /\ queue' = [queue EXCEPT ![q].head = @ + 1]
  /\ reader' = [reader EXCEPT ![q].pc = "read", ![q].my_head = queue[q].head % Capacity]
  /\ UNCHANGED closer

\* m = ring_buffer[my_head]; answer true, with a warning if m is null.
DequeueRead(q) ==
  /\ reader[q].pc = "read"
  /\ reader' = [reader EXCEPT ![q] = IdleReader]
  /\ UNCHANGED <<queue, closer>>

DequeueStep(q) ==
  \/ DequeueBegin(q) \/ DequeueLoad(q) \/ DequeueCas(q) \/ DequeueHead(q) \/ DequeueRead(q)

-----------------------------------------------------------------------------
(* close *)

CloseBegin(q) ==
  /\ closer.pc = "idle"
  /\ ~queue[q].closed
  /\ closer' = [pc |-> "spin", q |-> q]
  /\ UNCHANGED <<queue, reader>>

\* The spinning loop sees packets = 0.
CloseDrained ==
  /\ closer.pc = "spin"
  /\ queue[closer.q].packets = 0
  /\ closer' = [closer EXCEPT !.pc = "store"]
  /\ UNCHANGED <<queue, reader>>

CloseStore ==
  /\ closer.pc = "store"
  /\ queue' = [queue EXCEPT ![closer.q].closed = TRUE]
  /\ closer' = [pc |-> "idle", q |-> 0]
  /\ UNCHANGED reader

CloseStep == CloseDrained \/ CloseStore
=============================================================================
