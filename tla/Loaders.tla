------------------------------ MODULE Loaders ------------------------------
(***************************************************************************)
(* schedular/loaders: one loader thread in front of a vector of SPSC       *)
(* queues, for each of which it is the only producer.  The loader is an    *)
(* rr_loader or an ah_loader and makes blocking loads, of its own choice   *)
(* of queue or to a queue it is told.  The pauses of exp_backoff between   *)
(* two rounds of ah_loader change no state and are left out.               *)
(***************************************************************************)
EXTENDS SpscQueue

CONSTANT MaxLoads  \* bound on the loads begun

ASSUME LoadersAssumption == MaxLoads \in Nat

VARIABLES kind,   \* "rr" or "ah"
          q_id,   \* rr_loader's field: the queue of its next load
          loads,  \* number of loads begun
          call,   \* the load in progress: where it is, its queue, and whether
                  \* it was told that queue
          dropped, refused
                  \* queue -> number of items the loader gave up when that queue
                  \* had refused them: of loads that chose it, that were told it

vars == <<queue, reader, closer, kind, q_id, loads, call, dropped, refused>>

NoCall == [pc |-> "idle", q |-> 0, told |-> FALSE]

Init ==
  /\ SpscInit
  /\ kind \in {"rr", "ah"}
  /\ q_id = 0
  /\ loads = 0
  /\ call = NoCall
  /\ dropped = [q \in Queues |-> 0]
  /\ refused = [q \in Queues |-> 0]

Successor(q) == (q + 1) % NumQ

\* load(f): rr_loader first tests whether its queue is closed, ah_loader
\* starts at the queue its hash chooses.  load(f, q_id): enqueue on that queue.
LoadBegin ==
  /\ call.pc = "idle"
  /\ loads < MaxLoads
  /\ loads' = loads + 1
  /\ \/ kind = "rr" /\ call' = [pc |-> "test", q |-> q_id, told |-> FALSE]
     \/ kind = "ah" /\ \E q \in Queues : call' = [pc |-> "check", q |-> q, told |-> FALSE]
     \/ \E q \in Queues : call' = [pc |-> "check", q |-> q, told |-> TRUE]
  /\ UNCHANGED <<queue, reader, closer, kind, q_id, dropped, refused>>

\* Mutant of SkipClosed: the closed queue is tried again.
SkipClosedStays == UNCHANGED <<q_id, call>>

SkipClosed == q_id' = Successor(q_id) /\ call' = [call EXCEPT !.q = Successor(q_id)]

\* rr_loader's loop: skip the queues that are closed.
RoundRobin ==
  /\ call.pc = "test"
  /\ \/ queue[q_id].closed /\ SkipClosed
     \/ ~queue[q_id].closed /\ call' = [call EXCEPT !.pc = "check"] /\ UNCHANGED q_id
  /\ UNCHANGED <<queue, reader, closer, kind, loads, dropped, refused>>

\* Mutant of Accepted: ah_loader gives up after the last queue.
AcceptedByLast(ok) == kind = "rr" \/ ok \/ call.q = NumQ - 1

\* rr_loader ignores the answer of enqueue, ah_loader retries on false.
Accepted(ok) == kind = "rr" \/ ok

\* The load returns after the answer ok, to which the loader has listened or not.
Settle(ok) ==
  /\ dropped' = IF ok \/ call.told THEN dropped ELSE [dropped EXCEPT ![call.q] = @ + 1]
  /\ refused' = IF ok \/ ~call.told THEN refused ELSE [refused EXCEPT ![call.q] = @ + 1]

\* enqueue has answered ok.  rr_loader moves on; ah_loader retries a refused
\* item, on the next queue unless it was told one.
Answered(ok) ==
  \/ /\ Accepted(ok)
     /\ call' = NoCall
     /\ q_id' = IF kind = "rr" /\ ~call.told THEN Successor(q_id) ELSE q_id
     /\ Settle(ok)
  \/ /\ ~Accepted(ok)
     /\ call' = [call EXCEPT !.pc = "check", !.q = IF call.told THEN @ ELSE Successor(@)]
     /\ UNCHANGED <<q_id, dropped, refused>>

-----------------------------------------------------------------------------
(* The calls of enqueue. *)

EnqueueCheck ==
  /\ call.pc = "check"
  /\ \/ queue[call.q].closed /\ Answered(FALSE)
     \/ ~queue[call.q].closed /\ call' = [call EXCEPT !.pc = "full?"]
                                /\ UNCHANGED <<q_id, dropped, refused>>
  /\ UNCHANGED <<queue, reader, closer, kind, loads>>

EnqueueFull ==
  /\ call.pc = "full?"
  /\ call' = [call EXCEPT !.pc = IF AtCapacity(call.q) THEN "wait" ELSE "write"]
  /\ UNCHANGED <<queue, reader, closer, kind, q_id, loads, dropped, refused>>

\* The waiting loop ends.
EnqueueWaited ==
  /\ call.pc = "wait"
  /\ ~MustWait(call.q)
  /\ call' = [call EXCEPT !.pc = "write"]
  /\ UNCHANGED <<queue, reader, closer, kind, q_id, loads, dropped, refused>>

EnqueueWrite ==
  /\ call.pc = "write"
  /\ WriteSlot(call.q)
  /\ call' = [call EXCEPT !.pc = "count"]
  /\ UNCHANGED <<reader, closer, kind, q_id, loads, dropped, refused>>

EnqueueCount ==
  /\ call.pc = "count"
  /\ CountPacket(call.q)
  /\ Answered(TRUE)
  /\ UNCHANGED <<reader, closer, kind, loads>>

LoadStep ==
  \/ RoundRobin \/ EnqueueCheck \/ EnqueueFull \/ EnqueueWaited
  \/ EnqueueWrite \/ EnqueueCount

-----------------------------------------------------------------------------
LoaderVars == <<kind, q_id, loads, call, dropped, refused>>

Consume == (\E q \in Queues : DequeueStep(q)) /\ UNCHANGED LoaderVars

CloseNext ==
  /\ CloseStep \/ \E q \in Queues : CloseBegin(q)
  /\ UNCHANGED LoaderVars

Next == LoadBegin \/ LoadStep \/ Consume \/ CloseNext

Spec == Init /\ [][Next]_vars

\* Each consumer keeps polling its queue; a load and a close that have begun go
\* on.  Nobody has to begin a load or a close.
Fairness ==
  /\ \A q \in Queues : WF_<<queue, reader>>(DequeueStep(q))
  /\ WF_call(LoadStep)
  /\ WF_closer(CloseStep)

FairSpec == Spec /\ Fairness

-----------------------------------------------------------------------------
TypeOK ==
  /\ queue \in [Queues -> [packets : 0 .. MaxLoads, head : 0 .. MaxLoads,
                           tail : 0 .. Capacity - 1, closed : BOOLEAN,
                           written : SUBSET (0 .. Capacity - 1), enqueued : 0 .. MaxLoads]]
  /\ reader \in [Queues -> [pc : {"idle", "load", "cas", "head", "read"},
                            current_packets : 0 .. MaxLoads, my_head : 0 .. Capacity - 1]]
  /\ closer \in [pc : {"idle", "spin", "store"}, q : Queues]
  /\ kind \in {"rr", "ah"}
  /\ q_id \in Queues
  /\ loads \in 0 .. MaxLoads
  /\ call \in [pc : {"idle", "test", "check", "full?", "wait", "write", "count"},
               q : Queues, told : BOOLEAN]
  /\ dropped \in [Queues -> 0 .. MaxLoads] /\ refused \in [Queues -> 0 .. MaxLoads]

\* packets is updated by the producer and the consumer; no update is lost: it
\* is what was enqueued less what was claimed, so close's wait for 0 and the
\* "empty" of dequeue mean what they say.
PacketsExact ==
  \A q \in Queues :
    queue[q].packets + queue[q].head + (IF reader[q].pc = "head" THEN 1 ELSE 0)
      = queue[q].enqueued

\* Only the first dequeue of a queue can meet a slot nobody has written and
\* answer true with a null item, whatever the interleaving with the producer.
NullOnlyFirst ==
  \A q \in Queues :
    reader[q].pc = "read" /\ reader[q].my_head \notin queue[q].written => queue[q].head = 1

\* The loads that ended on each queue.
Ended == [q \in Queues |-> queue[q].enqueued + dropped[q] + refused[q]]

\* A blocking load returns with its item in exactly one queue, whatever is closed
\* meanwhile, with two exceptions, both of rr_loader, which ignores the answer of
\* enqueue: a load that was told a queue that is closed; and of those that choose,
\* for each queue that is ever closed, at most one, whose test came before.
LoadEnqueues ==
  /\ call.pc = "idle" => MapThenSumSet(LAMBDA q : Ended[q], Queues) = loads
  /\ \A q \in Queues :
       /\ refused[q] > 0 => kind = "rr" /\ queue[q].closed
       /\ dropped[q] > 0 => kind = "rr" /\ queue[q].closed /\ dropped[q] = 1

\* No queue is left that the load could use, or it is waiting for room in a
\* queue that was closed under it, which nobody dequeues from any more.
Hopeless ==
  \/ \A q \in Queues : queue[q].closed
  \/ queue[call.q].closed /\ (call.told \/ call.pc = "wait")

\* A load returns unless it is hopeless: it waits neither for a full queue whose
\* consumer runs nor for a closed queue while another one is open.
LoadReturns == []<>(call.pc = "idle" \/ Hopeless)

\* close returns once the loader has stopped: the consumer takes all packets.
CloseReturns == <>[](call.pc = "idle") => []<>(closer.pc = "idle")
=============================================================================
