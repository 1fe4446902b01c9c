---------------------------- MODULE BoundedLoads ----------------------------
(***************************************************************************)
(* ah_loader's load(f) over a vector of bounded_mpmc_queues, as the       *)
(* scheduler wires them: any thread may load, and a queue answers false    *)
(* when it is full.  The queues are windows (SlotQueue), which is what     *)
(* BoundedMpmcQueue is shown to implement.  The pauses of exp_backoff      *)
(* change no state and are left out.                                       *)
(***************************************************************************)
EXTENDS SlotQueue

CONSTANTS NumQ,      \* number of queues
          Capacity,  \* _capacity of each
          Threads,   \* the threads that call load
          Items,     \* the fibers they load
          Stalled    \* queues whose consumer may stop at any point

Queues == 0 .. NumQ - 1

VARIABLES window,  \* queue -> its slots, see SlotQueue
          closed,  \* queue -> close() was called
          call,    \* thread -> the load it makes: where it is, the fiber, and
                   \* the queue it tries
          free     \* fibers nobody has loaded, or that were consumed

vars == <<window, closed, call, free>>

NoCall == [pc |-> "idle", f |-> NoVal, q |-> 0]

Init ==
  /\ window = [q \in Queues |-> EmptyWindow]
  /\ closed = [q \in Queues |-> FALSE]
  /\ call = [t \in Threads |-> NoCall]
  /\ free = Items

\* Mutants of Successor: the next queue is the same; the index is not reduced.
SuccessorStays(q) == q
SuccessorUnreduced(q) == q + 1

Successor(q) == (q + 1) % NumQ

\* The load starts at the queue f's hash chooses.  The free fibers differ in
\* name only, so which of them is loaded is immaterial.
LoadBegin(t) ==
  /\ call[t].pc = "idle"
  /\ free # {}
  /\ LET f == CHOOSE f \in free : TRUE
     IN  /\ \E q \in Queues : call' = [call EXCEPT ![t] = [pc |-> "check", f |-> f, q |-> q]]
         /\ free' = free \ {f}
  /\ UNCHANGED <<window, closed>>

\* Mutant of Refused: the load returns although its queue was full or closed.
RefusedReturns(t) == call' = [call EXCEPT ![t] = NoCall]

\* try_load answered false: on to the next queue.
Refused(t) ==
  call' = [call EXCEPT ![t].pc = "check", ![t].q = Successor(@)]

EnqueueCheck(t) ==
  /\ call[t].pc = "check"
  /\ \/ closed[call[t].q] /\ Refused(t)
     \/ ~closed[call[t].q] /\ call' = [call EXCEPT ![t].pc = "claim"]
  /\ UNCHANGED <<window, closed, free>>

EnqueueFull(t) ==
  /\ call[t].pc = "claim"
  /\ Full(window[call[t].q], Capacity)
  /\ Refused(t)
  /\ UNCHANGED <<window, closed, free>>

EnqueueClaim(t) ==
  /\ call[t].pc = "claim"
  /\ ~Full(window[call[t].q], Capacity)
  /\ window' = [window EXCEPT ![call[t].q] = Claim(@, call[t].f, t)]
  /\ call' = [call EXCEPT ![t].pc = "publish"]
  /\ UNCHANGED <<closed, free>>

\* The item is published and the load returns.
EnqueuePublish(t) ==
  /\ call[t].pc = "publish"
  /\ window' = [window EXCEPT ![call[t].q] = Publish(@, t)]
  /\ call' = [call EXCEPT ![t] = NoCall]
  /\ UNCHANGED <<closed, free>>

LoadStep(t) == EnqueueCheck(t) \/ EnqueueFull(t) \/ EnqueueClaim(t) \/ EnqueuePublish(t)

-----------------------------------------------------------------------------
(* The queues' consumers, one for each; that of queue q is the owner q of the *)
(* slot it is inside of.                                                      *)

Inside(q) == {i \in DOMAIN window[q] : window[q][i].st = "taken"}

Dequeue(q) ==
  /\ Inside(q) = {}
  /\ HasReady(window[q])
  /\ window' = [window EXCEPT ![q] = Take(@, q)]
  /\ UNCHANGED <<closed, call, free>>

\* The cell is given back.  The fiber can be loaded again.
DequeueGiveBack(q) ==
  \E i \in Inside(q) :
    /\ free' = free \cup {window[q][i].val}
    /\ window' = [window EXCEPT ![q] = GiveBack(@, q)]
    /\ UNCHANGED <<closed, call>>

DequeueStep(q) == Dequeue(q) \/ DequeueGiveBack(q)

\* The scheduler closes its queues in their order.
Close(q) ==
  /\ ~closed[q]
  /\ \A p \in 0 .. q - 1 : closed[p]
  /\ closed' = [closed EXCEPT ![q] = TRUE]
  /\ UNCHANGED <<window, call, free>>

Next ==
  \/ \E t \in Threads : LoadBegin(t) \/ LoadStep(t)
  \/ \E q \in Queues : DequeueStep(q) \/ Close(q)

Spec == Init /\ [][Next]_vars

\* A load that has begun goes on, and the consumers outside Stalled keep polling.
Fairness ==
  /\ \A t \in Threads : WF_vars(LoadStep(t))
  /\ \A q \in Queues \ Stalled : WF_vars(DequeueStep(q))

FairSpec == Spec /\ Fairness

-----------------------------------------------------------------------------
TypeOK ==
  /\ \A q \in Queues :
       /\ Len(window[q]) <= Capacity
       /\ \A i \in DOMAIN window[q] :
            window[q][i] \in [val : Items \cup {NoVal},
                              st : {"claimed", "ready", "taken", "done"},
                              own : Threads \cup Queues \cup {NoThread}]
  /\ closed \in [Queues -> BOOLEAN]
  /\ call \in [Threads -> [pc : {"idle", "check", "claim", "publish"},
                           f : Items \cup {NoVal}, q : Queues]]
  /\ free \subseteq Items

\* The slots and the calls that hold f; a call that publishes holds its slot.
SlotsWith(f) == {s \in Queues \X (1 .. Capacity) :
                   s[2] \in DOMAIN window[s[1]] /\ window[s[1]][s[2]].val = f}
CallsWith(f) == {t \in Threads : call[t].pc \in {"check", "claim"} /\ call[t].f = f}

\* A fiber is loaded into exactly one queue: never lost between two queues that
\* refuse it, and never in a second one after a queue took it.
ItemOnce ==
  \A f \in Items :
    Cardinality(SlotsWith(f)) + Cardinality(CallsWith(f)) + (IF f \in free THEN 1 ELSE 0) = 1

\* Every queue is closed or its consumer may stop.
Hopeless == \A q \in Queues : closed[q] \/ q \in Stalled

Returns(t) == call[t].pc = "publish" /\ call'[t].pc = "idle"

\* However full one queue stays, a load returns through another one, unless
\* other loads keep taking the room that is made there.
LoadFindsRoom ==
  \A t \in Threads :
    \/ []<>(call[t].pc = "idle" \/ Hopeless)
    \/ []<><<\E u \in Threads \ {t} : Returns(u)>>_vars
=============================================================================
