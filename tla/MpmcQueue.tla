------------------------------ MODULE MpmcQueue ------------------------------
(***************************************************************************)
(* schedular/queues/mpmc_queue.h: the unbounded linked queue (schedular.h  *)
(* includes it and does not use it).  head points to a dummy node whose    *)
(* successor holds the oldest value.  One access to shared memory per      *)
(* step; the plain field next is read and written as one word.  operator   *)
(* new may return any node that is not allocated, a deleted one included.  *)
(***************************************************************************)
EXTENDS Naturals, SequencesExt

CONSTANTS Producers, Consumers,
          Items,    \* the values, each enqueued at most once
          NumNodes  \* bound on the nodes allocated at one time

ASSUME NodesAssumption == NumNodes \in Nat \ {0} /\ Producers \cap Consumers = {}

Threads == Producers \cup Consumers
Nodes == 1 .. NumNodes
Null == 0
NoItem == "none"

VARIABLES head, tail, closed,
          allocated, \* nodes that operator new has returned and delete has not
          value, next,
          pc, h, n,  \* the locals h and n of dequeue; of enqueue: prev and t
          order,     \* items in the order of the exchanges of tail
          got        \* items in the order in which dequeue read them

vars == <<head, tail, closed, allocated, value, next, pc, h, n, order, got>>

Init ==
  /\ head = 1 /\ tail = 1
  /\ closed = FALSE
  /\ allocated = {1}
  /\ value = [x \in Nodes |-> NoItem]
  /\ next = [x \in Nodes |-> Null]
  /\ pc = [t \in Threads |-> "idle"]
  /\ h = [t \in Threads |-> Null]
  /\ n = [t \in Threads |-> Null]
  /\ order = <<>>
  /\ got = <<>>

Goto(t, l) == pc' = [pc EXCEPT ![t] = l]

\* Return: the locals go out of scope.
Return(t) ==
  /\ Goto(t, "idle")
  /\ h' = [h EXCEPT ![t] = Null]
  /\ n' = [n EXCEPT ![t] = Null]

-----------------------------------------------------------------------------
\* enqueue(v): t = new node(v), before anybody else sees it.
EnqueueNew(t, v) ==
  /\ pc[t] = "idle"
  /\ v \notin {value[x] : x \in allocated} \cup {order[i] : i \in DOMAIN order}
  /\ \E x \in Nodes \ allocated :
       /\ allocated' = allocated \cup {x}
       /\ value' = [value EXCEPT ![x] = v]
       /\ next' = [next EXCEPT ![x] = Null]
       /\ n' = [n EXCEPT ![t] = x]
  /\ Goto(t, "exchange")
  /\ UNCHANGED <<head, tail, closed, h, order, got>>

\* prev = tail.exchange(t).
EnqueueExchange(t) ==
  /\ pc[t] = "exchange"
  /\ h' = [h EXCEPT ![t] = tail]
  /\ tail' = n[t]
  /\ order' = Append(order, value[n[t]])
  /\ Goto(t, "link")
  /\ UNCHANGED <<head, closed, allocated, value, next, n, got>>

\* prev->next = t.
EnqueueLink(t) ==
  /\ pc[t] = "link"
  /\ next' = [next EXCEPT ![h[t]] = n[t]]
  /\ Return(t)
  /\ UNCHANGED <<head, tail, closed, allocated, value, order, got>>

-----------------------------------------------------------------------------
\* h = head.load().
DequeueLoad(t) ==
  /\ pc[t] \in {"idle", "retry"}
  /\ h' = [h EXCEPT ![t] = head]
  /\ Goto(t, "next")
  /\ UNCHANGED <<head, tail, closed, allocated, value, next, n, order, got>>

AfterNext(t) == IF next[h[t]] = Null THEN "empty" ELSE "cas"

\* n = h->next, the read of a node another consumer may have deleted.
DequeueNext(t) ==
  /\ pc[t] = "next"
  /\ n' = [n EXCEPT ![t] = next[h[t]]]
  /\ Goto(t, AfterNext(t))
  /\ UNCHANGED <<head, tail, closed, allocated, value, next, h, order, got>>

\* Nothing linked: give up if the queue is closed, else try again.
DequeueEmpty(t) ==
  /\ pc[t] = "empty"
  /\ \/ closed /\ Return(t)
     \/ ~closed /\ Goto(t, "retry") /\ UNCHANGED <<h, n>>
  /\ UNCHANGED <<head, tail, closed, allocated, value, next, order, got>>

\* CAS of head from h to n.
DequeueCas(t) ==
  /\ pc[t] = "cas"
  /\ \/ /\ head = h[t]
        /\ head' = n[t]
        /\ Goto(t, "delete")
     \/ /\ head # h[t]
        /\ Goto(t, "retry")
        /\ UNCHANGED head
  /\ UNCHANGED <<tail, closed, allocated, value, next, h, n, order, got>>

\* Mutant of Deleted: the new dummy is deleted instead of the old one.
DeletedNew(t) == n[t]

Deleted(t) == h[t]

\* delete h.
DequeueDelete(t) ==
  /\ pc[t] = "delete"
  /\ allocated' = allocated \ {Deleted(t)}
  /\ Goto(t, "value")
  /\ UNCHANGED <<head, tail, closed, value, next, h, n, order, got>>

\* Mutant of Dequeued: the value of the deleted node is returned.
DequeuedOld(t) == value[h[t]]

Dequeued(t) == value[n[t]]

\* m = n->value, also a read of a node that may be gone; return true.
DequeueValue(t) ==
  /\ pc[t] = "value"
  /\ got' = Append(got, Dequeued(t))
  /\ Return(t)
  /\ UNCHANGED <<head, tail, closed, allocated, value, next, order>>

Close == ~closed /\ closed' = TRUE
         /\ UNCHANGED <<head, tail, allocated, value, next, pc, h, n, order, got>>

Next ==
  \/ \E t \in Producers : (\E v \in Items : EnqueueNew(t, v)) \/ EnqueueExchange(t) \/ EnqueueLink(t)
  \/ \E t \in Consumers : \/ DequeueLoad(t) \/ DequeueNext(t) \/ DequeueEmpty(t)
                          \/ DequeueCas(t) \/ DequeueDelete(t) \/ DequeueValue(t)
  \/ Close

Spec == Init /\ [][Next]_vars

-----------------------------------------------------------------------------
Pointers == Nodes \cup {Null}

TypeOK ==
  /\ head \in Nodes /\ tail \in Nodes
  /\ closed \in BOOLEAN
  /\ allocated \subseteq Nodes
  /\ value \in [Nodes -> Items \cup {NoItem}]
  /\ next \in [Nodes -> Pointers]
  /\ pc \in [Threads -> {"idle", "exchange", "link", "retry", "next", "empty", "cas", "delete", "value"}]
  /\ h \in [Threads -> Pointers] /\ n \in [Threads -> Pointers]
  /\ order \in Seq(Items) /\ got \in Seq(Items \cup {NoItem})

\* The nodes the next step of a thread dereferences.
Touched(t) ==
  CASE pc[t] \in {"next", "delete"} -> {h[t]}
    [] pc[t] = "link"               -> {h[t], n[t]}
    [] pc[t] = "value"              -> {n[t]}
    [] OTHER                        -> {}

\* No thread is about to touch a node that has been deleted.
NoUseAfterFree == \A t \in Threads : Touched(t) \subseteq allocated

\* Items leave in the order in which the producers exchanged tail, each once.
FifoOrder == IsPrefix(got, order)
=============================================================================
