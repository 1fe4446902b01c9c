------------------------- MODULE MpmcQueueInvariant -------------------------
(***************************************************************************)
(* The inductive invariant of MpmcQueue with one consumer.  Node i of the  *)
(* list is the one that was exchanged into tail as the ith; node 0 is the  *)
(* dummy of the constructor.  A node is recognised by its value.           *)
(***************************************************************************)
EXTENDS MpmcQueue

\* At most one thread calls dequeue.
OneConsumer == \A t, u \in Consumers : t = u

At(l) == \E t \in Consumers : pc[t] \in l

\* The number of the node head points to.
FirstNode == Len(got) + (IF At({"delete", "value"}) THEN 1 ELSE 0)

\* The number of the oldest node that has not been deleted.
OldestNode == Len(got) + (IF At({"value"}) THEN 1 ELSE 0)

LastNode == Len(order)

ValueOf(i) == IF i = 0 THEN NoItem ELSE order[i]

IsNode(x, i) == x \in allocated /\ value[x] = ValueOf(i)

\* Producers are in enqueue, consumers in dequeue.
Roles ==
  /\ \A t \in Producers : pc[t] \in {"idle", "exchange", "link"}
  /\ \A t \in Consumers : pc[t] \notin {"exchange", "link"}

\* Values tell nodes apart: the allocated ones, and those of the list.
ValuesDiffer ==
  /\ \A x, y \in allocated : value[x] = value[y] => x = y
  /\ \A i, j \in OldestNode .. LastNode : ValueOf(i) = ValueOf(j) => i = j

\* Every node of the list is allocated, tail is the last one, and head the
\* first that is left after what has been dequeued.
Listed ==
  /\ FirstNode <= LastNode
  /\ \A i \in OldestNode .. LastNode : \E x \in allocated : IsNode(x, i)
  /\ IsNode(head, FirstNode) /\ IsNode(tail, LastNode)
  /\ \A i \in 1 .. Len(got) : got[i] = order[i]

\* A node's next is the next node of the list, or not linked yet.
Linked ==
  \A x \in allocated : \A i \in OldestNode .. LastNode :
    IsNode(x, i) /\ next[x] # Null => i < LastNode /\ IsNode(next[x], i + 1)

\* A producer's new node is its own and has no successor until the exchange.
Exchanging ==
  \A t \in Producers : pc[t] = "exchange" =>
    /\ n[t] \in allocated /\ value[n[t]] \in Items /\ next[n[t]] = Null
    /\ \A i \in 1 .. LastNode : value[n[t]] # order[i]
    /\ \A i \in OldestNode .. LastNode : value[n[t]] # ValueOf(i)
    /\ \A u \in Producers : pc[u] = "exchange" /\ n[u] = n[t] => u = t

\* Between exchange and link the predecessor is on the list, not before head,
\* and no other producer links it.
Linking ==
  \A t \in Producers : pc[t] = "link" =>
    /\ next[h[t]] = Null
    /\ \E i \in FirstNode .. LastNode - 1 : IsNode(h[t], i) /\ IsNode(n[t], i + 1)
    /\ \A u \in Producers : pc[u] = "link" /\ h[u] = h[t] => u = t

\* What the one consumer has read still holds.
Dequeueing ==
  \A t \in Consumers :
    /\ pc[t] \in {"next", "cas"} => h[t] = head
    /\ pc[t] = "cas" => n[t] = next[head] /\ n[t] # Null
    /\ pc[t] = "delete" => IsNode(h[t], Len(got))
    /\ pc[t] \in {"delete", "value"} => n[t] = head

ListInv ==
  /\ TypeOK
  /\ Roles
  /\ ValuesDiffer
  /\ Listed
  /\ Linked
  /\ Exchanging
  /\ Linking
  /\ Dequeueing
=============================================================================
