-------------------------- MODULE MpmcQueueProofs --------------------------
(***************************************************************************)
(* The linked queue with one consumer is safe and first in, first out, for *)
(* any number of producers, items and nodes.                               *)
(***************************************************************************)
EXTENDS MpmcQueueInvariant, SequenceTheorems, TLAPS

-----------------------------------------------------------------------------
(* What the invariant says of the values. *)

Labels == {"idle", "exchange", "link", "retry", "next", "empty", "cas", "delete", "value"}

LEMMA TypeFacts ==
  ASSUME TypeOK
  PROVE  /\ head \in Nodes /\ tail \in Nodes /\ allocated \subseteq Nodes
         /\ Null \notin Nodes /\ Nodes \subseteq Pointers /\ Null \in Pointers
         /\ order \in Seq(Items) /\ got \in Seq(Items \cup {NoItem})
         /\ Len(order) \in Nat /\ Len(got) \in Nat
         /\ value \in [Nodes -> Items \cup {NoItem}] /\ next \in [Nodes -> Pointers]
         /\ pc \in [Threads -> Labels] /\ h \in [Threads -> Pointers] /\ n \in [Threads -> Pointers]
         /\ \A x \in Nodes : value[x] \in Items \cup {NoItem} /\ next[x] \in Pointers
         /\ \A x \in Pointers : x # Null => x \in Nodes
         /\ Producers \subseteq Threads /\ Consumers \subseteq Threads
         /\ \A t \in Threads : h[t] \in Pointers /\ n[t] \in Pointers /\ pc[t] \in Labels
<1>1. Len(order) \in Nat /\ Len(got) \in Nat
  BY LenProperties DEF TypeOK
<1>2. Null \notin Nodes /\ Nodes \subseteq Pointers /\ Null \in Pointers
      /\ \A x \in Pointers : x # Null => x \in Nodes
  BY NodesAssumption DEF Null, Nodes, Pointers
<1>3. Producers \subseteq Threads /\ Consumers \subseteq Threads
  BY DEF Threads
<1>4. QED
  BY <1>1, <1>2, <1>3 DEF TypeOK, Labels

LEMMA TypesGivenNext ==
  ASSUME head' \in Nodes, tail' \in Nodes, closed' \in BOOLEAN, allocated' \subseteq Nodes,
         value' \in [Nodes -> Items \cup {NoItem}], next' \in [Nodes -> Pointers],
         pc' \in [Threads -> Labels], h' \in [Threads -> Pointers],
         n' \in [Threads -> Pointers],
         order' \in Seq(Items), got' \in Seq(Items \cup {NoItem})
  PROVE  TypeOK'
  BY DEF TypeOK, Labels

\* The order of the list's ends.
LEMMA RangeFacts ==
  ASSUME ListInv
  PROVE  /\ FirstNode \in Nat /\ OldestNode \in Nat /\ LastNode \in Nat
         /\ OldestNode <= FirstNode /\ FirstNode <= LastNode
         /\ FirstNode \in OldestNode .. LastNode /\ LastNode \in OldestNode .. LastNode
         /\ FirstNode <= OldestNode + 1
<1>1. Len(order) \in Nat /\ Len(got) \in Nat
  BY TypeFacts DEF ListInv
<1>2. FirstNode \in Nat /\ OldestNode \in Nat /\ LastNode \in Nat /\ OldestNode <= FirstNode
      /\ FirstNode <= OldestNode + 1
  BY <1>1 DEF FirstNode, OldestNode, LastNode, At
<1>3. FirstNode <= LastNode
  BY DEF ListInv, Listed
<1>4. QED
  BY <1>2, <1>3

\* A node has one number.
LEMMA OneNumber ==
  ASSUME ListInv, NEW x, NEW i \in OldestNode .. LastNode, NEW j \in OldestNode .. LastNode,
         IsNode(x, i), IsNode(x, j)
  PROVE  i = j
  BY DEF ListInv, ValuesDiffer, IsNode

\* A number has one node.
LEMMA OneNode ==
  ASSUME ListInv, NEW i, NEW x, NEW y, IsNode(x, i), IsNode(y, i)
  PROVE  x = y
  BY DEF ListInv, ValuesDiffer, IsNode

\* With one consumer its pc says where the list begins.
LEMMA ConsumerEnds ==
  ASSUME OneConsumer, NEW t \in Consumers
  PROVE  /\ FirstNode = Len(got) + (IF pc[t] \in {"delete", "value"} THEN 1 ELSE 0)
         /\ OldestNode = Len(got) + (IF pc[t] = "value" THEN 1 ELSE 0)
         /\ FirstNode' = Len(got') + (IF pc'[t] \in {"delete", "value"} THEN 1 ELSE 0)
         /\ OldestNode' = Len(got') + (IF pc'[t] = "value" THEN 1 ELSE 0)
<1>1. \A u \in Consumers : u = t
  BY DEF OneConsumer
<1>2. /\ At({"delete", "value"}) <=> pc[t] \in {"delete", "value"}
      /\ At({"value"}) <=> pc[t] = "value"
      /\ At({"delete", "value"})' <=> pc'[t] \in {"delete", "value"}
      /\ At({"value"})' <=> pc'[t] = "value"
  BY <1>1 DEF At
<1>3. QED
  BY <1>2 DEF FirstNode, OldestNode

\* A step of a producer leaves the beginning of the list alone.
LEMMA ProducerEnds ==
  ASSUME UNCHANGED got, \A u \in Consumers : pc'[u] = pc[u]
  PROVE  FirstNode' = FirstNode /\ OldestNode' = OldestNode
<1>1. At({"delete", "value"})' <=> At({"delete", "value"})
  BY DEF At
<1>2. At({"value"})' <=> At({"value"})
  BY DEF At
<1>3. QED
  BY <1>1, <1>2 DEF FirstNode, OldestNode

LEMMA Initial ==
  ASSUME Init
  PROVE  ListInv
<1> USE DEF Init
<1>1. 1 \in Nodes /\ Len(order) = 0 /\ Len(got) = 0
  BY NodesAssumption DEF Nodes
<1>2. TypeOK
  BY <1>1, EmptySeq DEF TypeOK, Pointers
<1>3. /\ Roles /\ Exchanging /\ Linking /\ Dequeueing
  BY DEF Roles, Exchanging, Linking, Dequeueing, Threads
<1>4. FirstNode = 0 /\ OldestNode = 0 /\ LastNode = 0
  <2>1. ~At({"delete", "value"}) /\ ~At({"value"})
    BY DEF At, Threads
  <2>2. QED
    BY <1>1, <2>1 DEF FirstNode, OldestNode, LastNode
<1>5. \A i \in OldestNode .. LastNode : i = 0 /\ ValueOf(i) = NoItem
  BY <1>4 DEF ValueOf
<1>6. ValueOf(0) = NoItem /\ value[1] = NoItem
  BY <1>1 DEF ValueOf
<1>7. ValuesDiffer
  BY <1>5 DEF ValuesDiffer
<1>8. Listed
  BY <1>1, <1>4, <1>5, <1>6 DEF Listed, IsNode
<1>9. Linked
  BY <1>1 DEF Linked
<1>10. QED
  BY <1>2, <1>3, <1>7, <1>8, <1>9 DEF ListInv

-----------------------------------------------------------------------------
(* enqueue *)

\* The steps of enqueue move one producer.
LEMMA OtherThreads ==
  ASSUME ListInv, NEW t \in Producers, NEW l \in {"idle", "exchange", "link"},
         pc' = [pc EXCEPT ![t] = l]
  PROVE  /\ pc'[t] = l /\ \A u \in Threads \ {t} : pc'[u] = pc[u]
         /\ \A u \in Consumers : u # t /\ pc'[u] = pc[u]
         /\ pc' \in [Threads -> Labels] /\ Roles' /\ t \in Threads
<1>1. pc \in [Threads -> Labels] /\ t \in Threads
  BY TypeFacts DEF ListInv
<1>2. \A u \in Consumers : u # t /\ u \in Threads
  BY NodesAssumption DEF Threads
<1>3. pc'[t] = l /\ \A u \in Threads \ {t} : pc'[u] = pc[u]
  BY <1>1
<1>4. pc' \in [Threads -> Labels]
  BY <1>1 DEF Labels
<1>5. Roles'
  BY <1>1, <1>2, <1>3 DEF ListInv, Roles, Threads
<1>6. QED
  BY <1>1, <1>2, <1>3, <1>4, <1>5

LEMMA EnqueueNewPreserves ==
  ASSUME ListInv, NEW t \in Producers, NEW v \in Items, EnqueueNew(t, v)
  PROVE  ListInv'
<1> USE DEF ListInv
<1>1. PICK x \in Nodes \ allocated :
        /\ allocated' = allocated \cup {x}
        /\ value' = [value EXCEPT ![x] = v]
        /\ next' = [next EXCEPT ![x] = Null]
        /\ n' = [n EXCEPT ![t] = x]
  BY DEF EnqueueNew
<1>2. /\ pc[t] = "idle" /\ pc' = [pc EXCEPT ![t] = "exchange"]
      /\ UNCHANGED <<head, tail, closed, h, order, got>>
      /\ \A y \in allocated : value[y] # v
      /\ \A i \in DOMAIN order : order[i] # v
  BY DEF EnqueueNew, Goto
<1>3. /\ pc'[t] = "exchange" /\ \A u \in Threads \ {t} : pc'[u] = pc[u]
      /\ \A u \in Consumers : u # t /\ pc'[u] = pc[u]
      /\ pc' \in [Threads -> Labels] /\ Roles' /\ t \in Threads
  BY <1>2, OtherThreads
<1>4. FirstNode' = FirstNode /\ OldestNode' = OldestNode /\ LastNode' = LastNode
      /\ \A i : ValueOf(i)' = ValueOf(i)
  BY <1>2, <1>3, ProducerEnds DEF LastNode, ValueOf
<1>5. /\ value'[x] = v /\ next'[x] = Null /\ x \notin allocated
      /\ \A y \in allocated : y # x /\ y \in Nodes /\ value'[y] = value[y] /\ next'[y] = next[y]
  BY <1>1, TypeFacts
<1>6. n'[t] = x /\ \A u \in Threads \ {t} : n'[u] = n[u]
  BY <1>1, <1>3, TypeFacts
<1>7. TypeOK'
  <2>1. allocated' \subseteq Nodes /\ value' \in [Nodes -> Items \cup {NoItem}]
        /\ next' \in [Nodes -> Pointers] /\ n' \in [Threads -> Pointers]
    BY <1>1, TypeFacts
  <2>2. QED
    BY <1>2, <1>3, <2>1, TypeFacts, TypesGivenNext DEF TypeOK
<1>8. \A i \in OldestNode .. LastNode : v # ValueOf(i)
  BY <1>2 DEF Listed, IsNode
<1>9. \A y : \A i \in OldestNode .. LastNode : IsNode(y, i)' <=> IsNode(y, i)
  BY <1>1, <1>4, <1>5, <1>8 DEF IsNode
<1>10. ValuesDiffer'
  BY <1>1, <1>2, <1>4, <1>5 DEF ValuesDiffer
<1>11. Listed'
  <2>1. IsNode(head, FirstNode)' /\ IsNode(tail, LastNode)'
    BY <1>2, <1>4, <1>9, RangeFacts DEF Listed, IsNode
  <2>2. \A i \in OldestNode .. LastNode : \E y \in allocated' : IsNode(y, i)'
    BY <1>1, <1>9 DEF Listed
  <2>3. QED
    BY <1>2, <1>4, <2>1, <2>2 DEF Listed
<1>12. Linked'
  <2>1. ASSUME NEW y \in allocated', NEW i \in OldestNode .. LastNode, IsNode(y, i)',
               next'[y] # Null
        PROVE  i < LastNode /\ next'[y] \in allocated' /\ value'[next'[y]] = ValueOf(i + 1)
    <3>1. IsNode(y, i) /\ y \in allocated
      BY <1>9, <2>1 DEF IsNode
    <3>2. i < LastNode /\ IsNode(next[y], i + 1) /\ next'[y] = next[y]
      BY <1>5, <2>1, <3>1 DEF Linked
    <3>3. QED
      BY <1>1, <1>5, <3>2 DEF IsNode
  <2>2. QED
    BY <1>4, <2>1 DEF Linked, IsNode
<1>13. Exchanging'
  <2>1. ASSUME NEW u \in Producers, pc'[u] = "exchange"
        PROVE  /\ n'[u] \in allocated' /\ value'[n'[u]] \in Items /\ next'[n'[u]] = Null
               /\ \A i \in 1 .. LastNode : value'[n'[u]] # order[i]
               /\ \A i \in OldestNode .. LastNode : value'[n'[u]] # ValueOf(i)
               /\ \A w \in Producers : pc'[w] = "exchange" /\ n'[w] = n'[u] => w = u
    <3>1. \A w \in Producers \ {t} : pc'[w] = "exchange" =>
            n'[w] = n[w] /\ n[w] \in allocated /\ pc[w] = "exchange" /\ w \in Threads
      BY <1>3, <1>6, TypeFacts DEF Exchanging
    <3>2. CASE u = t
      <4>1. DOMAIN order = 1 .. LastNode
        BY TypeFacts, LenProperties DEF LastNode
      <4>2. \A w \in Producers : pc'[w] = "exchange" /\ n'[w] = n'[u] => w = u
        BY <1>5, <1>6, <3>1, <3>2
      <4>3. QED
        BY <1>1, <1>2, <1>5, <1>6, <1>8, <3>2, <4>1, <4>2
    <3>3. CASE u # t
      <4>1. /\ n[u] \in allocated /\ value[n[u]] \in Items /\ next[n[u]] = Null
            /\ \A i \in 1 .. LastNode : value[n[u]] # order[i]
            /\ \A i \in OldestNode .. LastNode : value[n[u]] # ValueOf(i)
            /\ \A w \in Producers : pc[w] = "exchange" /\ n[w] = n[u] => w = u
            /\ n'[u] = n[u]
        BY <2>1, <3>1, <3>3 DEF Exchanging
      <4>2. \A w \in Producers : pc'[w] = "exchange" /\ n'[w] = n'[u] => w = u
        BY <1>5, <1>6, <3>1, <4>1
      <4>3. QED
        BY <1>1, <1>5, <4>1, <4>2
    <3>4. QED
      BY <3>2, <3>3
  <2>2. QED
    BY <1>2, <1>4, <2>1 DEF Exchanging
<1>14. Linking'
  <2>1. ASSUME NEW u \in Producers, pc'[u] = "link"
        PROVE  /\ next'[h[u]] = Null
               /\ \E i \in FirstNode .. LastNode - 1 : IsNode(h[u], i)' /\ IsNode(n[u], i + 1)'
               /\ \A w \in Producers : pc'[w] = "link" /\ h[w] = h[u] => w = u
               /\ n'[u] = n[u]
    <3>1. \A w \in Producers : pc'[w] = "link" => w # t /\ w \in Threads /\ pc[w] = "link"
      BY <1>3, TypeFacts
    <3>2. next[h[u]] = Null /\ \A w \in Producers : pc[w] = "link" /\ h[w] = h[u] => w = u
      BY <2>1, <3>1 DEF Linking
    <3>3. PICK i \in FirstNode .. LastNode - 1 : IsNode(h[u], i) /\ IsNode(n[u], i + 1)
      BY <2>1, <3>1 DEF Linking
    <3>4. i \in OldestNode .. LastNode /\ i + 1 \in OldestNode .. LastNode
      BY RangeFacts
    <3>5. IsNode(h[u], i)' /\ IsNode(n[u], i + 1)'
      <4>1. \A y : \A j \in OldestNode .. LastNode : IsNode(y, j) =>
              y \in allocated' /\ value'[y] = ValueOf(j)
        BY <1>1, <1>5 DEF IsNode
      <4>2. n'[u] = n[u] /\ h' = h
        BY <1>2, <1>6, <2>1, <3>1
      <4>3. QED
        BY <1>4, <3>3, <3>4, <4>1, <4>2 DEF IsNode
    <3>6. next'[h[u]] = Null
      BY <1>5, <3>2, <3>3 DEF IsNode
    <3>7. QED
      BY <1>6, <2>1, <3>1, <3>2, <3>5, <3>6
  <2>2. QED
    BY <1>2, <1>4, <2>1 DEF Linking
<1>15. Dequeueing'
  <2>1. ASSUME NEW u \in Consumers
        PROVE  /\ pc[u] = "cas" => n[u] = next'[head] /\ n[u] # Null
               /\ pc[u] = "delete" => h[u] \in allocated' /\ value'[h[u]] = ValueOf(Len(got))
    BY <1>1, <1>5 DEF Dequeueing, Listed, IsNode
  <2>2. \A u \in Consumers : pc'[u] = pc[u] /\ n'[u] = n[u] /\ h'[u] = h[u]
    BY <1>2, <1>3, <1>6, TypeFacts
  <2>3. QED
    BY <1>2, <1>4, <2>1, <2>2 DEF Dequeueing, IsNode
<1>16. QED
  BY <1>3, <1>7, <1>10, <1>11, <1>12, <1>13, <1>14, <1>15

LEMMA EnqueueExchangePreserves ==
  ASSUME ListInv, NEW t \in Producers, EnqueueExchange(t)
  PROVE  ListInv'
<1> USE DEF ListInv
<1> DEFINE NewValue(i) == IF i = 0 THEN NoItem ELSE order'[i]
           NewNode(y, i) == y \in allocated /\ value[y] = NewValue(i)
<1>1. /\ pc[t] = "exchange" /\ h' = [h EXCEPT ![t] = tail] /\ tail' = n[t]
      /\ order' = Append(order, value[n[t]]) /\ pc' = [pc EXCEPT ![t] = "link"]
      /\ UNCHANGED <<head, closed, allocated, value, next, n, got>>
  BY DEF EnqueueExchange, Goto
<1>2. /\ pc'[t] = "link" /\ \A u \in Threads \ {t} : pc'[u] = pc[u]
      /\ \A u \in Consumers : u # t /\ pc'[u] = pc[u]
      /\ pc' \in [Threads -> Labels] /\ Roles' /\ t \in Threads
  BY <1>1, OtherThreads
<1>3. /\ n[t] \in allocated /\ value[n[t]] \in Items /\ next[n[t]] = Null
      /\ \A i \in 1 .. LastNode : value[n[t]] # order[i]
      /\ \A i \in OldestNode .. LastNode : value[n[t]] # ValueOf(i)
      /\ \A u \in Producers : pc[u] = "exchange" /\ n[u] = n[t] => u = t
  BY <1>1 DEF Exchanging
<1>4. FirstNode' = FirstNode /\ OldestNode' = OldestNode
  BY <1>1, <1>2, ProducerEnds
<1>5. /\ LastNode' = LastNode + 1 /\ order' \in Seq(Items)
      /\ \A i \in 1 .. LastNode : order'[i] = order[i]
      /\ order'[LastNode + 1] = value[n[t]]
  BY <1>1, <1>3, TypeFacts, AppendProperties DEF LastNode
<1>6. /\ FirstNode \in Nat /\ OldestNode \in Nat /\ LastNode \in Nat
      /\ OldestNode <= FirstNode /\ FirstNode <= LastNode
  BY RangeFacts
<1>7. \A i \in OldestNode .. LastNode : NewValue(i) = ValueOf(i)
  BY <1>5, <1>6 DEF ValueOf
<1>8. NewValue(LastNode + 1) = value[n[t]]
  BY <1>5, <1>6 DEF ValueOf
<1>9. h'[t] = tail /\ \A u \in Threads \ {t} : h'[u] = h[u]
  BY <1>1, <1>2, TypeFacts
<1>10. TypeOK'
  <2>1. tail' \in Nodes /\ h' \in [Threads -> Pointers]
    BY <1>1, <1>3, TypeFacts
  <2>2. QED
    BY <1>1, <1>2, <1>5, <2>1, TypeFacts, TypesGivenNext DEF TypeOK
<1>11. \A i \in OldestNode .. LastNode + 1 : i \in OldestNode .. LastNode \/ i = LastNode + 1
  BY <1>6
<1>12. ValuesDiffer'
  <2>1. ASSUME NEW i \in OldestNode .. LastNode + 1, NEW j \in OldestNode .. LastNode + 1,
               NewValue(i) = NewValue(j)
        PROVE  i = j
    BY <1>3, <1>7, <1>8, <1>11, <2>1 DEF ValuesDiffer
  <2>2. QED
    BY <1>1, <1>4, <1>5, <2>1 DEF ValuesDiffer, ValueOf
<1>13. \A y : \A i \in OldestNode .. LastNode : NewNode(y, i) <=> IsNode(y, i)
  BY <1>1, <1>7 DEF IsNode
<1>14. \A y : NewNode(y, LastNode + 1) <=> y = n[t]
  BY <1>1, <1>3, <1>8 DEF IsNode, ValuesDiffer
<1>15. Listed'
  <2>1. NewNode(head, FirstNode)
    BY <1>6, <1>13 DEF Listed
  <2>2. NewNode(n[t], LastNode + 1)
    BY <1>14
  <2>3. \A i \in OldestNode .. LastNode + 1 : \E y \in allocated : NewNode(y, i)
    BY <1>3, <1>11, <1>13, <1>14 DEF Listed
  <2>4. \A i \in 1 .. Len(got) : i \in 1 .. LastNode
    <3>1. Len(got) <= LastNode
      BY <1>6, TypeFacts DEF OldestNode
    <3>2. QED
      BY <1>6, <3>1, TypeFacts
  <2>5. \A i \in 1 .. Len(got) : got[i] = order'[i]
    BY <1>5, <2>4 DEF Listed
  <2>6. FirstNode <= LastNode + 1
    BY <1>6
  <2>7. QED
    <3>1. /\ (FirstNode <= LastNode)' /\ \A i \in 1 .. Len(got') : got'[i] = order'[i]
      BY <1>1, <1>4, <1>5, <2>5, <2>6
    <3>2. IsNode(head, FirstNode)' /\ IsNode(tail, LastNode)'
      BY <1>1, <1>4, <1>5, <2>1, <2>2 DEF IsNode, ValueOf
    <3>3. \A i \in OldestNode' .. LastNode' : \E y \in allocated' : IsNode(y, i)'
      BY <1>1, <1>4, <1>5, <2>3 DEF IsNode, ValueOf
    <3>4. QED
      BY <3>1, <3>2, <3>3 DEF Listed
<1>16. Linked'
  <2>1. ASSUME NEW y \in allocated, NEW i \in OldestNode .. LastNode + 1, NewNode(y, i),
               next[y] # Null
        PROVE  i < LastNode + 1 /\ next[y] \in allocated /\ value[next[y]] = NewValue(i + 1)
    <3>1. CASE i \in OldestNode .. LastNode
      <4>1. i < LastNode /\ IsNode(next[y], i + 1)
        BY <1>13, <2>1, <3>1 DEF Linked
      <4>2. i + 1 \in OldestNode .. LastNode /\ i < LastNode + 1
        BY <1>6, <3>1, <4>1
      <4>3. QED
        BY <1>7, <4>1, <4>2 DEF IsNode
    <3>2. CASE i = LastNode + 1
      BY <1>3, <1>14, <2>1, <3>2
    <3>3. QED
      BY <1>11, <3>1, <3>2
  <2>2. QED
    BY <1>1, <1>4, <1>5, <2>1 DEF Linked, IsNode, ValueOf
<1>17. Exchanging'
  <2>1. ASSUME NEW u \in Producers, pc'[u] = "exchange"
        PROVE  /\ n[u] \in allocated /\ value[n[u]] \in Items /\ next[n[u]] = Null
               /\ \A i \in 1 .. LastNode + 1 : value[n[u]] # order'[i]
               /\ \A i \in OldestNode .. LastNode + 1 : value[n[u]] # NewValue(i)
               /\ \A w \in Producers : pc'[w] = "exchange" /\ n[w] = n[u] => w = u
    <3>1. \A w \in Producers : pc'[w] = "exchange" => w # t /\ pc[w] = "exchange"
      BY <1>2, TypeFacts
    <3>2. /\ n[u] \in allocated /\ value[n[u]] \in Items /\ next[n[u]] = Null
          /\ \A i \in 1 .. LastNode : value[n[u]] # order[i]
          /\ \A i \in OldestNode .. LastNode : value[n[u]] # ValueOf(i)
          /\ \A w \in Producers : pc[w] = "exchange" /\ n[w] = n[u] => w = u
      BY <2>1, <3>1 DEF Exchanging
    <3>3. value[n[u]] # value[n[t]]
      BY <1>3, <2>1, <3>1, <3>2 DEF ValuesDiffer
    <3>4. ASSUME NEW i \in 1 .. LastNode + 1 PROVE value[n[u]] # order'[i]
      <4>1. CASE i \in 1 .. LastNode
        BY <1>5, <3>2, <4>1
      <4>2. CASE i = LastNode + 1
        BY <1>5, <3>3, <4>2
      <4>3. QED
        BY <1>6, <4>1, <4>2
    <3>5. ASSUME NEW i \in OldestNode .. LastNode + 1 PROVE value[n[u]] # NewValue(i)
      BY <1>7, <1>8, <1>11, <3>2, <3>3
    <3>6. QED
      BY <3>1, <3>2, <3>4, <3>5
  <2>2. QED
    BY <1>1, <1>4, <1>5, <2>1, ZenonT(60) DEF Exchanging, ValueOf
<1>18. Linking'
  <2>1. IsNode(tail, LastNode) /\ LastNode \in OldestNode .. LastNode
    BY <1>6 DEF Listed
  <2>2. ASSUME NEW u \in Producers, pc[u] = "link" PROVE h[u] # tail
    <3>1. PICK i \in FirstNode .. LastNode - 1 : IsNode(h[u], i)
      BY <2>2 DEF Linking
    <3>2. i \in OldestNode .. LastNode /\ i # LastNode
      BY <1>6
    <3>3. QED
      BY <2>1, <3>1, <3>2, OneNumber
  <2>3. ASSUME NEW u \in Producers, pc'[u] = "link"
        PROVE  /\ next[h'[u]] = Null
               /\ \E i \in FirstNode .. LastNode : NewNode(h'[u], i) /\ NewNode(n[u], i + 1)
               /\ \A w \in Producers : pc'[w] = "link" /\ h'[w] = h'[u] => w = u
    <3>1. \A w \in Producers \ {t} : pc'[w] = "link" =>
            pc[w] = "link" /\ h'[w] = h[w] /\ h[w] # tail
      BY <1>2, <1>9, <2>2, TypeFacts
    <3>2. CASE u = t
      <4>1. next[tail] = Null
        <5>1. tail \in allocated
          BY <2>1 DEF IsNode
        <5>2. QED
          BY <1>6, <2>1, <5>1 DEF Linked
      <4>2. NewNode(h'[u], LastNode)
        BY <1>9, <1>13, <2>1, <3>2
      <4>3. NewNode(n[u], LastNode + 1)
        BY <1>14, <3>2
      <4>4. LastNode \in FirstNode .. LastNode
        BY <1>6
      <4>5. \A w \in Producers : pc'[w] = "link" /\ h'[w] = h'[u] => w = u
        BY <1>9, <3>1, <3>2
      <4>6. QED
        BY <1>9, <3>2, <4>1, <4>2, <4>3, <4>4, <4>5
    <3>3. CASE u # t
      <4>1. /\ next[h[u]] = Null /\ h'[u] = h[u]
            /\ \A w \in Producers : pc[w] = "link" /\ h[w] = h[u] => w = u
        BY <2>3, <3>1, <3>3 DEF Linking
      <4>2. PICK i \in FirstNode .. LastNode - 1 : IsNode(h[u], i) /\ IsNode(n[u], i + 1)
        BY <2>3, <3>1, <3>3 DEF Linking
      <4>3. i \in OldestNode .. LastNode /\ i + 1 \in OldestNode .. LastNode /\ i \in FirstNode .. LastNode
        BY <1>6
      <4>4. NewNode(h'[u], i) /\ NewNode(n[u], i + 1)
        BY <1>13, <4>1, <4>2, <4>3
      <4>5. \A w \in Producers : pc'[w] = "link" /\ h'[w] = h'[u] => w = u
        BY <1>9, <2>3, <3>1, <3>3, <4>1
      <4>6. QED
        BY <4>1, <4>3, <4>4, <4>5
    <3>4. QED
      BY <3>2, <3>3
  <2>4. FirstNode' .. LastNode' - 1 = FirstNode .. LastNode
    BY <1>4, <1>5, <1>6
  <2>5. QED
    <3>1. \A y, i : NewNode(y, i) <=> y \in allocated' /\ value'[y] = IF i = 0 THEN NoItem ELSE order'[i]
      BY <1>1
    <3>2. ASSUME NEW u \in Producers, pc'[u] = "link"
          PROVE  \E i \in FirstNode' .. LastNode' - 1 : IsNode(h[u], i)' /\ IsNode(n[u], i + 1)'
      <4>1. PICK i \in FirstNode' .. LastNode' - 1 : NewNode(h'[u], i) /\ NewNode(n[u], i + 1)
        BY <2>3, <2>4, <3>2
      <4>2. IsNode(h[u], i)' /\ IsNode(n[u], i + 1)'
        BY <1>1, <3>1, <4>1 DEF IsNode, ValueOf
      <4>3. QED
        BY <4>2
    <3>3. QED
      BY <1>1, <2>3, <3>2 DEF Linking
<1>19. Dequeueing'
  <2>1. ASSUME NEW u \in Consumers
        PROVE  pc[u] = "delete" => h[u] \in allocated /\ value[h[u]] = NewValue(Len(got))
    <3>1. pc[u] = "delete" => IsNode(h[u], Len(got)) /\ Len(got) \in Nat
      BY TypeFacts DEF Dequeueing
    <3>2. Len(got) \in 0 .. LastNode /\ Len(got) \in Nat
      BY <1>6, TypeFacts DEF OldestNode
    <3>3. NewValue(Len(got)) = ValueOf(Len(got))
      BY <1>5, <3>2 DEF ValueOf
    <3>4. QED
      BY <3>1, <3>3 DEF IsNode
  <2>2. \A u \in Consumers : pc'[u] = pc[u] /\ n'[u] = n[u] /\ h'[u] = h[u]
    BY <1>1, <1>2, <1>9, TypeFacts
  <2>3. QED
    <3>1. ASSUME NEW u \in Consumers, pc[u] = "delete" PROVE IsNode(h[u], Len(got))'
      <4>1. h'[u] = h[u] /\ got' = got /\ allocated' = allocated /\ value' = value
        BY <1>1, <2>2
      <4>2. h[u] \in allocated /\ value[h[u]] = NewValue(Len(got))
        BY <2>1, <3>1
      <4>3. QED
        BY <4>1, <4>2 DEF IsNode, ValueOf
    <3>2. QED
      BY <1>1, <2>2, <3>1 DEF Dequeueing

<1>20. QED
  BY <1>2, <1>10, <1>12, <1>15, <1>16, <1>17, <1>18, <1>19

LEMMA EnqueueLinkPreserves ==
  ASSUME ListInv, NEW t \in Producers, EnqueueLink(t)
  PROVE  ListInv'
<1> USE DEF ListInv
<1>1. /\ pc[t] = "link" /\ next' = [next EXCEPT ![h[t]] = n[t]]
      /\ pc' = [pc EXCEPT ![t] = "idle"] /\ h' = [h EXCEPT ![t] = Null]
      /\ n' = [n EXCEPT ![t] = Null]
      /\ UNCHANGED <<head, tail, closed, allocated, value, order, got>>
  BY DEF EnqueueLink, Return, Goto
<1>2. /\ pc'[t] = "idle" /\ \A u \in Threads \ {t} : pc'[u] = pc[u]
      /\ \A u \in Consumers : u # t /\ pc'[u] = pc[u]
      /\ pc' \in [Threads -> Labels] /\ Roles' /\ t \in Threads
  BY <1>1, OtherThreads
<1>3. /\ FirstNode' = FirstNode /\ OldestNode' = OldestNode /\ LastNode' = LastNode
      /\ \A i : ValueOf(i)' = ValueOf(i)
  BY <1>1, <1>2, ProducerEnds DEF LastNode, ValueOf
<1>4. \A y, i : IsNode(y, i)' <=> y \in allocated /\ value[y] = ValueOf(i)
  BY <1>1, <1>3 DEF IsNode
<1>5. next[h[t]] = Null /\ \A u \in Producers : pc[u] = "link" /\ h[u] = h[t] => u = t
  BY <1>1 DEF Linking
<1>6. PICK k \in FirstNode .. LastNode - 1 : IsNode(h[t], k) /\ IsNode(n[t], k + 1)
  BY <1>1 DEF Linking
<1>7. k \in OldestNode .. LastNode /\ k < LastNode /\ h[t] \in allocated /\ n[t] \in allocated
  BY <1>6, RangeFacts DEF IsNode
<1>8. next'[h[t]] = n[t] /\ \A y \in Nodes : y # h[t] => next'[y] = next[y]
  BY <1>1, <1>7, TypeFacts
<1>9. \A u \in Threads \ {t} : h'[u] = h[u] /\ n'[u] = n[u]
  BY <1>1, <1>2, TypeFacts
<1>10. TypeOK'
  <2>1. next' \in [Nodes -> Pointers] /\ h' \in [Threads -> Pointers] /\ n' \in [Threads -> Pointers]
    BY <1>1, <1>7, TypeFacts
  <2>2. QED
    BY <1>1, <1>2, <2>1, TypeFacts, TypesGivenNext DEF TypeOK
<1>11. ValuesDiffer'
  BY <1>1, <1>3 DEF ValuesDiffer
<1>12. Listed'
  BY <1>1, <1>3 DEF Listed, IsNode
<1>13. Linked'
  <2>1. ASSUME NEW y \in allocated, NEW i \in OldestNode .. LastNode, IsNode(y, i),
               next'[y] # Null
        PROVE  i < LastNode /\ next'[y] \in allocated /\ value[next'[y]] = ValueOf(i + 1)
    <3>1. CASE y = h[t]
      <4>1. i = k
        BY <1>6, <1>7, <2>1, <3>1, OneNumber
      <4>2. QED
        BY <1>6, <1>7, <1>8, <3>1, <4>1 DEF IsNode
    <3>2. CASE y # h[t]
      <4>1. next'[y] = next[y]
        BY <1>8, <3>2, TypeFacts
      <4>2. QED
        BY <2>1, <4>1 DEF Linked, IsNode
    <3>3. QED
      BY <3>1, <3>2
  <2>2. QED
    BY <1>1, <1>3, <2>1 DEF Linked, IsNode
<1>14. Exchanging'
  <2>1. ASSUME NEW u \in Producers, pc'[u] = "exchange"
        PROVE  /\ n'[u] = n[u] /\ pc[u] = "exchange" /\ next'[n[u]] = Null
               /\ \A w \in Producers : pc'[w] = "exchange" => n'[w] = n[w] /\ pc[w] = "exchange"
    <3>1. \A w \in Producers : pc'[w] = "exchange" => n'[w] = n[w] /\ pc[w] = "exchange"
      BY <1>2, <1>9, TypeFacts
    <3>2. /\ n[u] \in allocated /\ next[n[u]] = Null
          /\ \A i \in OldestNode .. LastNode : value[n[u]] # ValueOf(i)
      BY <2>1, <3>1 DEF Exchanging
    <3>3. n[u] # h[t]
      BY <1>6, <1>7, <3>2 DEF IsNode
    <3>4. QED
      BY <1>8, <2>1, <3>1, <3>2, <3>3, TypeFacts
  <2>2. QED
    BY <1>1, <1>3, <2>1 DEF Exchanging
<1>15. Linking'
  <2>1. ASSUME NEW u \in Producers, pc'[u] = "link"
        PROVE  /\ h'[u] = h[u] /\ n'[u] = n[u] /\ pc[u] = "link" /\ next'[h[u]] = Null
               /\ \A w \in Producers : pc'[w] = "link" => h'[w] = h[w] /\ pc[w] = "link"
    <3>1. \A w \in Producers : pc'[w] = "link" =>
            w # t /\ h'[w] = h[w] /\ n'[w] = n[w] /\ pc[w] = "link"
      BY <1>2, <1>9, TypeFacts
    <3>2. next[h[u]] = Null /\ h[u] \in allocated /\ h[u] # h[t]
      BY <1>5, <2>1, <3>1 DEF Linking, IsNode
    <3>3. QED
      BY <1>8, <2>1, <3>1, <3>2, TypeFacts
  <2>2. QED
    BY <1>1, <1>3, <2>1 DEF Linking, IsNode
<1>16. Dequeueing'
  <2>1. ASSUME NEW u \in Consumers, pc[u] = "cas" PROVE next'[head] = next[head]
    <3>1. head # h[t] /\ head \in Nodes
      BY <1>5, <2>1, TypeFacts DEF Dequeueing
    <3>2. QED
      BY <1>8, <3>1
  <2>2. \A u \in Consumers : pc'[u] = pc[u] /\ n'[u] = n[u] /\ h'[u] = h[u]
    BY <1>2, <1>9, TypeFacts
  <2>3. QED
    BY <1>1, <1>3, <2>1, <2>2 DEF Dequeueing, IsNode
<1>17. QED
  BY <1>2, <1>10, <1>11, <1>12, <1>13, <1>14, <1>15, <1>16

-----------------------------------------------------------------------------
(* dequeue *)

\* The steps of dequeue move the consumer.
LEMMA OtherProducers ==
  ASSUME ListInv, NEW t \in Consumers, OneConsumer, NEW l \in Labels \ {"exchange", "link"},
         pc' = [pc EXCEPT ![t] = l]
  PROVE  /\ pc'[t] = l /\ t \in Threads
         /\ \A u \in Producers : u # t /\ u \in Threads /\ pc'[u] = pc[u]
         /\ \A u \in Consumers : u = t
         /\ pc' \in [Threads -> Labels] /\ Roles'
<1>1. pc \in [Threads -> Labels] /\ t \in Threads
  BY TypeFacts DEF ListInv
<1>2. \A u \in Producers : u # t /\ u \in Threads
  BY NodesAssumption DEF Threads
<1>3. \A u \in Consumers : u = t
  BY DEF OneConsumer
<1>4. pc'[t] = l /\ \A u \in Threads \ {t} : pc'[u] = pc[u]
  BY <1>1
<1>5. pc' \in [Threads -> Labels]
  BY <1>1
<1>6. Roles'
  BY <1>2, <1>3, <1>4 DEF ListInv, Roles
<1>7. QED
  BY <1>1, <1>2, <1>3, <1>4, <1>5, <1>6

\* A step of the consumer that only reads the list, outside delete and value.
LEMMA ReadingPreserves ==
  ASSUME ListInv, OneConsumer, NEW t \in Consumers,
         NEW l \in Labels \ {"exchange", "link", "delete", "value"},
         pc[t] \notin {"delete", "value"}, pc' = [pc EXCEPT ![t] = l],
         UNCHANGED <<head, tail, closed, allocated, value, next, order, got>>,
         h' \in [Threads -> Pointers], n' \in [Threads -> Pointers],
         \A u \in Threads \ {t} : h'[u] = h[u] /\ n'[u] = n[u],
         l \in {"next", "cas"} => h'[t] = head,
         l = "cas" => n'[t] = next[head] /\ n'[t] # Null
  PROVE  ListInv'
<1> USE DEF ListInv
<1>1. /\ pc'[t] = l /\ t \in Threads
      /\ \A u \in Producers : u # t /\ u \in Threads /\ pc'[u] = pc[u]
      /\ \A u \in Consumers : u = t
      /\ pc' \in [Threads -> Labels] /\ Roles'
  BY OtherProducers
<1>2. \A u \in Producers : pc'[u] = pc[u] /\ h'[u] = h[u] /\ n'[u] = n[u]
  BY <1>1
<1>3. /\ FirstNode' = FirstNode /\ OldestNode' = OldestNode /\ LastNode' = LastNode
      /\ \A i : ValueOf(i)' = ValueOf(i)
  BY <1>1, ConsumerEnds DEF LastNode, ValueOf
<1>4. TypeOK'
  BY <1>1, TypeFacts, TypesGivenNext DEF TypeOK
<1>5. ValuesDiffer' /\ Listed' /\ Linked'
  BY <1>3 DEF ValuesDiffer, Listed, Linked, IsNode
<1>6. Exchanging'
  BY <1>2, <1>3 DEF Exchanging
<1>7. Linking'
  BY <1>2, <1>3 DEF Linking, IsNode
<1>8. Dequeueing'
  BY <1>1 DEF Dequeueing
<1>9. QED
  BY <1>1, <1>4, <1>5, <1>6, <1>7, <1>8

LEMMA DequeueReadsPreserve ==
  ASSUME ListInv, OneConsumer, NEW t \in Consumers,
         DequeueLoad(t) \/ DequeueNext(t) \/ DequeueEmpty(t)
  PROVE  ListInv'
<1> USE DEF ListInv
<1>1. t \in Threads /\ Null \in Pointers /\ head \in Pointers
      /\ h \in [Threads -> Pointers] /\ n \in [Threads -> Pointers]
  BY TypeFacts
<1>2. CASE DequeueLoad(t)
  <2>1. h' = [h EXCEPT ![t] = head] /\ n' = n /\ pc' = [pc EXCEPT ![t] = "next"]
        /\ pc[t] \in {"idle", "retry"}
        /\ UNCHANGED <<head, tail, closed, allocated, value, next, order, got>>
    BY <1>2 DEF DequeueLoad, Goto
  <2>2. "next" \in Labels \ {"exchange", "link", "delete", "value"}
    BY DEF Labels
  <2>3. h' \in [Threads -> Pointers] /\ n' \in [Threads -> Pointers] /\ h'[t] = head
        /\ \A u \in Threads \ {t} : h'[u] = h[u] /\ n'[u] = n[u]
    BY <1>1, <2>1
  <2>4. QED
    BY <2>1, <2>2, <2>3, ReadingPreserves
<1>3. CASE DequeueNext(t)
  <2>1. h' = h /\ n' = [n EXCEPT ![t] = next[h[t]]] /\ pc' = [pc EXCEPT ![t] = AfterNext(t)]
        /\ pc[t] = "next" /\ UNCHANGED <<head, tail, closed, allocated, value, next, order, got>>
    BY <1>3 DEF DequeueNext, Goto
  <2>2. AfterNext(t) \in Labels \ {"exchange", "link", "delete", "value"}
    BY DEF Labels, AfterNext
  <2>3. h[t] = head /\ next[head] \in Pointers
    BY <2>1, TypeFacts DEF Dequeueing
  <2>4. h' \in [Threads -> Pointers] /\ n' \in [Threads -> Pointers] /\ n'[t] = next[head]
        /\ h'[t] = head /\ \A u \in Threads \ {t} : h'[u] = h[u] /\ n'[u] = n[u]
    BY <1>1, <2>1, <2>3
  <2>5. AfterNext(t) = "cas" => next[head] # Null
    BY <2>3 DEF AfterNext
  <2>6. QED
    BY <2>1, <2>2, <2>4, <2>5, ReadingPreserves
<1>4. CASE DequeueEmpty(t)
  <2>1. PICK l \in {"idle", "retry"} :
          /\ pc' = [pc EXCEPT ![t] = l]
          /\ \/ h' = [h EXCEPT ![t] = Null] /\ n' = [n EXCEPT ![t] = Null]
             \/ UNCHANGED <<h, n>>
    BY <1>4 DEF DequeueEmpty, Return, Goto
  <2>2. pc[t] = "empty" /\ UNCHANGED <<head, tail, closed, allocated, value, next, order, got>>
    BY <1>4 DEF DequeueEmpty
  <2>3. l \in Labels \ {"exchange", "link", "delete", "value"} /\ l \notin {"next", "cas"}
    BY DEF Labels
  <2>4. h' \in [Threads -> Pointers] /\ n' \in [Threads -> Pointers]
        /\ \A u \in Threads \ {t} : h'[u] = h[u] /\ n'[u] = n[u]
    BY <1>1, <2>1
  <2>5. QED
    BY <2>1, <2>2, <2>3, <2>4, ReadingPreserves
<1>5. QED
  BY <1>2, <1>3, <1>4

LEMMA DequeueCasPreserves ==
  ASSUME ListInv, OneConsumer, NEW t \in Consumers, DequeueCas(t)
  PROVE  ListInv'
<1> USE DEF ListInv
<1>1. pc[t] = "cas" /\ h[t] = head /\ n[t] = next[head] /\ n[t] # Null
  BY DEF DequeueCas, Dequeueing
<1>2. /\ head' = n[t] /\ pc' = [pc EXCEPT ![t] = "delete"]
      /\ UNCHANGED <<tail, closed, allocated, value, next, h, n, order, got>>
  BY <1>1 DEF DequeueCas, Goto
<1>3. /\ pc'[t] = "delete" /\ t \in Threads
      /\ \A u \in Producers : u # t /\ u \in Threads /\ pc'[u] = pc[u]
      /\ \A u \in Consumers : u = t
      /\ pc' \in [Threads -> Labels] /\ Roles'
  <2>1. "delete" \in Labels \ {"exchange", "link"}
    BY DEF Labels
  <2>2. QED
    BY <1>2, <2>1, OtherProducers
<1>4. /\ FirstNode = Len(got) /\ OldestNode = Len(got) /\ Len(got) \in Nat
      /\ FirstNode' = FirstNode + 1 /\ OldestNode' = OldestNode /\ LastNode' = LastNode
      /\ \A i : ValueOf(i)' = ValueOf(i)
  BY <1>1, <1>2, <1>3, ConsumerEnds, TypeFacts DEF LastNode, ValueOf
<1>5. IsNode(head, FirstNode) /\ head \in allocated /\ FirstNode \in OldestNode .. LastNode
  BY RangeFacts DEF Listed, IsNode
<1>6. FirstNode < LastNode /\ IsNode(head', FirstNode + 1)
  BY <1>1, <1>2, <1>5 DEF Linked
<1>7. TypeOK'
  <2>1. head' \in Nodes
    BY <1>6, TypeFacts DEF IsNode
  <2>2. QED
    BY <1>2, <1>3, <2>1, TypeFacts, TypesGivenNext DEF TypeOK
<1>8. ValuesDiffer' /\ Linked'
  BY <1>2, <1>4 DEF ValuesDiffer, Linked, IsNode
<1>9. Listed'
  <2>1. FirstNode + 1 <= LastNode
    BY <1>4, <1>6, RangeFacts
  <2>2. IsNode(head, FirstNode)' /\ IsNode(tail, LastNode)'
    <3>1. head' \in allocated /\ value[head'] = ValueOf(FirstNode + 1)
      BY <1>6 DEF IsNode
    <3>2. QED
      BY <1>2, <1>4, <3>1 DEF IsNode, Listed, ValueOf
  <2>3. QED
    BY <1>2, <1>4, <2>1, <2>2 DEF Listed, IsNode
<1>10. Exchanging'
  BY <1>2, <1>3, <1>4 DEF Exchanging
<1>11. Linking'
  <2>1. ASSUME NEW u \in Producers, pc[u] = "link"
        PROVE  \E i \in FirstNode + 1 .. LastNode - 1 : IsNode(h[u], i) /\ IsNode(n[u], i + 1)
    <3>1. PICK i \in FirstNode .. LastNode - 1 : IsNode(h[u], i) /\ IsNode(n[u], i + 1)
      BY <2>1 DEF Linking
    <3>2. i # FirstNode
      <4>1. next[h[u]] = Null
        BY <2>1 DEF Linking
      <4>2. h[u] # head
        BY <1>1, <4>1
      <4>3. QED
        BY <1>5, <3>1, <4>2, OneNode
    <3>3. i \in FirstNode + 1 .. LastNode - 1
      BY <1>4, <3>2, RangeFacts
    <3>4. QED
      BY <3>1, <3>3
  <2>2. QED
    BY <1>2, <1>3, <1>4, <2>1 DEF Linking, IsNode
<1>12. Dequeueing'
  <2>1. IsNode(h[t], Len(got))
    BY <1>1, <1>4, <1>5
  <2>2. IsNode(h[t], Len(got))'
    BY <1>2, <2>1 DEF IsNode, ValueOf
  <2>3. QED
    BY <1>2, <1>3, <2>2 DEF Dequeueing
<1>13. QED
  BY <1>3, <1>7, <1>8, <1>9, <1>10, <1>11, <1>12

LEMMA DequeueDeletePreserves ==
  ASSUME ListInv, OneConsumer, NEW t \in Consumers, DequeueDelete(t)
  PROVE  ListInv'
<1> USE DEF ListInv
<1>1. /\ pc[t] = "delete" /\ allocated' = allocated \ {h[t]}
      /\ pc' = [pc EXCEPT ![t] = "value"]
      /\ UNCHANGED <<head, tail, closed, value, next, h, n, order, got>>
  BY DEF DequeueDelete, Deleted, Goto
<1>2. /\ pc'[t] = "value" /\ t \in Threads
      /\ \A u \in Producers : u # t /\ u \in Threads /\ pc'[u] = pc[u]
      /\ \A u \in Consumers : u = t
      /\ pc' \in [Threads -> Labels] /\ Roles'
  <2>1. "value" \in Labels \ {"exchange", "link"}
    BY DEF Labels
  <2>2. QED
    BY <1>1, <2>1, OtherProducers
<1>3. /\ OldestNode = Len(got) /\ FirstNode = OldestNode + 1 /\ OldestNode \in Nat
      /\ FirstNode' = FirstNode /\ OldestNode' = FirstNode /\ LastNode' = LastNode
      /\ \A i : ValueOf(i)' = ValueOf(i)
  BY <1>1, <1>2, ConsumerEnds, TypeFacts DEF LastNode, ValueOf
<1>4. /\ LastNode \in Nat /\ FirstNode \in Nat /\ FirstNode \in FirstNode .. LastNode
      /\ LastNode \in FirstNode .. LastNode
      /\ \A i \in FirstNode .. LastNode : i \in OldestNode .. LastNode /\ i # OldestNode
      /\ OldestNode \in OldestNode .. LastNode
  BY <1>3, RangeFacts
<1>5. IsNode(h[t], OldestNode)
  BY <1>1, <1>3 DEF Dequeueing
<1>6. \A y, i : i \in FirstNode .. LastNode /\ IsNode(y, i) => y \in allocated'
  <2>1. ASSUME NEW y, NEW i \in FirstNode .. LastNode, IsNode(y, i) PROVE y # h[t]
    BY <1>4, <1>5, <2>1, OneNumber
  <2>2. QED
    BY <1>1, <2>1 DEF IsNode
<1>7. TypeOK'
  <2>1. allocated' \subseteq Nodes
    BY <1>1, TypeFacts
  <2>2. QED
    BY <1>1, <1>2, <2>1, TypeFacts, TypesGivenNext DEF TypeOK
<1>8. ValuesDiffer'
  <2>1. \A x, y \in allocated' : value[x] = value[y] => x = y
    BY <1>1 DEF ValuesDiffer
  <2>2. \A i, j \in FirstNode .. LastNode : ValueOf(i) = ValueOf(j) => i = j
    BY <1>4 DEF ValuesDiffer
  <2>3. QED
    BY <1>1, <1>3, <2>1, <2>2 DEF ValuesDiffer
<1>9. Listed'
  <2>1. head \in allocated' /\ tail \in allocated'
    BY <1>4, <1>6 DEF Listed
  <2>2. \A i \in FirstNode .. LastNode : \E y \in allocated' : IsNode(y, i)
    BY <1>4, <1>6 DEF Listed
  <2>3. QED
    BY <1>1, <1>3, <2>1, <2>2 DEF Listed, IsNode
<1>10. Linked'
  <2>1. ASSUME NEW y \in allocated', NEW i \in FirstNode .. LastNode, IsNode(y, i),
               next[y] # Null
        PROVE  i < LastNode /\ next[y] \in allocated' /\ value[next[y]] = ValueOf(i + 1)
    <3>1. i < LastNode /\ IsNode(next[y], i + 1)
      BY <1>1, <1>4, <2>1 DEF Linked
    <3>2. i + 1 \in FirstNode .. LastNode
      BY <1>4, <3>1
    <3>3. QED
      BY <1>6, <3>1, <3>2 DEF IsNode
  <2>2. QED
    BY <1>1, <1>3, <2>1 DEF Linked, IsNode
<1>11. Exchanging'
  <2>1. ASSUME NEW u \in Producers, pc[u] = "exchange"
        PROVE  n[u] \in allocated' /\ \A i \in FirstNode .. LastNode : value[n[u]] # ValueOf(i)
    <3>1. n[u] \in allocated /\ \A i \in OldestNode .. LastNode : value[n[u]] # ValueOf(i)
      BY <2>1 DEF Exchanging
    <3>2. n[u] # h[t]
      BY <1>4, <1>5, <3>1 DEF IsNode
    <3>3. QED
      BY <1>1, <1>4, <3>1, <3>2
  <2>2. QED
    BY <1>1, <1>2, <1>3, <2>1 DEF Exchanging
<1>12. Linking'
  <2>1. ASSUME NEW u \in Producers, pc[u] = "link"
        PROVE  \E i \in FirstNode .. LastNode - 1 :
                 /\ h[u] \in allocated' /\ value[h[u]] = ValueOf(i)
                 /\ n[u] \in allocated' /\ value[n[u]] = ValueOf(i + 1)
    <3>1. PICK i \in FirstNode .. LastNode - 1 : IsNode(h[u], i) /\ IsNode(n[u], i + 1)
      BY <2>1 DEF Linking
    <3>2. i \in FirstNode .. LastNode /\ i + 1 \in FirstNode .. LastNode
      BY <1>4
    <3>3. QED
      BY <1>6, <3>1, <3>2 DEF IsNode
  <2>2. QED
    BY <1>1, <1>2, <1>3, <2>1 DEF Linking, IsNode
<1>13. Dequeueing'
  BY <1>1, <1>2 DEF Dequeueing
<1>14. QED
  BY <1>2, <1>7, <1>8, <1>9, <1>10, <1>11, <1>12, <1>13

LEMMA DequeueValuePreserves ==
  ASSUME ListInv, OneConsumer, NEW t \in Consumers, DequeueValue(t)
  PROVE  ListInv'
<1> USE DEF ListInv
<1>1. /\ pc[t] = "value" /\ got' = Append(got, value[n[t]])
      /\ pc' = [pc EXCEPT ![t] = "idle"]
      /\ h' = [h EXCEPT ![t] = Null] /\ n' = [n EXCEPT ![t] = Null]
      /\ UNCHANGED <<head, tail, closed, allocated, value, next, order>>
  BY DEF DequeueValue, Dequeued, Return, Goto
<1>2. /\ pc'[t] = "idle" /\ t \in Threads
      /\ \A u \in Producers : u # t /\ u \in Threads /\ pc'[u] = pc[u]
      /\ \A u \in Consumers : u = t
      /\ pc' \in [Threads -> Labels] /\ Roles'
  <2>1. "idle" \in Labels \ {"exchange", "link"}
    BY DEF Labels
  <2>2. QED
    BY <1>1, <2>1, OtherProducers
<1>3. /\ FirstNode = Len(got) + 1 /\ OldestNode = FirstNode /\ Len(got) \in Nat
  BY <1>1, ConsumerEnds, TypeFacts
<1>4. n[t] = head /\ IsNode(head, FirstNode) /\ head \in Nodes
  BY <1>1, TypeFacts DEF Dequeueing, Listed
<1>5. /\ Len(got') = FirstNode /\ got' \in Seq(Items \cup {NoItem})
      /\ \A i \in 1 .. Len(got) : got'[i] = got[i]
      /\ got'[FirstNode] = order[FirstNode]
  <2>1. value[n[t]] = order[FirstNode] /\ value[n[t]] \in Items \cup {NoItem}
    BY <1>3, <1>4, TypeFacts DEF IsNode, ValueOf
  <2>2. QED
    BY <1>1, <1>3, <2>1, TypeFacts, AppendProperties
<1>6. /\ FirstNode' = FirstNode /\ OldestNode' = OldestNode /\ LastNode' = LastNode
      /\ \A i : ValueOf(i)' = ValueOf(i)
  BY <1>1, <1>2, <1>3, <1>5, ConsumerEnds DEF LastNode, ValueOf
<1>7. \A u \in Producers : h'[u] = h[u] /\ n'[u] = n[u]
  BY <1>1, <1>2, TypeFacts
<1>8. TypeOK'
  <2>1. h' \in [Threads -> Pointers] /\ n' \in [Threads -> Pointers]
    BY <1>1, TypeFacts
  <2>2. QED
    BY <1>1, <1>2, <1>5, <2>1, TypeFacts, TypesGivenNext DEF TypeOK
<1>9. ValuesDiffer' /\ Linked'
  BY <1>1, <1>6 DEF ValuesDiffer, Linked, IsNode
<1>10. Listed'
  <2>1. \A i \in 1 .. FirstNode : got'[i] = order[i]
    <3>1. \A i \in 1 .. FirstNode : i \in 1 .. Len(got) \/ i = FirstNode
      BY <1>3
    <3>2. QED
      BY <1>5, <3>1 DEF Listed
  <2>2. /\ FirstNode' <= LastNode' /\ IsNode(head, FirstNode)' /\ IsNode(tail, LastNode)'
        /\ \A i \in OldestNode' .. LastNode' : \E x \in allocated' : IsNode(x, i)'
    BY <1>1, <1>6 DEF Listed, IsNode
  <2>3. \A i \in 1 .. Len(got') : got'[i] = order'[i]
    BY <1>1, <1>5, <2>1
  <2>4. QED
    BY <2>2, <2>3 DEF Listed
<1>11. Exchanging'
  BY <1>1, <1>2, <1>6, <1>7 DEF Exchanging
<1>12. Linking'
  BY <1>1, <1>2, <1>6, <1>7 DEF Linking, IsNode
<1>13. Dequeueing'
  BY <1>2 DEF Dequeueing
<1>14. QED
  BY <1>2, <1>8, <1>9, <1>10, <1>11, <1>12, <1>13

\* close, and steps that change nothing.
LEMMA ClosePreserves ==
  ASSUME ListInv, closed' \in BOOLEAN,
         UNCHANGED <<head, tail, allocated, value, next, pc, h, n, order, got>>
  PROVE  ListInv'
<1> USE DEF ListInv
<1>1. TypeOK'
  BY DEF TypeOK
<1>2. /\ FirstNode' = FirstNode /\ OldestNode' = OldestNode /\ LastNode' = LastNode
      /\ \A i : ValueOf(i)' = ValueOf(i)
  BY DEF FirstNode, OldestNode, LastNode, ValueOf, At
<1>3. Roles' /\ ValuesDiffer' /\ Listed' /\ Linked'
  BY <1>2 DEF Roles, ValuesDiffer, Listed, Linked, IsNode
<1>4. Exchanging' /\ Linking'
  BY <1>2 DEF Exchanging, Linking, IsNode
<1>5. Dequeueing'
  BY <1>2 DEF Dequeueing, IsNode, ValueOf
<1>6. QED
  BY <1>1, <1>3, <1>4, <1>5

-----------------------------------------------------------------------------
(* The theorems. *)

\* With one consumer: the list from the oldest node that has not been deleted
\* to tail is allocated, linked in the order of the exchanges, and every
\* pointer a thread holds is the node of the list it should be.
THEOREM MpmcInductive ==
  ASSUME OneConsumer
  PROVE  Spec => []ListInv
<1>1. Init => ListInv
  BY Initial
<1>2. ListInv /\ [Next]_vars => ListInv'
  <2>1. SUFFICES ASSUME ListInv, [Next]_vars PROVE ListInv'
    OBVIOUS
  <2>2. CASE UNCHANGED vars
    <3>1. closed' \in BOOLEAN
          /\ UNCHANGED <<head, tail, allocated, value, next, pc, h, n, order, got>>
      BY <2>1, <2>2 DEF vars, ListInv, TypeOK
    <3>2. QED
      BY <2>1, <3>1, ClosePreserves
  <2>3. CASE Close
    <3>1. closed' \in BOOLEAN
          /\ UNCHANGED <<head, tail, allocated, value, next, pc, h, n, order, got>>
      BY <2>3 DEF Close
    <3>2. QED
      BY <2>1, <3>1, ClosePreserves
  <2>4. ASSUME NEW t \in Producers,
               (\E v \in Items : EnqueueNew(t, v)) \/ EnqueueExchange(t) \/ EnqueueLink(t)
        PROVE  ListInv'
    BY <2>1, <2>4, EnqueueNewPreserves, EnqueueExchangePreserves, EnqueueLinkPreserves
  <2>5. ASSUME NEW t \in Consumers,
               \/ DequeueLoad(t) \/ DequeueNext(t) \/ DequeueEmpty(t)
               \/ DequeueCas(t) \/ DequeueDelete(t) \/ DequeueValue(t)
        PROVE  ListInv'
    BY <2>1, <2>5, DequeueReadsPreserve, DequeueCasPreserves, DequeueDeletePreserves,
       DequeueValuePreserves
  <2>6. QED
    BY <2>1, <2>2, <2>3, <2>4, <2>5 DEF Next
<1>3. QED
  BY <1>1, <1>2, PTL DEF Spec

\* Every variable of the queue keeps its type when one thread dequeues.
THEOREM MpmcTypeCorrect ==
  ASSUME OneConsumer
  PROVE  Spec => []TypeOK
<1>1. ListInv => TypeOK
  BY DEF ListInv
<1>2. QED
  BY <1>1, MpmcInductive, PTL

\* With one consumer items leave in the order of the exchanges of tail, each
\* once and none skipped.
THEOREM FifoAlways ==
  ASSUME OneConsumer
  PROVE  Spec => []FifoOrder
<1>1. ListInv => FifoOrder
  <2>1. SUFFICES ASSUME ListInv PROVE IsPrefix(got, order)
    BY DEF FifoOrder
  <2>2. Len(got) <= Len(order) /\ Len(got) \in Nat /\ Len(order) \in Nat
    BY <2>1, RangeFacts, TypeFacts DEF OldestNode, LastNode, ListInv
  <2>3. \A i \in 1 .. Len(got) : got[i] = order[i]
    BY <2>1 DEF ListInv, Listed
  <2>4. got \in Seq(Items \cup {NoItem}) /\ order \in Seq(Items)
    BY <2>1, TypeFacts DEF ListInv
  <2>5. QED
    BY <2>2, <2>3, <2>4 DEF IsPrefix
<1>2. QED
  BY <1>1, MpmcInductive, PTL
=============================================================================
