------------------------ MODULE WinsBenchmarkProofs ------------------------
(***************************************************************************)
(* The safety of both stages of the OS-thread benchmark, for any number of *)
(* tasks and any finite set of workers.                                    *)
(***************************************************************************)
EXTENDS WinsBenchmarkInvariant, SequenceTheorems, FiniteSetTheorems, TLAPS

-----------------------------------------------------------------------------
(* Stage A: the pool. *)

LEMMA PoolInitial ==
  ASSUME Init
  PROVE  PoolInv
<1> USE PoolSizes DEF Init
<1>1. TypeOK
  <2>1. PICK waitAll \in BOOLEAN : main = [pc |-> "produce", next |-> 1, waitAll |-> waitAll]
    OBVIOUS
  <2>2. main \in [pc : {"produce", "notify", "notify_all", "join", "done"},
                 next : 1 .. NumTasks + 1, waitAll : BOOLEAN]
    BY <2>1
  <2>3. QED
    BY <2>2, EmptySeq DEF TypeOK, Tasks, NoTask
<1>2. InOrder
  BY DEF InOrder
<1>3. Working
  BY DEF Working, NoTask, Tasks
<1>4. OnceEach
  BY DEF OnceEach, Started, Tasks
<1>5. Closing
  BY DEF Closing
<1>6. NoLostWakeup
  BY DEF NoLostWakeup
<1>7. QED
  BY <1>1, <1>2, <1>3, <1>4, <1>5, <1>6 DEF PoolInv

\* What the pool's types say of its values.
LEMMA PoolFacts ==
  ASSUME TypeOK
  PROVE  /\ NumTasks \in Nat /\ Tasks \subseteq Nat \ {NoTask}
         /\ Len(q) \in Nat /\ DOMAIN q = 1 .. Len(q) /\ main.next \in 1 .. NumTasks + 1
         /\ \A w \in Workers :
              /\ worker[w] \in [pc : {"dequeue", "wait", "execute", "exited"},
                                task : Tasks \cup {NoTask}]
              /\ worker[w].pc \in {"dequeue", "wait", "execute", "exited"}
              /\ worker[w].task \in Tasks \cup {NoTask}
  BY PoolSizes, LenProperties DEF TypeOK, Tasks, NoTask

LEMMA PushPreserves ==
  ASSUME PoolInv, Push
  PROVE  PoolInv'
<1> USE DEF PoolInv
<1> USE PoolFacts
<1>1. main' = [main EXCEPT !.pc = "notify", !.next = main.next + 1]
  BY DEF Push
<1>2. /\ main'.pc = "notify" /\ main'.next = main.next + 1 /\ main'.next \in 1 .. NumTasks + 1
      /\ main.next \in Tasks
  BY <1>1 DEF Push, MoreTasks, TypeOK, Tasks
<1>3. /\ q' = Append(q, main.next) /\ q' \in Seq(Tasks) /\ Len(q') = Len(q) + 1
      /\ \A j \in 1 .. Len(q) : q'[j] = q[j]
      /\ q'[Len(q) + 1] = main.next
  BY <1>2, AppendProperties DEF Push, TypeOK
<1>4. UNCHANGED <<closed, worker, executed>>
  BY DEF Push
<1>5. TypeOK'
  BY <1>1, <1>2, <1>3, <1>4 DEF TypeOK
<1>6. InOrder'
  <2>1. ASSUME NEW j \in 1 .. Len(q')
        PROVE  q'[j] = main'.next - Len(q') + j - 1
    <3>1. CASE j \in 1 .. Len(q)
      BY <1>2, <1>3, <3>1 DEF InOrder
    <3>2. CASE j = Len(q) + 1
      BY <1>2, <1>3, <3>2
    <3>3. QED
      BY <1>3, <3>1, <3>2
  <2>2. Len(q') < main'.next
    BY <1>2, <1>3 DEF InOrder
  <2>3. QED
    BY <2>1, <2>2 DEF InOrder
<1>7. \A i \in Tasks : Started(i)' <=> Started(i)
  BY <1>2, <1>3 DEF Started, Tasks
<1>8. Working'
  BY <1>4, <1>7 DEF Working
<1>9. OnceEach'
  BY <1>4, <1>7 DEF OnceEach
<1>10. Closing'
  BY <1>2, <1>4 DEF Closing, Push
<1>11. NoLostWakeup'
  BY <1>2 DEF NoLostWakeup
<1>12. QED
  BY <1>5, <1>6, <1>8, <1>9, <1>10, <1>11

\* Waking some of the waiters: they go back to the test of the predicate.
LEMMA WakeFacts ==
  ASSUME TypeOK, NEW W \in SUBSET Waiting, Wake(W)
  PROVE  /\ worker' \in [Workers -> [pc : {"dequeue", "wait", "execute", "exited"},
                                     task : Tasks \cup {NoTask}]]
         /\ \A w \in Workers :
              /\ worker'[w].task = worker[w].task
              /\ worker'[w].pc = IF w \in W THEN "dequeue" ELSE worker[w].pc
              /\ w \in W => worker[w].pc = "wait"
<1> USE PoolFacts
<1>1. \A w \in Workers :
        worker'[w] = IF w \in W THEN [worker[w] EXCEPT !.pc = "dequeue"] ELSE worker[w]
  BY DEF Wake
<1>2. ASSUME NEW w \in Workers
      PROVE  /\ worker'[w] \in [pc : {"dequeue", "wait", "execute", "exited"},
                                task : Tasks \cup {NoTask}]
             /\ worker'[w].task = worker[w].task
             /\ worker'[w].pc = IF w \in W THEN "dequeue" ELSE worker[w].pc
             /\ w \in W => worker[w].pc = "wait"
  BY <1>1 DEF Waiting
<1>3. worker' \in [Workers -> [pc : {"dequeue", "wait", "execute", "exited"},
                               task : Tasks \cup {NoTask}]]
  BY <1>2 DEF Wake
<1>4. QED
  BY <1>2, <1>3

\* A wakeup by itself disturbs nothing.
LEMMA WakePreserves ==
  ASSUME PoolInv, NEW W \in SUBSET Waiting, Wake(W), UNCHANGED <<q, executed, closed>>,
         main'.next = main.next
  PROVE  /\ worker' \in [Workers -> [pc : {"dequeue", "wait", "execute", "exited"},
                                     task : Tasks \cup {NoTask}]]
         /\ InOrder' /\ Working' /\ OnceEach'
         /\ \A w \in Workers : worker'[w].pc = "exited" <=> worker[w].pc = "exited"
         /\ \A w \in Workers : worker[w].pc \in {"dequeue", "execute"}
                                 => worker'[w].pc \in {"dequeue", "execute"}
<1> USE DEF PoolInv
<1>1. \A i \in Tasks : Started(i)' <=> Started(i)
  BY DEF Started
<1>2. \A w \in Workers :
        /\ worker'[w].task = worker[w].task
        /\ worker'[w].pc = IF w \in W THEN "dequeue" ELSE worker[w].pc
        /\ w \in W => worker[w].pc = "wait"
  BY WakeFacts
<1>3. InOrder'
  BY DEF InOrder
<1>4. Working'
  BY <1>1, <1>2 DEF Working
<1>5. OnceEach'
  BY <1>1, <1>2 DEF OnceEach
<1>6. QED
  BY <1>2, <1>3, <1>4, <1>5, WakeFacts

LEMMA NotifyOnePreserves ==
  ASSUME PoolInv, NotifyOne
  PROVE  PoolInv'
<1> USE DEF PoolInv
<1>1. /\ main' = [main EXCEPT !.pc = "produce"] /\ main'.next = main.next
      /\ main.pc = "notify" /\ main'.pc = "produce" /\ UNCHANGED <<q, closed, executed>>
  BY DEF NotifyOne, TypeOK
<1>2. ~closed /\ \A w \in Workers : worker[w].pc # "exited"
  BY <1>1 DEF Closing
<1>3. CASE Waiting = {} /\ UNCHANGED worker
  <2>1. \A i \in Tasks : Started(i)' <=> Started(i)
    BY <1>1 DEF Started
  <2>2. TypeOK'
    BY <1>1, <1>3 DEF TypeOK
  <2>3. InOrder' /\ Working' /\ OnceEach'
    BY <1>1, <1>3, <2>1 DEF InOrder, Working, OnceEach
  <2>4. Closing'
    BY <1>1, <1>3 DEF Closing
  <2>5. \E w \in Workers : worker[w].pc \in {"dequeue", "execute"}
    BY <1>2, <1>3, PoolSizes, PoolFacts DEF Waiting
  <2>6. NoLostWakeup'
    BY <1>3, <2>5 DEF NoLostWakeup
  <2>7. QED
    BY <2>2, <2>3, <2>4, <2>6
<1>4. CASE \E w \in Waiting : Wake({w})
  <2>1. PICK w \in Waiting : Wake({w})
    BY <1>4
  <2>2. {w} \in SUBSET Waiting
    OBVIOUS
  <2>3. /\ worker' \in [Workers -> [pc : {"dequeue", "wait", "execute", "exited"},
                                    task : Tasks \cup {NoTask}]]
        /\ InOrder' /\ Working' /\ OnceEach'
        /\ \A v \in Workers : worker'[v].pc = "exited" <=> worker[v].pc = "exited"
    BY <1>1, <2>1, <2>2, WakePreserves
  <2>4. TypeOK'
    BY <1>1, <2>3 DEF TypeOK
  <2>5. Closing'
    BY <1>1, <2>3 DEF Closing
  <2>6. w \in Workers /\ worker'[w].pc = "dequeue"
    BY <2>1, <2>2, WakeFacts DEF Waiting
  <2>7. NoLostWakeup'
    BY <2>6 DEF NoLostWakeup
  <2>8. QED
    BY <2>3, <2>4, <2>5, <2>7
<1>5. QED
  BY <1>3, <1>4 DEF NotifyOne, WakeOne

LEMMA ClosePreserves ==
  ASSUME PoolInv, CloseQueue
  PROVE  PoolInv'
<1> USE DEF PoolInv
<1>1. /\ main' = [main EXCEPT !.pc = "notify_all"] /\ main'.next = main.next
      /\ main.pc = "produce" /\ main'.pc = "notify_all" /\ closed' = TRUE
      /\ UNCHANGED <<q, worker, executed>> /\ ~(main.next <= NumTasks)
  BY DEF CloseQueue, AllSubmitted, MoreTasks, TypeOK
<1>2. \A i \in Tasks : Started(i)' <=> Started(i)
  BY <1>1 DEF Started
<1>3. TypeOK'
  BY <1>1 DEF TypeOK
<1>4. InOrder' /\ Working' /\ OnceEach'
  BY <1>1, <1>2 DEF InOrder, Working, OnceEach
<1>5. Closing'
  BY <1>1, PoolFacts DEF Closing
<1>6. NoLostWakeup'
  BY <1>1 DEF NoLostWakeup
<1>7. QED
  BY <1>3, <1>4, <1>5, <1>6

LEMMA NotifyAllPreserves ==
  ASSUME PoolInv, NotifyAll
  PROVE  PoolInv'
<1> USE DEF PoolInv
<1>1. /\ main' = [main EXCEPT !.pc = "join"] /\ main'.next = main.next
      /\ main.pc = "notify_all" /\ main'.pc = "join" /\ UNCHANGED <<q, closed, executed>>
  BY DEF NotifyAll, TypeOK
<1>2. Waiting \in SUBSET Waiting /\ Wake(Waiting)
  BY DEF NotifyAll, WakeAll
<1>3. /\ worker' \in [Workers -> [pc : {"dequeue", "wait", "execute", "exited"},
                                  task : Tasks \cup {NoTask}]]
      /\ InOrder' /\ Working' /\ OnceEach'
      /\ \A v \in Workers : worker'[v].pc = "exited" <=> worker[v].pc = "exited"
      /\ \A v \in Workers : worker[v].pc \in {"dequeue", "execute"}
                              => worker'[v].pc \in {"dequeue", "execute"}
  BY <1>1, <1>2, WakePreserves
<1>4. TypeOK'
  BY <1>1, <1>3 DEF TypeOK
<1>5. Closing'
  BY <1>1, <1>3 DEF Closing
<1>6. NoLostWakeup'
  BY <1>1, <1>3 DEF NoLostWakeup
<1>7. QED
  BY <1>3, <1>4, <1>5, <1>6

LEMMA JoinPreserves ==
  ASSUME PoolInv, Join
  PROVE  PoolInv'
<1> USE DEF PoolInv
<1>1. /\ main' = [main EXCEPT !.pc = "done"] /\ main'.next = main.next
      /\ main.pc = "join" /\ main'.pc = "done" /\ UNCHANGED <<q, closed, worker, executed>>
      /\ \A w \in Workers : worker[w].pc = "exited"
  BY DEF Join, TypeOK
<1>2. \A i \in Tasks : Started(i)' <=> Started(i)
  BY <1>1 DEF Started
<1>3. TypeOK'
  BY <1>1 DEF TypeOK
<1>4. InOrder' /\ Working' /\ OnceEach'
  BY <1>1, <1>2 DEF InOrder, Working, OnceEach
<1>5. Closing'
  BY <1>1 DEF Closing
<1>6. NoLostWakeup'
  BY <1>1 DEF NoLostWakeup
<1>7. QED
  BY <1>3, <1>4, <1>5, <1>6

LEMMA SpuriousWakeupPreserves ==
  ASSUME PoolInv, NEW w \in Workers, SpuriousWakeup(w)
  PROVE  PoolInv'
<1> USE DEF PoolInv
<1>1. /\ {w} \in SUBSET Waiting /\ Wake({w}) /\ UNCHANGED <<q, closed, executed, main>>
      /\ w \in Workers
  BY DEF SpuriousWakeup
<1>2. /\ worker' \in [Workers -> [pc : {"dequeue", "wait", "execute", "exited"},
                                  task : Tasks \cup {NoTask}]]
      /\ InOrder' /\ Working' /\ OnceEach'
      /\ \A v \in Workers : worker'[v].pc = "exited" <=> worker[v].pc = "exited"
      /\ \A v \in Workers : worker[v].pc \in {"dequeue", "execute"}
                              => worker'[v].pc \in {"dequeue", "execute"}
  BY <1>1, WakePreserves
<1>3. TypeOK'
  BY <1>1, <1>2 DEF TypeOK
<1>4. Closing'
  BY <1>1, <1>2 DEF Closing
<1>5. NoLostWakeup'
  BY <1>1, <1>2 DEF NoLostWakeup
<1>6. QED
  BY <1>2, <1>3, <1>4, <1>5

\* One worker takes the front task: it is started, and that worker has it.
LEMMA TakePreserves ==
  ASSUME PoolInv, NEW w \in Workers, worker[w].pc = "dequeue", q # <<>>,
         worker' = [worker EXCEPT ![w] = [pc |-> "execute", task |-> Head(q)]],
         q' = Tail(q), UNCHANGED <<closed, executed, main>>
  PROVE  PoolInv'
<1> USE DEF PoolInv
<1> USE PoolFacts
<1>1. /\ Len(q) > 0 /\ Head(q) = q[1] /\ Head(q) \in Tasks /\ Tail(q) \in Seq(Tasks)
      /\ Len(q') = Len(q) - 1 /\ \A j \in 1 .. Len(q') : q'[j] = q[j + 1]
  BY HeadTailProperties, EmptySeq DEF TypeOK
<1>2. Head(q) = main.next - Len(q)
  BY <1>1 DEF InOrder
<1>3. \A i \in Tasks : Started(i)' <=> Started(i) \/ i = Head(q)
  BY <1>1, <1>2 DEF Started
<1>4. ~Started(Head(q))
  BY <1>2 DEF Started
<1>5. /\ worker'[w].pc = "execute" /\ worker'[w].task = Head(q)
      /\ \A v \in Workers \ {w} : worker'[v] = worker[v]
  BY DEF TypeOK
<1>6. TypeOK'
  <2>1. worker' \in [Workers -> [pc : {"dequeue", "wait", "execute", "exited"},
                                task : Tasks \cup {NoTask}]]
    BY <1>1 DEF TypeOK
  <2>2. QED
    BY <1>1, <2>1 DEF TypeOK
<1>7. InOrder'
  <2>1. ASSUME NEW j \in 1 .. Len(q')
        PROVE  q'[j] = main.next - Len(q') + j - 1
    <3>1. j + 1 \in 1 .. Len(q) /\ q'[j] = q[j + 1]
      BY <1>1
    <3>2. q[j + 1] = main.next - Len(q) + (j + 1) - 1
      BY <3>1 DEF InOrder
    <3>3. QED
      BY <1>1, <3>1, <3>2
  <2>2. Len(q') < main.next
    BY <1>1 DEF InOrder
  <2>3. QED
    BY <2>1, <2>2 DEF InOrder
<1>8. \A v \in Workers : worker[v].task # Head(q)
  BY <1>1, <1>4 DEF Working
<1>9. executed[Head(q)] = 0
  BY <1>1, <1>4 DEF OnceEach
<1>10. Working'
  <2>1. ASSUME NEW v \in Workers
        PROVE  IF worker'[v].pc = "execute"
               THEN /\ worker'[v].task \in Tasks /\ Started(worker[v].task)'
                    /\ executed[worker'[v].task] = 0
               ELSE worker'[v].task = NoTask
    <3>1. CASE v = w
      <4>1. Started(worker[v].task)'
        BY <1>1, <1>2, <1>5, <3>1 DEF Started
      <4>2. QED
        BY <1>1, <1>5, <1>9, <3>1, <4>1
    <3>2. CASE v # w
      <4>1. worker'[v] = worker[v]
        BY <1>5, <3>2
      <4>2. Started(worker[v].task) /\ worker[v].task \in Tasks => Started(worker[v].task)'
        BY <1>1, <4>1 DEF Started
      <4>3. QED
        BY <4>1, <4>2 DEF Working
    <3>3. QED
      BY <3>1, <3>2
  <2>2. ASSUME NEW u \in Workers, NEW v \in Workers, worker'[u].task = worker'[v].task
        PROVE  u = v \/ worker'[u].task = NoTask
    BY <1>5, <1>8, <2>2 DEF Working
  <2>3. QED
    BY <2>1, <2>2 DEF Working
<1>11. OnceEach'
  <2>1. ASSUME NEW i \in Tasks
        PROVE  /\ executed[i] = 0 \/ (executed[i] = 1 /\ Started(i)')
               /\ Started(i)' => executed[i] = 1 \/ \E v \in Workers : worker'[v].task = i
    <3>1. executed[i] = 0 \/ (executed[i] = 1 /\ Started(i)')
      BY <1>3 DEF OnceEach
    <3>2. CASE i = Head(q)
      BY <1>5, <3>1, <3>2
    <3>3. CASE i # Head(q)
      <4>1. Started(i)' => executed[i] = 1 \/ \E v \in Workers : worker[v].task = i
        BY <1>3, <3>3 DEF OnceEach
      <4>2. worker[w].task # i
        BY DEF Working
      <4>3. QED
        BY <1>5, <3>1, <4>1, <4>2
    <3>4. QED
      BY <3>2, <3>3
  <2>2. QED
    BY <2>1 DEF OnceEach
<1>12. Closing'
  <2>1. \A v \in Workers : worker'[v].pc # "exited"
    BY <1>5 DEF Closing
  <2>2. main.pc # "done"
    BY DEF Closing
  <2>3. QED
    BY <2>1, <2>2 DEF Closing
<1>13. NoLostWakeup'
  BY <1>5 DEF NoLostWakeup
<1>14. QED
  BY <1>6, <1>7, <1>10, <1>11, <1>12, <1>13

\* One worker leaves, or waits, with the queue empty.
LEMMA RestPreserves ==
  ASSUME PoolInv, NEW w \in Workers, worker[w].pc = "dequeue", q = <<>>,
         NEW l \in {"exited", "wait"}, l = "exited" => closed,
         worker' = [worker EXCEPT ![w].pc = l],
         UNCHANGED <<q, closed, executed, main>>
  PROVE  PoolInv'
<1> USE DEF PoolInv
<1> USE PoolFacts
<1>1. \A v \in Workers : /\ worker'[v].task = worker[v].task
                        /\ worker'[v].pc = IF v = w THEN l ELSE worker[v].pc
  BY DEF TypeOK
<1>2. \A i \in Tasks : Started(i)' <=> Started(i)
  BY DEF Started
<1>3. TypeOK'
  <2>1. [worker[w] EXCEPT !.pc = l] \in [pc : {"dequeue", "wait", "execute", "exited"},
                                         task : Tasks \cup {NoTask}]
    OBVIOUS
  <2>2. QED
    BY <2>1 DEF TypeOK
<1>4. InOrder'
  BY DEF InOrder
<1>5. Working'
  BY <1>1, <1>2 DEF Working
<1>6. OnceEach'
  BY <1>1, <1>2 DEF OnceEach
<1>7. Closing'
  BY <1>1 DEF Closing
<1>8. NoLostWakeup'
  BY DEF NoLostWakeup
<1>9. QED
  BY <1>3, <1>4, <1>5, <1>6, <1>7, <1>8

LEMMA DequeuePreserves ==
  ASSUME PoolInv, NEW w \in Workers, Dequeue(w)
  PROVE  PoolInv'
<1>1. worker[w].pc = "dequeue" /\ UNCHANGED <<closed, executed, main>>
  BY DEF Dequeue
<1>2. CASE Drained /\ worker' = [worker EXCEPT ![w].pc = "exited"] /\ UNCHANGED q
  BY <1>1, <1>2, RestPreserves DEF Drained
<1>3. CASE /\ ~Drained /\ q # <<>>
           /\ worker' = [worker EXCEPT ![w] = [pc |-> "execute", task |-> Head(q)]]
           /\ q' = Tail(q)
  BY <1>1, <1>3, TakePreserves
<1>4. CASE ~Drained /\ q = <<>> /\ worker' = [worker EXCEPT ![w].pc = "wait"] /\ UNCHANGED q
  BY <1>1, <1>4, RestPreserves
<1>5. QED
  BY <1>2, <1>3, <1>4 DEF Dequeue

LEMMA ExecutePreserves ==
  ASSUME PoolInv, NEW w \in Workers, Execute(w)
  PROVE  PoolInv'
<1> USE DEF PoolInv
<1> USE PoolFacts
<1> DEFINE i == worker[w].task
<1>1. /\ worker[w].pc = "execute" /\ i \in Tasks /\ Started(i) /\ executed[i] = 0
      /\ UNCHANGED <<q, closed, main>>
  BY DEF Execute, Working
<1>2. executed' = [executed EXCEPT ![i] = 1]
  BY <1>1 DEF Execute
<1>3. /\ worker' = [worker EXCEPT ![w] = [pc |-> "dequeue", task |-> NoTask]]
      /\ worker'[w].pc = "dequeue" /\ worker'[w].task = NoTask
      /\ \A v \in Workers \ {w} : worker'[v] = worker[v] /\ worker[v].task # i
  BY <1>1 DEF Execute, TypeOK, Working
<1>4. \A j \in Tasks : Started(j)' <=> Started(j)
  BY <1>1 DEF Started
<1> HIDE DEF i
<1>5. \A j \in Tasks : executed'[j] = IF j = i THEN 1 ELSE executed[j]
  BY <1>2 DEF TypeOK
<1>6. TypeOK'
  <2>1. executed' \in [Tasks -> Nat]
    BY <1>2 DEF TypeOK
  <2>2. worker' \in [Workers -> [pc : {"dequeue", "wait", "execute", "exited"},
                                task : Tasks \cup {NoTask}]]
    BY <1>3 DEF TypeOK
  <2>3. QED
    BY <1>1, <2>1, <2>2 DEF TypeOK
<1>7. InOrder'
  BY <1>1 DEF InOrder
<1>8. Working'
  <2>1. ASSUME NEW v \in Workers
        PROVE  IF worker'[v].pc = "execute"
               THEN /\ worker'[v].task \in Tasks /\ Started(worker[v].task)'
                    /\ executed'[worker'[v].task] = 0
               ELSE worker'[v].task = NoTask
    <3>1. CASE v = w
      BY <1>3, <3>1
    <3>2. CASE v # w
      <4>1. worker'[v] = worker[v]
        BY <1>3, <3>2
      <4>2. Started(worker[v].task) => Started(worker[v].task)'
        BY <1>1, <4>1 DEF Started
      <4>3. worker[v].task # i
        BY <1>3, <3>2
      <4>4. QED
        BY <1>5, <4>1, <4>2, <4>3 DEF Working
    <3>3. QED
      BY <3>1, <3>2
  <2>2. ASSUME NEW u \in Workers, NEW v \in Workers, worker'[u].task = worker'[v].task
        PROVE  u = v \/ worker'[u].task = NoTask
    BY <1>3, <2>2 DEF Working
  <2>3. QED
    BY <2>1, <2>2 DEF Working
<1>9. OnceEach'
  <2>1. ASSUME NEW j \in Tasks
        PROVE  /\ executed'[j] = 0 \/ (executed'[j] = 1 /\ Started(j)')
               /\ Started(j)' => executed'[j] = 1 \/ \E v \in Workers : worker'[v].task = j
    <3>1. CASE j = i
      BY <1>1, <1>4, <1>5, <3>1
    <3>2. CASE j # i
      <4>1. /\ executed[j] = 0 \/ (executed[j] = 1 /\ Started(j))
            /\ Started(j) => executed[j] = 1 \/ \E v \in Workers : worker[v].task = j
        BY DEF OnceEach
      <4>2. \A v \in Workers : worker[v].task = j => v # w
        BY <3>2 DEF i
      <4>3. QED
        BY <1>3, <1>4, <1>5, <3>2, <4>1, <4>2
    <3>3. QED
      BY <3>1, <3>2
  <2>2. QED
    BY <2>1 DEF OnceEach
<1>10. Closing'
  <2>1. \A v \in Workers : worker'[v].pc = "exited" => worker[v].pc = "exited"
    BY <1>3
  <2>2. main.pc # "done"
    BY <1>1 DEF Closing
  <2>3. QED
    BY <1>1, <2>1, <2>2 DEF Closing
<1>11. NoLostWakeup'
  BY <1>3 DEF NoLostWakeup
<1>12. QED
  BY <1>6, <1>7, <1>8, <1>9, <1>10, <1>11

LEMMA PoolStep ==
  ASSUME PoolInv, Next
  PROVE  PoolInv'
<1>1. CASE MainStep
  BY <1>1, PushPreserves, NotifyOnePreserves, ClosePreserves, NotifyAllPreserves, JoinPreserves
  DEF MainStep
<1>2. CASE \E w \in Workers : Dequeue(w) \/ Execute(w) \/ SpuriousWakeup(w)
  BY <1>2, DequeuePreserves, ExecutePreserves, SpuriousWakeupPreserves
<1>3. QED
  BY <1>1, <1>2 DEF Next

-----------------------------------------------------------------------------
(* Stage B: the capacity gate. *)

\* CapacityGate counts as this module does.
LEMMA SameCardinality ==
  ASSUME NEW S
  PROVE  Gate!Cardinality(S) = Cardinality(S)
  BY DEF Gate!Cardinality, Cardinality

LEMMA GateInitial ==
  ASSUME Gate!Init
  PROVE  GateInv
<1> USE DEF Gate!Init
<1>1. Created = {} /\ Counted = {}
  BY DEF Created, Counted
<1>2. Cardinality({}) = 0 /\ Cardinality(Workers) \in Nat
  BY PoolSizes, FS_EmptySet, FS_CardinalityType
<1>3. Gate!TypeOK
  <2>1. completed \in 0 .. Cardinality(Workers) /\ created \in 0 .. Cardinality(Workers)
    BY <1>2
  <2>2. thread \in [Workers -> {"none", "spin", "count", "delete", "exited"}]
    OBVIOUS
  <2>3. arg \in [Workers -> {"none", "live", "deleted"}]
    OBVIOUS
  <2>4. QED
    BY <2>1, <2>2, <2>3, SameCardinality DEF Gate!TypeOK
<1>4. QED
  BY <1>1, <1>2, <1>3 DEF GateInv

\* A set of threads is finite, and has at most as many members as Workers.
LEMMA ThreadSets ==
  ASSUME NEW S \in SUBSET Workers
  PROVE  /\ IsFiniteSet(S) /\ Cardinality(S) \in 0 .. Cardinality(Workers)
         /\ Cardinality(Workers) \in Nat
         /\ \A t \in Workers \ S : Cardinality(S \cup {t}) = Cardinality(S) + 1
  BY PoolSizes, FS_CardinalityType, FS_Subset, FS_AddElement

LEMMA CreatePreserves ==
  ASSUME GateInv, Gate!Create
  PROVE  GateInv'
<1> USE DEF GateInv, Gate!TypeOK
<1>1. PICK t \in Workers : /\ thread[t] = "none"
                          /\ thread' = [thread EXCEPT ![t] = "spin"]
                          /\ arg' = [arg EXCEPT ![t] = "live"]
  BY DEF Gate!Create
<1>2. bench = "create" /\ created' = created + 1 /\ UNCHANGED <<go, completed, bench>>
  BY DEF Gate!Create
<1>3. Created' = Created \cup {t} /\ t \notin Created /\ Created \in SUBSET Workers
  BY <1>1 DEF Created
<1>4. Counted' = Counted
  BY <1>1 DEF Counted
<1>5. created' = Cardinality(Created') /\ created' \in 0 .. Cardinality(Workers)
  <2>1. Created' \in SUBSET Workers
    BY DEF Created
  <2>2. Cardinality(Created') \in 0 .. Cardinality(Workers)
    BY <2>1, ThreadSets
  <2>3. Cardinality(Created \cup {t}) = Cardinality(Created) + 1
    BY <1>3, ThreadSets
  <2>4. QED
    BY <1>2, <1>3, <2>2, <2>3
<1>6. Gate!TypeOK'
  <2>1. thread' \in [Workers -> {"none", "spin", "count", "delete", "exited"}]
    BY <1>1
  <2>2. arg' \in [Workers -> {"none", "live", "deleted"}]
    BY <1>1
  <2>3. QED
    BY <1>2, <1>5, <2>1, <2>2, SameCardinality
<1>7. QED
  BY <1>1, <1>2, <1>4, <1>5, <1>6

LEMMA CreateFailsPreserves ==
  ASSUME GateInv, Gate!CreateFails
  PROVE  GateInv'
<1> USE DEF GateInv, Gate!TypeOK
<1>1. PICK t \in Workers : thread[t] = "none" /\ arg' = [arg EXCEPT ![t] = "deleted"]
  BY DEF Gate!CreateFails
<1>2. bench' = "open" /\ UNCHANGED <<go, completed, created, thread>>
  BY DEF Gate!CreateFails
<1>3. Created' = Created /\ Counted' = Counted
  BY <1>2 DEF Created, Counted
<1>4. QED
  BY <1>1, <1>2, <1>3

\* The other steps of the main thread: the threads stay as they are.
LEMMA MainPreserves ==
  ASSUME GateInv, Gate!OpenGate \/ Gate!AwaitCompleted \/ Gate!JoinAll
  PROVE  GateInv'
<1> USE DEF GateInv, Gate!TypeOK
<1>1. UNCHANGED <<completed, created, thread, arg>>
  BY DEF Gate!OpenGate, Gate!AwaitCompleted, Gate!JoinAll
<1>2. Created' = Created /\ Counted' = Counted
  BY <1>1 DEF Created, Counted
<1>3. Gate!TypeOK'
  BY <1>1 DEF Gate!OpenGate, Gate!AwaitCompleted, Gate!JoinAll
<1>4. bench' = "done" => \A t \in Workers : thread[t] \in {"none", "exited"}
  BY DEF Gate!OpenGate, Gate!AwaitCompleted, Gate!JoinAll, Gate!AllExited
<1>5. QED
  BY <1>1, <1>2, <1>3, <1>4

LEMMA PassGatePreserves ==
  ASSUME GateInv, NEW t \in Workers, Gate!PassGate(t)
  PROVE  GateInv'
<1> USE DEF GateInv, Gate!TypeOK, Gate!PassGate
<1>1. Created' = Created /\ Counted' = Counted
  BY DEF Created, Counted
<1>2. bench # "done"
  OBVIOUS
<1>3. QED
  BY <1>1, <1>2

LEMMA CountPreserves ==
  ASSUME GateInv, NEW t \in Workers, Gate!Count(t)
  PROVE  GateInv'
<1> USE DEF GateInv, Gate!TypeOK
<1>1. /\ thread[t] = "count" /\ thread' = [thread EXCEPT ![t] = "delete"]
      /\ completed' = completed + 1 /\ UNCHANGED <<go, created, arg, bench>>
  BY DEF Gate!Count
<1>2. Created' = Created
  BY <1>1 DEF Created
<1>3. Counted' = Counted \cup {t} /\ t \notin Counted /\ Counted \in SUBSET Workers
  BY <1>1 DEF Counted
<1>4. completed' = Cardinality(Counted') /\ completed' \in 0 .. Cardinality(Workers)
  <2>1. Counted' \in SUBSET Workers
    BY DEF Counted
  <2>2. Cardinality(Counted') \in 0 .. Cardinality(Workers)
    BY <2>1, ThreadSets
  <2>3. Cardinality(Counted \cup {t}) = Cardinality(Counted) + 1
    BY <1>3, ThreadSets
  <2>4. QED
    BY <1>1, <1>3, <2>2, <2>3
<1>5. bench # "done"
  BY <1>1
<1>6. Gate!TypeOK'
  <2>1. thread' \in [Workers -> {"none", "spin", "count", "delete", "exited"}]
    BY <1>1
  <2>2. QED
    BY <1>1, <1>4, <2>1, SameCardinality
<1>7. QED
  BY <1>1, <1>2, <1>4, <1>5, <1>6

LEMMA DeleteArgPreserves ==
  ASSUME GateInv, NEW t \in Workers, Gate!DeleteArg(t)
  PROVE  GateInv'
<1> USE DEF GateInv, Gate!TypeOK, Gate!DeleteArg
<1>1. Created' = Created /\ Counted' = Counted
  BY DEF Created, Counted
<1>2. bench # "done"
  OBVIOUS
<1>3. QED
  BY <1>1, <1>2

LEMMA GateStep ==
  ASSUME GateInv, Gate!Next
  PROVE  GateInv'
  BY CreatePreserves, CreateFailsPreserves, MainPreserves, PassGatePreserves,
     CountPreserves, DeleteArgPreserves
  DEF Gate!Next, Gate!BenchStep, Gate!ThreadStep

\* When every created thread has ended, every created thread has counted.
LEMMA GateSafe ==
  ASSUME GateInv
  PROVE  NothingLeft
<1>1. ASSUME bench = "done" PROVE Created = Counted
  BY <1>1 DEF GateInv, Created, Counted
<1>2. QED
  BY <1>1 DEF GateInv, NothingLeft, Gate!NothingLeft

-----------------------------------------------------------------------------
(* The program. *)

LEMMA PoolUnchanged ==
  ASSUME PoolInv, UNCHANGED vars
  PROVE  PoolInv'
<1> USE DEF vars
<1>1. \A i \in Tasks : Started(i)' <=> Started(i)
  BY DEF Started
<1>2. TypeOK' /\ InOrder' /\ Closing' /\ NoLostWakeup'
  BY DEF PoolInv, TypeOK, InOrder, Closing, NoLostWakeup
<1>3. Working' /\ OnceEach'
  BY <1>1 DEF PoolInv, Working, OnceEach
<1>4. QED
  BY <1>2, <1>3 DEF PoolInv

LEMMA GateUnchanged ==
  ASSUME GateInv, UNCHANGED gateVars
  PROVE  GateInv'
<1> USE DEF gateVars
<1>1. Created' = Created /\ Counted' = Counted
  BY DEF Created, Counted
<1>2. QED
  BY <1>1 DEF GateInv, Gate!TypeOK

\* When the pool has been joined the queue is empty and no worker has a task,
\* so every task has been executed.
LEMMA PoolSafe ==
  ASSUME PoolInv
  PROVE  AllExecuted
<1> USE DEF PoolInv
<1>1. SUFFICES ASSUME main.pc = "done", NEW i \in Tasks PROVE executed[i] = 1
  BY DEF AllExecuted
<1>2. \A w \in Workers : worker[w].pc = "exited" /\ worker[w].task = NoTask
  BY <1>1 DEF Closing, Working
<1>3. Len(q) = 0 /\ main.next = NumTasks + 1
  BY <1>1, <1>2, PoolSizes DEF Closing
<1>4. Started(i)
  BY <1>3, PoolSizes DEF Started, Tasks
<1>5. QED
  BY <1>2, <1>4, PoolFacts DEF OnceEach

\* The invariant of both stages: what a worker or a thread has, the queue and
\* the counters always agree.
THEOREM BenchmarkInductive == BenchmarkSpec => []BenchInv
<1>1. BenchmarkInit => BenchInv
  BY PoolInitial, GateInitial DEF BenchmarkInit, BenchInv
<1>2. BenchInv /\ [BenchmarkNext]_allVars => BenchInv'
  <2>1. SUFFICES ASSUME BenchInv, [BenchmarkNext]_allVars PROVE BenchInv'
    OBVIOUS
  <2>2. CASE run_stage_a
    BY <2>1, <2>2, PoolStep, GateUnchanged DEF run_stage_a, BenchInv
  <2>3. CASE run_stage_b
    BY <2>1, <2>3, GateStep, PoolUnchanged DEF run_stage_b, BenchInv
  <2>4. CASE Stopped \/ UNCHANGED allVars
    BY <2>1, <2>4, PoolUnchanged, GateUnchanged DEF Stopped, allVars, BenchInv
  <2>5. QED
    BY <2>1, <2>2, <2>3, <2>4 DEF BenchmarkNext
<1>3. QED
  BY <1>1, <1>2, PTL DEF BenchmarkSpec

\* Both stages keep their types: in particular neither counter of
\* run_os_capacity exceeds the number of threads asked for.
THEOREM BenchmarkTypeCorrect == BenchmarkSpec => []TypesOK
<1>1. BenchInv => TypesOK
  BY DEF BenchInv, PoolInv, GateInv, TypesOK
<1>2. QED
  BY <1>1, BenchmarkInductive, PTL

\* MutexTaskQueue and TaskQueue lose no wakeup, although notify_one comes after
\* the unlock: a queued task has a worker on its way or a notification to come.
THEOREM NoWakeupLost == BenchmarkSpec => []NoLostWakeup
<1>1. BenchInv => NoLostWakeup
  BY DEF BenchInv, PoolInv
<1>2. QED
  BY <1>1, BenchmarkInductive, PTL

\* After the join every task has been executed exactly once, also those still
\* queued at close.
THEOREM JoinedPoolExecutedAll == BenchmarkSpec => []AllExecuted
<1>1. BenchInv => AllExecuted
  BY PoolSafe DEF BenchInv
<1>2. QED
  BY <1>1, BenchmarkInductive, PTL

\* run_os_capacity returns with every created thread counted and ended and no
\* OsTaskArg left, wherever pthread_create failed.
THEOREM CapacityLeavesNothing == BenchmarkSpec => []NothingLeft
<1>1. BenchInv => NothingLeft
  BY GateSafe DEF BenchInv
<1>2. QED
  BY <1>1, BenchmarkInductive, PTL
=============================================================================
