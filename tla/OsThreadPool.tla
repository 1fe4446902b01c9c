---------------------------- MODULE OsThreadPool ----------------------------
(***************************************************************************)
(* The benchmarks' OS-thread pools: one queue behind a mutex and a         *)
(* condition variable (MutexTaskQueue, TaskQueue), worker threads, and a   *)
(* main thread that enqueues the tasks, closes the queue and joins.  A     *)
(* critical section is one step; notify calls come after the unlock.       *)
(***************************************************************************)
EXTENDS Naturals, Sequences, FiniteSets

CONSTANTS Workers,
          NumTasks  \* tasks the main thread enqueues

\* Both harnesses are called with max(1u, hardware_concurrency()) workers.
ASSUME PoolSizes == NumTasks \in Nat /\ IsFiniteSet(Workers) /\ Workers # {}

Tasks == 1 .. NumTasks
NoTask == 0

VARIABLES q,        \* q_
          closed,   \* closed_
          worker,   \* worker -> where it is and the task it executes
          executed, \* task -> how often it has been executed (completed is their sum)
          main      \* the main thread: where it is, the next task, which harness:
                    \* waitAll says it closes after all tasks have completed
                    \* (run_os_throughput), else after a delay, whatever has
                    \* completed (run_os_threads_benchmark)

vars == <<q, closed, worker, executed, main>>

Init ==
  /\ q = <<>>
  /\ closed = FALSE
  /\ worker = [w \in Workers |-> [pc |-> "dequeue", task |-> NoTask]]
  /\ executed = [i \in Tasks |-> 0]
  /\ \E waitAll \in BOOLEAN : main = [pc |-> "produce", next |-> 1, waitAll |-> waitAll]

Waiting == {w \in Workers : worker[w].pc = "wait"}

\* A waiter returns from cv_.wait to test the predicate again.
Wake(W) == worker' = [w \in Workers |-> IF w \in W THEN [worker[w] EXCEPT !.pc = "dequeue"]
                                                   ELSE worker[w]]

-----------------------------------------------------------------------------
\* The loop that enqueues has not reached NumTasks, or the deadline.
MoreTasks == main.next <= NumTasks

\* enqueue: push under the lock, ...
Push ==
  /\ main.pc = "produce"
  /\ MoreTasks
  /\ q' = Append(q, main.next)
  /\ main' = [main EXCEPT !.pc = "notify", !.next = @ + 1]
  /\ UNCHANGED <<closed, worker, executed>>

\* Mutant of WakeOne: the push is never announced.
WakeNobody == UNCHANGED worker

\* notify_one.
WakeOne == \/ Waiting = {} /\ UNCHANGED worker
           \/ \E w \in Waiting : Wake({w})

\* ... then notify_one wakes one of the waiters, if there is any.
NotifyOne ==
  /\ main.pc = "notify"
  /\ WakeOne
  /\ main' = [main EXCEPT !.pc = "produce"]
  /\ UNCHANGED <<q, closed, executed>>

AllSubmitted == main.pc = "produce" /\ ~MoreTasks

\* run_os_throughput polls completed, which every worker increments.
AllCompleted == \A i \in Tasks : executed[i] > 0

\* close: closed_ = true under the lock, ...
CloseQueue ==
  /\ AllSubmitted
  /\ main.waitAll => AllCompleted
  /\ closed' = TRUE
  /\ main' = [main EXCEPT !.pc = "notify_all"]
  /\ UNCHANGED <<q, worker, executed>>

\* Mutant of WakeAll: one waiter only.
WakeAllOnlyOne == WakeOne

WakeAll == Wake(Waiting)

\* ... then notify_all.
NotifyAll ==
  /\ main.pc = "notify_all"
  /\ WakeAll
  /\ main' = [main EXCEPT !.pc = "join"]
  /\ UNCHANGED <<q, closed, executed>>

Join ==
  /\ main.pc = "join"
  /\ \A w \in Workers : worker[w].pc = "exited"
  /\ main' = [main EXCEPT !.pc = "done"]
  /\ UNCHANGED <<q, closed, worker, executed>>

MainStep == Push \/ NotifyOne \/ CloseQueue \/ NotifyAll \/ Join

-----------------------------------------------------------------------------
\* Mutant of Drained: a closed queue is left without draining it.
DrainedUnchecked == closed

Drained == closed /\ q = <<>>

\* dequeue, with the lock held: take the front task, or leave when the queue
\* is empty and closed, or release the lock and wait.
Dequeue(w) ==
  /\ worker[w].pc = "dequeue"
  /\ \/ /\ Drained
        /\ worker' = [worker EXCEPT ![w].pc = "exited"]
        /\ UNCHANGED q
     \/ /\ ~Drained /\ q # <<>>
        /\ worker' = [worker EXCEPT ![w] = [pc |-> "execute", task |-> Head(q)]]
        /\ q' = Tail(q)
     \/ /\ ~Drained /\ q = <<>>
        /\ worker' = [worker EXCEPT ![w].pc = "wait"]
        /\ UNCHANGED q
  /\ UNCHANGED <<closed, executed, main>>

\* Execute the task and count it.
Execute(w) ==
  /\ worker[w].pc = "execute"
  /\ executed' = [executed EXCEPT ![worker[w].task] = @ + 1]
  /\ worker' = [worker EXCEPT ![w] = [pc |-> "dequeue", task |-> NoTask]]
  /\ UNCHANGED <<q, closed, main>>

\* A wait may end without a notification.
SpuriousWakeup(w) ==
  /\ w \in Waiting
  /\ Wake({w})
  /\ UNCHANGED <<q, closed, executed, main>>

Next == MainStep \/ \E w \in Workers : Dequeue(w) \/ Execute(w) \/ SpuriousWakeup(w)

\* WinsBenchmark adds the fairness: these threads keep running, and nothing is
\* assumed of spurious wakeups.
Spec == Init /\ [][Next]_vars

-----------------------------------------------------------------------------
TypeOK ==
  /\ q \in Seq(Tasks)
  /\ closed \in BOOLEAN
  /\ worker \in [Workers -> [pc : {"dequeue", "wait", "execute", "exited"}, task : Tasks \cup {NoTask}]]
  /\ executed \in [Tasks -> Nat]
  /\ main \in [pc : {"produce", "notify", "notify_all", "join", "done"}, next : 1 .. NumTasks + 1,
              waitAll : BOOLEAN]

\* No wakeup is lost: while a task is queued, either some worker is on its way
\* to it or the notification for it has not been made yet.
NoLostWakeup ==
  q # <<>> => \/ main.pc = "notify"
              \/ \E w \in Workers : worker[w].pc \in {"dequeue", "execute"}

\* When the pool has been joined every task was executed exactly once, also
\* the ones still queued when the queue was closed.
AllExecuted == main.pc = "done" => \A i \in Tasks : executed[i] = 1
=============================================================================
