----------------------- MODULE WinsBenchmarkInvariant -----------------------
(***************************************************************************)
(* The inductive invariant of WinsBenchmark: the pool over the mutex       *)
(* queue, then the capacity gate.                                          *)
(***************************************************************************)
EXTENDS WinsBenchmark

\* The queue holds the last tasks pushed, in order.
InOrder ==
  /\ Len(q) < main.next
  /\ \A j \in 1 .. Len(q) : q[j] = main.next - Len(q) + j - 1

\* Task i has been pushed and taken off the queue.
Started(i) == i < main.next - Len(q)

\* A worker has a task only while it executes it, a task that has been started
\* and not yet executed, and that no other worker has.
Working ==
  /\ \A w \in Workers :
       IF worker[w].pc = "execute"
       THEN worker[w].task \in Tasks /\ Started(worker[w].task) /\ executed[worker[w].task] = 0
       ELSE worker[w].task = NoTask
  /\ \A v, w \in Workers : worker[v].task = worker[w].task => v = w \/ worker[v].task = NoTask

\* A task is executed at most once, after it has been started; a started task
\* has been executed or a worker has it.
OnceEach ==
  \A i \in Tasks :
    /\ executed[i] = 0 \/ (executed[i] = 1 /\ Started(i))
    /\ Started(i) => executed[i] = 1 \/ \E w \in Workers : worker[w].task = i

\* The queue is closed after the last push, workers leave only when it is
\* closed and empty, and the main thread ends only after they have left.
Closing ==
  /\ closed <=> main.pc \in {"notify_all", "join", "done"}
  /\ closed => main.next = NumTasks + 1
  /\ \A w \in Workers : worker[w].pc = "exited" => closed /\ q = <<>>
  /\ main.pc = "done" => \A w \in Workers : worker[w].pc = "exited"

PoolInv == TypeOK /\ InOrder /\ Working /\ OnceEach /\ Closing /\ NoLostWakeup

-----------------------------------------------------------------------------
Created == {t \in Workers : thread[t] # "none"}

Counted == {t \in Workers : thread[t] \in {"delete", "exited"}}

\* created and completed count threads, a live argument has a thread that will
\* delete it, and the harness ends only after all threads have ended.
GateInv ==
  /\ Gate!TypeOK
  /\ created = Cardinality(Created)
  /\ completed = Cardinality(Counted)
  /\ \A t \in Workers : arg[t] = "live" => thread[t] \in {"spin", "count", "delete"}
  /\ bench = "done" => \A t \in Workers : thread[t] \in {"none", "exited"}

BenchInv == PoolInv /\ GateInv
=============================================================================
