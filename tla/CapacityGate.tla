---------------------------- MODULE CapacityGate ----------------------------
(***************************************************************************)
(* run_os_capacity and os_task_fn: the main thread creates up to one       *)
(* thread per member of Threads, each with an OsTaskArg of its own, opens  *)
(* the gate, waits until every created thread has counted itself, and      *)
(* joins.  pthread_create may fail at any thread; the loop then ends.      *)
(***************************************************************************)
EXTENDS Naturals, FiniteSets

CONSTANT Threads  \* target_n = Cardinality(Threads)

VARIABLES go,         \* the gate
          completed,  \* threads that have counted themselves
          created,    \* threads that exist or have existed
          thread,     \* thread -> where it is
          arg,        \* thread -> its OsTaskArg: none, live or deleted
          bench       \* where the main thread is

vars == <<go, completed, created, thread, arg, bench>>

Init ==
  /\ go = FALSE
  /\ completed = 0
  /\ created = 0
  /\ thread = [t \in Threads |-> "none"]
  /\ arg = [t \in Threads |-> "none"]
  /\ bench = "create"

-----------------------------------------------------------------------------
\* new OsTaskArg, pthread_create.
Create ==
  /\ bench = "create"
  /\ \E t \in Threads :
       /\ thread[t] = "none"
       /\ thread' = [thread EXCEPT ![t] = "spin"]
       /\ arg' = [arg EXCEPT ![t] = "live"]
  /\ created' = created + 1
  /\ UNCHANGED <<go, completed, bench>>

\* pthread_create fails: the argument is deleted and the loop left.
CreateFails ==
  /\ bench = "create"
  /\ \E t \in Threads :
       /\ thread[t] = "none"
       /\ arg' = [arg EXCEPT ![t] = "deleted"]
  /\ bench' = "open"
  /\ UNCHANGED <<go, completed, created, thread>>

\* The loop has ended: open the gate.
OpenGate ==
  /\ \/ bench = "open"
     \/ bench = "create" /\ \A t \in Threads : thread[t] # "none"
  /\ go' = TRUE
  /\ bench' = "wait"
  /\ UNCHANGED <<completed, created, thread, arg>>

\* Poll completed against the threads that were created.
AwaitCompleted ==
  /\ bench = "wait"
  /\ completed >= created
  /\ bench' = "join"
  /\ UNCHANGED <<go, completed, created, thread, arg>>

\* Mutant of AllExited: the threads are not joined.
AllExitedUnchecked == TRUE

AllExited == \A t \in Threads : thread[t] \in {"none", "exited"}

\* pthread_join of every thread that was created.
JoinAll ==
  /\ bench = "join"
  /\ AllExited
  /\ bench' = "done"
  /\ UNCHANGED <<go, completed, created, thread, arg>>

BenchStep == Create \/ CreateFails \/ OpenGate \/ AwaitCompleted \/ JoinAll

-----------------------------------------------------------------------------
\* os_task_fn: leave the spin loop once the gate is open, ...
PassGate(t) ==
  /\ thread[t] = "spin"
  /\ go
  /\ thread' = [thread EXCEPT ![t] = "count"]
  /\ UNCHANGED <<go, completed, created, arg, bench>>

\* ... count, ...
Count(t) ==
  /\ thread[t] = "count"
  /\ completed' = completed + 1
  /\ thread' = [thread EXCEPT ![t] = "delete"]
  /\ UNCHANGED <<go, created, arg, bench>>

\* ... and delete the argument.
DeleteArg(t) ==
  /\ thread[t] = "delete"
  /\ arg' = [arg EXCEPT ![t] = "deleted"]
  /\ thread' = [thread EXCEPT ![t] = "exited"]
  /\ UNCHANGED <<go, completed, created, bench>>

ThreadStep(t) == PassGate(t) \/ Count(t) \/ DeleteArg(t)

Next == BenchStep \/ \E t \in Threads : ThreadStep(t)

Fairness == WF_vars(BenchStep) /\ \A t \in Threads : WF_vars(ThreadStep(t))

-----------------------------------------------------------------------------
TypeOK ==
  /\ go \in BOOLEAN
  /\ completed \in 0 .. Cardinality(Threads)
  /\ created \in 0 .. Cardinality(Threads)
  /\ thread \in [Threads -> {"none", "spin", "count", "delete", "exited"}]
  /\ arg \in [Threads -> {"none", "live", "deleted"}]
  /\ bench \in {"create", "open", "wait", "join", "done"}

\* When the harness returns nothing of it is left, wherever the creation of
\* threads failed: every created thread has passed the gate, counted itself
\* and ended, so no thread uses go and completed, which are locals of the
\* harness, and no OsTaskArg is leaked.
NothingLeft ==
  bench = "done" =>
    /\ completed = created
    /\ \A t \in Threads : thread[t] \in {"none", "exited"} /\ arg[t] # "live"
=============================================================================
