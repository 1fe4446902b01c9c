--------------------------- MODULE WinsBenchmark ----------------------------
(***************************************************************************)
(* The OS-thread side of wins_benchmark.cpp: stage A, the pool over the    *)
(* mutex queue, then stage B, the capacity gate.  The harness of           *)
(* os_threads_benchmark.h, which OsThreadPool has as waitAll = FALSE, is a *)
(* program of its own and ends after the pool.                             *)
(***************************************************************************)
EXTENDS OsThreadPool

VARIABLES go, completed, created, thread, arg, bench  \* see CapacityGate

Gate == INSTANCE CapacityGate WITH Threads <- Workers

gateVars == <<go, completed, created, thread, arg, bench>>

allVars == <<vars, gateVars>>

BenchmarkInit == Init /\ Gate!Init

run_stage_a == Next /\ UNCHANGED gateVars

run_stage_b == main.pc = "done" /\ main.waitAll /\ Gate!Next /\ UNCHANGED vars

Ended == main.pc = "done" /\ (main.waitAll => bench = "done")

Stopped == Ended /\ UNCHANGED allVars

BenchmarkNext == run_stage_a \/ run_stage_b \/ Stopped

\* Every thread of a stage keeps running while the stage lasts.
BenchmarkSpec ==
  /\ BenchmarkInit /\ [][BenchmarkNext]_allVars
  /\ WF_allVars(MainStep /\ UNCHANGED gateVars)
  /\ WF_allVars(Gate!BenchStep /\ run_stage_b)
  /\ \A w \in Workers :
       /\ WF_allVars((Dequeue(w) \/ Execute(w)) /\ UNCHANGED gateVars)
       /\ WF_allVars(Gate!ThreadStep(w) /\ run_stage_b)

-----------------------------------------------------------------------------
TypesOK == TypeOK /\ Gate!TypeOK

\* See CapacityGate.
NothingLeft == Gate!NothingLeft

\* The program ends: no worker waits for ever once the queue is closed, and no
\* stage waits for a thread that could not be created.
Terminates == <>Ended
=============================================================================
