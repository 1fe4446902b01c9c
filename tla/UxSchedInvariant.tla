-------------------------- MODULE UxSchedInvariant --------------------------
(***************************************************************************)
(* The inductive invariant of UxSched: what everybody who has a fiber_t in *)
(* his hand relies on, from acquire to release.                            *)
(***************************************************************************)
EXTENDS UxSched

\* A fiber on the free list is as release left it, one that spawn has not yet
\* enqueued as acquire returned it, one that waits in a queue the same.
PoolFresh == \A f \in pool : fiber[f] = ResetFiber

CallFresh ==
  \A t \in Threads : call[t].pc \in {"check", "claim"} => fiber[call[t].f] = ResetFiber

QueueFresh ==
  \A q \in Queues : \A i \in Waiting(queue[q]) :
    queue[q][i].val \in Fibers /\ fiber[queue[q][i].val] = ResetFiber

\* A thread inside spawn has a fiber; a runner is there only with the code of
\* the fiber it has switched to.
Callers ==
  \A t \in Threads : call[t].pc # "none" =>
    /\ call[t].f \in Fibers
    /\ t \in Runners => At(t, "fiber")

\* The fiber x waits, suspended, for runner r to resume it.
SuspendedAt(x, r) ==
  /\ x.context_initialized /\ x.f_ctx = "suspended"
  /\ x.runner_ctx = NoRunner /\ x.runner_id = r

HotAt(r) ==
  \A i \in DOMAIN runner[r].hot_local :
    LET x == fiber[runner[r].hot_local[i]] IN SuspendedAt(x, r) /\ ~x.yeild

\* A runner has a fiber exactly between its claim of a slot, or its pop of the
\* hot list, and the end of its visit to the fiber.
InHand(r) == runner[r].pc \in {"giveback", "fiber", "completed", "switched"}

\* What runner r knows of the fiber x it has: not started yet; running, with
\* the runner's continuation in runner_ctx; once it is back, suspended or ended.
Visiting(x, r) ==
  /\ At(r, "giveback") => x = ResetFiber
  /\ runner[r].pc \in {"fiber", "completed"} =>
       /\ x.context_initialized /\ ~x.yeild /\ x.f_ctx = "empty"
       /\ x.runner_ctx = r /\ x.runner_id = r
       /\ runner[r].current_fiber = runner[r].f
  /\ At(r, "switched") => \/ x.yeild /\ SuspendedAt(x, r)
                          \/ ~x.yeild /\ x.f_ctx = "empty" /\ x.runner_ctx = NoRunner

HeldBy(r) ==
  /\ runner[r].f \in Fibers <=> InHand(r)
  /\ InHand(r) => Visiting(fiber[runner[r].f], r)

RunnersOK == \A r \in Runners : HotAt(r) /\ HeldBy(r)

\* A destructor that began when every task had completed finds nobody starting
\* anything, and the runners gone once it has joined them.
Destruction ==
  /\ main.pc \in {"open", "close"} => main.next \in Queues
  /\ main.pc # "open" /\ main.drained => Finished /\ \A t \in Threads : call[t].pc = "none"
  /\ main.pc = "deleted" => \A r \in Runners : At(r, "exited")

\* Every state the scheduler reaches satisfies these parts together: a fiber is
\* in one place, and each place knows in which state its fibers are.
SchedInv ==
  /\ TypeOK
  /\ OnePlace
  /\ PoolFresh
  /\ CallFresh
  /\ QueueFresh
  /\ Callers
  /\ RunnersOK
  /\ Destruction
=============================================================================
