------------------------------ MODULE UxSched ------------------------------
(***************************************************************************)
(* The scheduler: spawn and try_spawn (schedular.h), the hashed loader     *)
(* (a_hash_loader.h), the runners (runner.h), the stealer                  *)
(* (nonnuma_stealer.h) and the destructor.  The queues are those           *)
(* QueueContract describes, one step per claim, publish and give-back; the *)
(* pool is the one PoolContract describes, of which FiberPool shows that   *)
(* the code implements it for one acquirer.                                *)
(* A fiber's own code is any sequence of safepoints and spawns that ends   *)
(* by returning.                                                           *)
(***************************************************************************)
EXTENDS Integers, SequencesExt, SlotQueue

CONSTANTS
  NumCores,     \* number of runners
  QueueSize,    \* the constructor's queue_size
  OverflowFactor, \* size of the overflow queue in per-core queues: 4 in the code
  HotBudget,    \* runner::_hot_budget: 8 in the code
  NumFibers,    \* fibers of the pre-warmed pool: bounds the fibers in flight
  FibersSpawn,  \* TRUE: the code of a fiber may call spawn and try_spawn
  MayDestroy    \* TRUE: the main thread may run the destructor

ASSUME SchedAssumption ==
  /\ NumCores \in Nat \ {0}
  /\ QueueSize \in Nat
  /\ OverflowFactor \in Nat \ {0}
  /\ HotBudget \in Nat \ {0}
  /\ FibersSpawn \in BOOLEAN /\ MayDestroy \in BOOLEAN
  /\ NumFibers \in Nat
  /\ NoVal \notin Int

Fibers == 1 .. NumFibers

NextPow2(x) == Min({n \in {2^k : k \in 1 .. 20} : n >= x})

PerQueueCapacity == IF QueueSize > 0 THEN QueueSize ELSE 2^16

Runners == 0 .. NumCores - 1
NoRunner == -1
Main == NumCores               \* the thread that owns the scheduler
Threads == Runners \cup {Main}
Overflow == NumCores           \* _overflow_q; queue i < NumCores is _queues[i]
Queues == Runners \cup {Overflow}

Capacity(q) == IF q = Overflow THEN NextPow2(OverflowFactor * PerQueueCapacity)
                               ELSE NextPow2(PerQueueCapacity)

VARIABLES
  pool,    \* the free fibers of the pool
  fiber,   \* fiber_t: yeild, context_initialized, the two continuations, and
           \* the runner_id its func was called with
  queue,   \* queue -> window of slots
  closed,  \* queue -> _closed
  call,    \* thread -> the spawn or try_spawn call it is inside of
  runner,  \* runner<F>: where run() is and its fields
  main     \* the destructor's progress, and whether every task had finished
           \* when it began

vars == <<pool, fiber, queue, closed, call, runner, main>>

\* A fiber as acquire returns it.  f_ctx holds the fiber's continuation while
\* it is suspended, runner_ctx the runner's while the fiber runs.
ResetFiber == [yeild |-> FALSE, context_initialized |-> FALSE,
               f_ctx |-> "empty", runner_ctx |-> NoRunner, runner_id |-> NoRunner]

NewRunner(r) == [pc |-> "loop", f |-> NoVal, from |-> r, current_fiber |-> NoVal,
                 hot_local |-> <<>>, hot_used |-> 0]

NoCall == [pc |-> "none", f |-> NoVal, home |-> 0, at |-> 0, blocking |-> FALSE]

Init ==
  /\ pool = Fibers
  /\ fiber = [f \in Fibers |-> ResetFiber]
  /\ queue = [q \in Queues |-> EmptyWindow]
  /\ closed = [q \in Queues |-> FALSE]
  /\ call = [t \in Threads |-> NoCall]
  /\ runner = [r \in Runners |-> NewRunner(r)]
  /\ main = [pc |-> "open", next |-> 0, drained |-> FALSE]

-----------------------------------------------------------------------------
(* spawn and try_spawn *)

\* The main thread spawns its tasks, then waits or not, and destroys.
ClientMayCall == main.pc = "open"

\* The threads that may be inside spawn: the main thread, and a runner on whose
\* stack the code of a fiber calls it.
Spawners == {Main} \cup (IF FibersSpawn THEN Runners ELSE {})

MayCall(t) ==
  /\ call[t].pc = "none"
  /\ t = Main => ClientMayCall
  /\ t \in Runners => runner[t].pc = "fiber"

\* The loader's queue for a fiber: hash(fiber_id) % num_q may be any.
HashTargets == Runners

\* Acquire a fiber and set its func and fiber_id.  Which one the pool hands out
\* makes no difference: release has reset them all.
SpawnBegin(t) ==
  /\ MayCall(t)
  /\ pool # {}
  /\ LET f == CHOOSE f \in pool : TRUE IN
       /\ \E home \in HashTargets, blocking \in BOOLEAN :
            call' = [call EXCEPT ![t] = [pc |-> "check", f |-> f, home |-> home,
                                         at |-> home, blocking |-> blocking]]
       /\ pool' = pool \ {f}
       /\ fiber' = [fiber EXCEPT ![f].yeild = FALSE, ![f].context_initialized = FALSE]
  /\ UNCHANGED <<queue, closed, runner, main>>

\* release: destroy the continuations, clear the flags, push.
Release(f) ==
  /\ fiber' = [fiber EXCEPT ![f] = ResetFiber]
  /\ pool' = pool \cup {f}

\* Mutant of GiveUp: the fiber is not released.
GiveUpDrops(t) == call' = [call EXCEPT ![t] = NoCall] /\ UNCHANGED <<pool, fiber>>

\* try_spawn releases the fiber and returns false.
GiveUp(t) == call' = [call EXCEPT ![t] = NoCall] /\ Release(call[t].f)

\* enqueue answered false.  From the home queue go to the overflow queue;
\* from there spawn starts over and try_spawn gives up.
Refused(t) ==
  LET overflow == call[t].at = Overflow IN
    \/ /\ overflow => call[t].blocking
       /\ call' = [call EXCEPT ![t].pc = "check",
                               ![t].at = IF overflow THEN call[t].home ELSE Overflow]
       /\ UNCHANGED <<pool, fiber>>
    \/ overflow /\ ~call[t].blocking /\ GiveUp(t)

\* enqueue loads _closed.
EnqueueCheck(t) ==
  /\ call[t].pc = "check"
  /\ \/ /\ closed[call[t].at]
        /\ Refused(t)
     \/ /\ ~closed[call[t].at]
        /\ call' = [call EXCEPT ![t].pc = "claim"]
        /\ UNCHANGED <<pool, fiber>>
  /\ UNCHANGED <<queue, closed, runner, main>>

\* enqueue finds the queue full, or claims the next slot.
EnqueueClaim(t) ==
  /\ call[t].pc = "claim"
  /\ LET q == call[t].at IN
       \/ /\ Full(queue[q], Capacity(q))
          /\ Refused(t)
          /\ UNCHANGED queue
       \/ /\ ~Full(queue[q], Capacity(q))
          /\ queue' = [queue EXCEPT ![q] = Claim(@, call[t].f, t)]
          /\ call' = [call EXCEPT ![t].pc = "publish"]
          /\ UNCHANGED <<pool, fiber>>
  /\ UNCHANGED <<closed, runner, main>>

\* enqueue publishes the slot; spawn returns the fiber.
EnqueuePublish(t) ==
  /\ call[t].pc = "publish"
  /\ queue' = [queue EXCEPT ![call[t].at] = Publish(@, t)]
  /\ call' = [call EXCEPT ![t] = NoCall]
  /\ UNCHANGED <<pool, fiber, closed, runner, main>>

SpawnStep(t) == EnqueueCheck(t) \/ EnqueueClaim(t) \/ EnqueuePublish(t)

-----------------------------------------------------------------------------
(* runner::run *)

At(r, l) == runner[r].pc = l

\* Mutant of SwitchTo: _current_fiber is set only when the fiber starts.
SwitchToForgets(rec, f) ==
  [rec EXCEPT !.pc = "fiber", !.f = f,
              !.current_fiber = IF fiber[f].context_initialized THEN @ ELSE f]

SwitchTo(rec, f) == [rec EXCEPT !.pc = "fiber", !.f = f, !.current_fiber = f]

\* Set _current_fiber and switch to f: callcc on its stack the first time,
\* resume of f_ctx afterwards.  rec is the runner's record before the switch.
Dispatch(r, rec, f) ==
  /\ runner' = [runner EXCEPT ![r] = SwitchTo(rec, f)]
  /\ fiber' = [fiber EXCEPT ![f] =
       [@ EXCEPT !.context_initialized = TRUE, !.f_ctx = "empty", !.runner_ctx = r,
                 !.runner_id = IF fiber[f].context_initialized THEN fiber[f].runner_id ELSE r]]

HotIsDue(r) == runner[r].hot_local # <<>> /\ runner[r].hot_used < HotBudget

\* Mutants of HotPopped: the pop is not charged to the budget; the fiber stays
\* on the list.
HotPoppedUncounted(r) == [runner[r] EXCEPT !.hot_local = Front(@)]
HotPoppedKept(r) == [runner[r] EXCEPT !.hot_used = @ + 1]

HotPopped(r) == [runner[r] EXCEPT !.hot_local = Front(@), !.hot_used = @ + 1]

\* 1) a yielded fiber, newest first.
PopHot(r) ==
  /\ At(r, "loop")
  /\ HotIsDue(r)
  /\ Dispatch(r, HotPopped(r), Last(runner[r].hot_local))
  /\ UNCHANGED <<pool, queue, closed, call, main>>

\* dequeue on queue q: claim its front slot, or answer false and go on at miss.
\* The queues are polled only after the hot list, with _hot_used reset.
Dequeue(r, q, miss) ==
  /\ \/ /\ HasReady(queue[q])
        /\ queue' = [queue EXCEPT ![q] = Take(@, r)]
        /\ runner' = [runner EXCEPT ![r].pc = "giveback", ![r].from = q,
                                    ![r].f = queue[q][FrontSlot(queue[q])].val,
                                    ![r].hot_used = 0]
     \/ /\ ~HasReady(queue[q])
        /\ runner' = [runner EXCEPT ![r] = [miss EXCEPT !.hot_used = 0]]
        /\ UNCHANGED queue
  /\ UNCHANGED <<pool, fiber, closed, call, main>>

\* 2) otherwise reset the budget and poll the local queue.
PopLocal(r) ==
  /\ At(r, "loop")
  /\ ~HotIsDue(r)
  /\ Dequeue(r, r, [runner[r] EXCEPT !.pc = "closed?"])

\* Mutant of AfterLocal: the overflow queue is never polled.
AfterLocalSteals(r) == IF closed[r] THEN "exited" ELSE "steal"

\* A runner whose own queue looked empty leaves run() if the queue is closed.
AfterLocal(r) == IF closed[r] THEN "exited" ELSE "overflow"

CheckClosed(r) ==
  /\ At(r, "closed?")
  /\ runner' = [runner EXCEPT ![r].pc = AfterLocal(r)]
  /\ UNCHANGED <<pool, fiber, queue, closed, call, main>>

\* 3) the overflow queue.
PopOverflow(r) ==
  At(r, "overflow") /\ Dequeue(r, Overflow, [runner[r] EXCEPT !.pc = "steal", !.from = 0])

\* 4) the stealer tries every queue from 0; after the last one, back off.
Steal(r) ==
  /\ At(r, "steal")
  /\ LET q == runner[r].from IN
       Dequeue(r, q, IF q + 1 < NumCores THEN [runner[r] EXCEPT !.from = q + 1]
                     ELSE [runner[r] EXCEPT !.pc = "loop", !.from = r])

\* The end of dequeue, then the switch to the fiber.
GiveBackCell(r) ==
  /\ At(r, "giveback")
  /\ queue' = [queue EXCEPT ![runner[r].from] = GiveBack(@, r)]
  /\ Dispatch(r, [runner[r] EXCEPT !.from = r], runner[r].f)
  /\ UNCHANGED <<pool, closed, call, main>>

\* Mutant of HasYielded: the flag is tested after it has been cleared.
HasYieldedLate(f) == FALSE

HasYielded(f) == fiber[f].yeild

\* Mutant of ClearYeild: yeild is not cleared before the fiber is kept.
ClearYeildNot(f) == UNCHANGED fiber

ClearYeild(f) == fiber' = [fiber EXCEPT ![f].yeild = FALSE]

\* Control is back from the fiber: keep it if it yielded, else release it.
Switched(r) ==
  /\ At(r, "switched")
  /\ LET f == runner[r].f
         rec == [runner[r] EXCEPT !.pc = "loop", !.f = NoVal, !.current_fiber = NoVal] IN
       \/ /\ HasYielded(f)
          /\ ClearYeild(f)
          /\ runner' = [runner EXCEPT ![r] = [rec EXCEPT !.hot_local = Append(@, f)]]
          /\ UNCHANGED pool
       \/ /\ ~HasYielded(f)
          /\ Release(f)
          /\ runner' = [runner EXCEPT ![r] = rec]
  /\ UNCHANGED <<queue, closed, call, main>>

RunnerStep(r) ==
  \/ PopHot(r) \/ PopLocal(r) \/ CheckClosed(r) \/ PopOverflow(r)
  \/ Steal(r) \/ GiveBackCell(r) \/ Switched(r)

-----------------------------------------------------------------------------
(* The code of the fiber that runner r has switched to. *)

InFiber(r) == At(r, "fiber") /\ call[r].pc = "none"

get_current_fiber(r) == runner[r].current_fiber

\* safepoint_check(runner_id): look up the current fiber of the runner whose
\* id func was called with, mark it and resume its runner_ctx.  A runner that
\* has no current fiber makes the call return at once.
Safepoint(r) ==
  /\ InFiber(r)
  /\ LET f == runner[r].f
         g == get_current_fiber(fiber[f].runner_id) IN
       /\ g # NoVal
       /\ fiber' = [fiber EXCEPT ![g].yeild = TRUE, ![g].runner_ctx = NoRunner,
                                 ![f].f_ctx = "suspended"]
  /\ runner' = [runner EXCEPT ![r].pc = "switched"]
  /\ UNCHANGED <<pool, queue, closed, call, main>>

\* The last thing the task does: it tells its client that it has completed, by
\* a counter or a promise.  The runner is still on the fiber's stack.
TaskCompletes(r) ==
  /\ InFiber(r)
  /\ runner' = [runner EXCEPT ![r].pc = "completed"]
  /\ UNCHANGED <<pool, fiber, queue, closed, call, main>>

\* func returns: the context ends and hands runner_ctx back.
FuncReturns(r) ==
  /\ At(r, "completed")
  /\ fiber' = [fiber EXCEPT ![runner[r].f].f_ctx = "empty",
                            ![runner[r].f].runner_ctx = NoRunner]
  /\ runner' = [runner EXCEPT ![r].pc = "switched"]
  /\ UNCHANGED <<pool, queue, closed, call, main>>

FiberStep(r) == Safepoint(r) \/ TaskCompletes(r) \/ FuncReturns(r)

-----------------------------------------------------------------------------
(* ~uxsched *)

\* Every spawned task has completed, as a client sees it that waits for a
\* counter or for futures.  A runner may still be on the stack of a fiber, or
\* have one to release.
Finished ==
  /\ \A q \in Queues : Waiting(queue[q]) = {}
  /\ \A r \in Runners :
       /\ runner[r].hot_local = <<>>
       /\ runner[r].pc \notin {"giveback", "fiber"}
       /\ At(r, "switched") => ~fiber[runner[r].f].yeild

DestroyBegin ==
  /\ MayDestroy
  /\ main.pc = "open"
  /\ call[Main].pc = "none"
  /\ main' = [main EXCEPT !.pc = "close", !.drained = Finished]
  /\ UNCHANGED <<pool, fiber, queue, closed, call, runner>>

\* Mutant of CloseQueue: the loop skips queue 0.
CloseQueueSkips(q) == closed' = [closed EXCEPT ![q] = q # 0]

CloseQueue(q) == closed' = [closed EXCEPT ![q] = TRUE]

\* Close the per-core queues in order, then the overflow queue.
CloseNext ==
  /\ main.pc = "close"
  /\ CloseQueue(main.next)
  /\ main' = [main EXCEPT !.next = @ + 1, !.pc = IF main.next = Overflow THEN "join" ELSE "close"]
  /\ UNCHANGED <<pool, fiber, queue, call, runner>>

\* Mutant of Joined: the threads are not joined.
JoinedNone == TRUE

Joined == \A r \in Runners : At(r, "exited")

\* Every thread is joined; the queues and the pool's free fibers are deleted.
JoinAndDelete ==
  /\ main.pc = "join"
  /\ Joined
  /\ main' = [main EXCEPT !.pc = "deleted"]
  /\ UNCHANGED <<pool, fiber, queue, closed, call, runner>>

Destroy == DestroyBegin \/ CloseNext \/ JoinAndDelete

\* Nothing runs after the destructor.
Stopped == main.pc = "deleted" /\ UNCHANGED vars

Next ==
  \/ \E t \in Spawners : SpawnBegin(t) \/ SpawnStep(t)
  \/ \E r \in Runners : RunnerStep(r) \/ FiberStep(r)
  \/ Destroy
  \/ Stopped

Spec == Init /\ [][Next]_vars

\* Each runner thread keeps running, and so does the main thread inside a call
\* of spawn or the destructor.  The code of a fiber reaches its next safepoint
\* or its end, whatever number of calls that return it makes before.
Fairness ==
  /\ \A r \in Runners :
       /\ WF_<<runner[r]>>(RunnerStep(r))
       /\ SF_<<runner[r]>>(FiberStep(r))
  /\ \A t \in Spawners : WF_<<call[t]>>(SpawnStep(t))
  /\ WF_main(CloseNext \/ JoinAndDelete)

FairSpec == Spec /\ Fairness

-----------------------------------------------------------------------------
SlotType == [val : Fibers \cup {NoVal}, own : Threads \cup {NoThread},
             st : {"claimed", "ready", "taken", "done"}]

FiberType == [yeild : BOOLEAN, context_initialized : BOOLEAN,
              f_ctx : {"empty", "suspended"}, runner_ctx : Runners \cup {NoRunner},
              runner_id : Runners \cup {NoRunner}]

CallType == [pc : {"none", "check", "claim", "publish"}, f : Fibers \cup {NoVal},
             home : Runners, at : Queues, blocking : BOOLEAN]

RunnerType == [pc : {"loop", "closed?", "overflow", "steal", "giveback",
                     "fiber", "completed", "switched", "exited"},
               f : Fibers \cup {NoVal}, from : Queues, current_fiber : Fibers \cup {NoVal},
               hot_local : Seq(Fibers), hot_used : 0 .. HotBudget]

TypeOK ==
  /\ pool \subseteq Fibers
  /\ fiber \in [Fibers -> FiberType]
  /\ queue \in [Queues -> Seq(SlotType)]
  /\ closed \in [Queues -> BOOLEAN]
  /\ call \in [Threads -> CallType]
  /\ runner \in [Runners -> RunnerType]
  /\ main \in [pc : {"open", "close", "join", "deleted"}, next : 0 .. Overflow + 1,
              drained : BOOLEAN]

\* Where a fiber_t can be: on the free list, in the hand of a spawn that has
\* not claimed a slot, in a slot no runner has taken, with a runner, or on a
\* runner's list of yielded fibers.
Free(f) == {<<"pool">> : g \in pool \cap {f}}
Spawned(f) == {<<"call", t>> : t \in {t \in Threads : call[t].f = f /\ call[t].pc \in {"check", "claim"}}}
Queued(f) == UNION {{<<"queue", q, i>> : i \in {i \in Waiting(queue[q]) : queue[q][i].val = f}} : q \in Queues}
Held(f) == {<<"runner", r>> : r \in {r \in Runners : runner[r].f = f}}
Hot(f) == UNION {{<<"hot", r, i>> : i \in {i \in DOMAIN runner[r].hot_local : runner[r].hot_local[i] = f}} : r \in Runners}

Places(f) == Free(f) \cup Spawned(f) \cup Queued(f) \cup Held(f) \cup Hot(f)

\* A fiber is in exactly one place, whatever the interleaving of spawns, steals,
\* yields and exits: it is never run by two runners, run twice for one spawn,
\* reused while somebody still has it, or dropped.
OnePlace ==
  \A f \in Fibers : \E p \in Places(f) : Places(f) = {p}

\* A yielded fiber waits, suspended, on the list of the runner that started
\* it; a queued one has never been started.  So a resume never meets an empty
\* continuation and a fiber never moves to another thread after its start.
YieldedStaysHome ==
  /\ \A r \in Runners : \A i \in DOMAIN runner[r].hot_local :
       LET x == fiber[runner[r].hot_local[i]] IN
         x.context_initialized /\ x.f_ctx = "suspended" /\ ~x.yeild /\ x.runner_id = r
  /\ \A q \in Queues : \A i \in Waiting(queue[q]) :
       fiber[queue[q][i].val] = ResetFiber

\* When the code of a fiber calls safepoint_check with the runner_id it was
\* given at its start, the fiber looked up there is itself and the
\* continuation it resumes is that of the thread it is running on.
SafepointFindsSelf ==
  \A r \in Runners : At(r, "fiber") =>
    LET f == runner[r].f IN
      /\ get_current_fiber(fiber[f].runner_id) = f
      /\ fiber[f].runner_ctx = r

\* What spawn accepted has been run to its end once the scheduler is gone: no
\* fiber is left in a queue the destructor deletes or, half-way through its
\* code, on the list of a runner that has left run().
Delivered == main.pc = "deleted" => \A f \in Fibers : Queued(f) = {} /\ Hot(f) = {}

\* A client that destroys the scheduler only after every fiber's code has
\* finished finds all fibers back on the free list, which is all that
\* ~fiber_pool frees.
NoFiberLeaked ==
  main.pc = "deleted" /\ main.drained => pool = Fibers

\* A published fiber at the front of queue q does not stay there for ever: a
\* runner takes one, or the destructor begins.  A queue being FIFO, every fiber
\* in it reaches the front.
Served(q) ==
  []<>\/ ~HasReady(queue[q])
      \/ \E r \in Runners : At(r, "giveback") /\ runner[r].from = q
      \/ main.pc # "open"

\* The per-core queues are served however long the fibers that yielded keep
\* yielding: the hot list comes first, but only up to its budget.
LocalServed == \A q \in Runners : Served(q)

\* Thread t is inside a blocking operation: spawn, or the destructor.
Blocked(t) ==
  \/ call[t].pc # "none" /\ call[t].blocking
  \/ t = Main /\ main.pc \in {"close", "join"}

\* A blocking spawn returns however full the queues are when it begins, and a
\* destructor returns whatever is queued, running or yielding when it begins:
\* each runner drains its queue and notices the close between its hot fibers.
BlockingReturns == \A t \in Spawners : []<>~Blocked(t)

\* From here on the client submits nothing and does not destroy.
Quiet == main.pc = "open" /\ \A t \in Threads : call[t].pc = "none"

\* A runner is back from a fiber that yielded.
Yielding == \E r \in Runners : At(r, "switched") /\ fiber[runner[r].f].yeild

\* Once the client has stopped submitting and its tasks have stopped yielding,
\* every accepted task runs to its end and its fiber returns to the pool,
\* wherever it was: in a queue, in the overflow queue that is polled last, or
\* deep in a runner's LIFO of yielded fibers.  The drain loops of the
\* benchmarks wait for this.
Drains ==
  <>[](Quiet /\ ~Yielding) => []<>(pool = Fibers)

\* What release asks of its caller: a fiber enters the pool only when it is no
\* longer executing and holds no continuation, its own or its runner's.
ReleasesEnded ==
  [][\A f \in pool' \ pool : fiber[f].f_ctx = "empty" /\ fiber[f].runner_ctx = NoRunner]_vars
=============================================================================
