# A TLA+ verification of uxsched

This directory models the userspace fiber scheduler under `src/`, checks it
with TLC and proves part of it with TLAPS. `PROJECT.json` is the index: which
definition stands for which lines, what each run checks, which hazard each
property is about.

    tlasany UxSched.tla                                   parse
    tlc -workers 2 -config UxSchedProgress.cfg UxSched    model-check
    tlapm BoundedMpmcQueueProofs.tla                      check the proofs

and run `tlapm` the same way on the other modules whose names end in `Proofs`.
Runs with a proved invariant are of the module that ends in `Invariant`, which
adds that invariant to the component's module, or of an `MC` module that extends it:

    tlc -workers 2 -config UxSchedTwoCores.cfg UxSchedInvariant

## 1. Inventory of the system

`uxsched` starts one pinned runner thread per core. A client submits functions;
each becomes a *fiber* with its own stack, put into a per-core queue chosen by a
hash of its id, or into one overflow queue. Runners switch to fibers; a fiber
gives control back at a safepoint (`safepoint_check`) or by returning.

| part (under `src/schedular/`) | state | operations | talks to |
|---|---|---|---|
| `schedular.h` `uxsched` | vectors of queues, runners, threads; one shared `_backoff`; counters | constructor, `spawn`, `try_spawn`, `safepoint_check`, destructor | everything below |
| `runner/runner.h` `runner` | `_current_fiber`, `_hot_local` (LIFO of yielded fibers), `_hot_used` | `run`, `get_current_fiber`, `close`, `is_closed` | own queue, overflow queue, stealer, pool, fibers |
| `queues/bounded_mpmc_queue.h` | ring of (sequence, data) cells, `_enqueue_pos`, `_dequeue_pos`, `_closed` | `enqueue`, `dequeue`, `close`, `is_closed` | called by submitters, runners, thieves, destructor |
| `fiber_pool.h`, `fiber_t.h` | `_head` of an intrusive free list, `pool_next`, flags, continuations | `acquire`, `release`, constructor, destructor | submitters and runners |
| `loaders/a_hash_loader.h` | pointer to the queues | `try_load`; `load` (unused) | queues |
| `stealer/nonnuma_stealer.h` | pointer to the queues | `get` | queues |
| `exp_backoff.h` | `_attempts` | `wait`, `reset` | runners, `spawn` |
| `queues/mpmc_queue.h` | linked nodes, `head`, `tail`, `closed` | `enqueue`, `dequeue`, `close` | included, not used |
| `queues/spsc_queue.h` | ring, `packets`, `head`, `tail`, `closed` | `enqueue`, `dequeue`, `close` | unused |
| `loaders/rr_loader.h`, `stealer/numa_stealer.h` | `q_id`; queues | `load`; `get` | unused; the second cannot be instantiated |

Under `src/benchmark/` are the clients: two pairs of harnesses that drive the
scheduler and an OS thread pool (a queue behind a mutex and a condition
variable) with the same workloads, a flamegraph driver, and the printing of
statistics. `main.cpp` is a demonstration client.

What is hard about this code:

* *lock-free interleavings*: the two CAS loops of the bounded ring and of the
  free list; unlinked gaps and deleted nodes in the linked queue;
* *fibers change hands*: pool, submitter, queue, owner or thief, hot list and
  pool again, with flags (`yeild`, `context_initialized`) and continuations
  that must agree with the place the fiber is in;
* *checks and the acts that follow them*: the empty `dequeue` before
  `is_closed`, the refused home queue before the overflow queue;
* *shutdown*: `close` races with submissions, and with fibers that yielded or
  that submit themselves;
* *progress*: a LIFO of yielded fibers with a budget, an overflow queue that is
  polled only sometimes, blocking submission, notify calls outside the lock;
* *arithmetic*: ring laps, powers of two, an unsigned subtraction.

What makes each part correct:

* bounded queue: FIFO, each item once, never more than capacity, a thread in a
  cell is alone there, a stopped thread blocks nobody, "full" and "empty" are
  true of one instant of the call;
* pool: a fiber handed out is nobody else's and has ended; none is lost; the
  list ends; it grows only when it is exhausted;
* scheduler: each fiber is in one place; a yielded fiber resumes on its own
  runner; a safepoint finds its own fiber; queued and yielded fibers are
  eventually run; `spawn` and the destructor return; nothing accepted is lost;
* backoff: a bounded amount of spinning, then sleeps that grow;
* linked queue: no deleted node is touched; FIFO;
* SPSC queue and loaders: no update of `packets` is lost; a blocking load ends,
  with its item in one queue; `close` ends;
* OS thread pool: no lost wakeup, every task executed once, termination.

## 2. Plan

Order: what the rest relies on first, then the composition.

1. Bounded queue: `SlotQueue`, `QueueContract`, `BoundedMpmcQueue`, the
   refinement, the inductive invariant, and the proofs of both. *Done.*
2. Fiber pool: `PoolContract`, `FiberPool`, the refinement between them, and the
   proofs of both for one acquirer. *Done.*
3. Scheduler composed of the queue contract, the pool contract, runners, loader,
   stealer and destructor: `UxSched`, and the proofs of its safety. *Done.*
4. `OsThreadPool`, `CapacityGate` and `WinsBenchmark`, which runs one after the
   other, with the proofs of their safety; `ExpBackoff`; `MpmcQueue` with the proof
   for one consumer. *Done.*
5. `SpscQueue`, and `Loaders`, which puts a loader in front of a vector of them,
   with the proofs of their safety; `BoundedLoads`, the hashed loader in front of
   bounded queues. *Done.*
6. `RingSize`: `next_pow2` against the least power of two. *Done.*
7. To come: an abstract first-in-first-out queue that `MpmcQueue` implements with one
   consumer, and an abstract view of the scheduler, in which a task is pending,
   running or done, that `UxSched` implements.

## 3. The modules

### SlotQueue, QueueContract: what the bounded queue promises

The value of a queue is a window of slots, oldest first, each *claimed*,
*ready*, *taken* or *done*. `QueueContract` has one action per observable step
of an operation: its start (with the test of `closed`), its claim or its false
answer, its publish or give-back. An older claimed slot hides the ready ones
behind it from dequeuers, and a taken slot keeps its cell from the next lap, as
in the ring. `SlotQueue` holds the operators on windows, which `UxSched` uses
for its queues.

### BoundedMpmcQueue: the ring

One action per atomic access of `enqueue` (`EnqueueBegin` loads `_closed`,
`EnqueueLoad` the position, `EnqueueSeq` the cell's sequence and branches on
`dif`, `EnqueueCas`, `EnqueueWrite`, `EnqueuePublish`), the same for `dequeue`,
and `Close`. `pc[t]`, `pos[t]`, `m[t]` are a thread's locals. Any thread may do
any operation, at any time. Memory is sequentially consistent: every
cross-thread hand-over goes through `sequence`, stored with release and loaded
with acquire order. Positions are naturals, since a `size_t` wraps after 2^64
operations. `compare_exchange_weak` never fails spuriously on x86, the only
target the headers build for.

`BoundedMpmcRefinement` reads the window off the ring (`WindowBar`) and maps
each `pc` to the contract's `op`; the item of a dequeue is decided at its CAS,
before the load of `data`, and `ItemBar` says so.

`SlotQueueProofs` says what the operators of `SlotQueue` do to a window: which
slots wait, which values a thread claims or takes, and that no value appears or
disappears on the way. The proofs about `UxSched` rest on it.

`RingSize` is `next_pow2` with its shifts; the assumption `NextPow2IsLeast`, which
TLC evaluates with `queue_ring`, compares it with the least power of two that
`UxSched` takes for a capacity.

### PoolContract, FiberPool: the pool

`PoolContract` is what `acquire` and `release` promise: a set of free fibers, of
which `acquire` takes any in one step, and to which a released one returns when
its `release` takes effect; a new fiber is allocated only after an instant of the
call at which none was free.

In `FiberPool`, `acquire` is `AcquireLoad`, `AcquireNext`, `AcquireCas`, then
`AcquireReset`, or `AcquireNew` when the list is empty; `release` is
`ReleaseBegin` (with the load of `_head`), `ReleaseLink`, `ReleaseCas`. Anything
handed out may be released by any thread of `Releasers`. The set of threads that
may acquire is a parameter: the algorithm is right for one (the benchmarks' only
submitter) and wrong for two, because `acquire` compares only the pointer.
`ImplementsPool` is the refinement: `free` is what a walk of the list finds,
`acquire` takes effect at its CAS (so a fiber being reset is in use, `InUseBar`),
`release` at its own, and a thread at `a_new` has seen the end of the list.

### UxSched

One record per thread: `call` for the `spawn` or `try_spawn` it is inside of,
`runner` for the position in `run` and the runner's fields, `main` for the
destructor. A `dequeue` is two steps (take, give the cell back) and so is an
accepted `enqueue` (claim, publish), so that slow threads inside a queue are
part of the model. `Dispatch` is the switch to a fiber (`callcc` or `resume`),
`Safepoint` and `FuncReturns` the two ways back, `Switched` what the runner does
then. Continuations are modelled by where they are: `f_ctx` holds one exactly
while the fiber is suspended, `runner_ctx` names the runner whose continuation
the fiber holds. The task itself is any sequence of safepoints, `spawn` and
`try_spawn` calls (`FibersSpawn`) that ends by returning.

The pool is the set of free fibers that `PoolContract` describes, which the code
implements with one acquirer. With `FibersSpawn = TRUE` several threads may
acquire; what `UxSched` then shows of the scheduler holds of a pool that keeps its
promise, and `FiberPoolTwoAcquirers` shows that this one does not. Free fibers
are all alike (`Release` resets every field the scheduler reads), so `SpawnBegin`
takes a fixed one of them. The pool of the code allocates another fiber when it is
empty; here a submission waits for the environment to have a fiber, which bounds
the number in flight.

The client is `ClientMayCall`, `MayCall` and `DestroyBegin`. It spawns as long as
it likes and, with `MayDestroy`, destroys between two of its calls: at once, as
`main.cpp` does, or when every task has told it that it completed
(`TaskCompletes`, `Finished`), as the benchmarks do; `main.drained` remembers
which. A task reports its completion while its runner is still on its stack, so
a destructor that begins then races with the switch back and the release.

### SpscQueue, Loaders, BoundedLoads

`SpscQueue` is a vector of `spsc_queue`s. `enqueue` is given as operators, one per
access (`AtCapacity`, `MustWait`, `WriteSlot`, `CountPacket`); `dequeue` and `close`
are actions, of one consumer per queue and of a thread that closes the queues one
at a time. Of an item only its presence in a slot is kept. `packets` is written
by producer and consumer and awaited by `close`, `tail` belongs to the producer,
and `head` only counts up, as in the code.

`Loaders` is the producer: an `rr_loader` or an `ah_loader`, with both its
blocking `load` functions. `RoundRobin` is the loop of `rr_loader::load` over
closed queues, `Answered` what each loader does with the answer of `enqueue`, and
the `Enqueue` actions are the steps of `enqueue` in between. Beside the state of the
code it counts, per queue, the items the loader gave up when that queue had refused
them: those of loads that chose the queue (`dropped`) and of loads that were told it
(`refused`). The scheduler uses neither these functions nor this queue; the classes
are checked for what they are written to do.

An SPSC queue waits when it is full. `BoundedLoads` is `ah_loader`'s `load(f)`
before the queues the scheduler gives it, which answer false: windows of
`SlotQueue`, several threads that load, one consumer per queue, and a destructor
that closes the queues in their order. `Refused` is what the loader does with the
answer: the next queue. A fiber given back by a consumer is loaded again.

### OsThreadPool, CapacityGate, WinsBenchmark

`OsThreadPool` has a critical section per step and the notify calls as steps of
their own, after the unlock, with spurious wakeups; `main.waitAll` says which of
the two harnesses runs, the one that closes after all tasks have completed or the
one that closes at a deadline. `CapacityGate` is `run_os_capacity`: creation that
may fail at any thread, the gate, the count, the join and who deletes each
`OsTaskArg`. `WinsBenchmark` composes them as `wins_benchmark.cpp` does, stage B
after stage A. It runs `run_os_capacity` once where stage B calls it for each of
five values of N: the iterations share nothing, and one leaves nothing behind.

### ExpBackoff, MpmcQueue

`ExpBackoff` computes what each `wait` does; only the width of the counter is a
parameter. `MpmcQueue` has an allocator that may return a deleted node again, and
`NoUseAfterFree` says which nodes the next step of each thread dereferences.

## 4. The runs

A run whose module has the proof's inductive invariant checks that, of which the
type invariant is the first conjunct, and does not list the latter again. `MCQueues`
and `MCLoaders` each hold two components that share no state: the initial state
chooses one (`used`, `before`), and the other stays as it was at the start.

Passing runs:

| run | configuration | bounds | what it shows |
|---|---|---|---|
| `queue_ring` | `MCBoundedMpmcQueue` | 3 threads, 2 values, 2 cells, 4 positions (two laps), symmetry | exclusive cells, counters within a lap, the inductive invariant, cells attended; the ring implements `QueueContract` |
| `pool_one_acquirer` | `FiberPool` | 1 acquirer, 3 releasers, 2 pre-warmed, 4 fibers | nothing shared, lost or circular; the inductive invariant; the free list implements `PoolContract` |
| `sched_two_cores` | `UxSchedTwoCores` | 2 runners, 3 fibers, fibers spawn, destructor any time | one place, yielded fibers stay home, safepoints find themselves, only ended fibers are released, a client that waits loses no fiber; the inductive invariant |
| `sched_progress` | `UxSchedProgress` | 1 runner, 5 fibers, two queues of 2 cells, destructor any time | both queues full, submissions refused: the refused fiber stays in one place, `try_spawn` gives it back, blocking spawns of the main thread and the destructor return; the local queue is served however much fibers yield; once submitting and yielding end, every fiber returns to the pool |
| `os_threads` | `WinsBenchmark` | 3 workers or threads, 4 tasks | no lost wakeup, everything queued at close is executed, the gate leaves nothing, termination; the inductive invariant |
| `queues_progress` | `MCQueues` | the linked queue with 2 producers, 1 consumer, 3 items, 4 nodes; or the ring with 2 running threads and one that may stop anywhere | linked: memory safety and FIFO, the inductive invariant; ring: operations keep completing |
| `loaders` | `MCLoaders` | 2 SPSC queues of 2 slots, 4 loads, either loader; or 2 bounded queues of 2 cells, 2 threads, 5 fibers, and the consumer of queue 0 may stop | SPSC: `packets` exact, a null at most as the first item, every load that returned ended on one queue, with its item there but for the drops of `rr_loader`, loads and `close` return, the inductive invariant; bounded: a fiber refused by full or closed queues is neither lost nor loaded twice, and a load returns through the queue that is left |

Runs that TLC refutes, each against a line of the repository (`findings`):

| run | configuration | what happens |
|---|---|---|
| `pool_two_acquirers` | `FiberPoolTwoAcquirers` | ABA: a fiber in use is handed out again |
| `sched_not_delivered` | `UxSchedNotDelivered` | empty `dequeue`, accepted spawn, close: the runner leaves, the fiber stays. Given more steps the same invariant fails for yielded fibers on the hot list and for fibers in the overflow queue |
| `sched_spawn_in_fiber` | `UxSchedSpawnInFiber` | every runner is inside a blocking spawn, nobody drains |
| `mpmc_two_consumers` | `MpmcQueueTwoConsumers` | a consumer reads `next` of the head it has loaded after the other has deleted that node |
| `backoff_sleeps` | `ExpBackoffSleeps` | the first sleeps are the longest |

Further statements were tried and are not promised by the code.

* With `FibersSpawn = TRUE`, `BlockingReturns` also fails for the destructor: a fiber
  inside `spawn` retries on closed queues for ever and the join waits for its runner.
* `Served(Overflow)` fails under `FairSpec`: fibers that keep yielding keep a
  runner from ever finding its local queue empty. And the hot list is a LIFO, so a
  fiber below one that yields for ever is not resumed. `Drains` is what remains:
  both are served once the yielding ends.
* `enqueue` of an `spsc_queue` that finds the ring full waits until `head` and `tail`
  differ. They can differ while it is full, and after as many dequeues as there are
  slots `head`, which is never reduced, is past every `tail`: the wait ends at once and
  a third item is written into a ring of two.
* The first dequeue of an `spsc_queue` reads slot 0, which nobody has written unless
  the ring was filled before: it returns true with a null, and each later dequeue
  reads one slot behind the packet it has claimed. `NullOnlyFirst` is what remains: the
  null is the first answer or none.
* `close` of an `spsc_queue` tests `packets` and stores `closed` in two steps. An
  item enqueued between them stays, and a producer that waits for room in the
  queue then waits for ever.
* `rr_loader::load` drops an item when the queue is closed after the test, and one
  told a closed queue. `LoadEnqueues` counts them: nothing else is lost, and a queue
  costs the loads that choose at most one item.
* With every queue closed, the blocking loads that choose their queue spin for ever,
  and so does that of `ah_loader` to a queue it is told once that one is closed.

### Why the bounds are enough

* Two cells are the smallest ring (`next_pow2`), so each lap boundary and each
  full or empty queue occurs after two operations; three threads give a stalled
  one, one that overtakes it and one that meets both. `MaxPos` bounds
  `_enqueue_pos`; the proof removes all three bounds.
* `QueueSize = 1` gives per-core queues of two cells. `OverflowFactor` (4 in the
  code) is 1 so that five fibers fill everything: one running,
  two queued, two in overflow. Nothing in the model depends on the factor but the capacity.
* With five fibers a spawn refused by both queues is the fifth: the runner has none.
  A refused spawn beside a running or yielded fiber takes a sixth, beyond what a
  liveness run can afford; nor are the queues of `sched_two_cores` ever both full, so
  that its refusals come from closed queues. Of full queues beside running fibers the
  proofs about `UxSched` say that no fiber is lost, not that the spawn returns.
* In `BoundedLoads` five fibers fill both queues with one left to load, and two
  threads compete for the last cell.
* In `queues_progress` one value is enough for the ring, since progress does not
  depend on it; with one consumer, as there, no node is read after it is deleted,
  and `mpmc_two_consumers` has the second.
* `HotBudget` (8 in the code) is 1 or 2: what matters is reaching it and
  resetting it.
* `sched_progress` has one runner on purpose: with two, a thief would serve the
  queue whose owner forgets it, and a missing budget would not show. Two runners,
  which liveness checking cannot afford with the queues full, are `sched_two_cores`.
* `MaxLoads` is twice the capacity of a queue in `Loaders`, so that one queue can
  take a full lap and a second, whose wait for room sees `head` past `tail`.
* `NumFibers` bounds fibers in flight, not submissions: fibers are reused
  without end, so the liveness runs have infinite behaviours.
* `MaxFibers` bounds allocations of the pool; 4 allows two beyond the
  pre-warmed ones. `NumNodes` bounds nodes alive at one time; a deleted node is
  allocated again.
* In `ExpBackoff`, `Width` is 8 instead of 32, enough for the subtraction to wrap
  into the clamp of 20, and `MaxMisses` is far past the last threshold.
* The pool of `OsThreadPool` has more tasks than workers, so that workers come
  back to the queue, and as many workers as it takes for a lost `notify_one` to
  leave one of them asleep.

### Fairness

* Queue: a thread inside an operation keeps executing it (weak fairness per
  thread), except those of `Stalled`. Nothing is assumed about new calls.
* `UxSched`: weak fairness for each runner's own steps (`WF` on its record), for
  each thread's steps inside a spawn, and for the main thread's inside the
  destructor: they are loops of a thread the kernel keeps running. Strong fairness
  for `FiberStep`: a task that now and then calls `spawn` is not enabled to yield
  during the call, and still reaches its next safepoint or its end. That a task
  does so is assumed: the scheduling is cooperative. Main is fair inside a call
  and inside the destructor, not about making calls.
* `Loaders`: weak fairness for each consumer, which polls its queue for ever, for
  a load that has begun and for a close that has begun; none for beginning one.
* `BoundedLoads`: weak fairness for each load that has begun and for the consumers
  outside `Stalled`.
* `MCQueues` and `MCLoaders` restate the fairness of the component in use; the other
  one stays in its initial state and need not move.
* `WinsBenchmark`: weak fairness per thread; none for spurious wakeups.

## 5. What is proved

Every safety property that a passing run checks, the two refinements included, is proved
for every value of the constants, except those of `BoundedLoads` and
`NoUseAfterFree`. Each proof has the same shape: an
inductive invariant (`RingInv`, `FreeListInv`, `SchedInv`, `BenchInv`, `LoadInv`,
`ListInv`; a module of its own, checked by TLC as an invariant of the component's run), one lemma per action that preserves it, and the properties
as consequences. What is assumed of the constants:

| module of proofs | theorems | assumptions |
|---|---|---|
| `BoundedMpmcQueueProofs` | `TypeCorrect`, `Inductive`, `CellExclusiveAlways`, `PositionsInLapAlways` | `CapacityAssumption`: at least 2 cells, as `next_pow2` returns |
| `BoundedMpmcRefinementProofs` | `CellsAlwaysAttended`, `RingImplementsContract` | the same |
| `UxSchedProofs` (with `SlotQueueProofs`) | `SchedInductive`, `SchedTypeCorrect`, `FibersInOnePlace`, `YieldedFibersStayHome`, `SafepointsFindSelf`, `DrainedDestructorFreesAll`, `OnlyEndedFibersReleased` | `SchedAssumption`: what the constructor is called with |
| `FiberPoolProofs` | `PoolTypeCorrect`; with `OneAcquirer` `PoolInductive`, `FreeFibersHandedOut`, `NoFiberDropped`, `FreeListEnds`, `PoolImplementsContract` | `PoolAssumption`; and for all but the types that at most one thread acquires, as when only the main thread spawns |
| `WinsBenchmarkProofs` | `BenchmarkInductive`, `BenchmarkTypeCorrect`, `NoWakeupLost`, `JoinedPoolExecutedAll`, `CapacityLeavesNothing` | `PoolSizes`: finitely many workers, at least one: the harnesses are called with `max(1u, hardware_concurrency())` |
| `LoadersProofs` | `LoadersInductive`, `LoadersTypeCorrect`, `PacketsNeverLost`, `OnlyFirstIsNull`, `EveryLoadEnqueued` | `LoadersAssumption`, `SpscAssumption`: at least one queue, at least one slot |
| `MpmcQueueProofs` | with `OneConsumer` `MpmcInductive`, `MpmcTypeCorrect`, `FifoAlways` | `NodesAssumption`: a thread enqueues or dequeues; and that at most one dequeues, more than the code assumes: with two, a deleted node is read (`mpmc_two_consumers`) |

### The ring

For every set of threads and items, every run length and every capacity of at
least 2 (one cell would not do, since the position published last then equals
the one that is free next). Neither that the capacity is a power of two nor that
`MaxPos` bounds anything is used.

`CellExclusive` is not inductive: it says nothing of the values in `sequence`
that keep a thread out of a cell. `RingInv` describes the lap that starts at
`dequeue_pos`. Its positions have pairwise different cells (`CellInjective`, the
only place where the modulus matters). Those below `enqueue_pos` hold p (being
written) or p + 1 (published); the others hold p (free) or still the p + 1 of the
lap before (being read). A writer's position is in the first part and its cell
holds p, a reader's is one lap before the second part and its cell holds p + 1;
two threads inside cells have different lap positions (`OneOwner`). A CAS that
would still succeed was prepared by a read that is still true
(`EnqueueCasSound`, `DequeueCasSound`). Steps that only move a thread outside the
cells keep all of this by one lemma (`QuietStep`); the steps that claim, and those
that leave a cell, have a lemma each. `CellExclusive` follows since different
positions of one lap have different cells.

The refinement needs two facts more, so its invariant is `RefInv`, the inductive
invariant with `CellsAttended` (a cell that is neither free nor published has its
thread inside) and `DataWritten` (what an enqueuer publishes is what it was called
with). Then each step of the ring is matched with a step of `QueueContract`:

* `SlotsRead` and `WindowRead` say what the slots of a state are and where its window
  starts, so that the steps need not look into `CHOOSE` and `Min` again;
  `WindowQuiet` is the lemma for all steps that change no slot.
* The two CASes and the two stores of `sequence` change the slot of one position
  (`SlotStays` for the others): `Claim` appends, `Publish` and `Take` replace,
  `GiveBack` replaces and cuts the window at the oldest live slot, which is where
  the slowest reader is then (`OldestNext`).
* A false answer of `enqueue` comes from a cell one lap behind. By `NeverBehind` and
  `CellsAttended` its reader is the oldest slot, so the window has `Capacity` slots
  at that instant (`RefusedIsFull`). One of `dequeue` comes from a cell that is not
  published: either no slot waits or the first that does is claimed
  (`RefusedIsEmpty`).
* The store and the load of `data` are stutters: the slot shows the item from the
  CAS of its enqueuer on, and the dequeuer has it from its own CAS on.

### The scheduler

For every number of cores, fibers, queue slots and hot budget, with or without
fibers that spawn, whenever the destructor runs.

`OnePlace` says where a fiber is; that a step keeps it needs what state the fiber
is in there, and that depends on who had it before. `SchedInv` therefore
says for each place what its fibers look like: fresh in the pool, in a submission
and in a queue (`PoolFresh`, `CallFresh`, `QueueFresh`); suspended, on their own
runner and without the flag `yeild` on a hot list (`HotAt`); and in a runner's
hand, one of the four stages of a visit (`Visiting`), with the runner's
continuation in the fiber exactly while the fiber executes. `Callers` ties a
`spawn` of a fiber to the runner that is on its stack, and `Destruction` keeps
what a drained client saw before it began the destructor. The proof goes through
`Next` once per part: types, place, what is known of the fibers, the destructor.
Places are sets that a step changes at one point; the lemmas of `SlotQueueProofs`
say how the set of values that wait in a queue changes when a slot is
claimed, published, taken or given back.

### The pool

For any number of releasers and fibers, with one acquirer. The free list is
`Chain`, a recursive function along `pool_next`. `FreeListInv` says that it visits no
fiber twice and ends, that a fiber is on it, in use, or with one thread inside
`acquire` or `release`, that the acquirer's `f` is still on the list and the `next`
it has read is still right. The last is the absence of ABA: only the acquirer takes fibers off
the list, so that what it looks at stays where it is while releasers push in
front. Chains before and after a step are compared by the lemmas that
precede the steps: the same list, the list without its head, the list
with one more fiber.

`PoolImplementsContract` is the refinement itself: the CAS of `acquire` is the
contract's take, the CAS of `release` its give-back, an allocation is preceded by
an instant at which the list was empty, everything else is a stutter.

### The thread pools and the gate

The queue holds the last tasks pushed, in order (`InOrder`); a task pushed and no
longer queued has been executed once or is with exactly one worker (`OnceEach`,
`Working`); the order of close, exit and join is `Closing`. `NoLostWakeup` is part
of the invariant as it stands: it counts sleepers, queued tasks and notify calls to
come. For the gate, `created` and `completed` are the numbers of threads that
have been created and have counted themselves, and a live argument has the
thread that will delete it.

### The loaders and their queues

`packets` is exactly what has been enqueued less what has been claimed, plus what
is on its way; the items written to a queue are in slots 1, 2, ... modulo the capacity, so that slot
0 is the last to be written (`SlotsWritten`), and the reader's
position follows its claims (`ReaderClaims`). The sum over the queues in
`LoadsCounted` is a fold; what the proof needs of it, that it grows by one when one
queue does, is proved from its recursive definition by a smallest counterexample.
`EveryLoadEnqueued` says of every load that has returned where it ended: on one queue,
which has its item, or has refused it. That a queue costs the loads that choose
at most one item (`DroppedOnce`) holds since the loader tests its own next queue
(`TestsOwn`) and only a close between that test and the enqueue costs one
(`AboutToDrop`).

### The linked queue

Node i is the one that was exchanged into `tail` as the ith. Nodes are told
apart by their values, the items being enqueued once. The nodes from the oldest that has not been
deleted to `tail` are allocated (`Listed`), each with the next node as its `next`
or unlinked (`Linked`); a producer between exchange and link owns the gap behind its
predecessor, which is not before `head` (`Linking`), so that the consumer cannot
pass it and delete the predecessor; and what the consumer has read is still so
(`Dequeueing`). `OldestNode` and `FirstNode` differ from the number of items
dequeued while the consumer is between its CAS and its return.

### Only model-checked

* All liveness: `LockFree`, `BlockingReturns`, `LocalServed`, `Drains`, `Terminates`,
  `LoadReturns`, `CloseReturns`, `LoadFindsRoom`. The prover has no rules for fairness and ENABLED.
* `NextPow2IsLeast`, which TLC evaluates: `RingSize` computes with shifts over a
  bounded width.
* `BoundedLoads`, which adds to the queue only the loop around it; and that no
  deleted node is touched with one consumer (`NoUseAfterFree` in `queues_progress`).
* The five refuted statements. A counterexample is one behaviour, and TLC has it.

## 6. What is not modelled

* Weak memory below what release and acquire give: each step is atomic and
  sequentially consistent. Plain accesses that the properties show to be
  exclusive (`data`) need no more; `pool_next` and the `next` of the linked queue
  are read while they may be written and are taken as one machine word.
* `mmap` (the code does not notice its failure either), guard pages, stack sizes,
  affinity, the submit counters, and `size()`, which nothing calls.
* The shared `_backoff` of concurrent spawns: it races, and only the length of a
  pause depends on it.
* `numa_stealer`, which cannot be instantiated: it calls `get_numa_node` on the
  `queue` interface, which does not declare it. `multi_load` of the loaders, declared
  and never defined; `fast_hash`, called by nobody; the pauses between two rounds
  of the blocking loads, which change no state (`ExpBackoff` models them).
* Workloads, statistics, and the drivers beyond what `UxSched`'s client does.
