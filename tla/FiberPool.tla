----------------------------- MODULE FiberPool -----------------------------
(***************************************************************************)
(* schedular/fiber_pool.h: the intrusive free list behind acquire and      *)
(* release, one access to shared memory per step.  Fibers are numbered in  *)
(* the order they are allocated; the first Prewarm of them by the          *)
(* constructor.  The plain field pool_next is read and written as one      *)
(* machine word.  compare_exchange_weak does not fail spuriously on x86.   *)
(***************************************************************************)
EXTENDS Naturals

CONSTANTS Acquirers,  \* threads that call acquire (spawn, try_spawn)
          Releasers,  \* threads that call release (runners, try_spawn)
          Prewarm,    \* fibers the constructor allocates
          MaxFibers   \* bound on the fibers ever allocated

ASSUME PoolAssumption == Prewarm \in Nat /\ MaxFibers \in Nat /\ Prewarm <= MaxFibers

Threads == Acquirers \cup Releasers
Fibers == 1 .. MaxFibers
Null == 0
Pointers == Fibers \cup {Null}

VARIABLES head,       \* _head
          pool_next,  \* fiber -> intrusive link
          allocated,  \* number of fibers allocated so far
          inUse,      \* fibers handed out by acquire and not yet given to release
          pc,
          f,          \* thread -> local variable f, or release's argument
          next        \* thread -> acquire's local next, or the head push has loaded

vars == <<head, pool_next, allocated, inUse, pc, f, next>>

\* The constructor pushes the fibers it allocates one on top of the other.
Init ==
  /\ head = Prewarm
  /\ pool_next = [x \in Fibers |-> IF x <= Prewarm THEN x - 1 ELSE Null]
  /\ allocated = Prewarm
  /\ inUse = {}
  /\ pc = [t \in Threads |-> "idle"]
  /\ f = [t \in Threads |-> Null]
  /\ next = [t \in Threads |-> Null]

Goto(t, l) == pc' = [pc EXCEPT ![t] = l]

\* f = p, then the test of the while loop: an empty list means allocating.
Inspect(t, p) ==
  /\ f' = [f EXCEPT ![t] = p]
  /\ Goto(t, IF p = Null THEN "a_new" ELSE "a_next")

\* return p: it belongs to the caller now, and the locals go out of scope.
HandOut(t, p) ==
  /\ inUse' = inUse \cup {p}
  /\ Goto(t, "idle")
  /\ f' = [f EXCEPT ![t] = Null]
  /\ next' = [next EXCEPT ![t] = Null]

-----------------------------------------------------------------------------
\* acquire: f = _head.load().  A call starts only while an allocation would
\* stay within MaxFibers.
AcquireLoad(t) ==
  /\ pc[t] = "idle"
  /\ allocated < MaxFibers \/ head # Null
  /\ Inspect(t, head)
  /\ UNCHANGED <<head, pool_next, allocated, inUse, next>>

\* next = f->pool_next.
AcquireNext(t) ==
  /\ pc[t] = "a_next"
  /\ next' = [next EXCEPT ![t] = pool_next[f[t]]]
  /\ Goto(t, "a_cas")
  /\ UNCHANGED <<head, pool_next, allocated, inUse, f>>

\* Mutants of AcquireRetry: a failed CAS allocates instead of looking again; it
\* is retried with the next that was loaded.
AcquireRetryGivesUp(t) == Inspect(t, Null)
AcquireRetryStaleNext(t) == f' = [f EXCEPT ![t] = head] /\ UNCHANGED pc

\* A failed CAS loads the current head into f, for the test of the loop.
AcquireRetry(t) == Inspect(t, head)

\* CAS of _head from f to next.
AcquireCas(t) ==
  /\ pc[t] = "a_cas"
  /\ \/ /\ head = f[t]
        /\ head' = next[t]
        /\ Goto(t, "a_reset")
        /\ UNCHANGED f
     \/ /\ head # f[t]
        /\ AcquireRetry(t)
        /\ UNCHANGED head
  /\ UNCHANGED <<pool_next, allocated, inUse, next>>

\* Reset the popped fiber and return it.
AcquireReset(t) ==
  /\ pc[t] = "a_reset"
  /\ pool_next' = [pool_next EXCEPT ![f[t]] = Null]
  /\ HandOut(t, f[t])
  /\ UNCHANGED <<head, allocated>>

\* Pool exhausted: allocate a fiber and its stack.
AcquireNew(t) ==
  /\ pc[t] = "a_new"
  /\ allocated < MaxFibers
  /\ allocated' = allocated + 1
  /\ HandOut(t, allocated + 1)
  /\ UNCHANGED <<head, pool_next>>

-----------------------------------------------------------------------------
\* release(x) by whoever holds x: the resets touch only x itself, then push
\* loads _head.
ReleaseBegin(t, x) ==
  /\ pc[t] = "idle"
  /\ x \in inUse
  /\ inUse' = inUse \ {x}
  /\ f' = [f EXCEPT ![t] = x]
  /\ next' = [next EXCEPT ![t] = head]
  /\ Goto(t, "r_link")
  /\ UNCHANGED <<head, pool_next, allocated>>

\* f->pool_next = the head that was loaded.
ReleaseLink(t) ==
  /\ pc[t] = "r_link"
  /\ pool_next' = [pool_next EXCEPT ![f[t]] = next[t]]
  /\ next' = [next EXCEPT ![t] = Null]
  /\ Goto(t, "r_cas")
  /\ UNCHANGED <<head, allocated, inUse, f>>

\* Mutant of LinkedToHead: a plain store of _head.
LinkedToHeadUnchecked(t) == TRUE

LinkedToHead(t) == head = pool_next[f[t]]

\* CAS of _head from f->pool_next to f; a failure loads the current head and
\* stores it into f->pool_next, which is the CAS's expected value.
ReleaseCas(t) ==
  /\ pc[t] = "r_cas"
  /\ \/ /\ LinkedToHead(t)
        /\ head' = f[t]
        /\ Goto(t, "idle")
        /\ f' = [f EXCEPT ![t] = Null]
        /\ UNCHANGED next
     \/ /\ ~LinkedToHead(t)
        /\ next' = [next EXCEPT ![t] = head]
        /\ Goto(t, "r_link")
        /\ UNCHANGED <<head, f>>
  /\ UNCHANGED <<pool_next, allocated, inUse>>

-----------------------------------------------------------------------------
Acquire(t) ==
  \/ AcquireLoad(t) \/ AcquireNext(t) \/ AcquireCas(t)
  \/ AcquireReset(t) \/ AcquireNew(t)

Release(t) == (\E x \in Fibers : ReleaseBegin(t, x)) \/ ReleaseLink(t) \/ ReleaseCas(t)

Next == (\E t \in Acquirers : Acquire(t)) \/ (\E t \in Releasers : Release(t))

Spec == Init /\ [][Next]_vars

-----------------------------------------------------------------------------
PC == {"idle", "a_next", "a_cas", "a_reset", "a_new", "r_link", "r_cas"}

TypeOK ==
  /\ head \in Pointers
  /\ pool_next \in [Fibers -> Pointers]
  /\ allocated \in 0 .. MaxFibers
  /\ inUse \subseteq Fibers
  /\ pc \in [Threads -> PC]
  /\ f \in [Threads -> Pointers]
  /\ next \in [Threads -> Pointers]
  /\ \A t \in Threads : pc[t] \notin {"idle", "a_new"} => f[t] # Null

\* The fibers threads hold between taking them off the list and handing them
\* out, or between being given them and putting them back.
Popped == {t \in Threads : pc[t] = "a_reset"}
Pushing == {t \in Threads : pc[t] \in {"r_link", "r_cas"}}

\* acquire never hands out a fiber that somebody still uses, is releasing or
\* has just been handed: two tasks never share a fiber_t and its stack.
HandsOutFreeFiber ==
  \A t \in Popped :
    /\ f[t] \notin inUse
    /\ \A u \in (Popped \cup Pushing) \ {t} : f[u] # f[t]

\* The fibers on the free list, found by following pool_next from _head.
Chain[n \in 0 .. MaxFibers] ==
  IF n = 0 THEN head
  ELSE IF Chain[n - 1] = Null THEN Null ELSE pool_next[Chain[n - 1]]

FreeList == {Chain[n] : n \in 0 .. MaxFibers} \ {Null}

\* Every fiber ever allocated is on the free list, in use, or in the hands of
\* a thread inside acquire or release: none drops out of the pool.
NoneLeaked ==
  1 .. allocated \subseteq
    FreeList \cup inUse \cup {f[t] : t \in Popped \cup Pushing}

\* The free list ends: following pool_next never runs in a circle.
ListEnds == Chain[MaxFibers] = Null

-----------------------------------------------------------------------------
(* The free list implements PoolContract: acquire takes effect at its CAS  *)
(* and release at its own; what acquire allocates was decided when it saw  *)
(* the end of the list.                                                    *)

InUseBar == inUse \cup {f[t] : t \in Popped}

OpBar == [t \in Threads |-> IF pc[t] = "a_new" THEN "allocate"
                           ELSE IF t \in Pushing THEN "release" ELSE "idle"]

ItemBar == [t \in Threads |-> IF t \in Pushing THEN f[t] ELSE Null]

Contract == INSTANCE PoolContract WITH free <- FreeList, inUse <- InUseBar,
                                       op <- OpBar, item <- ItemBar

\* With one acquirer, every behaviour of the free list is one of the contract:
\* what acquire hands out was free, each release makes exactly one fiber free,
\* no other step changes what is free, and the pool grows only when at some
\* instant of the call all of its fibers were in use or being released.
ImplementsPool == Contract!Spec
=============================================================================
