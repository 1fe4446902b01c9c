---------------------------- MODULE PoolContract ----------------------------
(***************************************************************************)
(* What fiber_pool.h promises its callers: acquire takes any free fiber in *)
(* one step; it allocates a new one only if at some instant of the call no *)
(* fiber was free; a released fiber is free from the instant its release   *)
(* takes effect.  UxSched's pool is this one, without the allocation.      *)
(***************************************************************************)
EXTENDS Naturals

CONSTANTS Threads, Prewarm, MaxFibers

VARIABLES free,       \* fibers nobody holds
          inUse,      \* fibers handed out and not yet given to release
          allocated,  \* number of fibers allocated so far
          op,         \* what each thread is doing
          item        \* the fiber it is releasing

vars == <<free, inUse, allocated, op, item>>

Init ==
  /\ free = 1 .. Prewarm
  /\ inUse = {}
  /\ allocated = Prewarm
  /\ op = [t \in Threads |-> "idle"]
  /\ item = [t \in Threads |-> 0]

\* acquire, fast path.
Acquire(t) ==
  /\ op[t] = "idle"
  /\ \E x \in free : free' = free \ {x} /\ inUse' = inUse \cup {x}
  /\ UNCHANGED <<allocated, op, item>>

\* acquire has seen that no fiber is free, and will allocate one.
Exhausted(t) ==
  /\ op[t] = "idle"
  /\ free = {}
  /\ op' = [op EXCEPT ![t] = "allocate"]
  /\ UNCHANGED <<free, inUse, allocated, item>>

\* acquire, slow path.
Allocate(t) ==
  /\ op[t] = "allocate"
  /\ allocated < MaxFibers
  /\ allocated' = allocated + 1
  /\ inUse' = inUse \cup {allocated + 1}
  /\ op' = [op EXCEPT ![t] = "idle"]
  /\ UNCHANGED <<free, item>>

\* release is called with a fiber that is in use.
ReleaseBegin(t) ==
  /\ op[t] = "idle"
  /\ \E x \in inUse : inUse' = inUse \ {x} /\ item' = [item EXCEPT ![t] = x]
  /\ op' = [op EXCEPT ![t] = "release"]
  /\ UNCHANGED <<free, allocated>>

\* The fiber becomes free.
ReleaseEnd(t) ==
  /\ op[t] = "release"
  /\ free' = free \cup {item[t]}
  /\ item' = [item EXCEPT ![t] = 0]
  /\ op' = [op EXCEPT ![t] = "idle"]
  /\ UNCHANGED <<inUse, allocated>>

Next == \E t \in Threads :
  Acquire(t) \/ Exhausted(t) \/ Allocate(t) \/ ReleaseBegin(t) \/ ReleaseEnd(t)

Spec == Init /\ [][Next]_vars
=============================================================================
