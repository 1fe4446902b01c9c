------------------------- MODULE FiberPoolInvariant -------------------------
(***************************************************************************)
(* The inductive invariant of FiberPool when one thread acquires.          *)
(***************************************************************************)
EXTENDS FiberPool

\* At most one thread calls acquire: what the scheduler does when fibers do
\* not spawn.
OneAcquirer == \A t, u \in Acquirers : t = u

Holders == Popped \cup Pushing

\* Only acquirers are inside acquire.
ByAcquirers ==
  \A t \in Threads : pc[t] \in {"a_next", "a_cas", "a_reset", "a_new"} => t \in Acquirers

\* No fiber is on the free list twice.
ListedOnce ==
  \A i, j \in 0 .. MaxFibers : Chain[i] # Null /\ Chain[i] = Chain[j] => i = j

\* What the acquirer has read is still so: the fiber it looks at is on the list
\* until it takes it off itself, and nobody links a listed fiber anew.
Inspecting ==
  \A t \in Threads :
    /\ pc[t] \in {"a_next", "a_cas"} => f[t] \in FreeList
    /\ pc[t] = "a_cas" => next[t] = pool_next[f[t]]

\* A fiber is on the list, in use, or held by one thread inside acquire or
\* release.
OneOwner ==
  /\ FreeList \cap inUse = {}
  /\ \A t \in Holders : f[t] \notin FreeList \cup inUse
  /\ \A t, u \in Holders : f[t] = f[u] => t = u

\* Only fibers that have been allocated are anywhere.
AllocatedOnly ==
  FreeList \cup inUse \cup {f[t] : t \in Holders} \subseteq 1 .. allocated

FreeListInv ==
  /\ TypeOK
  /\ ByAcquirers
  /\ ListEnds
  /\ ListedOnce
  /\ Inspecting
  /\ OneOwner
  /\ AllocatedOnly
  /\ NoneLeaked
=============================================================================
