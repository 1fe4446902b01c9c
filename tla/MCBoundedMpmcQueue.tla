------------------------- MODULE MCBoundedMpmcQueue -------------------------
\* The ring's inductive invariant and its refinement, for one run with
\* interchangeable threads and items; RingSize's assumption about the
\* constructor's capacities is evaluated with it.
EXTENDS BoundedMpmcInvariant, BoundedMpmcRefinement, RingSize, TLC

Symmetry == Permutations(Threads) \cup Permutations(Values)
=============================================================================
