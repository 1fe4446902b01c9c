------------------------------ MODULE RingSize ------------------------------
(***************************************************************************)
(* bounded_mpmc_queue::next_pow2, bit by bit as in the code.  x stays far  *)
(* below 2^63, where x + 1 would wrap: queue_size is an int, and at most   *)
(* four times it is asked for.                                             *)
(***************************************************************************)
EXTENDS Naturals, SequencesExt
LOCAL INSTANCE Bitwise

\* Below the highest bit of x - 1 every bit is set by the shifts; add 1.
next_pow2(x) ==
  IF x < 2 THEN 2
  ELSE FoldLeft(LAMBDA y, k : y | shiftR(y, k), x - 1, <<1, 2, 4, 8, 16, 32>>) + 1

\* What UxSched takes it for.
LeastPow2(x) == Min({n \in {2^k : k \in 1 .. 20} : n >= x})

\* The two agree: on the small sizes, beside each power of two up to the
\* overflow queue's default capacity, and there.
Sizes == (0 .. 130) \cup UNION {{2^k - 1, 2^k, 2^k + 1} : k \in 7 .. 17} \cup {2^18}

ASSUME NextPow2IsLeast == \A x \in Sizes : next_pow2(x) = LeastPow2(x)
=============================================================================
