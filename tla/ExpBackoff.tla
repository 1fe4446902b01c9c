----------------------------- MODULE ExpBackoff -----------------------------
(***************************************************************************)
(* schedular/exp_backoff.h, used by one thread: a runner's own _backoff,   *)
(* or the scheduler's while no two threads call spawn.  A fruitless        *)
(* attempt calls wait, a successful one reset.                             *)
(***************************************************************************)
EXTENDS Naturals, FiniteSetsExt

CONSTANTS Width,     \* bits of _attempts: 32 in the code
          MaxMisses  \* bound on the fruitless attempts in a row: _attempts does not wrap

kPauseItersBase == 4
kPauseItersMax == 2^10
kYieldThreshold == 8
kSleepThreshold == 16
kSleepNsBase == 200
kSleepNsMax == 50000

VARIABLES attempts,  \* _attempts
          misses,    \* calls of wait since the last reset
          slept,     \* longest sleep since the last reset, in ns
          last       \* what the last wait did: nothing yet, pause, or sleep for ns

vars == <<attempts, misses, slept, last>>

Nothing == [does |-> "nothing", amount |-> 0]

Init == attempts = 0 /\ misses = 0 /\ slept = 0 /\ last = Nothing

\* Phase 1: how often _mm_pause runs.
Spins(a) == Min({kPauseItersBase * 2^Min({a, 10}), kPauseItersMax})

\* Phase 2: how long the thread sleeps.  The subtraction is on uint32_t: below
\* kSleepThreshold it wraps, and the clamp makes it the longest shift.
SleepNs(a) ==
  LET sleep_shift == Min({(2^Width + a - kSleepThreshold) % 2^Width, 20})
  IN  Min({kSleepNsBase * 2^sleep_shift, kSleepNsMax})

PausePhase(a) == a < kYieldThreshold

wait ==
  LET a == (attempts + 1) % 2^Width IN
    /\ misses < MaxMisses
    /\ attempts' = a
    /\ misses' = misses + 1
    /\ \/ /\ PausePhase(a)
          /\ last' = [does |-> "pause", amount |-> Spins(a)]
          /\ UNCHANGED slept
       \/ /\ ~PausePhase(a)
          /\ last' = [does |-> "sleep", amount |-> SleepNs(a)]
          /\ slept' = Max({slept, SleepNs(a)})

reset == attempts' = 0 /\ misses' = 0 /\ slept' = 0 /\ last' = Nothing

Next == wait \/ reset

Spec == Init /\ [][Next]_vars

-----------------------------------------------------------------------------
\* The header's phase 3 sleeps "exponentially increasing up to cap": a sleep
\* is never shorter than one before it in the same drought.
SleepsGrow == last.does = "sleep" => last.amount = slept
=============================================================================
