----------------------------- MODULE MCLoaders -----------------------------
(***************************************************************************)
(* The loaders before either kind of queue, for one run: a behaviour is    *)
(* one of Loaders (its loader before SPSC queues) or one of BoundedLoads   *)
(* (ah_loader before the scheduler's bounded queues), and the state of the *)
(* other one stays as it was at the start.                                 *)
(***************************************************************************)
EXTENDS LoadersInvariant

CONSTANTS NoVal, NoThread, Threads, Items, Stalled

ASSUME BoundedLoadsAssumption ==
  NoVal \notin Items /\ NoThread \notin Threads /\ Stalled \subseteq Queues

VARIABLES before,  \* the queues the loaders stand before: "spsc" or "bounded"
          window, closed, calls, free
                   \* BoundedLoads' state; its call is calls here

boundedVars == <<window, closed, calls, free>>

Bounded == INSTANCE BoundedLoads WITH call <- calls

AllInit ==
  /\ Init /\ Bounded!Init
  /\ before \in {"spsc", "bounded"} /\ (before = "bounded" => kind = "ah")

AllNext ==
  \/ before = "spsc" /\ Next /\ UNCHANGED <<before, boundedVars>>
  \/ before = "bounded" /\ Bounded!Next /\ UNCHANGED <<before, vars>>

\* The fairness of Loaders and of BoundedLoads.
AllFairness ==
  /\ \A q \in Queues : WF_<<queue, reader>>(before = "spsc" /\ DequeueStep(q))
  /\ WF_call(before = "spsc" /\ LoadStep)
  /\ WF_closer(before = "spsc" /\ CloseStep)
  /\ \A t \in Threads : WF_boundedVars(before = "bounded" /\ Bounded!LoadStep(t))
  /\ \A q \in Queues \ Stalled : WF_boundedVars(before = "bounded" /\ Bounded!DequeueStep(q))

AllSpec == AllInit /\ [][AllNext]_<<before, vars, boundedVars>> /\ AllFairness

\* The types of BoundedLoads' state.
BoundedTypeOK == Bounded!TypeOK

\* A fiber loaded by ah_loader is in exactly one bounded queue, see BoundedLoads.
ItemOnce == Bounded!ItemOnce

\* A load before bounded queues finds the queue with room, see BoundedLoads.
LoadFindsRoom == Bounded!LoadFindsRoom
=============================================================================
