--------------------------- MODULE UxSchedProofs ---------------------------
(***************************************************************************)
(* The scheduler of UxSched is safe for every number of runners, fibers,   *)
(* queue sizes and budgets, and whether or not fibers spawn.               *)
(***************************************************************************)
EXTENDS UxSchedInvariant, SlotQueueProofs, FiniteSetTheorems

Vals == Fibers \cup {NoVal}
Owners == Threads \cup {NoThread}

\* The values that are used as markers differ from fibers and runners.
LEMMA Markers ==
  /\ NoVal \notin Fibers /\ NoRunner \notin Runners
  /\ Main \in Threads /\ Main \notin Runners /\ Runners \subseteq Threads
  /\ Overflow \in Queues /\ Overflow \notin Runners /\ Runners \subseteq Queues
  /\ 0 \in Runners /\ Fibers \subseteq Int /\ Runners \subseteq Int
  BY SchedAssumption DEF Fibers, Runners, NoRunner, Main, Threads, Overflow, Queues

\* The queues are windows in the sense of the lemmas of SlotQueueProofs.
LEMMA QueueWindows ==
  ASSUME TypeOK, NEW q \in Queues
  PROVE  queue[q] \in Windows(Vals, Owners)
  BY DEF TypeOK, Windows, Vals, Owners, SlotType

-----------------------------------------------------------------------------
(* What a dequeue does to its runner and the queue. *)

\* Runner r takes the front slot of queue q.
Hit(r, q) ==
  /\ HasReady(queue[q])
  /\ queue' = [queue EXCEPT ![q] = Take(@, r)]
  /\ runner' = [runner EXCEPT ![r].pc = "giveback", ![r].from = q,
                              ![r].f = queue[q][FrontSlot(queue[q])].val,
                              ![r].hot_used = 0]
  /\ UNCHANGED <<pool, fiber, closed, call, main>>

\* Runner r finds nothing and polls on.
Miss(r) ==
  /\ \E l \in {"closed?", "steal", "loop"}, q \in Queues :
       runner' = [runner EXCEPT ![r].pc = l, ![r].from = q, ![r].hot_used = 0]
  /\ UNCHANGED <<pool, fiber, queue, closed, call, main>>

LEMMA DequeueHitsOrMisses ==
  ASSUME TypeOK, NEW r \in Runners, PopLocal(r) \/ PopOverflow(r) \/ Steal(r)
  PROVE  /\ runner[r].pc \in {"loop", "overflow", "steal"}
         /\ Miss(r) \/ \E q \in Queues : Hit(r, q)
<1>1. runner[r].pc \in {"loop", "overflow", "steal"}
  BY DEF PopLocal, PopOverflow, Steal, At
<1>2. runner[r] \in RunnerType /\ runner[r].from \in Queues /\ r \in Queues
  BY Markers DEF TypeOK, RunnerType
<1>3. ASSUME NEW q \in Queues, NEW l \in {"closed?", "steal", "loop"}, NEW p \in Queues,
             NEW miss, miss = [runner[r] EXCEPT !.pc = l, !.from = p],
             Dequeue(r, q, miss)
      PROVE  Miss(r) \/ Hit(r, q)
  <2>1. CASE HasReady(queue[q])
    BY <1>3, <2>1 DEF Dequeue, Hit
  <2>2. CASE ~HasReady(queue[q])
    <3>1. runner' = [runner EXCEPT ![r] = [miss EXCEPT !.hot_used = 0]]
          /\ UNCHANGED <<pool, fiber, queue, closed, call, main>>
      BY <1>3, <2>2 DEF Dequeue
    <3>2. runner' = [runner EXCEPT ![r].pc = l, ![r].from = p, ![r].hot_used = 0]
      BY <1>3, <3>1
    <3>3. QED
      BY <3>1, <3>2 DEF Miss
  <2>3. QED
    BY <2>1, <2>2
<1>4. CASE PopLocal(r)
  <2> DEFINE miss == [runner[r] EXCEPT !.pc = "closed?"]
  <2>1. PICK p \in Queues : p = runner[r].from
    BY <1>2
  <2>2. miss = [runner[r] EXCEPT !.pc = "closed?", !.from = p]
    BY <1>2, <2>1 DEF RunnerType
  <2>3. Dequeue(r, r, miss)
    BY <1>4 DEF PopLocal
  <2>4. QED
    BY <1>1, <1>2, <1>3, <2>2, <2>3
<1>5. CASE PopOverflow(r)
  <2>1. Dequeue(r, Overflow, [runner[r] EXCEPT !.pc = "steal", !.from = 0])
    BY <1>5 DEF PopOverflow
  <2>2. QED
    BY <1>1, <1>3, <2>1, Markers
<1>6. CASE Steal(r)
  <2> DEFINE q == runner[r].from
  <2>1. q + 1 < NumCores => q + 1 \in Queues
    BY <1>2, SchedAssumption DEF Queues, Runners, Overflow
  <2>2. PICK l \in {"closed?", "steal", "loop"}, p \in Queues :
          Dequeue(r, q, [runner[r] EXCEPT !.pc = l, !.from = p])
    <3>1. CASE q + 1 < NumCores
      <4>1. Dequeue(r, q, [runner[r] EXCEPT !.from = q + 1])
        BY <1>6, <3>1 DEF Steal
      <4>2. [runner[r] EXCEPT !.from = q + 1] = [runner[r] EXCEPT !.pc = "steal", !.from = q + 1]
        BY <1>2, <1>6 DEF RunnerType, Steal, At
      <4>3. QED
        BY <2>1, <3>1, <4>1, <4>2
    <3>2. CASE ~(q + 1 < NumCores)
      BY <1>2, <1>6, <3>2 DEF Steal
    <3>3. QED
      BY <3>1, <3>2
  <2>3. QED
    BY <1>1, <1>2, <1>3, <2>2
<1>7. QED
  BY <1>4, <1>5, <1>6

-----------------------------------------------------------------------------
(* Types. *)

LEMMA ResetType == ResetFiber \in FiberType /\ NoCall \in CallType
  BY Markers DEF ResetFiber, FiberType, NoCall, CallType, Queues

LEMMA EmptyWindowType == EmptyWindow \in Seq(SlotType) /\ Waiting(EmptyWindow) = {}
  BY EmptySeq DEF EmptyWindow, Waiting

LEMMA TypeInit == Init => TypeOK
<1> SUFFICES ASSUME Init PROVE TypeOK
  OBVIOUS
<1>1. fiber \in [Fibers -> FiberType] /\ call \in [Threads -> CallType]
  BY ResetType DEF Init
<1>2. queue \in [Queues -> Seq(SlotType)]
  BY EmptyWindowType DEF Init
<1>3. \A r \in Runners : NewRunner(r) \in RunnerType
  <2> SUFFICES ASSUME NEW r \in Runners PROVE NewRunner(r) \in RunnerType
    OBVIOUS
  <2>1. r \in Queues /\ 0 \in 0 .. HotBudget /\ <<>> \in Seq(Fibers)
    BY Markers, SchedAssumption, EmptySeq
  <2>2. QED
    BY <2>1 DEF NewRunner, RunnerType
<1>4. runner \in [Runners -> RunnerType]
  BY <1>3 DEF Init
<1>5. main \in [pc : {"open", "close", "join", "deleted"}, next : 0 .. Overflow + 1, drained : BOOLEAN]
  BY SchedAssumption DEF Init, Overflow
<1>6. QED
  BY <1>1, <1>2, <1>4, <1>5 DEF Init, TypeOK

LEMMA ReleaseType ==
  ASSUME TypeOK, NEW f \in Fibers, Release(f)
  PROVE  pool' \subseteq Fibers /\ fiber' \in [Fibers -> FiberType]
  BY ResetType DEF TypeOK, Release

\* A thread inside spawn has a fiber.
LEMMA CallerHasFiber ==
  ASSUME Callers, NEW t \in Threads, call[t].pc # "none"
  PROVE  call[t].f \in Fibers
  BY DEF Callers

LEMMA SpawnerIsThread == Spawners \subseteq Threads
  BY Markers DEF Spawners

LEMMA CallMoves ==
  ASSUME TypeOK, NEW t \in Threads, NEW l \in {"check", "claim", "publish"},
         call' = [call EXCEPT ![t].pc = l]
  PROVE  call' \in [Threads -> CallType]
<1>1. [call[t] EXCEPT !.pc = l] \in CallType
  BY DEF TypeOK, CallType
<1>2. call' = [call EXCEPT ![t] = [call[t] EXCEPT !.pc = l]]
  BY DEF TypeOK
<1>3. QED
  BY <1>1, <1>2 DEF TypeOK

LEMMA RefusedType ==
  ASSUME TypeOK, Callers, NEW t \in Threads, call[t].pc # "none", Refused(t)
  PROVE  /\ pool' \subseteq Fibers /\ fiber' \in [Fibers -> FiberType]
         /\ call' \in [Threads -> CallType]
<1>1. call[t] \in CallType /\ call[t].home \in Queues /\ call[t].f \in Fibers
  BY Markers, CallerHasFiber DEF TypeOK, CallType
<1>2. CASE GiveUp(t)
  BY <1>1, <1>2, ReleaseType, ResetType DEF GiveUp, TypeOK
<1>3. CASE ~GiveUp(t)
  <2>1. UNCHANGED <<pool, fiber>>
    BY <1>3 DEF Refused
  <2>2. PICK p \in Queues : call' = [call EXCEPT ![t].pc = "check", ![t].at = p]
    BY <1>1, <1>3, Markers DEF Refused
  <2>3. call' \in [Threads -> CallType]
    BY <1>1, <2>2 DEF TypeOK, CallType
  <2>4. QED
    BY <2>1, <2>3 DEF TypeOK
<1>4. QED
  BY <1>2, <1>3

LEMMA SpawnType ==
  ASSUME TypeOK, Callers, NEW t \in Spawners, SpawnBegin(t) \/ SpawnStep(t)
  PROVE  TypeOK'
<1>1. t \in Threads /\ call[t] \in CallType
  BY SpawnerIsThread DEF TypeOK
<1>2. CASE SpawnBegin(t)
  <2>1. PICK f \in pool :
          /\ \E home \in HashTargets, blocking \in BOOLEAN :
               call' = [call EXCEPT ![t] = [pc |-> "check", f |-> f, home |-> home,
                                            at |-> home, blocking |-> blocking]]
          /\ pool' = pool \ {f}
          /\ fiber' = [fiber EXCEPT ![f].yeild = FALSE, ![f].context_initialized = FALSE]
    BY <1>2 DEF SpawnBegin
  <2>2. call' \in [Threads -> CallType]
    <3>1. PICK home \in Runners, blocking \in BOOLEAN :
            call' = [call EXCEPT ![t] = [pc |-> "check", f |-> f, home |-> home,
                                         at |-> home, blocking |-> blocking]]
      BY <2>1 DEF HashTargets
    <3>2. [pc |-> "check", f |-> f, home |-> home, at |-> home, blocking |-> blocking] \in CallType
      BY <2>1, <3>1, Markers DEF TypeOK, CallType
    <3>3. QED
      BY <1>1, <3>1, <3>2 DEF TypeOK
  <2>3. fiber' \in [Fibers -> FiberType]
    <3>1. f \in Fibers /\ fiber[f] \in FiberType
      BY <2>1 DEF TypeOK
    <3>2. [fiber[f] EXCEPT !.yeild = FALSE, !.context_initialized = FALSE] \in FiberType
      BY <3>1 DEF FiberType
    <3>3. fiber' = [fiber EXCEPT ![f] = [fiber[f] EXCEPT !.yeild = FALSE, !.context_initialized = FALSE]]
      BY <2>1, <3>1 DEF TypeOK
    <3>4. QED
      BY <3>1, <3>2, <3>3 DEF TypeOK
  <2>4. QED
    BY <1>2, <2>1, <2>2, <2>3 DEF SpawnBegin, TypeOK
<1>3. CASE EnqueueCheck(t)
  <2>1. /\ pool' \subseteq Fibers /\ fiber' \in [Fibers -> FiberType]
        /\ call' \in [Threads -> CallType]
    <3>1. CASE closed[call[t].at]
      <4>1. call[t].pc # "none" /\ Refused(t)
        BY <1>3, <3>1 DEF EnqueueCheck
      <4>2. QED
        BY <1>1, <4>1, RefusedType
    <3>2. CASE ~closed[call[t].at]
      <4>1. call' = [call EXCEPT ![t].pc = "claim"] /\ UNCHANGED <<pool, fiber>>
        BY <1>3, <3>2 DEF EnqueueCheck
      <4>2. QED
        BY <1>1, <4>1, CallMoves DEF TypeOK
    <3>3. QED
      BY <3>1, <3>2
  <2>2. QED
    BY <1>3, <2>1 DEF EnqueueCheck, TypeOK
<1>4. CASE EnqueueClaim(t)
  <2> DEFINE q == call[t].at
  <2>1. CASE Full(queue[q], Capacity(q))
    <3>1. /\ pool' \subseteq Fibers /\ fiber' \in [Fibers -> FiberType]
          /\ call' \in [Threads -> CallType]
      <4>1. call[t].pc # "none" /\ Refused(t)
        BY <1>4, <2>1 DEF EnqueueClaim
      <4>2. QED
        BY <1>1, <4>1, RefusedType
    <3>2. QED
      BY <1>4, <2>1, <3>1 DEF EnqueueClaim, TypeOK
  <2>2. CASE ~Full(queue[q], Capacity(q))
    <3>1. q \in Queues /\ call[t].f \in Vals /\ t \in Owners
      BY <1>1 DEF CallType, Vals, Owners
    <3>2. Claim(queue[q], call[t].f, t) \in Windows(Vals, Owners)
      BY <3>1, QueueWindows, ClaimWaits
    <3>3. queue' \in [Queues -> Seq(SlotType)]
      BY <1>4, <2>2, <3>1, <3>2 DEF EnqueueClaim, TypeOK, Windows, SlotType, Vals, Owners
    <3>4. call' \in [Threads -> CallType]
      <4>1. call' = [call EXCEPT ![t].pc = "publish"]
        BY <1>4, <2>2 DEF EnqueueClaim
      <4>2. QED
        BY <1>1, <4>1, CallMoves
    <3>5. QED
      BY <1>4, <2>2, <3>3, <3>4 DEF EnqueueClaim, TypeOK
  <2>3. QED
    BY <2>1, <2>2
<1>5. CASE EnqueuePublish(t)
  <2>1. call[t].at \in Queues /\ NoThread \in Owners
    BY <1>1 DEF CallType, Owners
  <2>2. Publish(queue[call[t].at], t) \in Windows(Vals, Owners)
    BY <2>1, QueueWindows, PublishWaits
  <2>3. queue' \in [Queues -> Seq(SlotType)]
    BY <1>5, <2>1, <2>2 DEF EnqueuePublish, TypeOK, Windows, SlotType, Vals, Owners
  <2>4. call' \in [Threads -> CallType]
    BY <1>1, <1>5, ResetType DEF EnqueuePublish, TypeOK
  <2>5. QED
    BY <1>5, <2>3, <2>4 DEF EnqueuePublish, TypeOK
<1>6. QED
  BY <1>2, <1>3, <1>4, <1>5 DEF SpawnStep

\* A switch to a fiber, from a record that is well typed.
LEMMA DispatchType ==
  ASSUME TypeOK, NEW r \in Runners, NEW rec \in RunnerType, NEW f \in Fibers, Dispatch(r, rec, f)
  PROVE  /\ runner' \in [Runners -> RunnerType]
         /\ fiber' \in [Fibers -> FiberType]
<1>1. SwitchTo(rec, f) \in RunnerType
  BY DEF SwitchTo, RunnerType
<1>2. runner' \in [Runners -> RunnerType]
  BY <1>1 DEF Dispatch, TypeOK
<1> DEFINE x == [fiber[f] EXCEPT !.context_initialized = TRUE, !.f_ctx = "empty", !.runner_ctx = r,
                          !.runner_id = IF fiber[f].context_initialized THEN fiber[f].runner_id ELSE r]
<1>3. fiber' \in [Fibers -> FiberType]
  <2>1. fiber[f] \in FiberType
    BY DEF TypeOK
  <2>2. x \in FiberType
    BY <2>1 DEF FiberType
  <2>3. fiber' = [fiber EXCEPT ![f] = x]
    BY DEF Dispatch
  <2>4. QED
    BY <2>2, <2>3 DEF TypeOK
<1>4. QED
  BY <1>2, <1>3

\* The hot list without its newest fiber.
LEMMA FrontLast ==
  ASSUME NEW s \in Seq(Fibers), s # <<>>
  PROVE  /\ Len(s) \in Nat \ {0} /\ DOMAIN s = 1 .. Len(s)
         /\ Last(s) = s[Len(s)] /\ Last(s) \in Fibers
         /\ Front(s) \in Seq(Fibers)
         /\ DOMAIN Front(s) = 1 .. Len(s) - 1
         /\ \A i \in 1 .. Len(s) - 1 : Front(s)[i] = s[i]
<1>1. Len(s) \in Nat \ {0} /\ DOMAIN s = 1 .. Len(s) /\ \A i \in 1 .. Len(s) : s[i] \in Fibers
  BY EmptySeq, LenProperties, ElementOfSeq
<1>2. Last(s) = s[Len(s)] /\ Front(s) = SubSeq(s, 1, Len(s) - 1)
  BY DEF Last, Front
<1>3. /\ SubSeq(s, 1, Len(s) - 1) \in Seq(Fibers)
      /\ Len(SubSeq(s, 1, Len(s) - 1)) = Len(s) - 1
      /\ \A i \in 1 .. Len(s) - 1 : SubSeq(s, 1, Len(s) - 1)[i] = s[i]
  <2>1. 1 \in Int /\ Len(s) - 1 \in Int /\ \A i \in 1 .. Len(s) - 1 : s[i] \in Fibers
    BY <1>1
  <2>2. /\ SubSeq(s, 1, Len(s) - 1) \in Seq(Fibers)
        /\ Len(SubSeq(s, 1, Len(s) - 1)) = IF 1 <= Len(s) - 1 THEN (Len(s) - 1) - 1 + 1 ELSE 0
        /\ \A i \in 1 .. (Len(s) - 1) - 1 + 1 : SubSeq(s, 1, Len(s) - 1)[i] = s[1 + i - 1]
    BY <2>1, SubSeqProperties
  <2>3. QED
    BY <1>1, <2>2
<1>4. DOMAIN SubSeq(s, 1, Len(s) - 1) = 1 .. Len(s) - 1
  BY <1>3, LenProperties
<1>5. QED
  BY <1>1, <1>2, <1>3, <1>4

LEMMA ZeroBudget == 0 \in 0 .. HotBudget
  BY SchedAssumption

LEMMA RunnerStepType ==
  ASSUME TypeOK, Callers, RunnersOK, NEW r \in Runners, RunnerStep(r)
  PROVE  TypeOK'
<1>1. runner[r] \in RunnerType /\ r \in Owners /\ r \in Queues
  BY Markers DEF TypeOK, Owners
<1>2. InHand(r) => runner[r].f \in Fibers
  BY DEF RunnersOK, HeldBy, Visiting
<1>3. CASE PopHot(r)
  <2> DEFINE s == runner[r].hot_local
             f == Last(s)
  <2>1. s \in Seq(Fibers) /\ s # <<>> /\ runner[r].hot_used < HotBudget
        /\ Dispatch(r, HotPopped(r), f)
    BY <1>1, <1>3 DEF PopHot, HotIsDue, RunnerType
  <2>2. f \in Fibers /\ Front(s) \in Seq(Fibers)
    BY <2>1, FrontLast
  <2>3. runner[r].hot_used + 1 \in 0 .. HotBudget
    BY <1>1, <2>1, SchedAssumption DEF RunnerType
  <2>4. HotPopped(r) \in RunnerType
    BY <1>1, <2>2, <2>3 DEF HotPopped, RunnerType
  <2>5. QED
    BY <1>3, <2>1, <2>2, <2>4, DispatchType DEF PopHot, TypeOK
<1>4. CASE PopLocal(r) \/ PopOverflow(r) \/ Steal(r)
  <2>1. CASE Miss(r)
    <3>1. PICK l \in {"closed?", "steal", "loop"}, q \in Queues :
            runner' = [runner EXCEPT ![r].pc = l, ![r].from = q, ![r].hot_used = 0]
      BY <2>1 DEF Miss
    <3>2. [runner[r] EXCEPT !.pc = l, !.from = q, !.hot_used = 0] \in RunnerType
      BY <1>1, <3>1, ZeroBudget DEF RunnerType
    <3>3. runner' = [runner EXCEPT ![r] = [runner[r] EXCEPT !.pc = l, !.from = q, !.hot_used = 0]]
      BY <3>1 DEF TypeOK
    <3>4. QED
      BY <2>1, <3>2, <3>3 DEF Miss, TypeOK
  <2>2. ASSUME NEW q \in Queues, Hit(r, q) PROVE TypeOK'
    <3> DEFINE v == queue[q][FrontSlot(queue[q])].val
               x == [runner[r] EXCEPT !.pc = "giveback", !.from = q, !.f = v, !.hot_used = 0]
    <3>1. queue[q] \in Windows(Vals, Owners) /\ HasReady(queue[q])
      BY <2>2, QueueWindows DEF Hit
    <3>2. Take(queue[q], r) \in Windows(Vals, Owners) /\ FrontSlot(queue[q]) \in Waiting(queue[q])
      BY <1>1, <3>1, TakeWaits
    <3>3. v \in Fibers \cup {NoVal}
      BY <3>1, <3>2, WindowFacts DEF Waiting, Vals
    <3>4. x \in RunnerType
      BY <1>1, <3>3, ZeroBudget DEF RunnerType
    <3>5. runner' = [runner EXCEPT ![r] = x]
      BY <2>2 DEF Hit, TypeOK
    <3>6. runner' \in [Runners -> RunnerType]
      BY <3>4, <3>5 DEF TypeOK
    <3>7. queue' \in [Queues -> Seq(SlotType)]
      BY <2>2, <3>2 DEF Hit, TypeOK, Windows, Vals, Owners, SlotType
    <3>8. QED
      BY <2>2, <3>6, <3>7 DEF Hit, TypeOK
  <2>3. QED
    BY <1>4, <2>1, <2>2, DequeueHitsOrMisses
<1>5. CASE CheckClosed(r)
  <2>1. AfterLocal(r) \in {"exited", "overflow"}
    BY DEF AfterLocal
  <2>2. [runner[r] EXCEPT !.pc = AfterLocal(r)] \in RunnerType
    BY <1>1, <2>1 DEF RunnerType
  <2>3. runner' = [runner EXCEPT ![r] = [runner[r] EXCEPT !.pc = AfterLocal(r)]]
    BY <1>5 DEF CheckClosed, TypeOK
  <2>4. QED
    BY <1>5, <2>2, <2>3 DEF CheckClosed, TypeOK
<1>6. CASE GiveBackCell(r)
  <2> DEFINE q == runner[r].from
  <2>1. q \in Queues /\ runner[r].f \in Fibers /\ NoVal \in Vals /\ NoThread \in Owners
    BY <1>1, <1>2, <1>6 DEF GiveBackCell, At, InHand, RunnerType, Vals, Owners
  <2>2. GiveBack(queue[q], r) \in Windows(Vals, Owners)
    BY <2>1, QueueWindows, GiveBackWaits
  <2>3. queue' \in [Queues -> Seq(SlotType)]
    BY <1>6, <2>1, <2>2 DEF GiveBackCell, TypeOK, Windows, Vals, Owners, SlotType
  <2>4. [runner[r] EXCEPT !.from = r] \in RunnerType
    BY <1>1 DEF RunnerType
  <2>5. runner' \in [Runners -> RunnerType] /\ fiber' \in [Fibers -> FiberType]
    BY <1>6, <2>1, <2>4, DispatchType DEF GiveBackCell
  <2>6. QED
    BY <1>6, <2>3, <2>5 DEF GiveBackCell, TypeOK
<1>7. CASE Switched(r)
  <2> DEFINE f == runner[r].f
             rec == [runner[r] EXCEPT !.pc = "loop", !.f = NoVal, !.current_fiber = NoVal]
  <2>1. f \in Fibers /\ rec \in RunnerType
    BY <1>1, <1>2, <1>7 DEF Switched, At, InHand, RunnerType
  <2>2. CASE HasYielded(f)
    <3>1. ClearYeild(f) /\ runner' = [runner EXCEPT ![r] = [rec EXCEPT !.hot_local = Append(@, f)]]
          /\ UNCHANGED <<pool, queue, closed, call, main>>
      BY <1>7, <2>2 DEF Switched
    <3>2. Append(runner[r].hot_local, f) \in Seq(Fibers)
      BY <1>1, <2>1, AppendProperties DEF RunnerType
    <3>3. [rec EXCEPT !.hot_local = Append(@, f)] \in RunnerType
      BY <1>1, <2>1, <3>2 DEF RunnerType
    <3>4. [fiber[f] EXCEPT !.yeild = FALSE] \in FiberType
      <4>1. fiber[f] \in FiberType
        BY <2>1 DEF TypeOK
      <4>2. QED
        BY <4>1 DEF FiberType
    <3>5. fiber' = [fiber EXCEPT ![f] = [fiber[f] EXCEPT !.yeild = FALSE]]
      BY <2>1, <3>1 DEF ClearYeild, TypeOK
    <3>6. QED
      BY <3>1, <3>3, <3>4, <3>5 DEF TypeOK
  <2>3. CASE ~HasYielded(f)
    <3>1. Release(f) /\ runner' = [runner EXCEPT ![r] = rec] /\ UNCHANGED <<queue, closed, call, main>>
      BY <1>7, <2>3 DEF Switched
    <3>2. QED
      BY <2>1, <3>1, ReleaseType DEF TypeOK
  <2>4. QED
    BY <2>2, <2>3
<1>8. QED
  BY <1>3, <1>4, <1>5, <1>6, <1>7 DEF RunnerStep

LEMMA FiberStepType ==
  ASSUME TypeOK, RunnersOK, NEW r \in Runners, FiberStep(r)
  PROVE  TypeOK'
<1>1. runner[r] \in RunnerType
  BY DEF TypeOK
<1>2. ASSUME NEW l \in {"switched", "completed"}, runner' = [runner EXCEPT ![r].pc = l]
      PROVE  runner' \in [Runners -> RunnerType]
  <2>1. [runner[r] EXCEPT !.pc = l] \in RunnerType
    BY <1>1 DEF RunnerType
  <2>2. runner' = [runner EXCEPT ![r] = [runner[r] EXCEPT !.pc = l]]
    BY <1>2 DEF TypeOK
  <2>3. QED
    BY <2>1, <2>2 DEF TypeOK
<1>3. CASE Safepoint(r)
  <2> DEFINE f == runner[r].f
  <2>1. f \in Fibers /\ get_current_fiber(fiber[f].runner_id) = f
    BY <1>3 DEF RunnersOK, HeldBy, Visiting, Safepoint, InFiber, At, InHand, get_current_fiber
  <2>2. fiber' = [fiber EXCEPT ![f].yeild = TRUE, ![f].runner_ctx = NoRunner, ![f].f_ctx = "suspended"]
    BY <1>3, <2>1 DEF Safepoint
  <2>3. [fiber[f] EXCEPT !.yeild = TRUE, !.runner_ctx = NoRunner, !.f_ctx = "suspended"] \in FiberType
    <3>1. fiber[f] \in FiberType
      BY <2>1 DEF TypeOK
    <3>2. QED
      BY <3>1, Markers DEF FiberType
  <2>4. fiber' = [fiber EXCEPT ![f] =
          [fiber[f] EXCEPT !.yeild = TRUE, !.runner_ctx = NoRunner, !.f_ctx = "suspended"]]
    BY <2>1, <2>2 DEF TypeOK
  <2>5. runner' \in [Runners -> RunnerType] /\ fiber' \in [Fibers -> FiberType]
    <3>1. runner' = [runner EXCEPT ![r].pc = "switched"]
      BY <1>3 DEF Safepoint
    <3>2. runner' \in [Runners -> RunnerType]
      BY <1>2, <3>1
    <3>3. fiber \in [Fibers -> FiberType]
      BY DEF TypeOK
    <3>4. QED
      BY <2>3, <2>4, <3>2, <3>3
  <2>6. QED
    BY <1>3, <2>5 DEF Safepoint, TypeOK
<1>4. CASE TaskCompletes(r)
  BY <1>2, <1>4 DEF TaskCompletes, TypeOK
<1>5. CASE FuncReturns(r)
  <2> DEFINE f == runner[r].f
  <2>1. f \in Fibers
    BY <1>5 DEF RunnersOK, HeldBy, Visiting, FuncReturns, At, InHand
  <2>2. [fiber[f] EXCEPT !.f_ctx = "empty", !.runner_ctx = NoRunner] \in FiberType
    <3>1. fiber[f] \in FiberType
      BY <2>1 DEF TypeOK
    <3>2. QED
      BY <3>1, Markers DEF FiberType
  <2>3. fiber' = [fiber EXCEPT ![f] = [fiber[f] EXCEPT !.f_ctx = "empty", !.runner_ctx = NoRunner]]
    BY <1>5, <2>1 DEF FuncReturns, TypeOK
  <2>4. runner' \in [Runners -> RunnerType] /\ fiber' \in [Fibers -> FiberType]
    <3>1. runner' = [runner EXCEPT ![r].pc = "switched"]
      BY <1>5 DEF FuncReturns
    <3>2. runner' \in [Runners -> RunnerType]
      BY <1>2, <3>1
    <3>3. fiber \in [Fibers -> FiberType]
      BY DEF TypeOK
    <3>4. QED
      BY <2>2, <2>3, <3>2, <3>3
  <2>5. QED
    BY <1>5, <2>4 DEF FuncReturns, TypeOK
<1>6. QED
  BY <1>3, <1>4, <1>5 DEF FiberStep

LEMMA DestroyType ==
  ASSUME TypeOK, Destruction, Destroy
  PROVE  TypeOK'
<1>1. CASE DestroyBegin
  BY <1>1 DEF DestroyBegin, TypeOK, Finished
<1>2. CASE CloseNext
  <2>1. main.next \in Queues /\ main.next + 1 \in 0 .. Overflow + 1
    BY <1>2, SchedAssumption DEF CloseNext, Destruction, Queues, Runners, Overflow
  <2>2. main' \in [pc : {"open", "close", "join", "deleted"}, next : 0 .. Overflow + 1, drained : BOOLEAN]
    BY <1>2, <2>1 DEF CloseNext, TypeOK
  <2>3. closed' \in [Queues -> BOOLEAN]
    BY <1>2, <2>1 DEF CloseNext, CloseQueue, TypeOK
  <2>4. QED
    BY <1>2, <2>2, <2>3 DEF CloseNext, TypeOK
<1>3. CASE JoinAndDelete
  BY <1>3 DEF JoinAndDelete, TypeOK
<1>4. QED
  BY <1>1, <1>2, <1>3 DEF Destroy

LEMMA TypeStep ==
  ASSUME SchedInv, [Next]_vars
  PROVE  TypeOK'
<1>1. CASE UNCHANGED vars
  BY <1>1 DEF vars, SchedInv, TypeOK
<1>2. CASE Next
  BY <1>1, <1>2, SpawnType, RunnerStepType, FiberStepType, DestroyType DEF Next, SchedInv, Stopped
<1>3. QED
  BY <1>1, <1>2

-----------------------------------------------------------------------------
(* Places. *)

\* A step that changes one call, one runner, one queue and nothing else there.
CallBecomes(t, x) == \A u \in Threads : call'[u] = IF u = t THEN x ELSE call[u]
RunnerBecomes(r, x) == \A u \in Runners : runner'[u] = IF u = r THEN x ELSE runner[u]
QueueBecomes(q, w) == \A u \in Queues : queue'[u] = IF u = q THEN w ELSE queue[u]

LEMMA Becomes ==
  ASSUME TypeOK
  PROVE  /\ \A t, x : call' = [call EXCEPT ![t] = x] => CallBecomes(t, x)
         /\ \A r, x : runner' = [runner EXCEPT ![r] = x] => RunnerBecomes(r, x)
         /\ \A q, w : queue' = [queue EXCEPT ![q] = w] => QueueBecomes(q, w)
  BY DEF TypeOK, CallBecomes, RunnerBecomes, QueueBecomes

LEMMA PlaceKinds ==
  ASSUME NEW f
  PROVE  /\ \A p \in Free(f) : p[1] = "pool"
         /\ \A p \in Spawned(f) : p[1] = "call"
         /\ \A p \in Queued(f) : p[1] = "queue"
         /\ \A p \in Held(f) : p[1] = "runner"
         /\ \A p \in Hot(f) : p[1] = "hot"
  BY DEF Free, Spawned, Queued, Held, Hot

\* The parts of a fiber's place that a step does not touch.
LEMMA PlaceFrame ==
  ASSUME NEW f
  PROVE  /\ UNCHANGED pool => Free(f)' = Free(f)
         /\ UNCHANGED call => Spawned(f)' = Spawned(f)
         /\ UNCHANGED queue => Queued(f)' = Queued(f)
         /\ UNCHANGED runner => Held(f)' = Held(f) /\ Hot(f)' = Hot(f)
  BY DEF Free, Spawned, Queued, Held, Hot

\* A step that moves one fiber from one place to another keeps OnePlace.
LEMMA Moved ==
  ASSUME OnePlace, NEW f \in Fibers, NEW old \in Places(f), NEW new,
         Places(f)' = (Places(f) \ {old}) \cup {new},
         \A g \in Fibers \ {f} : Places(g)' = Places(g)
  PROVE  OnePlace'
<1> SUFFICES ASSUME NEW g \in Fibers
             PROVE  \E p \in Places(g)' : Places(g)' = {p}
  BY DEF OnePlace
<1>1. PICK p \in Places(g) : Places(g) = {p}
  BY DEF OnePlace
<1>2. CASE g = f
  <2>1. Places(g)' = {new}
    BY <1>1, <1>2
  <2>2. QED
    BY <2>1
<1>3. CASE g # f
  BY <1>1, <1>3
<1>4. QED
  BY <1>2, <1>3

\* A fiber that is in one place is in no other.
LEMMA Alone ==
  ASSUME OnePlace, NEW f \in Fibers
  PROVE  /\ \A p, o \in Places(f) : p = o
         /\ Free(f) # {} => Spawned(f) = {} /\ Queued(f) = {} /\ Held(f) = {} /\ Hot(f) = {}
         /\ Spawned(f) # {} => Free(f) = {} /\ Queued(f) = {} /\ Held(f) = {} /\ Hot(f) = {}
         /\ Queued(f) # {} => Free(f) = {} /\ Spawned(f) = {} /\ Held(f) = {} /\ Hot(f) = {}
         /\ Held(f) # {} => Free(f) = {} /\ Spawned(f) = {} /\ Queued(f) = {} /\ Hot(f) = {}
         /\ Hot(f) # {} => Free(f) = {} /\ Spawned(f) = {} /\ Queued(f) = {} /\ Held(f) = {}
<1>1. PICK p : Places(f) = {p}
  BY DEF OnePlace
<1>2. QED
  BY <1>1, PlaceKinds DEF Places

\* What becomes of Spawned(f) when the call of thread t becomes x.
LEMMA SpawnedChange ==
  ASSUME TypeOK, NEW t \in Threads, NEW x, CallBecomes(t, x), NEW f
  PROVE  Spawned(f)' = (Spawned(f) \ {<<"call", t>>}) \cup
           (IF x.f = f /\ x.pc \in {"check", "claim"} THEN {<<"call", t>>} ELSE {})
  BY DEF TypeOK, Spawned, CallBecomes

LEMMA HeldChange ==
  ASSUME TypeOK, NEW r \in Runners, NEW x, RunnerBecomes(r, x), NEW f
  PROVE  Held(f)' = (Held(f) \ {<<"runner", r>>}) \cup
           (IF x.f = f THEN {<<"runner", r>>} ELSE {})
  BY DEF TypeOK, Held, RunnerBecomes

\* A runner whose list of yielded fibers stays as it is.
LEMMA HotFrame ==
  ASSUME TypeOK, NEW r \in Runners, NEW x, RunnerBecomes(r, x),
         x.hot_local = runner[r].hot_local, NEW f
  PROVE  Hot(f)' = Hot(f)
<1>1. \A s \in Runners : runner'[s].hot_local = runner[s].hot_local
  BY DEF RunnerBecomes
<1>2. QED
  BY <1>1 DEF Hot

\* A runner that takes the newest fiber off its list.
LEMMA HotPop ==
  ASSUME TypeOK, NEW r \in Runners, NEW x, RunnerBecomes(r, x),
         runner[r].hot_local # <<>>, x.hot_local = Front(runner[r].hot_local), NEW f
  PROVE  Hot(f)' = Hot(f) \ {<<"hot", r, Len(runner[r].hot_local)>>}
<1> DEFINE s == runner[r].hot_local
           n == Len(s)
<1>1. s \in Seq(Fibers)
  BY DEF TypeOK, RunnerType
<1>2. /\ n \in Nat \ {0} /\ DOMAIN s = 1 .. n /\ DOMAIN Front(s) = 1 .. n - 1
      /\ \A i \in 1 .. n - 1 : Front(s)[i] = s[i]
  BY <1>1, FrontLast
<1>3. \A u \in Runners : runner'[u].hot_local = IF u = r THEN Front(s) ELSE runner[u].hot_local
  BY DEF RunnerBecomes
<1> HIDE DEF n
<1>4. 1 .. n = (1 .. n - 1) \cup {n} /\ n \notin 1 .. n - 1
  BY <1>2
<1>5. \A p : p \in Hot(f)' <=> \E u \in Runners : \E i \in DOMAIN runner'[u].hot_local :
         runner'[u].hot_local[i] = f /\ p = <<"hot", u, i>>
  BY DEF Hot
<1>6. \A p : p \in Hot(f) <=> \E u \in Runners : \E i \in DOMAIN runner[u].hot_local :
         runner[u].hot_local[i] = f /\ p = <<"hot", u, i>>
  BY DEF Hot
<1>7. ASSUME NEW p \in Hot(f)'
      PROVE  p \in Hot(f) /\ p # <<"hot", r, n>>
  <2>1. PICK u, i : u \in Runners /\ i \in DOMAIN runner'[u].hot_local /\
          runner'[u].hot_local[i] = f /\ p = <<"hot", u, i>>
    BY <1>5
  <2>2. CASE u = r
    BY <1>2, <1>3, <1>4, <1>6, <2>1, <2>2
  <2>3. CASE u # r
    BY <1>3, <1>6, <2>1, <2>3
  <2>4. QED
    BY <2>2, <2>3
<1>8. ASSUME NEW p \in Hot(f), p # <<"hot", r, n>>
      PROVE  p \in Hot(f)'
  <2>1. PICK u, i : u \in Runners /\ i \in DOMAIN runner[u].hot_local /\
          runner[u].hot_local[i] = f /\ p = <<"hot", u, i>>
    BY <1>6
  <2>2. CASE u = r
    <3>1. i \in 1 .. n - 1
      BY <1>2, <1>4, <1>8, <2>1, <2>2
    <3>2. QED
      BY <1>2, <1>3, <1>5, <2>1, <2>2, <3>1
  <2>3. CASE u # r
    BY <1>3, <1>5, <2>1, <2>3
  <2>4. QED
    BY <2>2, <2>3
<1>9. QED
  BY <1>7, <1>8 DEF n

\* A runner that appends fiber v to its list.
LEMMA HotAppend ==
  ASSUME TypeOK, NEW r \in Runners, NEW x, NEW v \in Fibers, RunnerBecomes(r, x),
         x.hot_local = Append(runner[r].hot_local, v), NEW f
  PROVE  Hot(f)' = Hot(f) \cup
           (IF v = f THEN {<<"hot", r, Len(runner[r].hot_local) + 1>>} ELSE {})
<1> DEFINE s == runner[r].hot_local
           n == Len(s)
           a == Append(s, v)
<1>1. s \in Seq(Fibers)
  BY DEF TypeOK, RunnerType
<1>2. /\ n \in Nat /\ DOMAIN s = 1 .. n /\ DOMAIN a = 1 .. n + 1
      /\ \A i \in 1 .. n : a[i] = s[i]
      /\ a[n + 1] = v
  BY <1>1, AppendProperties, LenProperties
<1>3. \A u \in Runners : runner'[u].hot_local = IF u = r THEN a ELSE runner[u].hot_local
  BY DEF RunnerBecomes
<1> HIDE DEF n, a
<1>4. 1 .. n + 1 = (1 .. n) \cup {n + 1}
  BY <1>2
<1>5. \A p : p \in Hot(f)' <=> \E u \in Runners : \E i \in DOMAIN runner'[u].hot_local :
         runner'[u].hot_local[i] = f /\ p = <<"hot", u, i>>
  BY DEF Hot
<1>6. \A p : p \in Hot(f) <=> \E u \in Runners : \E i \in DOMAIN runner[u].hot_local :
         runner[u].hot_local[i] = f /\ p = <<"hot", u, i>>
  BY DEF Hot
<1>7. ASSUME NEW p \in Hot(f)'
      PROVE  p \in Hot(f) \/ (v = f /\ p = <<"hot", r, n + 1>>)
  <2>1. PICK u, i : u \in Runners /\ i \in DOMAIN runner'[u].hot_local /\
          runner'[u].hot_local[i] = f /\ p = <<"hot", u, i>>
    BY <1>5
  <2>2. CASE u = r
    BY <1>2, <1>3, <1>4, <1>6, <2>1, <2>2
  <2>3. CASE u # r
    BY <1>3, <1>6, <2>1, <2>3
  <2>4. QED
    BY <2>2, <2>3
<1>8. ASSUME NEW p \in Hot(f)
      PROVE  p \in Hot(f)'
  <2>1. PICK u, i : u \in Runners /\ i \in DOMAIN runner[u].hot_local /\
          runner[u].hot_local[i] = f /\ p = <<"hot", u, i>>
    BY <1>6
  <2>2. CASE u = r
    BY <1>2, <1>3, <1>4, <1>5, <2>1, <2>2
  <2>3. CASE u # r
    BY <1>3, <1>5, <2>1, <2>3
  <2>4. QED
    BY <2>2, <2>3
<1>9. v = f => <<"hot", r, n + 1>> \in Hot(f)'
  BY <1>2, <1>3, <1>4, <1>5
<1>10. QED
  BY <1>7, <1>8, <1>9 DEF n

\* Queued(f) point by point, before and after a step on queue q.
LEMMA QueuedPoints ==
  ASSUME NEW f, NEW p
  PROVE  /\ p \in Queued(f) <=> \E q \in Queues : \E i \in Waiting(queue[q]) :
              queue[q][i].val = f /\ p = <<"queue", q, i>>
         /\ p \in Queued(f)' <=> \E q \in Queues : \E i \in Waiting(queue'[q]) :
              queue'[q][i].val = f /\ p = <<"queue", q, i>>
<1>1. p \in Queued(f) <=> \E q \in Queues : \E i \in Waiting(queue[q]) :
              queue[q][i].val = f /\ p = <<"queue", q, i>>
  BY DEF Queued
<1>2. p \in Queued(f)' <=> \E q \in Queues : \E i \in Waiting(queue'[q]) :
              queue'[q][i].val = f /\ p = <<"queue", q, i>>
  BY DEF Queued, Waiting
<1>3. QED
  BY <1>1, <1>2

\* Queue q becomes w, which has the waiting slots of queue[q], less those of
\* Out, plus those of In, with their values.
LEMMA QueuedChange ==
  ASSUME TypeOK, NEW q \in Queues, NEW w, QueueBecomes(q, w),
         NEW Out, NEW In,
         Waiting(w) = (Waiting(queue[q]) \ Out) \cup In,
         \A i \in Waiting(queue[q]) \ Out : i \notin In /\ w[i].val = queue[q][i].val,
         NEW f
  PROVE  \A p : p \in Queued(f)' <=>
           \/ p \in Queued(f) /\ ~\E i \in Out : p = <<"queue", q, i>>
           \/ \E i \in In : w[i].val = f /\ p = <<"queue", q, i>>
<1>1. \A u \in Queues : queue'[u] = IF u = q THEN w ELSE queue[u]
  BY DEF QueueBecomes
<1>2. ASSUME NEW p \in Queued(f)'
      PROVE  \/ p \in Queued(f) /\ ~\E i \in Out : p = <<"queue", q, i>>
             \/ \E i \in In : w[i].val = f /\ p = <<"queue", q, i>>
  <2>1. PICK u \in Queues : \E i \in Waiting(queue'[u]) : queue'[u][i].val = f /\ p = <<"queue", u, i>>
    BY QueuedPoints
  <2>2. PICK i \in Waiting(queue'[u]) : queue'[u][i].val = f /\ p = <<"queue", u, i>>
    BY <2>1
  <2>3. CASE u # q
    <3>1. p \in Queued(f)
      BY <1>1, <2>2, <2>3, QueuedPoints
    <3>2. QED
      BY <2>2, <2>3, <3>1
  <2>4. CASE u = q /\ i \in In
    BY <1>1, <2>2, <2>4
  <2>5. CASE u = q /\ i \notin In
    <3>1. i \in Waiting(queue[q]) \ Out /\ queue[q][i].val = f
      BY <1>1, <2>2, <2>5
    <3>2. p \in Queued(f)
      BY <2>2, <2>5, <3>1, QueuedPoints
    <3>3. QED
      BY <2>2, <2>5, <3>1, <3>2
  <2>6. QED
    BY <2>3, <2>4, <2>5
<1>3. ASSUME NEW p \in Queued(f), ~\E i \in Out : p = <<"queue", q, i>>
      PROVE  p \in Queued(f)'
  <2>1. PICK u \in Queues : \E i \in Waiting(queue[u]) : queue[u][i].val = f /\ p = <<"queue", u, i>>
    BY QueuedPoints
  <2>2. PICK i \in Waiting(queue[u]) : queue[u][i].val = f /\ p = <<"queue", u, i>>
    BY <2>1
  <2>3. i \in Waiting(queue'[u]) /\ queue'[u][i].val = f
    BY <1>1, <1>3, <2>2
  <2>4. QED
    BY <2>2, <2>3, QueuedPoints
<1>4. ASSUME NEW i \in In, w[i].val = f
      PROVE  <<"queue", q, i>> \in Queued(f)'
  <2>1. i \in Waiting(queue'[q]) /\ queue'[q][i].val = f
    BY <1>1, <1>4
  <2>2. QED
    BY <2>1, QueuedPoints
<1>5. QED
  BY <1>2, <1>3, <1>4

LEMMA QueuedClaim ==
  ASSUME TypeOK, NEW q \in Queues, NEW v \in Vals, NEW t \in Owners,
         QueueBecomes(q, Claim(queue[q], v, t)), NEW f
  PROVE  Queued(f)' = Queued(f) \cup
           (IF v = f THEN {<<"queue", q, Len(queue[q]) + 1>>} ELSE {})
<1> DEFINE w == Claim(queue[q], v, t)
           n == Len(queue[q]) + 1
<1>1. /\ Waiting(w) = Waiting(queue[q]) \cup {n}
      /\ n \notin Waiting(queue[q])
      /\ \A i \in Waiting(queue[q]) : w[i] = queue[q][i]
      /\ w[n].val = v
  BY QueueWindows, ClaimWaits
<1>2. QueueBecomes(q, w)
  OBVIOUS
<1> HIDE DEF w, n
<1>3. Waiting(w) = (Waiting(queue[q]) \ {}) \cup {n}
  BY <1>1
<1>4. \A i \in Waiting(queue[q]) \ {} : i \notin {n} /\ w[i].val = queue[q][i].val
  BY <1>1
<1> DEFINE Out == {}
           In == {n}
<1>5. \A p : p \in Queued(f)' <=>
        \/ p \in Queued(f) /\ ~\E i \in Out : p = <<"queue", q, i>>
        \/ \E i \in In : w[i].val = f /\ p = <<"queue", q, i>>
  <2>1. /\ Waiting(w) = (Waiting(queue[q]) \ Out) \cup In
        /\ \A i \in Waiting(queue[q]) \ Out : i \notin In /\ w[i].val = queue[q][i].val
    BY <1>3, <1>4
  <2> HIDE DEF Out, In
  <2>2. QED
    BY <1>2, <2>1, QueuedChange
<1>6. QED
  BY <1>1, <1>5 DEF n

LEMMA QueuedPublish ==
  ASSUME TypeOK, NEW q \in Queues, NEW t, QueueBecomes(q, Publish(queue[q], t)), NEW f
  PROVE  Queued(f)' = Queued(f)
<1> DEFINE w == Publish(queue[q], t)
<1>1. /\ Waiting(w) = Waiting(queue[q])
      /\ \A i \in Waiting(queue[q]) : w[i].val = queue[q][i].val
  <2>1. NoThread \in Owners
    BY DEF Owners
  <2>2. QED
    BY <2>1, QueueWindows, PublishWaits
<1>2. QueueBecomes(q, w)
  OBVIOUS
<1> HIDE DEF w
<1>3. Waiting(w) = (Waiting(queue[q]) \ {}) \cup {}
  BY <1>1
<1>4. \A i \in Waiting(queue[q]) \ {} : i \notin {} /\ w[i].val = queue[q][i].val
  BY <1>1
<1> DEFINE Out == {}
           In == {}
<1>5. \A p : p \in Queued(f)' <=>
        \/ p \in Queued(f) /\ ~\E i \in Out : p = <<"queue", q, i>>
        \/ \E i \in In : w[i].val = f /\ p = <<"queue", q, i>>
  <2>1. /\ Waiting(w) = (Waiting(queue[q]) \ Out) \cup In
        /\ \A i \in Waiting(queue[q]) \ Out : i \notin In /\ w[i].val = queue[q][i].val
    BY <1>3, <1>4
  <2> HIDE DEF Out, In
  <2>2. QED
    BY <1>2, <2>1, QueuedChange
<1>6. QED
  BY <1>5

LEMMA QueuedTake ==
  ASSUME TypeOK, NEW q \in Queues, NEW r \in Owners, HasReady(queue[q]),
         QueueBecomes(q, Take(queue[q], r)), NEW f
  PROVE  Queued(f)' = Queued(f) \ {<<"queue", q, FrontSlot(queue[q])>>}
<1> DEFINE w == Take(queue[q], r)
           k == FrontSlot(queue[q])
<1>1. /\ Waiting(w) = Waiting(queue[q]) \ {k}
      /\ \A i \in Waiting(queue[q]) : w[i].val = queue[q][i].val
  BY QueueWindows, TakeWaits
<1>2. QueueBecomes(q, w)
  OBVIOUS
<1> HIDE DEF w, k
<1>3. Waiting(w) = (Waiting(queue[q]) \ {k}) \cup {}
  BY <1>1
<1>4. \A i \in Waiting(queue[q]) \ {k} : i \notin {} /\ w[i].val = queue[q][i].val
  BY <1>1
<1> DEFINE Out == {k}
           In == {}
<1>5. \A p : p \in Queued(f)' <=>
        \/ p \in Queued(f) /\ ~\E i \in Out : p = <<"queue", q, i>>
        \/ \E i \in In : w[i].val = f /\ p = <<"queue", q, i>>
  <2>1. /\ Waiting(w) = (Waiting(queue[q]) \ Out) \cup In
        /\ \A i \in Waiting(queue[q]) \ Out : i \notin In /\ w[i].val = queue[q][i].val
    BY <1>3, <1>4
  <2> HIDE DEF Out, In
  <2>2. QED
    BY <1>2, <2>1, QueuedChange
<1>6. QED
  BY <1>5 DEF k

\* A cell given back moves the slots behind it k places forward.
LEMMA QueuedGiveBack ==
  ASSUME TypeOK, NEW q \in Queues, NEW r, QueueBecomes(q, GiveBack(queue[q], r))
  PROVE  \E k \in Nat : \A f : Queued(f)' =
           {IF p[2] = q THEN <<"queue", q, p[3] - k>> ELSE p : p \in Queued(f)}
<1> DEFINE w == GiveBack(queue[q], r)
<1>1. PICK k \in Nat :
        /\ Waiting(w) = {i - k : i \in Waiting(queue[q])}
        /\ \A i \in Waiting(queue[q]) : w[i - k].val = queue[q][i].val
  <2>1. NoVal \in Vals /\ NoThread \in Owners
    BY DEF Vals, Owners
  <2>2. QED
    BY <2>1, QueueWindows, GiveBackWaits
<1>2. \A u \in Queues : queue'[u] = IF u = q THEN w ELSE queue[u]
  BY DEF QueueBecomes
<1> HIDE DEF w
<1> DEFINE Shift(p) == IF p[2] = q THEN <<"queue", q, p[3] - k>> ELSE p
<1>3. ASSUME NEW f, NEW p \in Queued(f)'
      PROVE  \E o \in Queued(f) : p = Shift(o)
  <2>1. PICK u \in Queues : \E i \in Waiting(queue'[u]) : queue'[u][i].val = f /\ p = <<"queue", u, i>>
    BY QueuedPoints
  <2>2. PICK i \in Waiting(queue'[u]) : queue'[u][i].val = f /\ p = <<"queue", u, i>>
    BY <2>1
  <2>3. CASE u # q
    <3>1. p \in Queued(f)
      BY <1>2, <2>2, <2>3, QueuedPoints
    <3>2. p = Shift(p)
      BY <2>2, <2>3
    <3>3. QED
      BY <3>1, <3>2
  <2>4. CASE u = q
    <3>1. PICK j \in Waiting(queue[q]) : i = j - k
      BY <1>1, <1>2, <2>2, <2>4
    <3>2. queue[q][j].val = f
      BY <1>1, <1>2, <2>2, <2>4, <3>1
    <3>3. <<"queue", q, j>> \in Queued(f)
      BY <3>2, QueuedPoints
    <3>4. p = Shift(<<"queue", q, j>>)
      BY <2>2, <2>4, <3>1
    <3>5. QED
      BY <3>3, <3>4
  <2>5. QED
    BY <2>3, <2>4
<1>4. ASSUME NEW f, NEW o \in Queued(f)
      PROVE  Shift(o) \in Queued(f)'
  <2>1. PICK u \in Queues : \E i \in Waiting(queue[u]) : queue[u][i].val = f /\ o = <<"queue", u, i>>
    BY QueuedPoints
  <2>2. PICK i \in Waiting(queue[u]) : queue[u][i].val = f /\ o = <<"queue", u, i>>
    BY <2>1
  <2>3. CASE u # q
    <3>1. Shift(o) = o
      BY <2>2, <2>3
    <3>2. o \in Queued(f)'
      BY <1>2, <2>2, <2>3, QueuedPoints
    <3>3. QED
      BY <3>1, <3>2
  <2>4. CASE u = q
    <3>1. i - k \in Waiting(queue'[q]) /\ queue'[q][i - k].val = f
      BY <1>1, <1>2, <2>2, <2>4
    <3>2. Shift(o) = <<"queue", q, i - k>>
      BY <2>2, <2>4
    <3>3. QED
      BY <3>1, <3>2, QueuedPoints
  <2>5. QED
    BY <2>3, <2>4
<1>5. ASSUME NEW f PROVE Queued(f)' = {Shift(p) : p \in Queued(f)}
  BY <1>3, <1>4
<1>6. QED
  BY <1>5

\* A step that leaves every fiber where it is.
LEMMA Stays ==
  ASSUME OnePlace, \A g \in Fibers : Places(g)' = Places(g)
  PROVE  OnePlace'
  BY DEF OnePlace

LEMMA SpawnBeginPlace ==
  ASSUME TypeOK, OnePlace, NEW t \in Threads, SpawnBegin(t)
  PROVE  OnePlace'
<1>1. PICK f \in pool, home \in HashTargets, blocking \in BOOLEAN :
        /\ call' = [call EXCEPT ![t] = [pc |-> "check", f |-> f, home |-> home,
                                        at |-> home, blocking |-> blocking]]
        /\ pool' = pool \ {f}
  BY DEF SpawnBegin
<1> DEFINE x == [pc |-> "check", f |-> f, home |-> home, at |-> home, blocking |-> blocking]
<1>2. f \in Fibers /\ CallBecomes(t, x) /\ x.f = f /\ x.pc = "check"
  BY <1>1, Becomes DEF TypeOK
<1>3. call[t].pc = "none" /\ UNCHANGED <<queue, runner>>
  BY DEF SpawnBegin, MayCall
<1>4. \A g : <<"call", t>> \notin Spawned(g)
  BY <1>3 DEF Spawned
<1> HIDE DEF x
<1>5. \A g \in Fibers :
        /\ Queued(g)' = Queued(g) /\ Held(g)' = Held(g) /\ Hot(g)' = Hot(g)
        /\ Free(g)' = Free(g) \ (IF g = f THEN {<<"pool">>} ELSE {})
        /\ Spawned(g)' = Spawned(g) \cup (IF g = f THEN {<<"call", t>>} ELSE {})
  <2> SUFFICES ASSUME NEW g \in Fibers
               PROVE  /\ Queued(g)' = Queued(g) /\ Held(g)' = Held(g) /\ Hot(g)' = Hot(g)
                      /\ Free(g)' = Free(g) \ (IF g = f THEN {<<"pool">>} ELSE {})
                      /\ Spawned(g)' = Spawned(g) \cup (IF g = f THEN {<<"call", t>>} ELSE {})
    OBVIOUS
  <2>1. Queued(g)' = Queued(g) /\ Held(g)' = Held(g) /\ Hot(g)' = Hot(g)
    BY <1>3, PlaceFrame
  <2>2. Free(g)' = Free(g) \ (IF g = f THEN {<<"pool">>} ELSE {})
    BY <1>1 DEF Free
  <2>3. Spawned(g)' = (Spawned(g) \ {<<"call", t>>}) \cup
           (IF x.f = g /\ x.pc \in {"check", "claim"} THEN {<<"call", t>>} ELSE {})
    BY <1>2, SpawnedChange
  <2>4. QED
    BY <1>2, <1>4, <2>1, <2>2, <2>3
<1>6. <<"pool">> \in Free(f)
  BY <1>1 DEF Free
<1>7. Spawned(f) = {} /\ Queued(f) = {} /\ Held(f) = {} /\ Hot(f) = {}
  BY <1>2, <1>6, Alone
<1>8. <<"pool">> \in Places(f) /\ Places(f)' = (Places(f) \ {<<"pool">>}) \cup {<<"call", t>>}
  BY <1>2, <1>5, <1>6, <1>7 DEF Places
<1>9. \A g \in Fibers \ {f} : Places(g)' = Places(g)
  BY <1>5 DEF Places
<1>10. QED
  BY <1>2, <1>8, <1>9, Moved

\* release puts the fiber that its caller holds at place old on the free list.
LEMMA ReleasePlace ==
  ASSUME TypeOK, OnePlace, NEW f \in Fibers, NEW old, old \in Spawned(f) \cup Held(f), Release(f),
         \A g \in Fibers :
           /\ Spawned(g)' = Spawned(g) \ (IF g = f THEN {old} ELSE {})
           /\ Held(g)' = Held(g) \ (IF g = f THEN {old} ELSE {})
           /\ Queued(g)' = Queued(g) /\ Hot(g)' = Hot(g)
  PROVE  OnePlace'
<1>1. \A g \in Fibers : Free(g)' = Free(g) \cup (IF g = f THEN {<<"pool">>} ELSE {})
  BY DEF Release, Free
<1>2. old \in Places(f)
  BY DEF Places
<1>3. Free(f) = {} /\ Queued(f) = {} /\ Hot(f) = {}
  BY Alone
<1>4. Places(f)' = (Places(f) \ {old}) \cup {<<"pool">>}
  BY <1>1, <1>3 DEF Places
<1>5. \A g \in Fibers \ {f} : Places(g)' = Places(g)
  BY <1>1 DEF Places
<1>6. QED
  BY <1>2, <1>4, <1>5, Moved

\* enqueue was refused: the fiber stays with the caller or goes to the pool.
LEMMA RefusedPlace ==
  ASSUME TypeOK, OnePlace, Callers, NEW t \in Threads, call[t].pc \in {"check", "claim"},
         Refused(t), UNCHANGED <<queue, runner>>
  PROVE  OnePlace'
<1>1. PICK f \in Fibers : f = call[t].f
  BY CallerHasFiber
<1>2. \A g \in Fibers : Queued(g)' = Queued(g) /\ Held(g)' = Held(g) /\ Hot(g)' = Hot(g)
  BY PlaceFrame
<1>3. <<"call", t>> \in Spawned(f) /\ \A g : g # f => <<"call", t>> \notin Spawned(g)
  BY <1>1 DEF Spawned
<1>4. call[t] \in CallType
  BY DEF TypeOK
<1>5. CASE GiveUp(t)
  <2>1. CallBecomes(t, NoCall) /\ NoCall.pc = "none" /\ Release(f)
    BY <1>1, <1>5, Becomes DEF GiveUp, NoCall
  <2>2. \A g \in Fibers : Spawned(g)' = Spawned(g) \ (IF g = f THEN {<<"call", t>>} ELSE {})
    <3> SUFFICES ASSUME NEW g \in Fibers
                 PROVE  Spawned(g)' = Spawned(g) \ (IF g = f THEN {<<"call", t>>} ELSE {})
      OBVIOUS
    <3>1. Spawned(g)' = (Spawned(g) \ {<<"call", t>>}) \cup
           (IF NoCall.f = g /\ NoCall.pc \in {"check", "claim"} THEN {<<"call", t>>} ELSE {})
      BY <2>1, SpawnedChange
    <3>2. QED
      BY <1>3, <2>1, <3>1
  <2>3. Held(f) = {}
    BY <1>3, Alone
  <2>4. \A g \in Fibers : Held(g)' = Held(g) \ (IF g = f THEN {<<"call", t>>} ELSE {})
    BY <1>2, <2>3
  <2>5. QED
    BY <1>2, <1>3, <2>1, <2>2, <2>4, ReleasePlace
<1>6. CASE ~GiveUp(t)
  <2>1. PICK p \in Queues : call' = [call EXCEPT ![t].pc = "check", ![t].at = p]
    BY <1>4, <1>6, Markers DEF Refused, CallType
  <2> DEFINE x == [call[t] EXCEPT !.pc = "check", !.at = p]
  <2>2. UNCHANGED pool
    BY <1>6 DEF Refused
  <2>3. x.f = f /\ x.pc = "check" /\ CallBecomes(t, x)
    <3>1. call' = [call EXCEPT ![t] = x]
      BY <2>1 DEF TypeOK
    <3>2. QED
      BY <1>1, <1>4, <3>1, Becomes DEF CallType
  <2> HIDE DEF x
  <2>4. \A g \in Fibers : Spawned(g)' = Spawned(g)
    <3> SUFFICES ASSUME NEW g \in Fibers PROVE Spawned(g)' = Spawned(g)
      OBVIOUS
    <3>1. Spawned(g)' = (Spawned(g) \ {<<"call", t>>}) \cup
           (IF x.f = g /\ x.pc \in {"check", "claim"} THEN {<<"call", t>>} ELSE {})
      BY <2>3, SpawnedChange
    <3>2. QED
      BY <1>3, <2>3, <3>1
  <2>5. \A g \in Fibers : Free(g)' = Free(g)
    BY <2>2, PlaceFrame
  <2>6. QED
    BY <1>2, <2>4, <2>5, Stays DEF Places
<1>7. QED
  BY <1>5, <1>6

LEMMA EnqueueClaimPlace ==
  ASSUME TypeOK, OnePlace, Callers, NEW t \in Threads, call[t].pc = "claim",
         ~Full(queue[call[t].at], Capacity(call[t].at)), EnqueueClaim(t)
  PROVE  OnePlace'
<1>1. PICK f \in Fibers : f = call[t].f
  BY CallerHasFiber
<1>2. PICK q \in Queues : q = call[t].at
  BY DEF TypeOK, CallType
<1> DEFINE x == [call[t] EXCEPT !.pc = "publish"]
           new == <<"queue", q, Len(queue[q]) + 1>>
<1>3. /\ QueueBecomes(q, Claim(queue[q], f, t))
      /\ CallBecomes(t, x) /\ x.pc = "publish"
      /\ UNCHANGED <<pool, runner>>
  <2>1. /\ queue' = [queue EXCEPT ![q] = Claim(queue[q], f, t)]
        /\ call' = [call EXCEPT ![t].pc = "publish"]
        /\ UNCHANGED <<pool, runner>>
    BY <1>1, <1>2 DEF EnqueueClaim
  <2>2. call[t] \in CallType /\ call' = [call EXCEPT ![t] = x]
    BY <2>1 DEF TypeOK
  <2>3. x.pc = "publish"
    BY <2>2 DEF CallType
  <2>4. QED
    BY <2>1, <2>2, <2>3, Becomes
<1> HIDE DEF x
<1>4. <<"call", t>> \in Spawned(f) /\ \A g : g # f => <<"call", t>> \notin Spawned(g)
  BY <1>1 DEF Spawned
<1>5. \A g \in Fibers :
        /\ Free(g)' = Free(g) /\ Held(g)' = Held(g) /\ Hot(g)' = Hot(g)
        /\ Spawned(g)' = Spawned(g) \ (IF g = f THEN {<<"call", t>>} ELSE {})
        /\ Queued(g)' = Queued(g) \cup (IF f = g THEN {new} ELSE {})
  <2> SUFFICES ASSUME NEW g \in Fibers
               PROVE  /\ Free(g)' = Free(g) /\ Held(g)' = Held(g) /\ Hot(g)' = Hot(g)
                      /\ Spawned(g)' = Spawned(g) \ (IF g = f THEN {<<"call", t>>} ELSE {})
                      /\ Queued(g)' = Queued(g) \cup (IF f = g THEN {new} ELSE {})
    OBVIOUS
  <2>1. Free(g)' = Free(g) /\ Held(g)' = Held(g) /\ Hot(g)' = Hot(g)
    BY <1>3, PlaceFrame
  <2>2. Spawned(g)' = (Spawned(g) \ {<<"call", t>>}) \cup
           (IF x.f = g /\ x.pc \in {"check", "claim"} THEN {<<"call", t>>} ELSE {})
    BY <1>3, SpawnedChange
  <2>3. Queued(g)' = Queued(g) \cup (IF f = g THEN {new} ELSE {})
    <3>1. f \in Vals /\ t \in Owners
      BY DEF Vals, Owners
    <3>2. QED
      BY <1>3, <3>1, QueuedClaim
  <2>4. QED
    BY <1>3, <1>4, <2>1, <2>2, <2>3
<1> HIDE DEF new
<1>6. Free(f) = {} /\ Queued(f) = {} /\ Held(f) = {} /\ Hot(f) = {}
  BY <1>4, Alone
<1>7. <<"call", t>> \in Places(f) /\ Places(f)' = (Places(f) \ {<<"call", t>>}) \cup {new}
  BY <1>4, <1>5, <1>6 DEF Places
<1>8. \A g \in Fibers \ {f} : Places(g)' = Places(g)
  BY <1>5 DEF Places
<1>9. QED
  BY <1>7, <1>8, Moved

LEMMA SpawnStepPlace ==
  ASSUME TypeOK, OnePlace, Callers, NEW t \in Threads, SpawnStep(t)
  PROVE  OnePlace'
<1>1. call[t] \in CallType /\ t \in Owners
  BY DEF TypeOK, Owners
<1>2. ASSUME NEW x, CallBecomes(t, x), x.f = call[t].f,
             call[t].pc \in {"check", "claim"}, x.pc \in {"check", "claim"},
             UNCHANGED <<pool, queue, runner>>
      PROVE  OnePlace'
  <2>1. ASSUME NEW g \in Fibers PROVE Spawned(g)' = Spawned(g)
    <3>1. Spawned(g)' = (Spawned(g) \ {<<"call", t>>}) \cup
           (IF x.f = g /\ x.pc \in {"check", "claim"} THEN {<<"call", t>>} ELSE {})
      BY <1>2, SpawnedChange
    <3>2. <<"call", t>> \in Spawned(g) <=> call[t].f = g
      BY <1>2 DEF Spawned
    <3>3. QED
      BY <1>2, <3>1, <3>2
  <2>2. QED
    BY <1>2, <2>1, PlaceFrame, Stays DEF Places
<1>3. CASE EnqueueCheck(t)
  <2>1. CASE closed[call[t].at]
    BY <1>3, <2>1, RefusedPlace DEF EnqueueCheck
  <2>2. CASE ~closed[call[t].at]
    <3> DEFINE x == [call[t] EXCEPT !.pc = "claim"]
    <3>1. call[t].pc = "check" /\ call' = [call EXCEPT ![t].pc = "claim"]
          /\ UNCHANGED <<pool, queue, runner>>
      BY <1>3, <2>2 DEF EnqueueCheck
    <3>2. call' = [call EXCEPT ![t] = x] /\ x.f = call[t].f /\ x.pc = "claim"
      BY <1>1, <3>1 DEF TypeOK, CallType
    <3>3. QED
      BY <1>2, <3>1, <3>2, Becomes
  <2>3. QED
    BY <2>1, <2>2
<1>4. CASE EnqueueClaim(t)
  <2>1. CASE Full(queue[call[t].at], Capacity(call[t].at))
    BY <1>4, <2>1, RefusedPlace DEF EnqueueClaim
  <2>2. CASE ~Full(queue[call[t].at], Capacity(call[t].at))
    BY <1>4, <2>2, EnqueueClaimPlace DEF EnqueueClaim
  <2>3. QED
    BY <2>1, <2>2
<1>5. CASE EnqueuePublish(t)
  <2>1. PICK q \in Queues : q = call[t].at
    BY <1>1 DEF CallType
  <2>2. QueueBecomes(q, Publish(queue[q], t)) /\ CallBecomes(t, NoCall) /\ NoCall.pc = "none"
        /\ UNCHANGED <<pool, runner>>
    BY <1>5, <2>1, Becomes DEF EnqueuePublish, NoCall
  <2>3. ASSUME NEW g \in Fibers PROVE Spawned(g)' = Spawned(g) /\ Queued(g)' = Queued(g)
    <3>1. Spawned(g)' = (Spawned(g) \ {<<"call", t>>}) \cup
           (IF NoCall.f = g /\ NoCall.pc \in {"check", "claim"} THEN {<<"call", t>>} ELSE {})
      BY <2>2, SpawnedChange
    <3>2. <<"call", t>> \notin Spawned(g)
      BY <1>5 DEF EnqueuePublish, Spawned
    <3>3. Queued(g)' = Queued(g)
      BY <2>2, QueuedPublish
    <3>4. QED
      BY <2>2, <3>1, <3>2, <3>3
  <2>4. QED
    BY <2>2, <2>3, PlaceFrame, Stays DEF Places
<1>6. QED
  BY <1>3, <1>4, <1>5 DEF SpawnStep

\* A runner takes fiber f, which is at place old, from its list or a queue.
LEMMA TakenInHand ==
  ASSUME TypeOK, OnePlace, NEW r \in Runners, NEW f \in Fibers, NEW old, NEW x,
         RunnerBecomes(r, x), x.f = f, runner[r].f \notin Fibers,
         old \in Queued(f) \cup Hot(f), UNCHANGED <<pool, call>>,
         \A g \in Fibers :
           /\ Queued(g)' = Queued(g) \ (IF g = f THEN {old} ELSE {})
           /\ Hot(g)' = Hot(g) \ (IF g = f THEN {old} ELSE {})
  PROVE  OnePlace'
<1>1. \A g \in Fibers :
        /\ Free(g)' = Free(g) /\ Spawned(g)' = Spawned(g)
        /\ Held(g)' = Held(g) \cup (IF g = f THEN {<<"runner", r>>} ELSE {})
  <2> SUFFICES ASSUME NEW g \in Fibers
               PROVE  /\ Free(g)' = Free(g) /\ Spawned(g)' = Spawned(g)
                      /\ Held(g)' = Held(g) \cup (IF g = f THEN {<<"runner", r>>} ELSE {})
    OBVIOUS
  <2>1. Held(g)' = (Held(g) \ {<<"runner", r>>}) \cup
           (IF x.f = g THEN {<<"runner", r>>} ELSE {})
    BY HeldChange
  <2>2. <<"runner", r>> \notin Held(g)
    BY DEF Held
  <2>3. QED
    BY <2>1, <2>2, PlaceFrame
<1>2. Free(f) = {} /\ Spawned(f) = {} /\ Held(f) = {}
  BY Alone
<1>3. old \in Places(f) /\ Places(f)' = (Places(f) \ {old}) \cup {<<"runner", r>>}
  BY <1>1, <1>2 DEF Places
<1>4. \A g \in Fibers \ {f} : Places(g)' = Places(g)
  BY <1>1 DEF Places
<1>5. QED
  BY <1>3, <1>4, Moved

LEMMA PopHotPlace ==
  ASSUME TypeOK, OnePlace, RunnersOK, NEW r \in Runners, PopHot(r)
  PROVE  OnePlace'
<1> DEFINE s == runner[r].hot_local
           old == <<"hot", r, Len(s)>>
           x == SwitchTo(HotPopped(r), Last(s))
<1>1. s # <<>> /\ At(r, "loop") /\ Dispatch(r, HotPopped(r), Last(s))
      /\ UNCHANGED <<pool, queue, call>>
  BY DEF PopHot, HotIsDue
<1>2. runner[r] \in RunnerType /\ s \in Seq(Fibers)
  BY DEF TypeOK, RunnerType
<1>3. PICK f \in Fibers : f = Last(s)
  BY <1>1, <1>2, FrontLast
<1>4. /\ Len(s) \in DOMAIN s
      /\ s[Len(s)] = f
  BY <1>1, <1>2, <1>3, FrontLast
<1>5. RunnerBecomes(r, x) /\ x.f = f /\ x.hot_local = Front(s)
  <2>1. runner' = [runner EXCEPT ![r] = x]
    BY <1>1 DEF Dispatch
  <2>2. x.f = f /\ x.hot_local = Front(s)
    BY <1>2, <1>3 DEF SwitchTo, HotPopped, RunnerType
  <2>3. QED
    BY <2>1, <2>2, Becomes
<1> HIDE DEF x
<1>6. runner[r].f \notin Fibers
  BY <1>1 DEF RunnersOK, HeldBy, Visiting, InHand, At
<1>7. old \in Hot(f) /\ \A g : g # f => old \notin Hot(g)
  BY <1>4 DEF Hot
<1>8. \A g \in Fibers : Hot(g)' = Hot(g) \ {old}
  BY <1>1, <1>5, HotPop
<1>9. \A g \in Fibers : Queued(g)' = Queued(g)
  BY <1>1, PlaceFrame
<1>10. Queued(f) = {}
  BY <1>7, Alone
<1> HIDE DEF old
<1>11. \A g \in Fibers :
           /\ Queued(g)' = Queued(g) \ (IF g = f THEN {old} ELSE {})
           /\ Hot(g)' = Hot(g) \ (IF g = f THEN {old} ELSE {})
  BY <1>7, <1>8, <1>9, <1>10
<1>12. QED
  BY <1>1, <1>5, <1>6, <1>7, <1>11, TakenInHand

LEMMA HitPlace ==
  ASSUME TypeOK, OnePlace, RunnersOK, QueueFresh, NEW r \in Runners, NEW q \in Queues,
         ~InHand(r), Hit(r, q)
  PROVE  OnePlace'
<1> DEFINE k == FrontSlot(queue[q])
           old == <<"queue", q, k>>
           x == [runner[r] EXCEPT !.pc = "giveback", !.from = q, !.f = queue[q][k].val, !.hot_used = 0]
<1>1. k \in Waiting(queue[q])
  <2>1. HasReady(queue[q]) /\ r \in Owners
    BY Markers DEF Hit, Owners
  <2>2. QED
    BY <2>1, QueueWindows, TakeWaits
<1>2. PICK f \in Fibers : f = queue[q][k].val
  BY <1>1 DEF QueueFresh
<1>3. /\ RunnerBecomes(r, x) /\ x.f = f /\ x.hot_local = runner[r].hot_local
      /\ QueueBecomes(q, Take(queue[q], r)) /\ UNCHANGED <<pool, call>>
  <2>1. runner[r] \in RunnerType
    BY DEF TypeOK
  <2>2. runner' = [runner EXCEPT ![r] = x] /\ queue' = [queue EXCEPT ![q] = Take(queue[q], r)]
        /\ UNCHANGED <<pool, call>>
    BY DEF Hit, TypeOK
  <2>3. x.f = f /\ x.hot_local = runner[r].hot_local
    BY <1>2, <2>1 DEF RunnerType
  <2>4. QED
    BY <2>2, <2>3, Becomes
<1> HIDE DEF x
<1>4. runner[r].f \notin Fibers
  BY DEF RunnersOK, HeldBy, Visiting
<1>5. old \in Queued(f) /\ \A g : g # f => old \notin Queued(g)
  BY <1>1, <1>2 DEF Queued
<1>6. \A g \in Fibers : Queued(g)' = Queued(g) \ {old}
  <2>1. HasReady(queue[q]) /\ r \in Owners
    BY Markers DEF Hit, Owners
  <2>2. QED
    BY <1>3, <2>1, QueuedTake
<1>7. \A g \in Fibers : Hot(g)' = Hot(g)
  BY <1>3, HotFrame
<1>8. Hot(f) = {}
  BY <1>5, Alone
<1> HIDE DEF old
<1>9. \A g \in Fibers :
           /\ Queued(g)' = Queued(g) \ (IF g = f THEN {old} ELSE {})
           /\ Hot(g)' = Hot(g) \ (IF g = f THEN {old} ELSE {})
  BY <1>5, <1>6, <1>7, <1>8
<1>10. QED
  BY <1>3, <1>4, <1>5, <1>9, TakenInHand

\* A runner that goes on with the fiber it has, or without one.
LEMMA RunnerStaysPlace ==
  ASSUME TypeOK, OnePlace, NEW r \in Runners, NEW x, RunnerBecomes(r, x),
         x.f = runner[r].f, x.hot_local = runner[r].hot_local,
         NEW g \in Fibers
  PROVE  Held(g)' = Held(g) /\ Hot(g)' = Hot(g)
<1>1. Hot(g)' = Hot(g)
  BY HotFrame
<1>2. Held(g)' = (Held(g) \ {<<"runner", r>>}) \cup
           (IF x.f = g THEN {<<"runner", r>>} ELSE {})
  BY HeldChange
<1>3. <<"runner", r>> \in Held(g) <=> runner[r].f = g
  BY DEF Held
<1>4. QED
  BY <1>1, <1>2, <1>3

LEMMA GiveBackPlace ==
  ASSUME TypeOK, OnePlace, NEW r \in Runners, GiveBackCell(r)
  PROVE  OnePlace'
<1> DEFINE x == SwitchTo([runner[r] EXCEPT !.from = r], runner[r].f)
<1>1. PICK q \in Queues : q = runner[r].from
  BY DEF TypeOK, RunnerType
<1>2. /\ RunnerBecomes(r, x) /\ x.f = runner[r].f /\ x.hot_local = runner[r].hot_local
      /\ QueueBecomes(q, GiveBack(queue[q], r)) /\ UNCHANGED <<pool, call>>
  <2>1. runner[r] \in RunnerType
    BY DEF TypeOK
  <2>2. /\ runner' = [runner EXCEPT ![r] = x]
        /\ queue' = [queue EXCEPT ![q] = GiveBack(queue[q], r)]
        /\ UNCHANGED <<pool, call>>
    BY <1>1 DEF GiveBackCell, Dispatch
  <2>3. x.f = runner[r].f /\ x.hot_local = runner[r].hot_local
    BY <2>1 DEF SwitchTo, RunnerType
  <2>4. QED
    BY <2>2, <2>3, Becomes
<1> HIDE DEF x
<1>3. PICK k \in Nat : \A f : Queued(f)' =
           {IF p[2] = q THEN <<"queue", q, p[3] - k>> ELSE p : p \in Queued(f)}
  BY <1>2, QueuedGiveBack
<1> SUFFICES ASSUME NEW f \in Fibers PROVE \E o \in Places(f)' : Places(f)' = {o}
  BY DEF OnePlace
<1>4. Free(f)' = Free(f) /\ Spawned(f)' = Spawned(f) /\ Held(f)' = Held(f) /\ Hot(f)' = Hot(f)
  BY <1>2, PlaceFrame, RunnerStaysPlace
<1>5. PICK o \in Places(f) : Places(f) = {o}
  BY DEF OnePlace
<1>6. CASE Queued(f) = {}
  <2>1. Queued(f)' = {}
    BY <1>3, <1>6
  <2>2. Places(f)' = Places(f)
    BY <1>4, <1>6, <2>1 DEF Places
  <2>3. QED
    BY <1>5, <2>2
<1>7. CASE Queued(f) # {}
  <2> DEFINE n == IF o[2] = q THEN <<"queue", q, o[3] - k>> ELSE o
  <2>1. Queued(f) = {o} /\ Free(f) = {} /\ Spawned(f) = {} /\ Held(f) = {} /\ Hot(f) = {}
    BY <1>5, <1>7, Alone DEF Places
  <2>2. Queued(f)' = {n}
    BY <1>3, <2>1
  <2>3. Places(f)' = {n}
    BY <1>4, <2>1, <2>2 DEF Places
  <2>4. QED
    BY <2>3
<1>8. QED
  BY <1>6, <1>7

LEMMA SwitchedPlace ==
  ASSUME TypeOK, OnePlace, RunnersOK, NEW r \in Runners, Switched(r)
  PROVE  OnePlace'
<1> DEFINE rec == [runner[r] EXCEPT !.pc = "loop", !.f = NoVal, !.current_fiber = NoVal]
           s == runner[r].hot_local
           old == <<"runner", r>>
<1>1. PICK f \in Fibers : f = runner[r].f
  BY DEF RunnersOK, HeldBy, Visiting, Switched, At, InHand
<1>2. runner[r] \in RunnerType
  BY DEF TypeOK
<1>3. UNCHANGED <<call, queue>>
  BY DEF Switched
<1>4. \A g \in Fibers : Spawned(g)' = Spawned(g) /\ Queued(g)' = Queued(g)
  BY <1>3, PlaceFrame
<1>5. old \in Held(f) /\ \A g : g # f => old \notin Held(g)
  BY <1>1 DEF Held
<1>6. Free(f) = {} /\ Spawned(f) = {} /\ Queued(f) = {} /\ Hot(f) = {}
  BY <1>5, Alone
<1>7. ASSUME NEW x, RunnerBecomes(r, x), x.f = NoVal
      PROVE  \A g \in Fibers : Held(g)' = Held(g) \ (IF g = f THEN {old} ELSE {})
  <2> SUFFICES ASSUME NEW g \in Fibers PROVE Held(g)' = Held(g) \ (IF g = f THEN {old} ELSE {})
    OBVIOUS
  <2>1. Held(g)' = (Held(g) \ {<<"runner", r>>}) \cup
           (IF x.f = g THEN {<<"runner", r>>} ELSE {})
    BY <1>7, HeldChange
  <2>2. QED
    BY <1>5, <1>7, <2>1, Markers
<1>8. CASE HasYielded(f)
  <2> DEFINE x == [rec EXCEPT !.hot_local = Append(@, f)]
             new == <<"hot", r, Len(s) + 1>>
  <2>1. runner' = [runner EXCEPT ![r] = x] /\ UNCHANGED pool
    BY <1>1, <1>8 DEF Switched
  <2>2. RunnerBecomes(r, x) /\ x.f = NoVal /\ x.hot_local = Append(s, f)
    BY <1>2, <2>1, Becomes DEF RunnerType
  <2> HIDE DEF x
  <2>3. \A g \in Fibers : Held(g)' = Held(g) \ (IF g = f THEN {old} ELSE {})
    BY <1>7, <2>2
  <2>4. \A g \in Fibers : Hot(g)' = Hot(g) \cup (IF f = g THEN {new} ELSE {})
    BY <2>2, HotAppend
  <2>5. \A g \in Fibers : Free(g)' = Free(g)
    BY <2>1, PlaceFrame
  <2> HIDE DEF new, old
  <2>6. old \in Places(f) /\ Places(f)' = (Places(f) \ {old}) \cup {new}
    BY <1>4, <1>5, <1>6, <2>3, <2>4, <2>5 DEF Places
  <2>7. \A g \in Fibers \ {f} : Places(g)' = Places(g)
    BY <1>4, <2>3, <2>4, <2>5 DEF Places
  <2>8. QED
    BY <2>6, <2>7, Moved
<1>9. CASE ~HasYielded(f)
  <2>1. Release(f) /\ runner' = [runner EXCEPT ![r] = rec]
    BY <1>1, <1>9 DEF Switched
  <2>2. RunnerBecomes(r, rec) /\ rec.f = NoVal /\ rec.hot_local = s
    BY <1>2, <2>1, Becomes DEF RunnerType
  <2> HIDE DEF rec
  <2>3. \A g \in Fibers : Held(g)' = Held(g) \ (IF g = f THEN {old} ELSE {})
    BY <1>7, <2>2
  <2>4. \A g \in Fibers : Hot(g)' = Hot(g)
    BY <2>2, HotFrame
  <2> HIDE DEF old
  <2>5. \A g \in Fibers : Spawned(g)' = Spawned(g) \ (IF g = f THEN {old} ELSE {})
    BY <1>4, <1>6
  <2>6. QED
    BY <1>4, <1>5, <2>1, <2>3, <2>4, <2>5, ReleasePlace
<1>10. QED
  BY <1>8, <1>9

LEMMA RunnerStepPlace ==
  ASSUME TypeOK, OnePlace, RunnersOK, QueueFresh, NEW r \in Runners, RunnerStep(r)
  PROVE  OnePlace'
<1>1. runner[r] \in RunnerType
  BY DEF TypeOK
<1>2. ASSUME NEW x, RunnerBecomes(r, x), x.f = runner[r].f, x.hot_local = runner[r].hot_local,
             UNCHANGED <<pool, queue, call>>
      PROVE  OnePlace'
  BY <1>2, PlaceFrame, RunnerStaysPlace, Stays DEF Places
<1>3. CASE PopLocal(r) \/ PopOverflow(r) \/ Steal(r)
  <2>1. ~InHand(r) /\ (Miss(r) \/ \E q \in Queues : Hit(r, q))
    BY <1>3, DequeueHitsOrMisses DEF InHand
  <2>2. CASE Miss(r)
    <3>1. PICK l \in {"closed?", "steal", "loop"}, q \in Queues :
            runner' = [runner EXCEPT ![r].pc = l, ![r].from = q, ![r].hot_used = 0]
      BY <2>2 DEF Miss
    <3> DEFINE x == [runner[r] EXCEPT !.pc = l, !.from = q, !.hot_used = 0]
    <3>2. runner' = [runner EXCEPT ![r] = x] /\ x.f = runner[r].f /\ x.hot_local = runner[r].hot_local
      BY <1>1, <3>1 DEF TypeOK, RunnerType
    <3>3. RunnerBecomes(r, x) /\ UNCHANGED <<pool, queue, call>>
      BY <2>2, <3>2, Becomes DEF Miss
    <3>4. QED
      BY <1>2, <3>2, <3>3
  <2>3. QED
    BY <2>1, <2>2, HitPlace
<1>4. CASE CheckClosed(r)
  <2> DEFINE x == [runner[r] EXCEPT !.pc = AfterLocal(r)]
  <2>1. runner' = [runner EXCEPT ![r] = x] /\ x.f = runner[r].f /\ x.hot_local = runner[r].hot_local
    BY <1>1, <1>4 DEF CheckClosed, TypeOK, RunnerType
  <2>2. RunnerBecomes(r, x) /\ UNCHANGED <<pool, queue, call>>
    BY <1>4, <2>1, Becomes DEF CheckClosed
  <2>3. QED
    BY <1>2, <2>1, <2>2
<1>5. QED
  BY <1>3, <1>4, PopHotPlace, GiveBackPlace, SwitchedPlace DEF RunnerStep

LEMMA FiberStepPlace ==
  ASSUME TypeOK, OnePlace, NEW r \in Runners, FiberStep(r)
  PROVE  OnePlace'
<1>1. runner[r] \in RunnerType
  BY DEF TypeOK
<1>2. PICK l : runner' = [runner EXCEPT ![r].pc = l]
  BY DEF FiberStep, Safepoint, TaskCompletes, FuncReturns
<1> DEFINE x == [runner[r] EXCEPT !.pc = l]
<1>3. runner' = [runner EXCEPT ![r] = x] /\ x.f = runner[r].f /\ x.hot_local = runner[r].hot_local
  BY <1>1, <1>2 DEF TypeOK, RunnerType
<1>4. RunnerBecomes(r, x) /\ UNCHANGED <<pool, queue, call>>
  BY <1>3, Becomes DEF FiberStep, Safepoint, TaskCompletes, FuncReturns
<1>5. QED
  BY <1>3, <1>4, PlaceFrame, RunnerStaysPlace, Stays DEF Places

LEMMA PlaceStep ==
  ASSUME SchedInv, [Next]_vars
  PROVE  OnePlace'
<1>1. CASE UNCHANGED <<pool, call, queue, runner>>
  BY <1>1, PlaceFrame, Stays DEF SchedInv, Places
<1>2. CASE Destroy \/ Stopped \/ UNCHANGED vars
  BY <1>1, <1>2 DEF Destroy, DestroyBegin, CloseNext, JoinAndDelete, Stopped, vars
<1>3. CASE \E t \in Spawners : SpawnBegin(t) \/ SpawnStep(t)
  BY <1>3, SpawnerIsThread, SpawnBeginPlace, SpawnStepPlace DEF SchedInv
<1>4. CASE \E r \in Runners : RunnerStep(r) \/ FiberStep(r)
  BY <1>4, RunnerStepPlace, FiberStepPlace DEF SchedInv
<1>5. QED
  BY <1>2, <1>3, <1>4 DEF Next

-----------------------------------------------------------------------------
(* What each place knows of its fibers. *)

\* Runner r has fiber f, in its hand or on its list.
Mine(r, f) ==
  \/ runner[r].f = f
  \/ \E i \in DOMAIN runner[r].hot_local : runner[r].hot_local[i] = f

\* Nobody else has it then.
LEMMA MineAlone ==
  ASSUME OnePlace, NEW r \in Runners, NEW f \in Fibers, Mine(r, f)
  PROVE  /\ f \notin pool
         /\ \A t \in Threads : call[t].pc \in {"check", "claim"} => call[t].f # f
         /\ \A q \in Queues : \A i \in Waiting(queue[q]) : queue[q][i].val # f
         /\ \A s \in Runners : s # r => ~Mine(s, f)
<1>1. \E p \in Held(f) \cup Hot(f) : p[2] = r
  <2>1. CASE runner[r].f = f
    <3>1. <<"runner", r>> \in Held(f)
      BY <2>1 DEF Held
    <3>2. QED
      BY <3>1
  <2>2. CASE \E i \in DOMAIN runner[r].hot_local : runner[r].hot_local[i] = f
    <3>1. PICK i \in DOMAIN runner[r].hot_local : runner[r].hot_local[i] = f
      BY <2>2
    <3>2. <<"hot", r, i>> \in Hot(f)
      BY <3>1 DEF Hot
    <3>3. QED
      BY <3>2
  <2>3. QED
    BY <2>1, <2>2 DEF Mine
<1>2. Free(f) = {} /\ Spawned(f) = {} /\ Queued(f) = {}
  BY <1>1, Alone
<1>3. f \notin pool
  BY <1>2 DEF Free
<1>4. \A t \in Threads : call[t].pc \in {"check", "claim"} => call[t].f # f
  BY <1>2 DEF Spawned
<1>5. ASSUME NEW q \in Queues, NEW i \in Waiting(queue[q]), queue[q][i].val = f
      PROVE  FALSE
  <2>1. <<"queue", q, i>> \in Queued(f)
    BY <1>5, QueuedPoints
  <2>2. QED
    BY <1>2, <2>1
<1>6. ASSUME NEW s \in Runners, s # r, Mine(s, f)
      PROVE  FALSE
  <2>1. \E p \in Held(f) \cup Hot(f) : p[2] = s
    <3>1. CASE runner[s].f = f
      <4>1. <<"runner", s>> \in Held(f)
        BY <3>1 DEF Held
      <4>2. QED
        BY <4>1
    <3>2. CASE \E i \in DOMAIN runner[s].hot_local : runner[s].hot_local[i] = f
      <4>1. PICK i \in DOMAIN runner[s].hot_local : runner[s].hot_local[i] = f
        BY <3>2
      <4>2. <<"hot", s, i>> \in Hot(f)
        BY <4>1 DEF Hot
      <4>3. QED
        BY <4>2
    <3>3. QED
      BY <1>6, <3>1, <3>2 DEF Mine
  <2>2. \A p, o \in Held(f) \cup Hot(f) : p = o
    BY Alone DEF Places
  <2>3. QED
    BY <1>1, <1>6, <2>1, <2>2
<1>7. QED
  BY <1>3, <1>4, <1>5, <1>6

\* The fiber in a runner's hand is not on its list, and on the list once.
LEMMA MineOnce ==
  ASSUME OnePlace, NEW r \in Runners, NEW f \in Fibers
  PROVE  /\ runner[r].f = f => \A i \in DOMAIN runner[r].hot_local : runner[r].hot_local[i] # f
         /\ \A i, j \in DOMAIN runner[r].hot_local :
              runner[r].hot_local[i] = f /\ runner[r].hot_local[j] = f => i = j
<1>1. ASSUME runner[r].f = f PROVE \A i \in DOMAIN runner[r].hot_local : runner[r].hot_local[i] # f
  <2>1. <<"runner", r>> \in Held(f)
    BY <1>1 DEF Held
  <2>2. Hot(f) = {}
    BY <2>1, Alone
  <2>3. ASSUME NEW i \in DOMAIN runner[r].hot_local, runner[r].hot_local[i] = f
        PROVE  FALSE
    <3>1. <<"hot", r, i>> \in Hot(f)
      BY <2>3 DEF Hot
    <3>2. QED
      BY <2>2, <3>1
  <2>4. QED
    BY <2>3
<1>2. ASSUME NEW i \in DOMAIN runner[r].hot_local, NEW j \in DOMAIN runner[r].hot_local,
             runner[r].hot_local[i] = f, runner[r].hot_local[j] = f
      PROVE  i = j
  <2>1. <<"hot", r, i>> \in Hot(f) /\ <<"hot", r, j>> \in Hot(f)
    BY <1>2 DEF Hot
  <2>2. <<"hot", r, i>> = <<"hot", r, j>>
    BY <2>1, Alone DEF Places
  <2>3. QED
    BY <2>2
<1>3. QED
  BY <1>1, <1>2

\* The queues hold no value they did not hold before.
OldValues ==
  \A q \in Queues : \A j \in Waiting(queue'[q]) :
    \E i \in Waiting(queue[q]) : queue'[q][j].val = queue[q][i].val

LEMMA QueueFreshKept ==
  ASSUME QueueFresh, OldValues,
         \A q \in Queues : \A i \in Waiting(queue[q]) :
           fiber'[queue[q][i].val] = fiber[queue[q][i].val]
  PROVE  QueueFresh'
<1> SUFFICES ASSUME NEW q \in Queues, NEW j \in Waiting(queue'[q])
             PROVE  queue'[q][j].val \in Fibers /\ fiber'[queue'[q][j].val] = ResetFiber
  BY DEF QueueFresh, Waiting
<1>1. PICK i \in Waiting(queue[q]) : queue'[q][j].val = queue[q][i].val
  BY DEF OldValues
<1>2. QED
  BY <1>1 DEF QueueFresh

\* A runner that touches only fibers of its own leaves the others' as they are.
LEMMA RunnerActs ==
  ASSUME SchedInv, NEW r \in Runners, NEW x, RunnerBecomes(r, x), UNCHANGED call, OldValues,
         \A g \in Fibers : fiber'[g] = fiber[g] \/ Mine(r, g),
         \A g \in pool' : g \in pool \/ fiber'[g] = ResetFiber,
         call[r].pc # "none" => x.pc = "fiber",
         HotAt(r)', HeldBy(r)'
  PROVE  PoolFresh' /\ CallFresh' /\ QueueFresh' /\ Callers' /\ RunnersOK'
<1>1. TypeOK /\ OnePlace /\ RunnersOK /\ PoolFresh /\ CallFresh /\ QueueFresh /\ Callers
  BY DEF SchedInv
<1>2. PoolFresh'
  <2>1. pool \subseteq Fibers
    BY <1>1 DEF TypeOK
  <2>2. \A g \in pool : fiber'[g] = fiber[g]
    BY <1>1, <2>1, MineAlone
  <2>3. QED
    BY <1>1, <2>2 DEF PoolFresh
<1>3. CallFresh'
  <2>1. ASSUME NEW t \in Threads, call[t].pc \in {"check", "claim"}
        PROVE  fiber'[call[t].f] = ResetFiber
    <3>1. call[t].f \in Fibers
      BY <1>1, <2>1, CallerHasFiber
    <3>2. ~Mine(r, call[t].f)
      BY <1>1, <2>1, <3>1, MineAlone
    <3>3. QED
      BY <1>1, <2>1, <3>1, <3>2 DEF CallFresh
  <2>2. QED
    BY <2>1 DEF CallFresh
<1>4. QueueFresh'
  <2>1. ASSUME NEW q \in Queues, NEW i \in Waiting(queue[q])
        PROVE  fiber'[queue[q][i].val] = fiber[queue[q][i].val]
    <3>1. queue[q][i].val \in Fibers
      BY <1>1 DEF QueueFresh
    <3>2. ~Mine(r, queue[q][i].val)
      BY <1>1, <3>1, MineAlone
    <3>3. QED
      BY <3>1, <3>2
  <2>2. QED
    BY <1>1, <2>1, QueueFreshKept
<1>5. Callers'
  <2> SUFFICES ASSUME NEW t \in Threads, call[t].pc # "none"
               PROVE  call[t].f \in Fibers /\ (t \in Runners => runner'[t].pc = "fiber")
    BY DEF Callers, At
  <2>1. call[t].f \in Fibers /\ (t \in Runners => runner[t].pc = "fiber")
    BY <1>1 DEF Callers, At
  <2>2. QED
    BY <2>1 DEF RunnerBecomes
<1>6. RunnersOK'
  <2> SUFFICES ASSUME NEW s \in Runners, s # r PROVE HotAt(s)' /\ HeldBy(s)'
    BY DEF RunnersOK
  <2>1. runner'[s] = runner[s] /\ runner[s] \in RunnerType
    BY <1>1 DEF RunnerBecomes, TypeOK
  <2>2. HotAt(s) /\ HeldBy(s)
    BY <1>1 DEF RunnersOK
  <2>3. \A g \in Fibers : Mine(s, g) => fiber'[g] = fiber[g]
    BY <1>1, MineAlone
  <2>4. \A i \in DOMAIN runner[s].hot_local : runner[s].hot_local[i] \in Fibers
    <3>1. runner[s].hot_local \in Seq(Fibers)
      BY <2>1 DEF RunnerType
    <3>2. QED
      BY <3>1, LenProperties, ElementOfSeq
  <2>5. \A i \in DOMAIN runner[s].hot_local :
          fiber'[runner[s].hot_local[i]] = fiber[runner[s].hot_local[i]]
    BY <2>3, <2>4 DEF Mine
  <2>6. HotAt(s)'
    BY <2>1, <2>2, <2>5 DEF HotAt, SuspendedAt
  <2>7. InHand(s) => fiber'[runner[s].f] = fiber[runner[s].f]
    BY <2>2, <2>3 DEF HeldBy, Mine
  <2>8. HeldBy(s)'
    BY <2>1, <2>2, <2>7 DEF HeldBy, InHand, Visiting, SuspendedAt, At
  <2>9. QED
    BY <2>6, <2>8
<1>7. QED
  BY <1>2, <1>3, <1>4, <1>5, <1>6

-----------------------------------------------------------------------------
(* spawn and try_spawn. *)

\* What a spawn does leaves every fiber as it is: those it sets up or releases
\* are reset already.
LEMMA SpawnActs ==
  ASSUME SchedInv, NEW t \in Threads, NEW x, CallBecomes(t, x), UNCHANGED runner,
         \A g \in Fibers : fiber'[g] = fiber[g],
         \A g \in pool' : g \in pool \/ fiber[g] = ResetFiber,
         pool' \subseteq Fibers,
         x.pc \in {"check", "claim"} => fiber[x.f] = ResetFiber,
         x.pc # "none" => x.f \in Fibers /\ (t \in Runners => At(t, "fiber")),
         \A q \in Queues : \A j \in Waiting(queue'[q]) :
           queue'[q][j].val \in Fibers /\ fiber[queue'[q][j].val] = ResetFiber
  PROVE  PoolFresh' /\ CallFresh' /\ QueueFresh' /\ Callers' /\ RunnersOK'
<1>1. TypeOK /\ PoolFresh /\ CallFresh /\ Callers /\ RunnersOK
  BY DEF SchedInv
<1>2. PoolFresh'
  BY <1>1 DEF PoolFresh
<1>3. Callers'
  BY <1>1 DEF Callers, CallBecomes, At
<1>4. CallFresh'
  <2>1. \A u \in Threads : call'[u].pc \in {"check", "claim"} =>
          call'[u].f \in Fibers /\ fiber[call'[u].f] = ResetFiber
    BY <1>1, CallerHasFiber DEF CallFresh, CallBecomes
  <2>2. QED
    BY <2>1 DEF CallFresh
<1>5. QueueFresh'
  <2>1. \A q \in Queues : \A j \in Waiting(queue'[q]) : fiber'[queue'[q][j].val] = ResetFiber
    OBVIOUS
  <2>2. QED
    BY <2>1 DEF QueueFresh, Waiting
<1>6. RunnersOK'
  <2> SUFFICES ASSUME NEW s \in Runners PROVE HotAt(s)' /\ HeldBy(s)'
    BY DEF RunnersOK
  <2>1. HotAt(s) /\ HeldBy(s) /\ runner[s] \in RunnerType
    BY <1>1 DEF RunnersOK, TypeOK
  <2>2. \A i \in DOMAIN runner[s].hot_local : runner[s].hot_local[i] \in Fibers
    <3>1. runner[s].hot_local \in Seq(Fibers)
      BY <2>1 DEF RunnerType
    <3>2. QED
      BY <3>1, LenProperties, ElementOfSeq
  <2>3. HotAt(s)'
    BY <2>1, <2>2 DEF HotAt, SuspendedAt
  <2>4. HeldBy(s)'
    BY <2>1 DEF HeldBy, InHand, Visiting, SuspendedAt, At
  <2>5. QED
    BY <2>3, <2>4
<1>7. QED
  BY <1>2, <1>3, <1>4, <1>5, <1>6

LEMMA SpawnBeginKnows ==
  ASSUME SchedInv, NEW t \in Threads, SpawnBegin(t)
  PROVE  PoolFresh' /\ CallFresh' /\ QueueFresh' /\ Callers' /\ RunnersOK'
<1>1. PICK f \in pool, home \in HashTargets, blocking \in BOOLEAN :
        /\ call' = [call EXCEPT ![t] = [pc |-> "check", f |-> f, home |-> home,
                                        at |-> home, blocking |-> blocking]]
        /\ pool' = pool \ {f}
        /\ fiber' = [fiber EXCEPT ![f].yeild = FALSE, ![f].context_initialized = FALSE]
  BY DEF SpawnBegin
<1> DEFINE x == [pc |-> "check", f |-> f, home |-> home, at |-> home, blocking |-> blocking]
<1>2. TypeOK /\ PoolFresh /\ QueueFresh
  BY DEF SchedInv
<1>3. f \in Fibers /\ CallBecomes(t, x) /\ x.f = f /\ x.pc = "check"
  BY <1>1, <1>2, Becomes DEF TypeOK
<1> HIDE DEF x
<1>4. UNCHANGED <<queue, runner>> /\ (t \in Runners => At(t, "fiber"))
  BY DEF SpawnBegin, MayCall, At
<1>5. fiber[f] = ResetFiber
  BY <1>1, <1>2 DEF PoolFresh
<1>6. \A g \in Fibers : fiber'[g] = fiber[g]
  <2>1. fiber' = [fiber EXCEPT ![f] = [fiber[f] EXCEPT !.yeild = FALSE, !.context_initialized = FALSE]]
    BY <1>1, <1>2, <1>3 DEF TypeOK
  <2>2. [fiber[f] EXCEPT !.yeild = FALSE, !.context_initialized = FALSE] = fiber[f]
    <3>1. fiber[f] \in FiberType /\ fiber[f].yeild = FALSE /\ fiber[f].context_initialized = FALSE
      <4>1. fiber[f] \in FiberType
        BY <1>2, <1>3 DEF TypeOK
      <4>2. fiber[f].yeild = FALSE
        BY <1>5 DEF ResetFiber
      <4>3. fiber[f].context_initialized = FALSE
        BY <1>5 DEF ResetFiber
      <4>4. QED
        BY <4>1, <4>2, <4>3
    <3>2. QED
      BY <3>1 DEF FiberType
  <2>3. QED
    BY <1>2, <1>3, <2>1, <2>2 DEF TypeOK
<1>7. pool' \subseteq pool /\ pool' \subseteq Fibers
  BY <1>1, <1>2 DEF TypeOK
<1>8. \A q \in Queues : \A j \in Waiting(queue'[q]) :
        queue'[q][j].val \in Fibers /\ fiber[queue'[q][j].val] = ResetFiber
  BY <1>2, <1>4 DEF QueueFresh
<1>9. QED
  BY <1>3, <1>4, <1>5, <1>6, <1>7, <1>8, SpawnActs

LEMMA RefusedKnows ==
  ASSUME SchedInv, NEW t \in Threads, call[t].pc \in {"check", "claim"},
         Refused(t), UNCHANGED <<queue, runner>>
  PROVE  PoolFresh' /\ CallFresh' /\ QueueFresh' /\ Callers' /\ RunnersOK'
<1>1. TypeOK /\ CallFresh /\ Callers /\ QueueFresh
  BY DEF SchedInv
<1>2. PICK f \in Fibers : f = call[t].f
  BY <1>1, CallerHasFiber
<1>3. call[t] \in CallType
  BY <1>1 DEF TypeOK
<1>4. fiber[f] = ResetFiber /\ (t \in Runners => At(t, "fiber"))
  BY <1>1, <1>2 DEF CallFresh, Callers
<1>5. \A q \in Queues : \A j \in Waiting(queue'[q]) :
        queue'[q][j].val \in Fibers /\ fiber[queue'[q][j].val] = ResetFiber
  BY <1>1 DEF QueueFresh
<1>6. CASE GiveUp(t)
  <2>1. CallBecomes(t, NoCall) /\ NoCall.pc = "none" /\ Release(f)
    BY <1>1, <1>2, <1>6, Becomes DEF GiveUp, NoCall
  <2>2. \A g \in Fibers : fiber'[g] = fiber[g]
    BY <1>1, <1>4, <2>1 DEF Release, TypeOK
  <2>3. pool' \subseteq Fibers /\ \A g \in pool' : g \in pool \/ fiber[g] = ResetFiber
    BY <1>1, <1>4, <2>1 DEF Release, TypeOK
  <2>4. QED
    BY <1>5, <2>1, <2>2, <2>3, SpawnActs
<1>7. CASE ~GiveUp(t)
  <2>1. PICK p \in Queues : call' = [call EXCEPT ![t].pc = "check", ![t].at = p]
    BY <1>3, <1>7, Markers DEF Refused, CallType
  <2> DEFINE x == [call[t] EXCEPT !.pc = "check", !.at = p]
  <2>2. UNCHANGED <<pool, fiber>> /\ pool' \subseteq Fibers
    BY <1>1, <1>7 DEF Refused, TypeOK
  <2>3. x.f = f /\ CallBecomes(t, x)
    <3>1. call' = [call EXCEPT ![t] = x]
      BY <1>1, <2>1 DEF TypeOK
    <3>2. QED
      BY <1>1, <1>2, <1>3, <3>1, Becomes DEF CallType
  <2> HIDE DEF x
  <2>4. QED
    BY <1>4, <1>5, <2>2, <2>3, SpawnActs
<1>8. QED
  BY <1>6, <1>7

LEMMA EnqueueKnows ==
  ASSUME SchedInv, NEW t \in Threads, SpawnStep(t)
  PROVE  PoolFresh' /\ CallFresh' /\ QueueFresh' /\ Callers' /\ RunnersOK'
<1>1. TypeOK /\ CallFresh /\ Callers /\ QueueFresh
  BY DEF SchedInv
<1>2. PICK f \in Fibers : f = call[t].f
  BY <1>1, CallerHasFiber DEF SpawnStep, EnqueueCheck, EnqueueClaim, EnqueuePublish
<1>3. PICK q \in Queues : q = call[t].at
  BY <1>1 DEF TypeOK, CallType
<1>4. call[t] \in CallType /\ t \in Owners /\ f \in Vals
  BY <1>1 DEF TypeOK, Owners, Vals
<1>5. t \in Runners => At(t, "fiber")
  BY <1>1 DEF Callers, SpawnStep, EnqueueCheck, EnqueueClaim, EnqueuePublish
<1>6. pool \subseteq Fibers
  BY <1>1 DEF TypeOK
<1>7. ASSUME NEW l \in {"claim", "publish"}, call' = [call EXCEPT ![t].pc = l]
      PROVE  LET x == [call[t] EXCEPT !.pc = l] IN x.f = f /\ x.pc = l /\ CallBecomes(t, x)
  <2>1. call' = [call EXCEPT ![t] = [call[t] EXCEPT !.pc = l]]
    BY <1>1, <1>7 DEF TypeOK
  <2>2. QED
    BY <1>1, <1>2, <1>4, <2>1, Becomes DEF CallType
<1>8. CASE EnqueueCheck(t)
  <2>1. CASE closed[call[t].at]
    BY <1>8, <2>1, RefusedKnows DEF EnqueueCheck
  <2>2. CASE ~closed[call[t].at]
    <3> DEFINE x == [call[t] EXCEPT !.pc = "claim"]
    <3>1. call[t].pc = "check" /\ call' = [call EXCEPT ![t].pc = "claim"]
          /\ UNCHANGED <<pool, fiber, queue, runner>>
      BY <1>8, <2>2 DEF EnqueueCheck
    <3>2. x.f = f /\ CallBecomes(t, x)
      BY <1>7, <3>1
    <3> HIDE DEF x
    <3>3. fiber[f] = ResetFiber
      BY <1>1, <1>2, <3>1 DEF CallFresh
    <3>4. \A u \in Queues : \A j \in Waiting(queue'[u]) :
            queue'[u][j].val \in Fibers /\ fiber[queue'[u][j].val] = ResetFiber
      BY <1>1, <3>1 DEF QueueFresh
    <3>5. QED
      BY <1>5, <1>6, <3>1, <3>2, <3>3, <3>4, SpawnActs
  <2>3. QED
    BY <2>1, <2>2
<1>9. CASE EnqueueClaim(t)
  <2>1. CASE Full(queue[call[t].at], Capacity(call[t].at))
    BY <1>9, <2>1, RefusedKnows DEF EnqueueClaim
  <2>2. CASE ~Full(queue[call[t].at], Capacity(call[t].at))
    <3> DEFINE x == [call[t] EXCEPT !.pc = "publish"]
               w == Claim(queue[q], f, t)
    <3>1. /\ call[t].pc = "claim" /\ call' = [call EXCEPT ![t].pc = "publish"]
          /\ queue' = [queue EXCEPT ![q] = w]
          /\ UNCHANGED <<pool, fiber, runner>>
      BY <1>2, <1>3, <1>9, <2>2 DEF EnqueueClaim
    <3>2. x.f = f /\ x.pc = "publish" /\ CallBecomes(t, x)
      BY <1>7, <3>1
    <3>3. fiber[f] = ResetFiber
      BY <1>1, <1>2, <3>1 DEF CallFresh
    <3>4. QueueBecomes(q, w)
      BY <1>1, <3>1, Becomes
    <3>5. /\ Waiting(w) = Waiting(queue[q]) \cup {Len(queue[q]) + 1}
          /\ \A i \in Waiting(queue[q]) : w[i] = queue[q][i]
          /\ w[Len(queue[q]) + 1].val = f
      BY <1>1, <1>4, QueueWindows, ClaimWaits
    <3> HIDE DEF x, w
    <3>6. \A j \in Waiting(w) : w[j].val \in Fibers /\ fiber[w[j].val] = ResetFiber
      BY <1>1, <3>3, <3>5 DEF QueueFresh
    <3>7. \A u \in Queues : \A j \in Waiting(queue'[u]) :
            queue'[u][j].val \in Fibers /\ fiber[queue'[u][j].val] = ResetFiber
      BY <1>1, <3>4, <3>6 DEF QueueFresh, QueueBecomes
    <3>8. QED
      BY <1>5, <1>6, <3>1, <3>2, <3>3, <3>7, SpawnActs
  <2>3. QED
    BY <2>1, <2>2
<1>10. CASE EnqueuePublish(t)
  <2> DEFINE w == Publish(queue[q], t)
  <2>1. /\ queue' = [queue EXCEPT ![q] = w]
        /\ UNCHANGED <<pool, fiber, runner>>
    BY <1>3, <1>10 DEF EnqueuePublish
  <2>2. NoCall.pc = "none" /\ CallBecomes(t, NoCall)
    BY <1>1, <1>10, Becomes DEF EnqueuePublish, NoCall
  <2>3. QueueBecomes(q, w)
    BY <1>1, <2>1, Becomes
  <2>4. Waiting(w) = Waiting(queue[q]) /\ \A i \in Waiting(queue[q]) : w[i].val = queue[q][i].val
    BY <1>1, <1>4, QueueWindows, PublishWaits DEF Owners
  <2> HIDE DEF w
  <2>5. \A j \in Waiting(w) : w[j].val \in Fibers /\ fiber[w[j].val] = ResetFiber
    BY <1>1, <2>4 DEF QueueFresh
  <2>6. \A u \in Queues : \A j \in Waiting(queue'[u]) :
          queue'[u][j].val \in Fibers /\ fiber[queue'[u][j].val] = ResetFiber
    BY <1>1, <2>3, <2>5 DEF QueueFresh, QueueBecomes
  <2>7. QED
    BY <1>6, <2>1, <2>2, <2>6, SpawnActs
<1>11. QED
  BY <1>8, <1>9, <1>10 DEF SpawnStep

-----------------------------------------------------------------------------
(* The runners. *)

LEMMA OldValuesFrame == ASSUME UNCHANGED queue PROVE OldValues
  BY DEF OldValues

LEMMA OldValuesTake ==
  ASSUME TypeOK, NEW q \in Queues, NEW r \in Owners, HasReady(queue[q]),
         QueueBecomes(q, Take(queue[q], r))
  PROVE  OldValues
<1> DEFINE w == Take(queue[q], r)
<1>1. /\ Waiting(w) = Waiting(queue[q]) \ {FrontSlot(queue[q])}
      /\ \A i \in Waiting(queue[q]) : w[i].val = queue[q][i].val
  BY QueueWindows, TakeWaits
<1>2. QueueBecomes(q, w)
  OBVIOUS
<1> HIDE DEF w
<1>3. SUFFICES ASSUME NEW u \in Queues, NEW j \in Waiting(queue'[u])
               PROVE  \E i \in Waiting(queue[u]) : queue'[u][j].val = queue[u][i].val
  BY DEF OldValues
<1>4. CASE u = q
  BY <1>1, <1>2, <1>4 DEF QueueBecomes
<1>5. CASE u # q
  BY <1>2, <1>5 DEF QueueBecomes
<1>6. QED
  BY <1>4, <1>5

LEMMA OldValuesGiveBack ==
  ASSUME TypeOK, NEW q \in Queues, NEW r, QueueBecomes(q, GiveBack(queue[q], r))
  PROVE  OldValues
<1> DEFINE w == GiveBack(queue[q], r)
<1>1. PICK k \in Nat : /\ Waiting(w) = {i - k : i \in Waiting(queue[q])}
                       /\ \A i \in Waiting(queue[q]) : w[i - k].val = queue[q][i].val
  BY QueueWindows, GiveBackWaits DEF Vals, Owners
<1>2. QueueBecomes(q, w)
  OBVIOUS
<1> HIDE DEF w
<1>3. SUFFICES ASSUME NEW u \in Queues, NEW j \in Waiting(queue'[u])
               PROVE  \E i \in Waiting(queue[u]) : queue'[u][j].val = queue[u][i].val
  BY DEF OldValues
<1>4. CASE u = q
  <2>1. PICK i \in Waiting(queue[q]) : j = i - k
    BY <1>1, <1>2, <1>4 DEF QueueBecomes
  <2>2. QED
    BY <1>1, <1>2, <1>4, <2>1 DEF QueueBecomes
<1>5. CASE u # q
  BY <1>2, <1>5 DEF QueueBecomes
<1>6. QED
  BY <1>4, <1>5

\* The fibers on a runner's list do not notice what it does to the one in hand.
LEMMA HotKept ==
  ASSUME SchedInv, NEW r \in Runners, runner'[r].hot_local = runner[r].hot_local,
         \A g \in Fibers : fiber'[g] = fiber[g] \/ g = runner[r].f
  PROVE  HotAt(r)'
<1>1. TypeOK /\ OnePlace /\ HotAt(r)
  BY DEF SchedInv, RunnersOK
<1>2. runner[r].hot_local \in Seq(Fibers)
  BY <1>1 DEF TypeOK, RunnerType
<1>3. \A i \in DOMAIN runner[r].hot_local : runner[r].hot_local[i] \in Fibers
  BY <1>2, LenProperties, ElementOfSeq
<1>4. \A i \in DOMAIN runner[r].hot_local :
        fiber'[runner[r].hot_local[i]] = fiber[runner[r].hot_local[i]]
  BY <1>1, <1>3, MineOnce
<1>5. QED
  BY <1>1, <1>4 DEF HotAt, SuspendedAt

\* A runner that polls on, without a fiber.
LEMMA RunnerPolls ==
  ASSUME SchedInv, NEW r \in Runners, NEW l \in {"closed?", "steal", "loop", "overflow", "exited"}, NEW x,
         RunnerBecomes(r, x), x.pc = l, x.f = runner[r].f,
         x.hot_local = runner[r].hot_local, ~InHand(r),
         UNCHANGED <<pool, fiber, queue, call>>
  PROVE  PoolFresh' /\ CallFresh' /\ QueueFresh' /\ Callers' /\ RunnersOK'
<1>1. runner'[r] = x
  BY DEF RunnerBecomes
<1>2. HotAt(r)'
  BY <1>1, HotKept
<1>3. HeldBy(r)'
  <2>1. runner[r].f \notin Fibers
    BY DEF SchedInv, RunnersOK, HeldBy
  <2>2. QED
    BY <1>1, <2>1 DEF HeldBy, InHand
<1>4. call[r].pc = "none"
  BY Markers DEF SchedInv, Callers, InHand, At
<1>5. OldValues
  BY OldValuesFrame
<1>6. QED
  BY <1>2, <1>3, <1>4, <1>5, RunnerActs

LEMMA HitKnows ==
  ASSUME SchedInv, NEW r \in Runners, NEW q \in Queues, ~InHand(r), Hit(r, q)
  PROVE  PoolFresh' /\ CallFresh' /\ QueueFresh' /\ Callers' /\ RunnersOK'
<1> DEFINE k == FrontSlot(queue[q])
           x == [runner[r] EXCEPT !.pc = "giveback", !.from = q, !.f = queue[q][k].val, !.hot_used = 0]
<1>1. TypeOK /\ QueueFresh /\ Callers
  BY DEF SchedInv
<1>2. k \in Waiting(queue[q]) /\ HasReady(queue[q]) /\ r \in Owners
  <2>1. HasReady(queue[q]) /\ r \in Owners
    BY Markers DEF Hit, Owners
  <2>2. QED
    BY <1>1, <2>1, QueueWindows, TakeWaits
<1>3. PICK f \in Fibers : f = queue[q][k].val /\ fiber[f] = ResetFiber
  BY <1>1, <1>2 DEF QueueFresh
<1>4. /\ RunnerBecomes(r, x) /\ x.pc = "giveback" /\ x.f = f /\ x.hot_local = runner[r].hot_local
      /\ QueueBecomes(q, Take(queue[q], r)) /\ UNCHANGED <<pool, fiber, call>>
  <2>1. runner[r] \in RunnerType
    BY <1>1 DEF TypeOK
  <2>2. /\ runner' = [runner EXCEPT ![r] = x] /\ queue' = [queue EXCEPT ![q] = Take(queue[q], r)]
        /\ UNCHANGED <<pool, fiber, call>>
    BY <1>1 DEF Hit, TypeOK
  <2>3. x.pc = "giveback" /\ x.f = f /\ x.hot_local = runner[r].hot_local
    BY <1>3, <2>1 DEF RunnerType
  <2>4. QED
    BY <1>1, <2>2, <2>3, Becomes
<1> HIDE DEF x
<1>5. runner'[r] = x
  BY <1>4 DEF RunnerBecomes
<1>6. HotAt(r)'
  BY <1>4, <1>5, HotKept
<1>7. HeldBy(r)'
  BY <1>3, <1>4, <1>5 DEF HeldBy, InHand, Visiting, At
<1>8. OldValues
  BY <1>1, <1>2, <1>4, OldValuesTake
<1>9. call[r].pc = "none"
  BY <1>1, Markers DEF Callers, InHand, At
<1>10. QED
  BY <1>4, <1>6, <1>7, <1>8, <1>9, RunnerActs

\* A step that changes fiber f and no other.
FiberBecomes(f, y) == \A g \in Fibers : fiber'[g] = IF g = f THEN y ELSE fiber[g]

\* A runner that goes on with the fiber in its hand.
LEMMA RunnerKeeps ==
  ASSUME SchedInv, NEW r \in Runners, NEW f \in Fibers, f = runner[r].f,
         NEW x, RunnerBecomes(r, x), x.hot_local = runner[r].hot_local,
         NEW y, FiberBecomes(f, y), UNCHANGED <<pool, call>>, OldValues,
         call[r].pc # "none" => x.pc = "fiber", HeldBy(r)'
  PROVE  PoolFresh' /\ CallFresh' /\ QueueFresh' /\ Callers' /\ RunnersOK'
<1>1. \A g \in Fibers : fiber'[g] = fiber[g] \/ g = f
  BY DEF FiberBecomes
<1>2. HotAt(r)'
  <2>1. runner'[r].hot_local = runner[r].hot_local
    BY DEF RunnerBecomes
  <2>2. QED
    BY <1>1, <2>1, HotKept
<1>3. \A g \in Fibers : fiber'[g] = fiber[g] \/ Mine(r, g)
  BY <1>1 DEF Mine
<1>4. QED
  BY <1>2, <1>3, RunnerActs

\* The record of fiber f once the runner has switched to it.
Entered(f, r) ==
  [fiber[f] EXCEPT !.context_initialized = TRUE, !.f_ctx = "empty", !.runner_ctx = r,
                   !.runner_id = IF fiber[f].context_initialized THEN fiber[f].runner_id ELSE r]

\* Runner r may switch to f when f has not been started or waits for r.
LEMMA DispatchEnters ==
  ASSUME TypeOK, NEW r \in Runners, NEW f \in Fibers, NEW rec \in RunnerType, Dispatch(r, rec, f),
         fiber[f] = ResetFiber \/ (SuspendedAt(fiber[f], r) /\ ~fiber[f].yeild)
  PROVE  /\ RunnerBecomes(r, SwitchTo(rec, f)) /\ FiberBecomes(f, Entered(f, r))
         /\ SwitchTo(rec, f).f = f /\ SwitchTo(rec, f).pc = "fiber"
         /\ SwitchTo(rec, f).hot_local = rec.hot_local
         /\ HeldBy(r)'
<1> DEFINE x == SwitchTo(rec, f)
           y == Entered(f, r)
<1>1. fiber[f] \in FiberType
  BY DEF TypeOK
<1>2. fiber' = [fiber EXCEPT ![f] = y]
  BY DEF Dispatch, TypeOK, Entered
<1>3. runner' = [runner EXCEPT ![r] = x]
  BY DEF Dispatch
<1>4. RunnerBecomes(r, x) /\ FiberBecomes(f, y)
  BY <1>2, <1>3, Becomes DEF FiberBecomes, TypeOK
<1>5. x.f = f /\ x.pc = "fiber" /\ x.current_fiber = f /\ x.hot_local = rec.hot_local
  BY DEF SwitchTo, RunnerType
<1>6. ~fiber[f].yeild /\ (fiber[f].context_initialized => fiber[f].runner_id = r)
  BY DEF ResetFiber, SuspendedAt
<1>7. y.context_initialized /\ ~y.yeild /\ y.f_ctx = "empty" /\ y.runner_ctx = r /\ y.runner_id = r
  BY <1>1, <1>6 DEF Entered, FiberType
<1> HIDE DEF x, y
<1>8. runner'[r] = x /\ fiber'[f] = y
  BY <1>4 DEF RunnerBecomes, FiberBecomes
<1>9. HeldBy(r)'
  BY <1>5, <1>7, <1>8 DEF HeldBy, InHand, Visiting, At
<1>10. QED
  BY <1>4, <1>5, <1>9 DEF x, y

LEMMA GiveBackKnows ==
  ASSUME SchedInv, NEW r \in Runners, GiveBackCell(r)
  PROVE  PoolFresh' /\ CallFresh' /\ QueueFresh' /\ Callers' /\ RunnersOK'
<1> DEFINE rec == [runner[r] EXCEPT !.from = r]
<1>1. TypeOK /\ HeldBy(r)
  BY DEF SchedInv, RunnersOK
<1>2. PICK f \in Fibers : f = runner[r].f /\ fiber[f] = ResetFiber
  BY <1>1 DEF GiveBackCell, HeldBy, InHand, Visiting, At
<1>3. PICK q \in Queues : q = runner[r].from
  BY <1>1 DEF TypeOK, RunnerType
<1>4. rec \in RunnerType /\ rec.hot_local = runner[r].hot_local
  BY <1>1, Markers DEF TypeOK, RunnerType
<1>5. /\ Dispatch(r, rec, f) /\ UNCHANGED <<pool, call>>
      /\ queue' = [queue EXCEPT ![q] = GiveBack(queue[q], r)]
  BY <1>2, <1>3 DEF GiveBackCell
<1> HIDE DEF rec
<1>6. OldValues
  BY <1>1, <1>5, Becomes, OldValuesGiveBack
<1>7. QED
  BY <1>1, <1>2, <1>4, <1>5, <1>6, DispatchEnters, RunnerKeeps

LEMMA PopHotKnows ==
  ASSUME SchedInv, NEW r \in Runners, PopHot(r)
  PROVE  PoolFresh' /\ CallFresh' /\ QueueFresh' /\ Callers' /\ RunnersOK'
<1> DEFINE s == runner[r].hot_local
           n == Len(s)
           rec == HotPopped(r)
<1>1. TypeOK /\ OnePlace /\ HotAt(r) /\ Callers
  BY DEF SchedInv, RunnersOK
<1>2. s # <<>> /\ runner[r].hot_used < HotBudget /\ At(r, "loop") /\ Dispatch(r, rec, Last(s))
      /\ UNCHANGED <<pool, queue, call>>
  BY DEF PopHot, HotIsDue
<1>3. runner[r] \in RunnerType /\ s \in Seq(Fibers)
  BY <1>1 DEF TypeOK, RunnerType
<1>4. /\ n \in Nat \ {0} /\ DOMAIN s = 1 .. n
      /\ Front(s) \in Seq(Fibers) /\ DOMAIN Front(s) = 1 .. n - 1
      /\ \A i \in 1 .. n - 1 : Front(s)[i] = s[i]
  BY <1>2, <1>3, FrontLast
<1>5. PICK f \in Fibers : f = Last(s) /\ f = s[n]
  BY <1>2, <1>3, FrontLast
<1>6. rec \in RunnerType /\ rec.hot_local = Front(s)
  <2>1. runner[r].hot_used + 1 \in 0 .. HotBudget
    BY <1>2, <1>3, SchedAssumption DEF RunnerType
  <2>2. QED
    BY <1>3, <1>4, <2>1 DEF HotPopped, RunnerType
<1> HIDE DEF rec
<1>7. SuspendedAt(fiber[f], r) /\ ~fiber[f].yeild
  BY <1>1, <1>4, <1>5 DEF HotAt
<1> DEFINE x == SwitchTo(rec, f)
           y == Entered(f, r)
<1>8. /\ RunnerBecomes(r, x) /\ FiberBecomes(f, y) /\ x.pc = "fiber"
      /\ x.hot_local = Front(s) /\ HeldBy(r)'
  BY <1>1, <1>2, <1>5, <1>6, <1>7, DispatchEnters
<1> HIDE DEF x, y
<1>9. runner'[r].hot_local = Front(s)
  BY <1>8 DEF RunnerBecomes
<1>10. HotAt(r)'
  <2>1. ASSUME NEW i \in 1 .. n - 1 PROVE s[i] \in Fibers /\ s[i] # f
    BY <1>1, <1>3, <1>4, <1>5, MineOnce, ElementOfSeq
  <2>2. \A i \in 1 .. n - 1 : i \in DOMAIN s /\ Front(s)[i] = s[i] /\ fiber'[s[i]] = fiber[s[i]]
    BY <1>4, <1>8, <2>1 DEF FiberBecomes
  <2>3. QED
    BY <1>1, <1>4, <1>9, <2>2 DEF HotAt, SuspendedAt
<1>11. Mine(r, f) /\ OldValues
  BY <1>2, <1>4, <1>5, OldValuesFrame DEF Mine
<1>12. \A g \in Fibers : fiber'[g] = fiber[g] \/ Mine(r, g)
  BY <1>8, <1>11 DEF FiberBecomes
<1>13. QED
  BY <1>2, <1>8, <1>10, <1>11, <1>12, RunnerActs

\* release, or the keeping of a fiber that yielded.
LEMMA SwitchedKnows ==
  ASSUME SchedInv, NEW r \in Runners, Switched(r)
  PROVE  PoolFresh' /\ CallFresh' /\ QueueFresh' /\ Callers' /\ RunnersOK'
<1> DEFINE rec == [runner[r] EXCEPT !.pc = "loop", !.f = NoVal, !.current_fiber = NoVal]
           s == runner[r].hot_local
<1>1. TypeOK /\ OnePlace /\ HotAt(r) /\ HeldBy(r) /\ Callers
  BY DEF SchedInv, RunnersOK
<1>2. PICK f \in Fibers : f = runner[r].f
  BY <1>1 DEF HeldBy, Switched, At, InHand
<1>3. runner[r] \in RunnerType /\ s \in Seq(Fibers) /\ fiber[f] \in FiberType
  BY <1>1 DEF TypeOK, RunnerType
<1>4. UNCHANGED <<call, queue>> /\ At(r, "switched")
  BY DEF Switched
<1>5. OldValues /\ Mine(r, f) /\ call[r].pc = "none"
  BY <1>1, <1>2, <1>4, OldValuesFrame, Markers DEF Mine, Callers, At
<1>6. Len(s) \in Nat /\ DOMAIN s = 1 .. Len(s)
      /\ \A i \in DOMAIN s : s[i] \in Fibers /\ s[i] # f
  BY <1>1, <1>2, <1>3, MineOnce, LenProperties, ElementOfSeq
<1>7. ASSUME NEW x, RunnerBecomes(r, x), x.f = NoVal, x.pc = "loop"
      PROVE  HeldBy(r)'
  <2>1. runner'[r] = x
    BY <1>7 DEF RunnerBecomes
  <2>2. QED
    BY <1>7, <2>1, Markers DEF HeldBy, InHand
<1>8. CASE HasYielded(f)
  <2> DEFINE x == [rec EXCEPT !.hot_local = Append(@, f)]
             y == [fiber[f] EXCEPT !.yeild = FALSE]
  <2>1. runner' = [runner EXCEPT ![r] = x] /\ UNCHANGED pool /\ fiber' = [fiber EXCEPT ![f] = y]
    BY <1>1, <1>2, <1>8 DEF Switched, ClearYeild, TypeOK
  <2>2. RunnerBecomes(r, x) /\ x.f = NoVal /\ x.pc = "loop" /\ x.hot_local = Append(s, f)
    BY <1>1, <1>3, <2>1, Becomes DEF RunnerType
  <2>3. FiberBecomes(f, y)
    BY <1>1, <2>1 DEF FiberBecomes, TypeOK
  <2>4. SuspendedAt(fiber[f], r)
    BY <1>1, <1>2, <1>4, <1>8 DEF HeldBy, InHand, Visiting, At, HasYielded
  <2>5. SuspendedAt(y, r) /\ ~y.yeild
    BY <1>3, <2>4 DEF SuspendedAt, FiberType
  <2> HIDE DEF x, y
  <2>6. runner'[r].hot_local = Append(s, f)
    BY <2>2 DEF RunnerBecomes
  <2>7. HotAt(r)'
    <3>1. DOMAIN Append(s, f) = 1 .. Len(s) + 1 /\ Append(s, f)[Len(s) + 1] = f
      BY <1>3, <1>6, AppendProperties, LenProperties
    <3>2. \A i \in DOMAIN s : Append(s, f)[i] = s[i]
      BY <1>3, <1>6, AppendProperties
    <3>3. ASSUME NEW i \in 1 .. Len(s) + 1
          PROVE  SuspendedAt(fiber'[Append(s, f)[i]], r) /\ ~fiber'[Append(s, f)[i]].yeild
      <4>1. CASE i = Len(s) + 1
        BY <2>3, <2>5, <3>1, <4>1 DEF FiberBecomes
      <4>2. CASE i # Len(s) + 1
        <5>1. i \in DOMAIN s
          BY <1>6, <4>2
        <5>2. fiber'[Append(s, f)[i]] = fiber[s[i]]
          BY <1>6, <2>3, <3>2, <5>1 DEF FiberBecomes
        <5>3. QED
          BY <1>1, <5>1, <5>2 DEF HotAt
      <4>3. QED
        BY <4>1, <4>2
    <3>4. QED
      BY <2>6, <3>1, <3>3 DEF HotAt, SuspendedAt
  <2>8. \A g \in Fibers : fiber'[g] = fiber[g] \/ Mine(r, g)
    BY <1>5, <2>3 DEF FiberBecomes
  <2>9. QED
    BY <1>4, <1>5, <1>7, <2>1, <2>2, <2>7, <2>8, RunnerActs
<1>9. CASE ~HasYielded(f)
  <2>1. Release(f) /\ runner' = [runner EXCEPT ![r] = rec]
    BY <1>2, <1>9 DEF Switched
  <2>2. RunnerBecomes(r, rec) /\ rec.f = NoVal /\ rec.pc = "loop" /\ rec.hot_local = s
    BY <1>1, <1>3, <2>1, Becomes DEF RunnerType
  <2> HIDE DEF rec
  <2>3. FiberBecomes(f, ResetFiber)
    BY <1>1, <2>1 DEF Release, FiberBecomes, TypeOK
  <2>4. \A g \in Fibers : fiber'[g] = fiber[g] \/ g = f
    BY <2>3 DEF FiberBecomes
  <2>5. HotAt(r)'
    <3>1. runner'[r].hot_local = s
      BY <2>2 DEF RunnerBecomes
    <3>2. QED
      BY <1>2, <2>4, <3>1, HotKept
  <2>6. \A g \in pool' : g \in pool \/ fiber'[g] = ResetFiber
    BY <2>1, <2>3 DEF Release, FiberBecomes
  <2>7. \A g \in Fibers : fiber'[g] = fiber[g] \/ Mine(r, g)
    BY <1>5, <2>4
  <2>8. QED
    BY <1>4, <1>5, <1>7, <2>2, <2>5, <2>6, <2>7, RunnerActs
<1>10. QED
  BY <1>8, <1>9

\* A fiber's code that looks itself up finds itself.
LEMMA FindsSelf ==
  ASSUME SchedInv, NEW r \in Runners, At(r, "fiber")
  PROVE  /\ runner[r].f \in Fibers
         /\ get_current_fiber(fiber[runner[r].f].runner_id) = runner[r].f
         /\ fiber[runner[r].f].runner_ctx = r
  BY DEF SchedInv, RunnersOK, HeldBy, InHand, Visiting, At, get_current_fiber

LEMMA FiberStepKnows ==
  ASSUME SchedInv, NEW r \in Runners, FiberStep(r)
  PROVE  PoolFresh' /\ CallFresh' /\ QueueFresh' /\ Callers' /\ RunnersOK'
<1>1. TypeOK /\ HeldBy(r) /\ Callers
  BY DEF SchedInv, RunnersOK
<1>2. PICK f \in Fibers : f = runner[r].f
  BY <1>1 DEF HeldBy, FiberStep, Safepoint, TaskCompletes, FuncReturns, InFiber, At, InHand
<1>3. runner[r] \in RunnerType /\ fiber[f] \in FiberType
  BY <1>1 DEF TypeOK
<1>4. UNCHANGED <<pool, queue, call>>
  BY DEF FiberStep, Safepoint, TaskCompletes, FuncReturns
<1>5. call[r].pc = "none" /\ OldValues
  BY <1>1, <1>4, OldValuesFrame, Markers
    DEF Callers, FiberStep, Safepoint, TaskCompletes, FuncReturns, InFiber, At
<1>6. ASSUME NEW l \in {"completed", "switched"}, runner' = [runner EXCEPT ![r].pc = l]
      PROVE  LET x == [runner[r] EXCEPT !.pc = l] IN
               /\ RunnerBecomes(r, x) /\ x.pc = l /\ x.f = f /\ x.hot_local = runner[r].hot_local
               /\ x.current_fiber = runner[r].current_fiber
               /\ runner'[r] = x
  <2> DEFINE x == [runner[r] EXCEPT !.pc = l]
  <2>1. runner' = [runner EXCEPT ![r] = x]
    BY <1>1, <1>6 DEF TypeOK
  <2>2. x.pc = l /\ x.f = f /\ x.hot_local = runner[r].hot_local
        /\ x.current_fiber = runner[r].current_fiber
    BY <1>2, <1>3 DEF RunnerType
  <2>3. RunnerBecomes(r, x)
    BY <1>1, <2>1, Becomes
  <2>4. runner'[r] = x
    BY <2>3 DEF RunnerBecomes
  <2> HIDE DEF x
  <2>5. QED
    BY <2>2, <2>3, <2>4 DEF x
<1>7. CASE Safepoint(r)
  <2> DEFINE x == [runner[r] EXCEPT !.pc = "switched"]
             y == [fiber[f] EXCEPT !.yeild = TRUE, !.runner_ctx = NoRunner, !.f_ctx = "suspended"]
  <2>1. At(r, "fiber") /\ runner' = [runner EXCEPT ![r].pc = "switched"]
    BY <1>7 DEF Safepoint, InFiber
  <2>2. get_current_fiber(fiber[f].runner_id) = f
    BY <1>2, <2>1, FindsSelf
  <2>3. fiber' = [fiber EXCEPT ![f] = y]
    BY <1>1, <1>2, <1>7, <2>2 DEF Safepoint, TypeOK
  <2>4. FiberBecomes(f, y)
    BY <1>1, <2>3 DEF FiberBecomes, TypeOK
  <2>5. fiber[f].context_initialized /\ fiber[f].runner_id = r
    BY <1>1, <1>2, <2>1 DEF HeldBy, InHand, Visiting, At
  <2>6. y.yeild /\ SuspendedAt(y, r)
    BY <1>3, <2>5 DEF SuspendedAt, FiberType
  <2>7. /\ RunnerBecomes(r, x) /\ x.pc = "switched" /\ x.f = f /\ x.hot_local = runner[r].hot_local
        /\ runner'[r] = x
    BY <1>6, <2>1
  <2> HIDE DEF x, y
  <2>8. HeldBy(r)'
    BY <2>4, <2>6, <2>7 DEF HeldBy, InHand, Visiting, SuspendedAt, At, FiberBecomes
  <2>9. QED
    BY <1>2, <1>4, <1>5, <2>4, <2>7, <2>8, RunnerKeeps
<1>8. CASE TaskCompletes(r)
  <2> DEFINE x == [runner[r] EXCEPT !.pc = "completed"]
  <2>1. At(r, "fiber") /\ runner' = [runner EXCEPT ![r].pc = "completed"] /\ UNCHANGED fiber
    BY <1>8 DEF TaskCompletes, InFiber
  <2>2. FiberBecomes(f, fiber[f])
    BY <2>1 DEF FiberBecomes
  <2>3. /\ RunnerBecomes(r, x) /\ x.pc = "completed" /\ x.f = f /\ x.hot_local = runner[r].hot_local
        /\ x.current_fiber = runner[r].current_fiber
        /\ runner'[r] = x
    BY <1>6, <2>1
  <2> HIDE DEF x
  <2>4. HeldBy(r)'
    BY <1>1, <1>2, <2>1, <2>3 DEF HeldBy, InHand, Visiting, At
  <2>5. QED
    BY <1>2, <1>4, <1>5, <2>2, <2>3, <2>4, RunnerKeeps
<1>9. CASE FuncReturns(r)
  <2> DEFINE x == [runner[r] EXCEPT !.pc = "switched"]
             y == [fiber[f] EXCEPT !.f_ctx = "empty", !.runner_ctx = NoRunner]
  <2>1. At(r, "completed") /\ runner' = [runner EXCEPT ![r].pc = "switched"]
    BY <1>9 DEF FuncReturns
  <2>2. FiberBecomes(f, y)
    <3>1. fiber' = [fiber EXCEPT ![f] = y]
      BY <1>1, <1>2, <1>9 DEF FuncReturns, TypeOK
    <3>2. QED
      BY <1>1, <3>1 DEF FiberBecomes, TypeOK
  <2>3. ~fiber[f].yeild
    BY <1>1, <1>2, <2>1 DEF HeldBy, InHand, Visiting, At
  <2>4. ~y.yeild /\ y.f_ctx = "empty" /\ y.runner_ctx = NoRunner
    BY <1>3, <2>3 DEF FiberType
  <2>5. /\ RunnerBecomes(r, x) /\ x.pc = "switched" /\ x.f = f /\ x.hot_local = runner[r].hot_local
        /\ runner'[r] = x
    BY <1>6, <2>1
  <2> HIDE DEF x, y
  <2>6. HeldBy(r)'
    BY <2>2, <2>4, <2>5 DEF HeldBy, InHand, Visiting, At, FiberBecomes
  <2>7. QED
    BY <1>2, <1>4, <1>5, <2>2, <2>5, <2>6, RunnerKeeps
<1>10. QED
  BY <1>7, <1>8, <1>9 DEF FiberStep

LEMMA RunnerStepKnows ==
  ASSUME SchedInv, NEW r \in Runners, RunnerStep(r)
  PROVE  PoolFresh' /\ CallFresh' /\ QueueFresh' /\ Callers' /\ RunnersOK'
<1>1. TypeOK /\ runner[r] \in RunnerType
  BY DEF SchedInv, TypeOK
<1>2. CASE PopLocal(r) \/ PopOverflow(r) \/ Steal(r)
  <2>1. ~InHand(r) /\ (Miss(r) \/ \E q \in Queues : Hit(r, q))
    BY <1>1, <1>2, DequeueHitsOrMisses DEF InHand
  <2>2. CASE Miss(r)
    <3>1. PICK l \in {"closed?", "steal", "loop"}, q \in Queues :
            runner' = [runner EXCEPT ![r].pc = l, ![r].from = q, ![r].hot_used = 0]
      BY <2>2 DEF Miss
    <3> DEFINE x == [runner[r] EXCEPT !.pc = l, !.from = q, !.hot_used = 0]
    <3>2. /\ runner' = [runner EXCEPT ![r] = x] /\ x.pc = l /\ x.f = runner[r].f
          /\ x.hot_local = runner[r].hot_local
      BY <1>1, <3>1 DEF TypeOK, RunnerType
    <3>3. RunnerBecomes(r, x) /\ UNCHANGED <<pool, fiber, queue, call>>
      BY <1>1, <2>2, <3>2, Becomes DEF Miss
    <3> HIDE DEF x
    <3>4. QED
      BY <2>1, <3>2, <3>3, RunnerPolls
  <2>3. QED
    BY <2>1, <2>2, HitKnows
<1>3. CASE CheckClosed(r)
  <2>1. PICK l \in {"exited", "overflow"} : runner' = [runner EXCEPT ![r].pc = l]
    BY <1>3 DEF CheckClosed, AfterLocal
  <2> DEFINE x == [runner[r] EXCEPT !.pc = l]
  <2>2. /\ runner' = [runner EXCEPT ![r] = x] /\ x.pc = l /\ x.f = runner[r].f
        /\ x.hot_local = runner[r].hot_local
    BY <1>1, <2>1 DEF TypeOK, RunnerType
  <2>3. RunnerBecomes(r, x) /\ UNCHANGED <<pool, fiber, queue, call>> /\ ~InHand(r)
    BY <1>1, <1>3, <2>2, Becomes DEF CheckClosed, InHand, At
  <2> HIDE DEF x
  <2>4. QED
    BY <2>2, <2>3, RunnerPolls
<1>4. QED
  BY <1>2, <1>3, PopHotKnows, GiveBackKnows, SwitchedKnows DEF RunnerStep

\* Each place still knows its fibers after any step.
LEMMA KnowsStep ==
  ASSUME SchedInv, [Next]_vars
  PROVE  PoolFresh' /\ CallFresh' /\ QueueFresh' /\ Callers' /\ RunnersOK'
<1>1. CASE UNCHANGED <<pool, fiber, queue, call, runner>>
  BY <1>1 DEF SchedInv, PoolFresh, CallFresh, QueueFresh, Callers, RunnersOK, HotAt, HeldBy,
              InHand, Visiting, SuspendedAt, At
<1>2. CASE Destroy \/ Stopped \/ UNCHANGED vars
  BY <1>1, <1>2 DEF Destroy, DestroyBegin, CloseNext, JoinAndDelete, Stopped, vars
<1>3. QED
  BY <1>2, SpawnerIsThread, SpawnBeginKnows, EnqueueKnows, RunnerStepKnows, FiberStepKnows DEF Next

-----------------------------------------------------------------------------
(* The destructor. *)

\* Nothing is left to do once the destructor has begun on a drained scheduler:
\* no spawn can start, and the runners only release what has ended.
LEMMA FinishedStays ==
  ASSUME SchedInv, main.pc # "open", Finished, \A t \in Threads : call[t].pc = "none",
         [Next]_vars
  PROVE  Finished' /\ \A t \in Threads : call'[t].pc = "none"
<1>1. TypeOK /\ RunnersOK
  BY DEF SchedInv
<1>2. ASSUME UNCHANGED <<call, queue>>, NEW r \in Runners, NEW x, RunnerBecomes(r, x),
             x.hot_local = <<>>, x.pc \notin {"giveback", "fiber"},
             x.pc = "switched" => x.f \in Fibers /\ ~fiber'[x.f].yeild,
             \A g \in Fibers : fiber'[g].yeild => fiber[g].yeild
      PROVE  Finished' /\ \A t \in Threads : call'[t].pc = "none"
  <2>1. \A q \in Queues : Waiting(queue'[q]) = {}
    BY <1>2 DEF Finished
  <2>2. ASSUME NEW s \in Runners
        PROVE  /\ runner'[s].hot_local = <<>>
               /\ runner'[s].pc \notin {"giveback", "fiber"}
               /\ runner'[s].pc = "switched" => ~fiber'[runner'[s].f].yeild
    <3>1. CASE s = r
      BY <1>2, <3>1 DEF RunnerBecomes
    <3>2. CASE s # r
      <4>1. runner'[s] = runner[s]
        BY <1>2, <3>2 DEF RunnerBecomes
      <4>2. runner[s].pc = "switched" => runner[s].f \in Fibers
        BY <1>1 DEF RunnersOK, HeldBy, InHand
      <4>3. QED
        BY <1>2, <4>1, <4>2 DEF Finished, At
    <3>3. QED
      BY <3>1, <3>2
  <2>3. QED
    BY <1>2, <2>1, <2>2 DEF Finished, At, Waiting
<1>3. CASE UNCHANGED <<fiber, queue, call, runner>>
  BY <1>3 DEF Finished, At
<1>4. CASE Destroy \/ Stopped \/ UNCHANGED vars
  BY <1>3, <1>4 DEF Destroy, DestroyBegin, CloseNext, JoinAndDelete, Stopped, vars
<1>5. ASSUME NEW t \in Spawners, SpawnBegin(t) \/ SpawnStep(t)
      PROVE  FALSE
  <2>1. call[t].pc = "none" /\ t \in Threads
    BY SpawnerIsThread
  <2>2. SpawnBegin(t)
    BY <1>5, <2>1 DEF SpawnStep, EnqueueCheck, EnqueueClaim, EnqueuePublish
  <2>3. t # Main /\ (t \in Runners => runner[t].pc = "fiber")
    BY <2>2 DEF SpawnBegin, MayCall, ClientMayCall
  <2>4. QED
    BY <2>1, <2>3 DEF Threads, Finished
<1>6. ASSUME NEW r \in Runners, RunnerStep(r)
      PROVE  Finished' /\ \A t \in Threads : call'[t].pc = "none"
  <2>1. runner[r] \in RunnerType /\ runner[r].hot_local = <<>>
        /\ runner[r].pc \notin {"giveback", "fiber"}
    BY <1>1 DEF TypeOK, Finished
  <2>2. ~PopHot(r) /\ ~GiveBackCell(r)
    BY <2>1 DEF PopHot, HotIsDue, GiveBackCell, At
  <2>3. ASSUME NEW l \in {"closed?", "steal", "loop", "overflow", "exited"}, NEW x,
               runner' = [runner EXCEPT ![r] = x], x.pc = l, x.hot_local = <<>>,
               UNCHANGED <<fiber, queue, call>>
        PROVE  Finished' /\ \A t \in Threads : call'[t].pc = "none"
    <3>1. RunnerBecomes(r, x)
      BY <1>1, <2>3, Becomes
    <3>2. QED
      BY <1>2, <2>3, <3>1
  <2>4. CASE PopLocal(r) \/ PopOverflow(r) \/ Steal(r)
    <3>1. \A q \in Queues : ~Hit(r, q)
      BY DEF Hit, HasReady, Finished
    <3>2. Miss(r)
      BY <1>1, <2>4, <3>1, DequeueHitsOrMisses
    <3>3. PICK l \in {"closed?", "steal", "loop"}, q \in Queues :
            runner' = [runner EXCEPT ![r].pc = l, ![r].from = q, ![r].hot_used = 0]
      BY <3>2 DEF Miss
    <3> DEFINE x == [runner[r] EXCEPT !.pc = l, !.from = q, !.hot_used = 0]
    <3>4. runner' = [runner EXCEPT ![r] = x] /\ x.pc = l /\ x.hot_local = <<>>
      BY <1>1, <2>1, <3>3 DEF TypeOK, RunnerType
    <3> HIDE DEF x
    <3>5. QED
      BY <2>3, <3>2, <3>4 DEF Miss
  <2>5. CASE CheckClosed(r)
    <3>1. PICK l \in {"exited", "overflow"} : runner' = [runner EXCEPT ![r].pc = l]
      BY <2>5 DEF CheckClosed, AfterLocal
    <3> DEFINE x == [runner[r] EXCEPT !.pc = l]
    <3>2. runner' = [runner EXCEPT ![r] = x] /\ x.pc = l /\ x.hot_local = <<>>
      BY <1>1, <2>1, <3>1 DEF TypeOK, RunnerType
    <3> HIDE DEF x
    <3>3. QED
      BY <2>3, <2>5, <3>2 DEF CheckClosed
  <2>6. CASE Switched(r)
    <3> DEFINE x == [runner[r] EXCEPT !.pc = "loop", !.f = NoVal, !.current_fiber = NoVal]
    <3>1. PICK f \in Fibers : f = runner[r].f
      BY <1>1, <2>6 DEF RunnersOK, HeldBy, Switched, At, InHand
    <3>2. ~HasYielded(f)
      BY <2>6, <3>1 DEF Finished, HasYielded, Switched
    <3>3. runner' = [runner EXCEPT ![r] = x] /\ Release(f) /\ UNCHANGED <<call, queue>>
      BY <2>6, <3>1, <3>2 DEF Switched
    <3>4. x.pc = "loop" /\ x.hot_local = <<>> /\ RunnerBecomes(r, x)
      BY <1>1, <2>1, <3>3, Becomes DEF RunnerType
    <3> HIDE DEF x
    <3>5. ~ResetFiber.yeild
      BY DEF ResetFiber
    <3>6. \A g \in Fibers : fiber'[g].yeild => fiber[g].yeild
      BY <1>1, <3>1, <3>3, <3>5 DEF Release, TypeOK
    <3>7. QED
      BY <1>2, <3>3, <3>4, <3>6
  <2>7. QED
    BY <1>6, <2>2, <2>4, <2>5, <2>6 DEF RunnerStep
<1>7. ASSUME NEW r \in Runners, FiberStep(r)
      PROVE  Finished' /\ \A t \in Threads : call'[t].pc = "none"
  <2> DEFINE x == [runner[r] EXCEPT !.pc = "switched"]
  <2>1. FuncReturns(r)
    BY <1>7 DEF FiberStep, Safepoint, TaskCompletes, InFiber, At, Finished
  <2>2. PICK f \in Fibers : f = runner[r].f /\ ~fiber[f].yeild
    BY <1>1, <2>1 DEF RunnersOK, HeldBy, FuncReturns, At, InHand, Visiting
  <2>3. runner[r] \in RunnerType /\ fiber[f] \in FiberType /\ runner[r].hot_local = <<>>
    BY <1>1 DEF TypeOK, Finished
  <2>4. /\ runner' = [runner EXCEPT ![r] = x] /\ UNCHANGED <<call, queue>>
        /\ fiber' = [fiber EXCEPT ![f] = [fiber[f] EXCEPT !.f_ctx = "empty", !.runner_ctx = NoRunner]]
    BY <1>1, <2>1, <2>2 DEF FuncReturns, TypeOK
  <2>5. x.pc = "switched" /\ x.f = f /\ x.hot_local = <<>> /\ RunnerBecomes(r, x)
    BY <1>1, <2>2, <2>3, <2>4, Becomes DEF RunnerType
  <2> HIDE DEF x
  <2>6. \A g \in Fibers : fiber'[g].yeild => fiber[g].yeild
    BY <1>1, <2>2, <2>3, <2>4 DEF TypeOK, FiberType
  <2>7. QED
    BY <1>2, <2>2, <2>4, <2>5, <2>6
<1>8. QED
  BY <1>4, <1>5, <1>6, <1>7 DEF Next

LEMMA DestructionStep ==
  ASSUME SchedInv, [Next]_vars
  PROVE  Destruction'
<1>1. TypeOK /\ Callers /\ Destruction /\ RunnersOK
  BY DEF SchedInv
<1>2. main \in [pc : {"open", "close", "join", "deleted"}, next : 0 .. Overflow + 1,
                drained : BOOLEAN]
  BY <1>1 DEF TypeOK
<1>3. main.pc' \in {"open", "close"} => main.next' \in Queues
  <2>1. CASE UNCHANGED main
    BY <1>1, <2>1 DEF Destruction
  <2>2. CASE DestroyBegin
    BY <1>1, <1>2, <2>2 DEF DestroyBegin, Destruction
  <2>3. CASE CloseNext
    <3>1. main.next \in Queues
      BY <1>1, <2>3 DEF CloseNext, Destruction
    <3>2. main' = [main EXCEPT !.next = @ + 1, !.pc = IF main.next = Overflow THEN "join" ELSE "close"]
      BY <2>3 DEF CloseNext
    <3>3. CASE main.next = Overflow
      BY <1>2, <3>2, <3>3
    <3>4. CASE main.next # Overflow
      <4>1. main.next + 1 \in Queues
        BY <3>1, <3>4, SchedAssumption DEF Queues, Overflow, Runners
      <4>2. QED
        BY <1>2, <3>2, <4>1
    <3>5. QED
      BY <3>3, <3>4
  <2>4. CASE JoinAndDelete
    BY <1>2, <2>4 DEF JoinAndDelete
  <2>5. QED
    BY <2>1, <2>2, <2>3, <2>4 DEF Next, Destroy, Stopped, vars, SpawnBegin, SpawnStep, EnqueueCheck,
       EnqueueClaim, EnqueuePublish, RunnerStep, PopHot, PopLocal, CheckClosed, PopOverflow, Steal,
       Dequeue, GiveBackCell, Switched, FiberStep, Safepoint, TaskCompletes, FuncReturns
<1>4. main.pc' # "open" /\ main.drained' => Finished' /\ \A t \in Threads : call'[t].pc = "none"
  <2>1. CASE DestroyBegin
    <3>1. main.drained' => Finished
      BY <1>2, <2>1 DEF DestroyBegin
    <3>2. Finished' = Finished /\ UNCHANGED call /\ call[Main].pc = "none"
      BY <2>1 DEF DestroyBegin, Finished, At
    <3>3. Finished => \A r \in Runners : call[r].pc = "none"
      BY <1>1, Markers DEF Finished, Callers, At
    <3>4. QED
      BY <3>1, <3>2, <3>3 DEF Threads
  <2>2. CASE ~DestroyBegin
    <3>1. (main.pc' # "open" => main.pc # "open") /\ (main.drained' => main.drained)
      BY <1>2, <2>2 DEF Next, Destroy, CloseNext, JoinAndDelete, Stopped, vars, SpawnBegin, SpawnStep,
         EnqueueCheck, EnqueueClaim, EnqueuePublish, RunnerStep, PopHot, PopLocal, CheckClosed,
         PopOverflow, Steal, Dequeue, GiveBackCell, Switched, FiberStep, Safepoint, TaskCompletes,
         FuncReturns
    <3>2. QED
      BY <1>1, <3>1, FinishedStays DEF Destruction
  <2>3. QED
    BY <2>1, <2>2
<1>5. main.pc' = "deleted" => \A r \in Runners : At(r, "exited")'
  <2>1. CASE JoinAndDelete
    BY <2>1 DEF JoinAndDelete, Joined, At
  <2>2. CASE ~JoinAndDelete
    <3>1. main.pc' = "deleted" => main.pc = "deleted"
      BY <1>2, <2>2 DEF Next, Destroy, DestroyBegin, CloseNext, Stopped, vars, SpawnBegin, SpawnStep,
         EnqueueCheck, EnqueueClaim, EnqueuePublish, RunnerStep, PopHot, PopLocal, CheckClosed,
         PopOverflow, Steal, Dequeue, GiveBackCell, Switched, FiberStep, Safepoint, TaskCompletes,
         FuncReturns
    <3>2. (\A r \in Runners : At(r, "exited")) => UNCHANGED runner
      BY DEF Next, Destroy, DestroyBegin, CloseNext, JoinAndDelete, Stopped, vars, SpawnBegin,
         SpawnStep, EnqueueCheck, EnqueueClaim, EnqueuePublish, RunnerStep, PopHot, PopLocal,
         CheckClosed, PopOverflow, Steal, GiveBackCell, Switched, FiberStep, Safepoint,
         TaskCompletes, FuncReturns, InFiber, At
    <3>3. QED
      BY <1>1, <3>1, <3>2 DEF Destruction, At
  <2>3. QED
    BY <2>1, <2>2
<1>6. QED
  BY <1>3, <1>4, <1>5 DEF Destruction

-----------------------------------------------------------------------------
(* The theorems. *)

LEMMA IndInit == Init => SchedInv
<1> SUFFICES ASSUME Init PROVE SchedInv
  OBVIOUS
<1>1. TypeOK
  BY TypeInit
<1>2. /\ pool = Fibers
      /\ \A f \in Fibers : fiber[f] = ResetFiber
      /\ \A q \in Queues : queue[q] = EmptyWindow
      /\ \A t \in Threads : call[t] = NoCall
      /\ \A r \in Runners : runner[r] = NewRunner(r)
      /\ main = [pc |-> "open", next |-> 0, drained |-> FALSE]
  BY DEF Init
<1>3. \A q \in Queues : Waiting(queue[q]) = {}
  BY <1>2, EmptyWindowType
<1>4. \A t \in Threads : call[t].pc = "none"
  BY <1>2 DEF NoCall
<1>5. \A r \in Runners : runner[r].pc = "loop" /\ runner[r].f = NoVal /\ runner[r].hot_local = <<>>
  <2> SUFFICES ASSUME NEW r \in Runners
               PROVE  runner[r].pc = "loop" /\ runner[r].f = NoVal /\ runner[r].hot_local = <<>>
    OBVIOUS
  <2>1. runner[r] = NewRunner(r)
    BY <1>2
  <2>2. NewRunner(r).pc = "loop"
    BY DEF NewRunner
  <2>3. NewRunner(r).f = NoVal
    BY DEF NewRunner
  <2>4. NewRunner(r).hot_local = <<>>
    BY DEF NewRunner
  <2>5. QED
    BY <2>1, <2>2, <2>3, <2>4
<1>6. OnePlace
  <2> SUFFICES ASSUME NEW f \in Fibers PROVE \E p \in Places(f) : Places(f) = {p}
    BY DEF OnePlace
  <2>1. Free(f) = {<<"pool">>}
    BY <1>2 DEF Free
  <2>2. Spawned(f) = {}
    BY <1>4 DEF Spawned
  <2>3. Queued(f) = {}
    BY <1>3 DEF Queued
  <2>4. Held(f) = {}
    BY <1>5, Markers DEF Held
  <2>5. Hot(f) = {}
    BY <1>5, EmptySeq DEF Hot
  <2>6. QED
    BY <2>1, <2>2, <2>3, <2>4, <2>5 DEF Places
<1>7. PoolFresh
  BY <1>2 DEF PoolFresh
<1>8. CallFresh /\ Callers
  BY <1>4 DEF CallFresh, Callers
<1>9. QueueFresh
  BY <1>3 DEF QueueFresh
<1>10. RunnersOK
  BY <1>5, Markers, EmptySeq DEF RunnersOK, HotAt, HeldBy, InHand
<1>11. Destruction
  BY <1>2, Markers DEF Destruction
<1>12. QED
  BY <1>1, <1>6, <1>7, <1>8, <1>9, <1>10, <1>11 DEF SchedInv

LEMMA IndStep == SchedInv /\ [Next]_vars => SchedInv'
  BY TypeStep, PlaceStep, KnowsStep, DestructionStep DEF SchedInv

\* The inductive invariant holds in every state the scheduler reaches.
THEOREM SchedInductive == Spec => []SchedInv
  BY IndInit, IndStep, PTL DEF Spec

\* Every variable of the scheduler keeps its type: what the runners read from
\* a queue, a hot list or a spawn is a fiber of the pool.
THEOREM SchedTypeCorrect == Spec => []TypeOK
<1>1. SchedInv => TypeOK
  BY DEF SchedInv
<1>2. QED
  BY <1>1, SchedInductive, PTL

\* For any number of cores and fibers and any sizes of the queues, a fiber is
\* in exactly one place: never with two runners, never reused while somebody
\* has it, never dropped (acquire, enqueue, dequeue, the hot list, release).
THEOREM FibersInOnePlace == Spec => []OnePlace
<1>1. SchedInv => OnePlace
  BY DEF SchedInv
<1>2. QED
  BY <1>1, SchedInductive, PTL

\* A fiber that has yielded stays with the runner that started it, suspended,
\* and a queued fiber, which any runner may steal, has not been started.
THEOREM YieldedFibersStayHome == Spec => []YieldedStaysHome
<1>1. SchedInv => YieldedStaysHome
  BY DEF SchedInv, RunnersOK, HotAt, SuspendedAt, QueueFresh, YieldedStaysHome
<1>2. QED
  BY <1>1, SchedInductive, PTL

\* safepoint_check finds the calling fiber under the runner_id it was started
\* with, and resumes the continuation of the runner that is on its stack.
THEOREM SafepointsFindSelf == Spec => []SafepointFindsSelf
<1>1. SchedInv => SafepointFindsSelf
  BY FindsSelf DEF SafepointFindsSelf
<1>2. QED
  BY <1>1, SchedInductive, PTL

\* When the destructor of a scheduler whose tasks had all completed is done,
\* every fiber is on the free list that ~fiber_pool deletes.
THEOREM DrainedDestructorFreesAll == Spec => []NoFiberLeaked
<1>1. SchedInv => NoFiberLeaked
  <2> SUFFICES ASSUME SchedInv, main.pc = "deleted", main.drained, NEW f \in Fibers
               PROVE  f \in pool
    BY DEF NoFiberLeaked, SchedInv, TypeOK
  <2>1. Finished /\ (\A t \in Threads : call[t].pc = "none") /\ \A r \in Runners : At(r, "exited")
    BY DEF SchedInv, Destruction
  <2>2. Spawned(f) = {}
    BY <2>1 DEF Spawned
  <2>3. Queued(f) = {}
    BY <2>1 DEF Queued, Finished
  <2>4. Held(f) = {}
    BY <2>1 DEF SchedInv, RunnersOK, HeldBy, InHand, At, Held
  <2>5. Hot(f) = {}
    BY <2>1, EmptySeq DEF Hot, Finished
  <2>6. Free(f) # {}
    BY <2>2, <2>3, <2>4, <2>5 DEF SchedInv, OnePlace, Places
  <2>7. QED
    BY <2>6 DEF Free
<1>2. QED
  BY <1>1, SchedInductive, PTL

\* A fiber enters the pool only by try_spawn giving up or by a runner that is
\* back from a fiber that ended: it no longer executes and no continuation of
\* it or of its runner is left in it.
THEOREM OnlyEndedFibersReleased == Spec => ReleasesEnded
<1> DEFINE Step == \A f \in pool' \ pool : fiber[f].f_ctx = "empty" /\ fiber[f].runner_ctx = NoRunner
<1>1. ASSUME SchedInv, [Next]_vars PROVE [Step]_vars
  <2> SUFFICES ASSUME NEW f \in pool', f \notin pool
               PROVE  fiber[f].f_ctx = "empty" /\ fiber[f].runner_ctx = NoRunner
    OBVIOUS
  <2>1. CASE \E t \in Spawners : SpawnStep(t)
    <3>1. PICK t \in Threads : call[t].pc \in {"check", "claim"} /\ f = call[t].f
      BY <2>1, SpawnerIsThread
        DEF SpawnStep, EnqueueCheck, EnqueueClaim, EnqueuePublish, Refused, GiveUp, Release
    <3>2. fiber[f] = ResetFiber
      BY <1>1, <3>1 DEF SchedInv, CallFresh
    <3>3. QED
      BY <3>2 DEF ResetFiber
  <2>2. CASE \E r \in Runners : Switched(r)
    <3>1. PICK r \in Runners : Switched(r)
      BY <2>2
    <3>2. f = runner[r].f /\ ~HasYielded(f) /\ At(r, "switched")
      BY <3>1 DEF Switched, Release
    <3>3. HeldBy(r)
      BY <1>1 DEF SchedInv, RunnersOK
    <3>4. QED
      BY <3>2, <3>3 DEF HeldBy, InHand, Visiting, At, HasYielded
  <2>3. QED
    BY <1>1, <2>1, <2>2 DEF Next, Destroy, DestroyBegin, CloseNext, JoinAndDelete, Stopped, vars,
       SpawnBegin, RunnerStep, PopHot, PopLocal, CheckClosed, PopOverflow, Steal, Dequeue,
       GiveBackCell, FiberStep, Safepoint, TaskCompletes, FuncReturns
<1>2. QED
  BY <1>1, SchedInductive, PTL DEF Spec, ReleasesEnded
=============================================================================
