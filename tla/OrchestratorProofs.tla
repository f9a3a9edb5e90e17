-------------------------- MODULE OrchestratorProofs --------------------------
(* Theorems about Orchestrator, for every set of projects, number of runs,  *)
(* plans and workers.                                                       *)
EXTENDS Orchestrator, FiniteSetTheorems, WellFoundedInduction, TLAPS


LEMMA MessageTypes ==
    /\ \A t \in {"ready", "progress", "case", "bad"} : Msg(t) \in Message
    /\ \A ok, full \in BOOLEAN : ResultMsg(ok, full) \in Message
BY DEF Msg, ResultMsg, Message

LEMMA SelectionTypes ==
    /\ Requests \subseteq Selection
    /\ FullSuite \in Selection
    /\ \A s \in Selection : Committed(s) \in Selection
<1>1. FullSuite \in Selection /\ ExplicitFiles \in Selection
  BY DEF Selection, FullSuite, ExplicitFiles
<1>2. \A s \in Selection : /\ [s EXCEPT !.delta = TRUE] \in Selection
                           /\ [s EXCEPT !.degraded = TRUE] \in Selection
                           /\ [s EXCEPT !.empty = TRUE] \in Selection
  BY DEF Selection
<1>3. DeltaFull \in Selection /\ DeltaRelated \in Selection
  BY <1>1, <1>2 DEF DeltaFull, DeltaRelated
<1>4. DeltaDegraded \in Selection /\ DeltaEmpty \in Selection
  BY <1>2, <1>3 DEF DeltaDegraded, DeltaEmpty
<1>5. Requests \subseteq Selection
  BY <1>1, <1>3, <1>4, RequestsAssumption DEF Resolvable
<1>6. ASSUME NEW s \in Selection PROVE Committed(s) \in Selection
  BY DEF Selection, Committed
<1> QED BY <1>1, <1>5, <1>6

\* The history ring keeps its type, and is never longer than maxHistory.
LEMMA RecordedType ==
    ASSUME NEW h \in Seq(Record), NEW rec \in Record
    PROVE  Recorded(h, rec) \in Seq(Record)
<1>1. <<rec>> \o h \in Seq(Record) /\ Len(<<rec>> \o h) = Len(h) + 1
  OBVIOUS
<1>2. (IF Len(h) < MaxHistory THEN Len(h) + 1 ELSE MaxHistory) \in 0 .. Len(h) + 1
  BY HistoryAssumption
<1>3. QED
  BY <1>1, <1>2 DEF Recorded

LEMMA SweepType ==
    ASSUME NEW ps \in [PlanId -> StoredPlan] PROVE Sweep(ps) \in [PlanId -> StoredPlan]
BY DEF Sweep, StoredPlan

LEMMA PlanUpdates ==
    \A x \in StoredPlan : /\ [x EXCEPT !.stored = FALSE] \in StoredPlan
                          /\ [x EXCEPT !.expired = TRUE] \in StoredPlan
                          /\ x.sel \in Selection
BY DEF StoredPlan

\* The patches setRunState is called with.
LEMMA StatusUpdates ==
    ASSUME NEW s \in RunStatus, NEW r \in Run
    PROVE  /\ [s EXCEPT !.state = "complete", !.runId = r, !.lastResult = r, !.progress = FALSE]
                  \in RunStatus
           /\ [s EXCEPT !.state = "error", !.runId = r, !.lastError = r, !.progress = FALSE]
                  \in RunStatus
           /\ [s EXCEPT !.state = "running", !.runId = r, !.lastError = NoRun, !.progress = FALSE]
                  \in RunStatus
           /\ [s EXCEPT !.state = "running", !.progress = TRUE] \in RunStatus
BY DEF RunStatus

-----------------------------------------------------------------------------
(* Type correctness                                                        *)

LEMMA InitType == Init => TypeOK
<1> SUFFICES ASSUME Init PROVE TypeOK
  OBVIOUS
<1>1. (CHOOSE p \in Project : TRUE) \in Project
  BY ProjectAssumption
<1>2. runState \in [Project -> RunStatus]
  BY DEF Init, RunStatus
<1>3. plans \in [PlanId -> StoredPlan]
  BY <1>1, SelectionTypes DEF Init, StoredPlan
<1>4. nextRun \in 0 .. MaxRuns /\ nextPlan \in 0 .. MaxPlans /\ 0 \in 0 .. MaxSignals
  BY BoundsAssumption DEF Init
<1>5. chan \in [Run -> Seq(Message)] /\ history \in [Project -> Seq(Record)] /\ waiters \in Seq(Run)
  BY DEF Init
<1>6. signals \in [Run -> 0 .. MaxSignals] /\ active \in Int
  BY <1>4 DEF Init
<1>7. proj \in [Run -> Project] /\ sel \in [Run -> Selection]
  BY <1>1, SelectionTypes DEF Init
<1> QED
  BY <1>2, <1>3, <1>4, <1>5, <1>6, <1>7 DEF Init, TypeOK

LEMMA EnqueueType ==
    ASSUME TypeOK, NEW p \in Project, NEW s \in Selection, NEW i \in PlanId \cup {NoPlan},
           Enqueue(p, s, i), plans' \in [PlanId -> StoredPlan], UNCHANGED nextPlan
    PROVE  TypeOK'
<1>1. nextRun + 1 \in Run /\ nextRun' \in 0 .. MaxRuns
  BY BoundsAssumption DEF Enqueue, TypeOK, Run
<1> QED
  BY <1>1 DEF Enqueue, TypeOK, slotVars, workerVars, viewVars

LEMMA FailRunType ==
    ASSUME TypeOK, NEW r \in Run, FailRun(r)
    PROVE  TypeOK'
<1> DEFINE rec == [run |-> r, status |-> "error", strategy |-> "none", ranFull |-> FALSE]
<1>1. rec \in Record /\ proj[r] \in Project
  BY DEF Record, TypeOK
<1>2. Recorded(history[proj[r]], rec) \in Seq(Record)
  BY <1>1, RecordedType DEF TypeOK
<1>3. history' \in [Project -> Seq(Record)]
  BY <1>1, <1>2 DEF FailRun, TypeOK
<1>4. runState' \in [Project -> RunStatus]
  BY <1>1, StatusUpdates DEF FailRun, TypeOK
<1> QED
  BY <1>1, <1>3, <1>4 DEF FailRun, Finish, TypeOK, requestVars, slotVars, planVars

LEMMA SendType ==
    ASSUME TypeOK, NEW r \in Run, NEW m \in Message, Send(r, m)
    PROVE  chan' \in [Run -> Seq(Message)]
BY DEF TypeOK, Send

LEMMA ScheduleType ==
    ASSUME TypeOK, NEW r \in Run, Schedule(r)
    PROVE  TypeOK'
<1> USE DEF requestVars, slotVars, workerVars, viewVars, planVars
<1>1. CASE CompleteEmpty(r)
  <2> DEFINE rec == [run |-> r, status |-> "complete", strategy |-> "incremental",
                     ranFull |-> FALSE]
  <2>1. rec \in Record /\ proj[r] \in Project
    BY DEF Record, TypeOK
  <2>2. Recorded(history[proj[r]], rec) \in Seq(Record)
    BY <2>1, RecordedType DEF TypeOK
  <2>3. history' \in [Project -> Seq(Record)]
    BY <1>1, <2>1, <2>2 DEF CompleteEmpty, TypeOK
  <2>4. runState' \in [Project -> RunStatus]
    BY <1>1, <2>1, StatusUpdates DEF CompleteEmpty, TypeOK
  <2> QED
    BY <1>1, <2>1, <2>3, <2>4 DEF CompleteEmpty, Advanced, TypeOK
<1>2. CASE Acquire(r)
  BY <1>2 DEF Acquire, TypeOK
<1>3. CASE Wait(r)
  BY <1>3 DEF Wait, TypeOK
<1>4. CASE Fork(r)
  <2>1. runState' \in [Project -> RunStatus]
    BY <1>4, StatusUpdates DEF Fork, TypeOK
  <2> QED BY <1>4, <2>1 DEF Fork, TypeOK
<1>5. CASE Release(r)
  <2>1. CASE waiters = << >>
    <3>1. pc' = [pc EXCEPT ![r] = "done"] /\ active' = active - 1 /\ waiters' = waiters
      BY <1>5, <2>1 DEF Release
    <3>2. active' \in Int /\ waiters' \in Seq(Run)
      BY <3>1 DEF TypeOK
    <3> QED
      BY <1>5, <3>1, <3>2 DEF Release, TypeOK
  <2>2. CASE waiters # << >>
    <3>1. Head(waiters) \in Run /\ Tail(waiters) \in Seq(Run)
      BY <2>2 DEF TypeOK
    <3> QED
      BY <1>5, <2>2, <3>1 DEF Release, TypeOK
  <2> QED BY <2>1, <2>2
<1> QED
  BY <1>1, <1>2, <1>3, <1>4, <1>5 DEF Schedule

LEMMA HandleType ==
    ASSUME TypeOK, NEW r \in Run, Handle(r)
    PROVE  TypeOK'
<1> USE DEF requestVars, slotVars, workerVars, viewVars, planVars
<1>1. CASE OnReady(r)
  BY <1>1 DEF OnReady, Incoming, Consume, TypeOK
<1>2. CASE OnProgress(r)
  <2>1. runState' \in [Project -> RunStatus]
    BY <1>2, StatusUpdates DEF OnProgress, TypeOK
  <2> QED BY <1>2, <2>1 DEF OnProgress, Incoming, Consume, TypeOK
<1>3. CASE OnCase(r)
  BY <1>3 DEF OnCase, Incoming, Consume, TypeOK
<1>4. CASE OnResult(r)
  <2> DEFINE m == Head(chan[r])
             rec == [run |-> r, status |-> "complete",
                     strategy |-> IF Fallback(r, m.full) THEN "full" ELSE sel[r].strategy,
                     ranFull |-> m.full]
  <2>1. m \in Message /\ proj[r] \in Project /\ sel[r] \in Selection
    BY <1>4 DEF OnResult, Incoming, TypeOK
  <2>2. rec \in Record
    BY <2>1 DEF Record, Message, Selection
  <2>3. Recorded(history[proj[r]], rec) \in Seq(Record)
    BY <2>1, <2>2, RecordedType DEF TypeOK
  <2>4. history' \in [Project -> Seq(Record)]
    BY <1>4, <2>1, <2>3 DEF OnResult, TypeOK
  <2>5. runState' \in [Project -> RunStatus]
    BY <1>4, <2>1, StatusUpdates DEF OnResult, TypeOK
  <2>6. snapshot' \in [Project -> Run \cup {NoRun}] /\ lastFailures' \in [Project -> Run \cup {NoRun}]
    BY <1>4, <2>1 DEF OnResult, Advanced, TypeOK
  <2> QED
    BY <1>4, <2>4, <2>5, <2>6 DEF OnResult, Finish, TypeOK
<1>5. CASE OnReadySendFailed(r) \/ OnBadMessage(r) \/ OnExit(r)
  BY <1>5, FailRunType DEF OnReadySendFailed, OnBadMessage, OnExit
<1> QED
  BY <1>1, <1>2, <1>3, <1>4, <1>5 DEF Handle

LEMMA WorkerStepType ==
    ASSUME TypeOK, NEW r \in Run, WorkerStep(r)
    PROVE  TypeOK'
<1> USE DEF WorkerFrame, requestVars, slotVars, workerVars, viewVars, planVars
<1>1. CASE WorkerReady(r)
  BY <1>1, MessageTypes, SendType DEF WorkerReady, TypeOK
<1>2. CASE WorkerSignal(r)
  BY <1>2, MessageTypes, SendType, BoundsAssumption DEF WorkerSignal, TypeOK
<1>3. CASE WorkerResult(r)
  BY <1>3, MessageTypes, SendType DEF WorkerResult, TypeOK
<1>4. CASE WorkerBad(r)
  BY <1>4, MessageTypes, SendType DEF WorkerBad, TypeOK
<1>5. CASE WorkerExit(r)
  BY <1>5 DEF WorkerExit, TypeOK
<1> QED
  BY <1>1, <1>2, <1>3, <1>4, <1>5 DEF WorkerStep

LEMMA NextType == TypeOK /\ [Next]_vars => TypeOK'
<1> SUFFICES ASSUME TypeOK, [Next]_vars PROVE TypeOK'
  OBVIOUS
<1> USE DEF requestVars, slotVars, workerVars, viewVars, planVars
<1>1. ASSUME NEW p \in Project, NEW s \in Requests, StartRun(p, s) PROVE TypeOK'
  BY <1>1, EnqueueType, SelectionTypes DEF StartRun, TypeOK
<1>2. ASSUME NEW p \in Project, NEW s \in Requests, DryRun(p, s) PROVE TypeOK'
  <2>1. plans' \in [PlanId -> StoredPlan]
    BY <1>2, SweepType, SelectionTypes DEF DryRun, StoredPlan, TypeOK
  <2> QED
    BY <1>2, <2>1, BoundsAssumption DEF DryRun, TypeOK
<1>3. ASSUME NEW p \in Project, NEW i \in PlanId, CommitPlan(p, i) PROVE TypeOK'
  <2>1. plans' \in [PlanId -> StoredPlan]
    BY <1>3, SweepType, PlanUpdates DEF CommitPlan, TypeOK
  <2>2. Committed(plans[i].sel) \in Selection
    BY SelectionTypes, PlanUpdates DEF TypeOK
  <2> QED
    BY <1>3, <2>1, <2>2, EnqueueType DEF CommitPlan
<1>4. ASSUME NEW p \in Project, NEW i \in PlanId, RejectPlan(p, i) PROVE TypeOK'
  <2>1. plans' \in [PlanId -> StoredPlan]
    BY <1>4, SweepType, PlanUpdates DEF RejectPlan, TypeOK
  <2> QED
    BY <1>4, <2>1 DEF RejectPlan, TypeOK
<1>5. ASSUME NEW i \in PlanId, Expire(i) PROVE TypeOK'
  <2>1. plans' \in [PlanId -> StoredPlan]
    BY <1>5, PlanUpdates DEF Expire, TypeOK
  <2> QED
    BY <1>5, <2>1 DEF Expire, TypeOK
<1>6. ASSUME NEW r \in Run, Schedule(r) \/ Handle(r) \/ OnTimeout(r) \/ WorkerStep(r)
      PROVE  TypeOK'
  BY <1>6, ScheduleType, HandleType, WorkerStepType, FailRunType DEF OnTimeout
<1>7. CASE UNCHANGED vars
  BY <1>7 DEF vars, TypeOK
<1> QED
  BY <1>1, <1>2, <1>3, <1>4, <1>5, <1>6, <1>7 DEF Next, Request

\* Every variable keeps its type, whatever the bounds.
THEOREM TypeCorrect == Spec => []TypeOK
<1> QED BY InitType, NextType, PTL DEF Spec

-----------------------------------------------------------------------------
(* The steps that matter to the queue and the semaphore                    *)

coreVars == <<nextRun, proj, prev, tail, pc, active, waiters>>

\* finish, as far as the queue and the semaphore can tell.
Settle(r) == /\ pc[r] = "running"
             /\ pc' = [pc EXCEPT ![r] = "settled"]
             /\ UNCHANGED <<nextRun, proj, prev, tail, active, waiters>>

CoreStep ==
    \/ \E p \in Project, s \in Selection, i \in PlanId \cup {NoPlan} : Enqueue(p, s, i)
    \/ \E r \in Run : Schedule(r) \/ Settle(r)
    \/ UNCHANGED coreVars

LEMMA FailRunSettles ==
    ASSUME NEW r \in Run, pc[r] = "running", FailRun(r) PROVE Settle(r)
BY DEF FailRun, Finish, Settle, requestVars, slotVars

LEMMA StepCases == TypeOK /\ [Next]_vars => CoreStep
<1> SUFFICES ASSUME TypeOK, [Next]_vars PROVE CoreStep
  OBVIOUS
<1> USE DEF coreVars, requestVars, slotVars
<1>1. ASSUME NEW p \in Project, NEW s \in Requests, StartRun(p, s) PROVE CoreStep
  BY <1>1, SelectionTypes DEF StartRun, CoreStep
<1>2. ASSUME NEW p \in Project, NEW s \in Requests, DryRun(p, s) PROVE CoreStep
  BY <1>2 DEF DryRun, CoreStep
<1>3. ASSUME NEW p \in Project, NEW i \in PlanId, CommitPlan(p, i) PROVE CoreStep
  <2>1. Committed(plans[i].sel) \in Selection
    BY SelectionTypes, PlanUpdates DEF TypeOK
  <2> QED BY <1>3, <2>1 DEF CommitPlan, CoreStep
<1>4. ASSUME NEW p \in Project, NEW i \in PlanId, RejectPlan(p, i) PROVE CoreStep
  BY <1>4 DEF RejectPlan, CoreStep
<1>5. ASSUME NEW i \in PlanId, Expire(i) PROVE CoreStep
  BY <1>5 DEF Expire, CoreStep
<1>6. ASSUME NEW r \in Run, Schedule(r) PROVE CoreStep
  BY <1>6 DEF CoreStep
<1>7. ASSUME NEW r \in Run, Handle(r) \/ OnTimeout(r) PROVE CoreStep
  <2>1. CASE OnReady(r) \/ OnProgress(r) \/ OnCase(r)
    BY <2>1 DEF OnReady, OnProgress, OnCase, CoreStep
  <2>2. CASE OnResult(r)
    BY <2>2 DEF OnResult, Incoming, Finish, Settle, CoreStep
  <2>3. CASE OnReadySendFailed(r) \/ OnBadMessage(r) \/ OnExit(r) \/ OnTimeout(r)
    BY <2>3, FailRunSettles
    DEF OnReadySendFailed, OnBadMessage, OnExit, OnTimeout, Incoming, CoreStep
  <2> QED BY <1>7, <2>1, <2>2, <2>3 DEF Handle
<1>8. ASSUME NEW r \in Run, WorkerStep(r) PROVE CoreStep
  BY <1>8 DEF WorkerStep, WorkerReady, WorkerSignal, WorkerResult, WorkerBad, WorkerExit,
              WorkerFrame, CoreStep
<1>9. CASE UNCHANGED vars
  BY <1>9 DEF vars, CoreStep
<1> QED
  BY <1>1, <1>2, <1>3, <1>4, <1>5, <1>6, <1>7, <1>8, <1>9 DEF Next, Request

-----------------------------------------------------------------------------
(* The waiter list                                                         *)

LEMMA RunsAreIntegers == /\ Run \subseteq Int /\ NoRun \notin Run /\ NoRun \in Int
                         /\ \A r \in Run : r > 0
BY BoundsAssumption DEF Run, NoRun

LEMMA InitWaiters == Init => NoLostWaiter
BY DEF Init, NoLostWaiter

\* The first waiter is a run that waits, and the others still do once it is
\* taken off the list.
LEMMA HeadWaits ==
    ASSUME TypeOK, NoLostWaiter, waiters # << >>
    PROVE  /\ Head(waiters) \in Run /\ pc[Head(waiters)] = "waiting"
           /\ Len(Tail(waiters)) = Len(waiters) - 1
           /\ \A k \in 1 .. Len(Tail(waiters)) : Tail(waiters)[k] = waiters[k + 1]
<1>1. waiters \in Seq(Run) /\ Len(waiters) \in Nat /\ Len(waiters) > 0
  BY DEF TypeOK
<1>2. Head(waiters) = waiters[1] /\ 1 \in 1 .. Len(waiters)
  BY <1>1
<1>3. waiters[1] \in Run
  BY <1>1, <1>2
<1>4. pc[Head(waiters)] = "waiting"
  BY <1>2, <1>3 DEF NoLostWaiter
<1> QED
  BY <1>1, <1>2, <1>3, <1>4

LEMMA StepWaiters ==
    ASSUME TypeOK, NoLostWaiter, QueueChained, CoreStep PROVE NoLostWaiter'
<1>1. ASSUME NEW p \in Project, NEW s \in Selection, NEW i \in PlanId \cup {NoPlan},
             Enqueue(p, s, i)
      PROVE  NoLostWaiter'
  <2>1. nextRun + 1 \in Run /\ pc[nextRun + 1] = "unused"
    BY <1>1, BoundsAssumption DEF Enqueue, TypeOK, Run, QueueChained
  <2> QED
    BY <1>1, <2>1 DEF Enqueue, slotVars, NoLostWaiter, TypeOK
<1>2. ASSUME NEW r \in Run, CompleteEmpty(r) \/ Acquire(r) \/ Fork(r) \/ Settle(r)
      PROVE  NoLostWaiter'
  <2>1. PICK x \in {"done", "granted", "running", "settled"} : pc' = [pc EXCEPT ![r] = x]
    BY <1>2 DEF CompleteEmpty, Acquire, Fork, Settle
  <2>2. waiters' = waiters /\ pc[r] # "waiting"
    BY <1>2 DEF CompleteEmpty, Acquire, Fork, Settle, Due, slotVars
  <2>3. \A q \in Run : pc'[q] = "waiting" <=> pc[q] = "waiting"
    BY <2>1, <2>2 DEF TypeOK
  <2> QED
    BY <2>2, <2>3 DEF NoLostWaiter
<1>3. ASSUME NEW r \in Run, Wait(r) PROVE NoLostWaiter'
  <2>1. pc[r] = "queued" /\ pc' = [pc EXCEPT ![r] = "waiting"] /\ waiters' = Append(waiters, r)
    BY <1>3 DEF Wait, Due
  <2>2. /\ waiters \in Seq(Run) /\ Len(waiters) \in Nat
        /\ Len(waiters') = Len(waiters) + 1
        /\ \A k \in 1 .. Len(waiters) : waiters'[k] = waiters[k]
        /\ waiters'[Len(waiters) + 1] = r
    BY <2>1 DEF TypeOK
  <2>3. \A k \in 1 .. Len(waiters) : waiters[k] # r
    BY <2>1 DEF NoLostWaiter
  <2>4. ASSUME NEW j \in 1 .. Len(waiters'), NEW k \in 1 .. Len(waiters'),
               waiters'[j] = waiters'[k]
        PROVE  j = k
    BY <2>2, <2>3, <2>4 DEF NoLostWaiter
  <2>5. ASSUME NEW q \in Run
        PROVE  pc'[q] = "waiting" <=> \E k \in 1 .. Len(waiters') : waiters'[k] = q
    <3>1. CASE q = r
      BY <2>1, <2>2, <3>1 DEF TypeOK
    <3>2. CASE q # r
      <4>1. pc'[q] = "waiting" <=> pc[q] = "waiting"
        BY <2>1, <3>2 DEF TypeOK
      <4>2. (\E k \in 1 .. Len(waiters') : waiters'[k] = q)
               <=> \E k \in 1 .. Len(waiters) : waiters[k] = q
        BY <2>2, <3>2
      <4> QED BY <4>1, <4>2 DEF NoLostWaiter
    <3> QED BY <3>1, <3>2
  <2> QED
    BY <2>4, <2>5 DEF NoLostWaiter
<1>4. ASSUME NEW r \in Run, Release(r) PROVE NoLostWaiter'
  <2>1. CASE waiters = << >>
    BY <1>4, <2>1 DEF Release, NoLostWaiter, TypeOK
  <2>2. CASE waiters # << >>
    <3> DEFINE w == Head(waiters)
    <3>1. /\ w \in Run /\ w # r /\ pc[w] = "waiting"
          /\ pc' = [pc EXCEPT ![r] = "done", ![w] = "granted"]
          /\ pc[r] = "settled" /\ waiters' = Tail(waiters)
      BY <1>4, <2>2, HeadWaits DEF Release
    <3>2. /\ Len(waiters) \in Nat /\ Len(waiters) > 0 /\ waiters[1] = w
          /\ Len(waiters') = Len(waiters) - 1
          /\ \A k \in 1 .. Len(waiters') : waiters'[k] = waiters[k + 1]
      BY <2>2, <3>1, HeadWaits DEF TypeOK
    <3>3. \A j, k \in 1 .. Len(waiters') : waiters'[j] = waiters'[k] => j = k
      BY <3>2 DEF NoLostWaiter
    <3>4. ASSUME NEW q \in Run
          PROVE  pc'[q] = "waiting" <=> \E k \in 1 .. Len(waiters') : waiters'[k] = q
      <4>1. pc'[q] = "waiting" <=> pc[q] = "waiting" /\ q # w
        BY <3>1 DEF TypeOK
      <4>2. ASSUME pc[q] = "waiting", q # w PROVE \E k \in 1 .. Len(waiters') : waiters'[k] = q
        <5>1. PICK k \in 1 .. Len(waiters) : waiters[k] = q
          BY <4>2 DEF NoLostWaiter
        <5>2. k # 1 /\ k - 1 \in 1 .. Len(waiters')
          BY <3>2, <4>2, <5>1
        <5>3. waiters'[k - 1] = waiters[(k - 1) + 1] /\ (k - 1) + 1 = k
          BY <3>2, <5>2
        <5> QED BY <5>1, <5>2, <5>3
      <4>3. ASSUME NEW k \in 1 .. Len(waiters'), waiters'[k] = q PROVE pc[q] = "waiting" /\ q # w
        <5>1. k + 1 \in 1 .. Len(waiters) /\ waiters[k + 1] = q /\ 1 \in 1 .. Len(waiters)
          BY <3>2, <4>3
        <5> QED BY <3>2, <5>1 DEF NoLostWaiter
      <4> QED BY <4>1, <4>2, <4>3
    <3> QED BY <3>3, <3>4 DEF NoLostWaiter
  <2> QED BY <2>1, <2>2
<1>5. CASE UNCHANGED coreVars
  BY <1>5 DEF coreVars, NoLostWaiter
<1> QED
  BY <1>1, <1>2, <1>3, <1>4, <1>5 DEF CoreStep, Schedule

-----------------------------------------------------------------------------
(* The promise chain and per-project serialization                         *)

\* How a step that is not a request moves runs along the chain: a run leaves
\* "unused" only by being requested, "queued" only when it is due, and never
\* leaves "done".
Advances(r) ==
    /\ nextRun' = nextRun /\ proj' = proj /\ prev' = prev /\ tail' = tail
    /\ \A q \in Run : pc[q] = "unused" <=> pc'[q] = "unused"
    /\ \A q \in Run : pc[q] = "queued" /\ pc'[q] # "queued" => q = r /\ Due(r)
    /\ \A q \in Run : pc'[q] = "queued" => pc[q] = "queued"
    /\ \A q \in Run : pc[q] = "done" => pc'[q] = "done"

LEMMA Progressions ==
    ASSUME TypeOK, NoLostWaiter, NEW r \in Run, Schedule(r) \/ Settle(r)
    PROVE  Advances(r)
<1>1. nextRun' = nextRun /\ proj' = proj /\ prev' = prev /\ tail' = tail
  BY DEF Schedule, CompleteEmpty, Acquire, Wait, Release, Fork, Settle, requestVars
<1>2. CASE CompleteEmpty(r) \/ Acquire(r) \/ Wait(r)
  <2>1. PICK x \in {"done", "granted", "waiting"} : pc' = [pc EXCEPT ![r] = x]
    BY <1>2 DEF CompleteEmpty, Acquire, Wait
  <2>2. Due(r) /\ pc[r] = "queued"
    BY <1>2 DEF CompleteEmpty, Acquire, Wait, Due
  <2> QED BY <1>1, <2>1, <2>2 DEF Advances, TypeOK
<1>3. CASE Fork(r) \/ Settle(r)
  <2>1. PICK x \in {"running", "settled"} : pc' = [pc EXCEPT ![r] = x]
    BY <1>3 DEF Fork, Settle
  <2>2. pc[r] \in {"granted", "running"}
    BY <1>3 DEF Fork, Settle
  <2> QED BY <1>1, <2>1, <2>2 DEF Advances, TypeOK
<1>4. CASE Release(r)
  <2>1. CASE waiters = << >>
    BY <1>1, <1>4, <2>1 DEF Advances, Release, TypeOK
  <2>2. CASE waiters # << >>
    <3>1. pc[r] = "settled" /\ pc' = [pc EXCEPT ![r] = "done", ![Head(waiters)] = "granted"]
      BY <1>4, <2>2 DEF Release
    <3> QED BY <1>1, <2>2, <3>1, HeadWaits DEF Advances, TypeOK
  <2> QED BY <2>1, <2>2
<1> QED
  BY <1>2, <1>3, <1>4 DEF Schedule

LEMMA InitChain == Init => QueueChained /\ ProjectSerialized
<1> SUFFICES ASSUME Init PROVE QueueChained /\ ProjectSerialized
  OBVIOUS
<1>1. \A r \in Run : pc[r] = "unused" /\ nextRun < r
  BY RunsAreIntegers DEF Init
<1>2. \A p \in Project : tail[p] = NoRun /\ tail[p] <= nextRun
  BY DEF Init, NoRun
<1>3. \A q \in Run : ~(q <= nextRun)
  BY RunsAreIntegers DEF Init
<1> QED
  BY <1>1, <1>2, <1>3 DEF QueueChained, ProjectSerialized

LEMMA StepChain ==
    ASSUME TypeOK, NoLostWaiter, QueueChained, CoreStep PROVE QueueChained'
<1>1. ASSUME NEW p \in Project, NEW s \in Selection, NEW i \in PlanId \cup {NoPlan},
             Enqueue(p, s, i)
      PROVE  QueueChained'
  <2> DEFINE n == nextRun + 1
  <2>1. n \in Run /\ nextRun \in Int /\ nextRun' = n
    BY <1>1, BoundsAssumption DEF Enqueue, TypeOK, Run
  <2>2. /\ proj' = [proj EXCEPT ![n] = p] /\ prev' = [prev EXCEPT ![n] = tail[p]]
        /\ tail' = [tail EXCEPT ![p] = n] /\ pc' = [pc EXCEPT ![n] = "queued"]
    BY <1>1 DEF Enqueue
  <2>3. \A r \in Run : pc'[r] = "unused" <=> nextRun' < r
    BY <2>1, <2>2, RunsAreIntegers DEF QueueChained, TypeOK
  <2>4. ASSUME NEW q \in Project
        PROVE  /\ tail'[q] <= nextRun'
               /\ tail'[q] # NoRun => proj'[tail'[q]] = q
               /\ \A r \in Run : (r <= nextRun' /\ proj'[r] = q) => r <= tail'[q]
    <3>1. CASE q = p
      BY <2>1, <2>2, <3>1, RunsAreIntegers DEF TypeOK
    <3>2. CASE q # p
      <4>0. tail[q] \in Run \cup {NoRun} /\ tail[q] <= nextRun /\ tail'[q] = tail[q]
        BY <2>2, <3>2 DEF QueueChained, TypeOK
      <4>1. tail'[q] = tail[q] /\ tail[q] <= nextRun /\ tail[q] \in Int
        BY <4>0, RunsAreIntegers
      <4>2. tail[q] # n /\ (tail[q] # NoRun => proj[tail[q]] = q /\ tail[q] \in Run)
        BY <2>1, <4>1 DEF QueueChained, TypeOK
      <4>3. ASSUME NEW r \in Run, r <= nextRun', proj'[r] = q PROVE r <= tail[q]
        <5>1. r # n
          BY <2>1, <2>2, <3>2, <4>3 DEF TypeOK
        <5>2. proj[r] = q /\ r <= nextRun
          BY <2>1, <2>2, <4>3, <5>1, RunsAreIntegers DEF TypeOK
        <5> QED BY <5>2 DEF QueueChained
      <4> QED BY <2>1, <2>2, <4>1, <4>2, <4>3 DEF TypeOK
    <3> QED BY <3>1, <3>2
  <2>5. ASSUME NEW r \in Run, pc'[r] # "unused"
        PROVE  /\ prev'[r] < r
               /\ prev'[r] # NoRun => proj'[prev'[r]] = proj'[r]
               /\ \A q \in Run : (q < r /\ proj'[q] = proj'[r]) => q <= prev'[r]
    <3>1. CASE r = n
      <4>0. tail[p] \in Run \cup {NoRun} /\ tail[p] <= nextRun
        BY DEF QueueChained, TypeOK
      <4>1. prev'[r] = tail[p] /\ proj'[r] = p /\ tail[p] <= nextRun /\ tail[p] \in Int
        BY <2>1, <2>2, <3>1, <4>0, RunsAreIntegers DEF TypeOK
      <4>2. tail[p] # n /\ (tail[p] # NoRun => proj[tail[p]] = p /\ tail[p] \in Run)
        BY <2>1, <4>1 DEF QueueChained, TypeOK
      <4>3. ASSUME NEW q \in Run, q < r, proj'[q] = p PROVE q <= tail[p]
        <5>1. q # n /\ q <= nextRun
          BY <2>1, <3>1, <4>3, RunsAreIntegers
        <5>2. proj[q] = p
          BY <2>2, <4>3, <5>1 DEF TypeOK
        <5> QED BY <5>1, <5>2 DEF QueueChained
      <4> QED BY <2>1, <2>2, <3>1, <4>1, <4>2, <4>3 DEF TypeOK
    <3>2. CASE r # n
      <4>1. pc[r] # "unused" /\ ~(nextRun < r) /\ r < n /\ proj'[r] = proj[r] /\ prev'[r] = prev[r]
        BY <2>1, <2>2, <2>5, <3>2, RunsAreIntegers DEF QueueChained, TypeOK
      <4>2. /\ prev[r] < r /\ prev[r] \in Int
            /\ prev[r] # NoRun => proj[prev[r]] = proj[r] /\ prev[r] \in Run
        BY <4>1, RunsAreIntegers DEF QueueChained, TypeOK
      <4>3. \A q \in Run : q < r => proj'[q] = proj[q]
        BY <2>1, <2>2, <4>1, RunsAreIntegers DEF TypeOK
      <4>4. \A q \in Run : (q < r /\ proj[q] = proj[r]) => q <= prev[r]
        BY <4>1 DEF QueueChained
      <4> QED BY <4>1, <4>2, <4>3, <4>4
    <3> QED BY <3>1, <3>2
  <2> QED BY <2>3, <2>4, <2>5 DEF QueueChained
<1>2. ASSUME NEW r \in Run, Schedule(r) \/ Settle(r) PROVE QueueChained'
  <2>1. Advances(r)
    BY <1>2, Progressions
  <2> QED
    BY <2>1 DEF Advances, QueueChained
<1>3. CASE UNCHANGED coreVars
  BY <1>3 DEF coreVars, QueueChained
<1> QED
  BY <1>1, <1>2, <1>3 DEF CoreStep

LEMMA StepSerialized ==
    ASSUME TypeOK, NoLostWaiter, QueueChained, ProjectSerialized, CoreStep
    PROVE  ProjectSerialized'
<1>1. ASSUME NEW p \in Project, NEW s \in Selection, NEW i \in PlanId \cup {NoPlan},
             Enqueue(p, s, i)
      PROVE  ProjectSerialized'
  <2> DEFINE n == nextRun + 1
  <2>1. n \in Run /\ nextRun \in Int /\ pc[n] = "unused"
    BY <1>1, BoundsAssumption DEF Enqueue, TypeOK, Run, QueueChained
  <2>2. proj' = [proj EXCEPT ![n] = p] /\ pc' = [pc EXCEPT ![n] = "queued"]
    BY <1>1 DEF Enqueue
  <2> SUFFICES ASSUME NEW q \in Run, NEW r \in Run, q < r, proj'[q] = proj'[r],
                      pc'[r] \notin {"unused", "queued"}
               PROVE  pc'[q] = "done"
    BY DEF ProjectSerialized
  <2>3. r # n /\ pc[r] = pc'[r]
    BY <2>1, <2>2 DEF TypeOK
  <2>4. ~(nextRun < r) /\ q < n /\ q # n
    BY <2>1, <2>3, RunsAreIntegers DEF QueueChained
  <2> QED
    BY <2>1, <2>2, <2>3, <2>4 DEF ProjectSerialized, TypeOK
<1>2. ASSUME NEW x \in Run, Schedule(x) \/ Settle(x) PROVE ProjectSerialized'
  <2>0. Advances(x)
    BY <1>2, Progressions
  <2> SUFFICES ASSUME NEW q \in Run, NEW r \in Run, q < r, proj[q] = proj[r],
                      pc'[r] \notin {"unused", "queued"}
               PROVE  pc'[q] = "done"
    BY <2>0 DEF Advances, ProjectSerialized
  <2>1. pc[r] # "unused"
    BY <2>0 DEF Advances
  <2>2. CASE pc[r] # "queued"
    BY <2>0, <2>1, <2>2 DEF Advances, ProjectSerialized
  <2>3. CASE pc[r] = "queued"
    <3>1. Due(r)
      BY <2>0, <2>3 DEF Advances, Due
    <3>2. q <= prev[r] /\ (prev[r] # NoRun => proj[prev[r]] = proj[r])
      BY <2>1 DEF QueueChained
    <3>3. prev[r] # NoRun /\ prev[r] \in Run
      BY <3>2, RunsAreIntegers DEF TypeOK, NoRun
    <3>4. pc[prev[r]] = "done"
      BY <3>1, <3>3 DEF Due
    <3>5. pc[q] = "done"
      <4>1. q \in Int /\ prev[r] \in Int
        BY <3>3, RunsAreIntegers
      <4>2. CASE q = prev[r]
        BY <3>4, <4>2
      <4>3. CASE q < prev[r]
        BY <3>2, <3>3, <3>4, <4>3 DEF ProjectSerialized
      <4> QED BY <3>2, <4>1, <4>2, <4>3
    <3> QED BY <2>0, <3>5 DEF Advances
  <2> QED BY <2>2, <2>3
<1>3. CASE UNCHANGED coreVars
  BY <1>3 DEF coreVars, ProjectSerialized
<1> QED
  BY <1>1, <1>2, <1>3 DEF CoreStep

-----------------------------------------------------------------------------
(* The semaphore                                                           *)

LEMMA HoldingFinite == IsFiniteSet(Holding) /\ Cardinality(Holding) \in Nat
<1>1. IsFiniteSet(Run)
  BY BoundsAssumption, FS_Interval DEF Run
<1>2. Holding \in SUBSET Run
  BY DEF Holding
<1> QED
  BY <1>1, <1>2, FS_Subset, FS_CardinalityType

LEMMA InitSlots == Init => SlotsAccounted
<1> SUFFICES ASSUME Init PROVE SlotsAccounted
  OBVIOUS
<1>1. Holding = {}
  BY DEF Init, Holding
<1> QED
  BY <1>1, FS_EmptySet, WorkersAssumption DEF Init, SlotsAccounted

LEMMA StepSlots ==
    ASSUME TypeOK, NoLostWaiter, QueueChained, SlotsAccounted, CoreStep
    PROVE  SlotsAccounted'
<1> USE DEF requestVars, slotVars, workerVars, viewVars, planVars
<1>0. active = Cardinality(Holding) /\ active \in Nat /\ active <= MaxWorkers /\ MaxWorkers \in Nat
  BY HoldingFinite, WorkersAssumption DEF SlotsAccounted
<1>1. ASSUME active' = active, waiters' = waiters, Holding' = Holding PROVE SlotsAccounted'
  BY <1>1 DEF SlotsAccounted
<1>2. ASSUME NEW p \in Project, NEW s \in Selection, NEW i \in PlanId \cup {NoPlan},
             Enqueue(p, s, i)
      PROVE  SlotsAccounted'
  <2>1. nextRun + 1 \in Run /\ pc[nextRun + 1] = "unused"
    BY <1>2, BoundsAssumption DEF Enqueue, TypeOK, Run, QueueChained
  <2>2. pc' = [pc EXCEPT ![nextRun + 1] = "queued"]
    BY <1>2 DEF Enqueue
  <2>3. Holding' = Holding
    BY <2>1, <2>2 DEF Holding, TypeOK
  <2> QED BY <1>1, <1>2, <2>3 DEF Enqueue
<1>3. ASSUME NEW r \in Run, CompleteEmpty(r) \/ Fork(r) \/ Settle(r) PROVE SlotsAccounted'
  <2>1. \/ pc[r] = "queued" /\ pc' = [pc EXCEPT ![r] = "done"]
        \/ pc[r] = "granted" /\ pc' = [pc EXCEPT ![r] = "running"]
        \/ pc[r] = "running" /\ pc' = [pc EXCEPT ![r] = "settled"]
    BY <1>3 DEF CompleteEmpty, Due, Fork, Settle
  <2>2. Holding' = Holding
    BY <2>1 DEF Holding, TypeOK
  <2> QED BY <1>1, <1>3, <2>2 DEF CompleteEmpty, Fork, Settle
<1>4. ASSUME NEW r \in Run, Acquire(r) PROVE SlotsAccounted'
  <2>1. /\ active < MaxWorkers /\ active' = active + 1 /\ waiters' = waiters
        /\ pc[r] = "queued" /\ pc' = [pc EXCEPT ![r] = "granted"]
    BY <1>4 DEF Acquire, Due
  <2>2. Holding' = Holding \cup {r} /\ r \notin Holding
    BY <2>1 DEF Holding, TypeOK
  <2>3. Cardinality(Holding') = active + 1
    BY <1>0, <2>2, HoldingFinite, FS_AddElement
  <2>4. waiters = << >>
    BY <1>0, <2>1 DEF SlotsAccounted
  <2> QED BY <1>0, <2>1, <2>3, <2>4 DEF SlotsAccounted
<1>5. ASSUME NEW r \in Run, Wait(r) PROVE SlotsAccounted'
  <2>1. /\ active >= MaxWorkers /\ active' = active
        /\ pc[r] = "queued" /\ pc' = [pc EXCEPT ![r] = "waiting"]
    BY <1>5 DEF Wait, Due
  <2>2. Holding' = Holding
    BY <2>1 DEF Holding, TypeOK
  <2> QED BY <1>0, <2>1, <2>2 DEF SlotsAccounted
<1>6. ASSUME NEW r \in Run, Release(r) PROVE SlotsAccounted'
  <2>1. CASE waiters = << >>
    <3>1. /\ pc[r] = "settled" /\ pc' = [pc EXCEPT ![r] = "done"]
          /\ active' = active - 1 /\ waiters' = << >>
      BY <1>6, <2>1 DEF Release
    <3>2. Holding' = Holding \ {r} /\ r \in Holding
      BY <3>1 DEF Holding, TypeOK
    <3>3. Cardinality(Holding') = active - 1
      BY <1>0, <3>2, HoldingFinite, FS_RemoveElement
    <3> QED BY <1>0, <3>1, <3>3 DEF SlotsAccounted
  <2>2. CASE waiters # << >>
    <3> DEFINE w == Head(waiters)
    <3>1. /\ pc[r] = "settled" /\ pc' = [pc EXCEPT ![r] = "done", ![w] = "granted"]
          /\ active' = active
      BY <1>6, <2>2 DEF Release
    <3>2. w \in Run /\ pc[w] = "waiting"
      BY <2>2, HeadWaits
    <3>3. Holding' = (Holding \ {r}) \cup {w} /\ r \in Holding /\ w \notin Holding \ {r}
      BY <3>1, <3>2 DEF Holding, TypeOK
    <3>4. IsFiniteSet(Holding \ {r}) /\ Cardinality(Holding \ {r}) = active - 1
      BY <1>0, <3>3, HoldingFinite, FS_RemoveElement
    <3>5. Cardinality(Holding') = active
      <4>1. Cardinality((Holding \ {r}) \cup {w}) = (active - 1) + 1
        BY <3>3, <3>4, FS_AddElement
      <4> QED BY <1>0, <3>3, <4>1
    <3>6. active = MaxWorkers
      BY <2>2 DEF SlotsAccounted
    <3> QED BY <1>0, <3>1, <3>5, <3>6 DEF SlotsAccounted
  <2> QED BY <2>1, <2>2
<1>7. CASE UNCHANGED coreVars
  <2>1. Holding' = Holding
    BY <1>7 DEF coreVars, Holding
  <2> QED BY <1>1, <1>7, <2>1 DEF coreVars
<1> QED
  BY <1>2, <1>3, <1>4, <1>5, <1>6, <1>7 DEF CoreStep, Schedule

-----------------------------------------------------------------------------
(* The inductive invariant and what follows from it                        *)

IInv == TypeOK /\ NoLostWaiter /\ QueueChained /\ ProjectSerialized /\ SlotsAccounted

LEMMA InitIInv == Init => IInv
BY InitType, InitWaiters, InitChain, InitSlots DEF IInv

LEMMA NextIInv == IInv /\ [Next]_vars => IInv'
BY NextType, StepCases, StepWaiters, StepChain, StepSerialized, StepSlots DEF IInv

LEMMA InductiveInvariant == Spec => []IInv
<1> QED BY InitIInv, NextIInv, PTL DEF Spec

\* A project's runs execute one at a time and in request order, for any
\* number of projects, runs, plans and workers.
THEOREM Serialization == Spec => []ProjectSerialized
<1>1. IInv => ProjectSerialized
  BY DEF IInv
<1> QED BY <1>1, InductiveInvariant, PTL

\* Every run is chained behind the newest earlier request of its project.
THEOREM Chaining == Spec => []QueueChained
<1>1. IInv => QueueChained
  BY DEF IInv
<1> QED BY <1>1, InductiveInvariant, PTL

\* activeWorkers counts the runs that hold a slot, stays within the cap, and
\* reaches it whenever a run waits.
THEOREM SlotAccounting == Spec => []SlotsAccounted
<1>1. IInv => SlotsAccounted
  BY DEF IInv
<1> QED BY <1>1, InductiveInvariant, PTL

\* The waiter list holds exactly the waiting runs, once each.
THEOREM WaitersKept == Spec => []NoLostWaiter
<1>1. IInv => NoLostWaiter
  BY DEF IInv
<1> QED BY <1>1, InductiveInvariant, PTL

-----------------------------------------------------------------------------
(* Nothing blocks: the earliest unsettled run of a project is due, holds a   *)
(* slot, or waits for one that another run holds.                          *)

\* A nonempty set of naturals has a least element.
LEMMA LeastNumber ==
    ASSUME NEW T \in SUBSET Nat, T # {}
    PROVE  \E x \in T : \A y \in T : x <= y
<1> DEFINE R == OpToRel(<, Nat)
<1>1. IsWellFoundedOn(R, Nat)
  BY NatLessThanWellFounded
<1>2. \A x, y \in Nat : <<y, x>> \in R <=> y < x
  BY DEF OpToRel
<1> HIDE DEF R
<1>3. PICK x \in T : \A y \in T : ~(<<y, x>> \in R)
  BY <1>1, WFMin
<1>4. ASSUME NEW y \in T PROVE x <= y
  <2>1. x \in Nat /\ y \in Nat
    OBVIOUS
  <2>2. ~(y < x)
    BY <1>2, <1>3, <2>1
  <2> QED BY <2>1, <2>2
<1> QED BY <1>4

LEMMA WaitingHeld ==
    ASSUME IInv, NEW r \in Run, pc[r] = "waiting"
    PROVE  Holding # {}
<1>1. waiters # << >>
  BY DEF IInv, NoLostWaiter
<1>2. Cardinality(Holding) = MaxWorkers
  BY <1>1 DEF IInv, SlotsAccounted
<1> QED BY <1>2, FS_EmptySet, WorkersAssumption

LEMMA NothingBlocks == IInv => NoDeadlock
<1> SUFFICES ASSUME IInv, NEW r \in Run, pc[r] \notin {"unused", "done"}
             PROVE  \E q \in Run : /\ q <= r /\ proj[q] = proj[r]
                                   /\ \/ Due(q) \/ q \in Holding
                                      \/ pc[q] = "waiting" /\ Holding # {}
  BY DEF NoDeadlock
<1> DEFINE T == {q \in Run : q <= r /\ proj[q] = proj[r] /\ pc[q] # "done"}
<1>1. Run \subseteq Nat
  BY DEF Run
<1>2. PICK q \in T : \A x \in T : q <= x
  <2>1. r \in T
    BY <1>1
  <2>2. T \in SUBSET Nat
    BY <1>1
  <2> HIDE DEF T
  <2> QED BY <2>1, <2>2, LeastNumber
<1>3. pc[q] # "unused"
  <2>1. ~(nextRun < r) /\ nextRun \in Nat /\ q \in Nat /\ r \in Nat /\ q <= r
    BY <1>1 DEF IInv, QueueChained, TypeOK
  <2> QED BY <2>1 DEF IInv, QueueChained
<1>4. CASE pc[q] = "queued"
  <2>1. prev[q] # NoRun => pc[prev[q]] = "done"
    <3>1. SUFFICES ASSUME prev[q] # NoRun PROVE pc[prev[q]] = "done"
      OBVIOUS
    <3>2. prev[q] < q /\ proj[prev[q]] = proj[q] /\ prev[q] \in Run
      BY <1>3, <3>1 DEF IInv, QueueChained, TypeOK
    <3>3. prev[q] \notin T
      <4>1. q \in Nat /\ prev[q] \in Nat
        BY <1>1, <3>2
      <4>2. ~(q <= prev[q])
        BY <3>2, <4>1
      <4> QED BY <1>2, <4>2
    <3>4. prev[q] <= r /\ proj[prev[q]] = proj[r]
      <4>1. q \in Nat /\ prev[q] \in Nat /\ r \in Nat
        BY <1>1, <3>2
      <4> QED BY <3>2, <4>1
    <3> QED BY <3>2, <3>3, <3>4
  <2> QED BY <1>4, <2>1 DEF Due
<1>5. CASE pc[q] = "waiting"
  BY <1>5, WaitingHeld
<1>6. CASE pc[q] \in {"granted", "running", "settled"}
  BY <1>6 DEF Holding
<1> QED BY <1>3, <1>4, <1>5, <1>6 DEF IInv, TypeOK

\* No unsettled run is blocked for ever by the state of the orchestrator: one of
\* its project, itself or an earlier one, has a callback due or a slot, or waits
\* for a slot that a run with a callback or a timer of its own will give back.
THEOREM DeadlockFree == Spec => []NoDeadlock
BY NothingBlocks, InductiveInvariant, PTL
===============================================================================
