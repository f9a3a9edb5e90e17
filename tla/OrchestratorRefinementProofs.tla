--------------------- MODULE OrchestratorRefinementProofs ---------------------
(* The orchestrator implements RunQueue, for every value of the constants. *)
EXTENDS OrchestratorRefinement, OrchestratorProofs

LEMMA AbstractValues ==
    /\ Abstract("unused") = "none"
    /\ Abstract("queued") = "pending" /\ Abstract("waiting") = "pending"
    /\ Abstract("granted") = "pending"
    /\ Abstract("running") = "executing" /\ Abstract("settled") = "executing"
    /\ Abstract("done") = "settled"
BY DEF Abstract

LEMMA InitMaps == Init => Queue!Init
<1> SUFFICES ASSUME Init PROVE Queue!Init
  OBVIOUS
<1>1. TypeOK
  BY InitType
<1>2. proj \in [Queue!Request -> Project] /\ Queue!Request = Run
  BY <1>1 DEF TypeOK, Queue!Request, Run
<1>3. AbstractStatus = [r \in Run |-> "none"]
  BY AbstractValues DEF Init, AbstractStatus
<1> QED
  BY <1>2, <1>3 DEF Init, Queue!Init

\* The slots of executing runs are among the slots held, so one is free
\* whenever a granted run forks its worker.
LEMMA ForkHasRoom ==
    ASSUME IInv, NEW r \in Run, pc[r] = "granted"
    PROVE  Cardinality(Queue!Executing) < MaxWorkers
<1>1. Queue!Executing \in SUBSET (Holding \ {r})
  <2>1. \A q \in Run : Abstract(pc[q]) = "executing" => pc[q] \in {"running", "settled"}
    BY AbstractValues DEF IInv, TypeOK
  <2> QED
    BY <2>1 DEF Queue!Executing, Queue!Request, AbstractStatus, Holding, Run
<1>2. r \in Holding
  BY DEF Holding
<1>3. IsFiniteSet(Holding \ {r}) /\ Cardinality(Holding \ {r}) = Cardinality(Holding) - 1
  BY <1>2, HoldingFinite, FS_RemoveElement
<1>4. Cardinality(Queue!Executing) <= Cardinality(Holding) - 1
  BY <1>1, <1>3, FS_Subset
<1>5. IsFiniteSet(Queue!Executing)
  BY <1>1, <1>3, FS_Subset
<1>6. Cardinality(Queue!Executing) \in Nat
  BY <1>5, FS_CardinalityType
<1>7. Cardinality(Holding) \in Nat /\ Cardinality(Holding) <= MaxWorkers /\ MaxWorkers \in Nat
  BY HoldingFinite, WorkersAssumption DEF IInv, SlotsAccounted
<1> QED BY <1>4, <1>6, <1>7

\* A run that has left the queue is preceded by settled runs only.
LEMMA TurnComes ==
    ASSUME IInv, NEW r \in Run, pc[r] \notin {"unused", "queued"}
    PROVE  Queue!Turn(r)
BY AbstractValues DEF IInv, TypeOK, ProjectSerialized, Queue!Turn, Queue!Request, AbstractStatus, Run

LEMMA StepMaps == IInv /\ IInv' /\ CoreStep => [Queue!Next]_Queue!vars
<1> SUFFICES ASSUME IInv, IInv', CoreStep PROVE Queue!Next \/ UNCHANGED Queue!vars
  OBVIOUS
<1>0. TypeOK /\ NoLostWaiter /\ ProjectSerialized' /\ TypeOK'
  BY DEF IInv
<1>1. ASSUME NEW p \in Project, NEW s \in Selection, NEW i \in PlanId \cup {NoPlan},
             Enqueue(p, s, i)
      PROVE  Queue!Accept(p)
  <2>1. nextRun + 1 \in Run
    BY <1>0, <1>1, BoundsAssumption DEF Enqueue, TypeOK, Run
  <2>2. AbstractStatus' = [AbstractStatus EXCEPT ![nextRun + 1] = "pending"]
    BY <1>0, <1>1, <2>1, AbstractValues DEF Enqueue, AbstractStatus, TypeOK
  <2> QED BY <1>0, <1>1, <2>2 DEF Enqueue, Queue!Accept
<1>2. ASSUME NEW r \in Run, CompleteEmpty(r) PROVE Queue!Settle(r)
  <2>1. pc[r] = "queued" /\ pc' = [pc EXCEPT ![r] = "done"] /\ proj' = proj /\ nextRun' = nextRun
    BY <1>2 DEF CompleteEmpty, Due, requestVars
  <2>2. AbstractStatus' = [AbstractStatus EXCEPT ![r] = "settled"]
    BY <1>0, <2>1, AbstractValues DEF AbstractStatus, TypeOK
  <2>3. \A q \in Run : (q < r /\ proj[q] = proj[r]) => pc[q] = "done"
    <3>1. ASSUME NEW q \in Run, q < r, proj[q] = proj[r] PROVE pc'[q] = "done"
      BY <1>0, <2>1, <3>1 DEF ProjectSerialized, TypeOK
    <3>2. \A q \in Run : q < r => q # r
      BY RunsAreIntegers
    <3> QED BY <1>0, <2>1, <3>1, <3>2 DEF TypeOK
  <2>4. Queue!Turn(r)
    BY <2>3, AbstractValues DEF Queue!Turn, Queue!Request, AbstractStatus, Run
  <2>5. AbstractStatus[r] = "pending"
    BY <1>0, <2>1, AbstractValues DEF AbstractStatus
  <2> QED BY <2>1, <2>2, <2>4, <2>5 DEF Queue!Settle
<1>3. ASSUME NEW r \in Run, Acquire(r) \/ Wait(r) PROVE UNCHANGED Queue!vars
  <2>1. PICK x \in {"granted", "waiting"} : pc' = [pc EXCEPT ![r] = x]
    BY <1>3 DEF Acquire, Wait
  <2>2. pc[r] = "queued" /\ proj' = proj /\ nextRun' = nextRun
    BY <1>3 DEF Acquire, Wait, Due, requestVars
  <2>3. AbstractStatus' = AbstractStatus
    BY <1>0, <2>1, <2>2, AbstractValues DEF AbstractStatus, TypeOK
  <2> QED BY <2>2, <2>3 DEF Queue!vars
<1>4. ASSUME NEW r \in Run, Fork(r) PROVE Queue!Start(r)
  <2>1. pc[r] = "granted" /\ pc' = [pc EXCEPT ![r] = "running"] /\ proj' = proj /\ nextRun' = nextRun
    BY <1>4 DEF Fork, requestVars
  <2>2. AbstractStatus' = [AbstractStatus EXCEPT ![r] = "executing"] /\ AbstractStatus[r] = "pending"
    BY <1>0, <2>1, AbstractValues DEF AbstractStatus, TypeOK
  <2>3. Queue!Turn(r)
    BY <2>1, TurnComes
  <2>4. Queue!Cardinality(Queue!Executing) < MaxWorkers
    BY <2>1, ForkHasRoom DEF Cardinality, Queue!Cardinality
  <2> QED BY <2>1, <2>2, <2>3, <2>4 DEF Queue!Start
<1>5. ASSUME NEW r \in Run, Release(r) PROVE Queue!Settle(r)
  <2>1. pc[r] = "settled" /\ proj' = proj /\ nextRun' = nextRun
    BY <1>5 DEF Release, requestVars
  <2>2. AbstractStatus' = [AbstractStatus EXCEPT ![r] = "settled"] /\ AbstractStatus[r] = "executing"
    <3>1. CASE waiters = << >>
      <4>1. pc' = [pc EXCEPT ![r] = "done"]
        BY <1>5, <3>1 DEF Release
      <4> QED BY <1>0, <2>1, <4>1, AbstractValues DEF AbstractStatus, TypeOK
    <3>2. CASE waiters # << >>
      <4>1. pc' = [pc EXCEPT ![r] = "done", ![Head(waiters)] = "granted"]
        BY <1>5, <3>2 DEF Release
      <4>2. Head(waiters) \in Run /\ pc[Head(waiters)] = "waiting"
        BY <1>0, <3>2, HeadWaits
      <4>3. ASSUME NEW q \in Run
            PROVE  AbstractStatus'[q] = IF q = r THEN "settled" ELSE AbstractStatus[q]
        <5>0. AbstractStatus'[q] = Abstract(pc'[q]) /\ AbstractStatus[q] = Abstract(pc[q])
          BY DEF AbstractStatus, Abstract
        <5>1. pc'[q] = IF q = Head(waiters) THEN "granted" ELSE IF q = r THEN "done" ELSE pc[q]
          BY <1>0, <4>1, <4>2 DEF TypeOK
        <5>2. Head(waiters) # r
          BY <2>1, <4>2
        <5> QED BY <2>1, <4>2, <5>0, <5>1, <5>2, AbstractValues
      <4>4. AbstractStatus[r] = "executing"
        BY <2>1, AbstractValues DEF AbstractStatus
      <4>5. AbstractStatus' = [q \in Run |-> AbstractStatus'[q]]
            /\ AbstractStatus = [q \in Run |-> AbstractStatus[q]]
        BY DEF AbstractStatus
      <4> QED BY <4>3, <4>4, <4>5
    <3> QED BY <3>1, <3>2
  <2> QED BY <2>1, <2>2 DEF Queue!Settle
<1>6. ASSUME NEW r \in Run, Settle(r) PROVE UNCHANGED Queue!vars
  <2>1. pc[r] = "running" /\ pc' = [pc EXCEPT ![r] = "settled"] /\ proj' = proj /\ nextRun' = nextRun
    BY <1>6 DEF Settle
  <2>2. AbstractStatus' = AbstractStatus
    BY <1>0, <2>1, AbstractValues DEF AbstractStatus, TypeOK
  <2> QED BY <2>1, <2>2 DEF Queue!vars
<1>7. CASE UNCHANGED coreVars
  BY <1>7, AbstractValues DEF coreVars, Queue!vars, AbstractStatus
<1>8. Queue!Request = Run
  BY DEF Queue!Request, Run
<1> QED
  BY <1>0, <1>1, <1>2, <1>3, <1>4, <1>5, <1>6, <1>7, <1>8 DEF CoreStep, Schedule, Queue!Next

\* Every behaviour of the orchestrator is one the abstract queue allows: each
\* project executes its requests one at a time in arrival order, at most
\* MaxWorkers at once.
THEOREM Implementation == Spec => ImplementsRunQueue
<1>1. IInv /\ IInv' /\ [Next]_vars => [Queue!Next]_Queue!vars
  BY StepCases, StepMaps DEF IInv
<1> QED
  BY <1>1, InitMaps, InductiveInvariant, PTL DEF Spec, ImplementsRunQueue, Queue!Spec

===============================================================================
