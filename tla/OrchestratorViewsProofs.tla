----------------------- MODULE OrchestratorViewsProofs -----------------------
(***************************************************************************)
(* Theorems about what the orchestrator publishes: the run state, failure  *)
(* details, history and snapshot of a project are those of the right run,  *)
(* and a settled run leaves no worker behind.  They rest on the order of   *)
(* the queue: when a run settles, every earlier run of its project has     *)
(* settled and no later one has begun.  The last theorems are about the    *)
(* tools that read these views: a caller is told of its own run.           *)
(***************************************************************************)
EXTENDS OrchestratorProofs, RunTestsTool

-----------------------------------------------------------------------------
(* The steps that matter to the views                                      *)

\* A run's promise settles when its handler does, and not before.
OutcomeAtFinish == \A r \in Run : outcome[r] = "pending" <=> pc[r] \notin {"settled", "done"}

shownVars == <<nextRun, proj, sel, planOf, outcome, viewVars>>

\* A step that neither requests, starts, settles nor reports on a run.
Quiet == /\ UNCHANGED shownVars
         /\ \A r \in Run : /\ pc'[r] = "running" <=> pc[r] = "running"
                           /\ pc'[r] \in {"settled", "done"} <=> pc[r] \in {"settled", "done"}

Settles(r) == CompleteEmpty(r) \/ (pc[r] = "running" /\ (OnResult(r) \/ FailRun(r)))

ViewStep ==
    \/ \E p \in Project, s \in Selection, i \in PlanId \cup {NoPlan} : Enqueue(p, s, i)
    \/ \E r \in Run : Fork(r) \/ Settles(r) \/ OnProgress(r)
    \/ Quiet

LEMMA ViewCases == IInv /\ [Next]_vars => ViewStep
<1> SUFFICES ASSUME IInv, [Next]_vars PROVE ViewStep
  OBVIOUS
<1> USE DEF requestVars, slotVars, workerVars, viewVars, planVars, shownVars
<1>0. TypeOK /\ NoLostWaiter
  BY DEF IInv
<1>1. ASSUME NEW p \in Project, NEW s \in Requests, StartRun(p, s) PROVE ViewStep
  BY <1>1, SelectionTypes DEF StartRun, ViewStep
<1>2. ASSUME NEW p \in Project, NEW s \in Requests, DryRun(p, s) PROVE ViewStep
  BY <1>2 DEF DryRun, ViewStep, Quiet
<1>3. ASSUME NEW p \in Project, NEW i \in PlanId, CommitPlan(p, i) PROVE ViewStep
  <2>1. Committed(plans[i].sel) \in Selection
    BY <1>0, SelectionTypes, PlanUpdates DEF TypeOK
  <2> QED BY <1>3, <2>1 DEF CommitPlan, ViewStep
<1>4. ASSUME NEW p \in Project, NEW i \in PlanId, RejectPlan(p, i) \/ Expire(i) PROVE ViewStep
  BY <1>4 DEF RejectPlan, Expire, ViewStep, Quiet
<1>5. ASSUME NEW r \in Run, Acquire(r) \/ Wait(r) PROVE ViewStep
  <2>1. PICK x \in {"granted", "waiting"} : pc' = [pc EXCEPT ![r] = x]
    BY <1>5 DEF Acquire, Wait
  <2>2. pc[r] = "queued" /\ UNCHANGED shownVars
    BY <1>5 DEF Acquire, Wait, Due
  <2>3. Quiet
    BY <1>0, <2>1, <2>2 DEF Quiet, TypeOK
  <2> QED BY <2>3 DEF ViewStep
<1>6. ASSUME NEW r \in Run, Release(r) PROVE ViewStep
  <2>1. pc[r] = "settled" /\ UNCHANGED shownVars
    BY <1>6 DEF Release
  <2>2. CASE waiters = << >>
    <3>1. pc' = [pc EXCEPT ![r] = "done"]
      BY <1>6, <2>2 DEF Release
    <3>2. Quiet
      BY <1>0, <2>1, <3>1 DEF Quiet, TypeOK
    <3> QED BY <3>2 DEF ViewStep
  <2>3. CASE waiters # << >>
    <3>1. PICK w \in Run : w = Head(waiters) /\ pc[w] = "waiting"
      BY <1>0, <2>3, HeadWaits
    <3>2. pc' = [pc EXCEPT ![r] = "done", ![w] = "granted"]
      BY <1>6, <2>3, <3>1 DEF Release
    <3>3. Quiet
      BY <1>0, <2>1, <3>1, <3>2 DEF Quiet, TypeOK
    <3> QED BY <3>3 DEF ViewStep
  <2> QED BY <2>2, <2>3
<1>7. ASSUME NEW r \in Run, CompleteEmpty(r) \/ Fork(r) PROVE ViewStep
  BY <1>7 DEF ViewStep, Settles
<1>8. ASSUME NEW r \in Run, Handle(r) \/ OnTimeout(r) PROVE ViewStep
  <2>1. CASE OnReady(r) \/ OnCase(r)
    BY <2>1 DEF OnReady, OnCase, ViewStep, Quiet
  <2>2. CASE OnProgress(r)
    BY <2>2 DEF ViewStep
  <2>3. CASE OnResult(r) \/ OnReadySendFailed(r) \/ OnBadMessage(r) \/ OnExit(r) \/ OnTimeout(r)
    BY <2>3 DEF OnResult, OnReadySendFailed, OnBadMessage, OnExit, OnTimeout, Incoming,
                ViewStep, Settles
  <2> QED BY <1>8, <2>1, <2>2, <2>3 DEF Handle
<1>9. ASSUME NEW r \in Run, WorkerStep(r) PROVE ViewStep
  BY <1>9 DEF WorkerStep, WorkerReady, WorkerSignal, WorkerResult, WorkerBad, WorkerExit,
              WorkerFrame, ViewStep, Quiet
<1>10. CASE UNCHANGED vars
  BY <1>10 DEF vars, ViewStep, Quiet
<1> QED
  BY <1>1, <1>2, <1>3, <1>4, <1>5, <1>6, <1>7, <1>8, <1>9, <1>10, ProjectAssumption
  DEF Next, Request, Schedule

-----------------------------------------------------------------------------
(* When a run's turn has come                                              *)

\* The turn of a run: its callback is due, or it holds a slot.
Turn(r) == Due(r) \/ pc[r] \in {"granted", "running"}

\* Its earlier neighbours are done, its later ones have not begun.
LEMMA AloneAtTurn ==
    ASSUME IInv, NEW r \in Run, Turn(r), NEW q \in Run, proj[q] = proj[r]
    PROVE  /\ q < r => pc[q] = "done"
           /\ r < q => pc[q] \in {"unused", "queued"}
<1>0. TypeOK /\ QueueChained /\ ProjectSerialized
  BY DEF IInv
<1>1. ASSUME q < r PROVE pc[q] = "done"
  <2>1. CASE pc[r] # "queued"
    BY <1>0, <1>1, <2>1 DEF Turn, Due, ProjectSerialized
  <2>2. CASE pc[r] = "queued"
    <3>1. q <= prev[r] /\ (prev[r] # NoRun => proj[prev[r]] = proj[r])
      BY <1>0, <1>1, <2>2 DEF QueueChained
    <3>2. prev[r] \in Run
      BY <1>0, <3>1, RunsAreIntegers DEF TypeOK, NoRun
    <3>3. pc[prev[r]] = "done"
      BY <2>2, <3>2, RunsAreIntegers DEF Turn, Due
    <3>4. CASE q = prev[r]
      BY <3>3, <3>4
    <3>5. CASE q # prev[r]
      <4>1. q \in Int /\ prev[r] \in Int
        BY <3>2, RunsAreIntegers
      <4>2. q < prev[r]
        BY <3>1, <3>5, <4>1
      <4> QED BY <1>0, <3>1, <3>2, <3>3, <4>2, RunsAreIntegers DEF ProjectSerialized
    <3> QED BY <3>4, <3>5
  <2> QED BY <2>1, <2>2
<1>2. ASSUME r < q PROVE pc[q] \in {"unused", "queued"}
  BY <1>0, <1>2 DEF Turn, Due, ProjectSerialized
<1> QED BY <1>1, <1>2

\* A request is numbered beyond every run that was ever shown.
LEMMA FreshRun ==
    ASSUME IInv, OutcomeAtFinish, NEW p \in Project, NEW s \in Selection,
           NEW i \in PlanId \cup {NoPlan}, Enqueue(p, s, i)
    PROVE  \E n \in Run :
              /\ n = nextRun + 1 /\ pc[n] = "unused" /\ outcome[n] = "pending"
              /\ nextRun' = n
              /\ proj' = [proj EXCEPT ![n] = p]
              /\ sel' = [sel EXCEPT ![n] = s]
              /\ planOf' = [planOf EXCEPT ![n] = i]
              /\ pc' = [pc EXCEPT ![n] = "queued"]
              /\ UNCHANGED <<outcome, workerVars, viewVars>>
<1>1. nextRun + 1 \in Run /\ pc[nextRun + 1] = "unused"
  BY BoundsAssumption DEF Enqueue, IInv, TypeOK, Run, QueueChained
<1>2. outcome[nextRun + 1] = "pending"
  BY <1>1 DEF OutcomeAtFinish
<1> QED BY <1>1, <1>2 DEF Enqueue, workerVars, viewVars

LEMMA InitOutcome == Init => OutcomeAtFinish
BY DEF Init, OutcomeAtFinish

\* What settling does to the promises.
LEMMA SettlesOutcome ==
    ASSUME IInv, NEW r \in Run, Settles(r)
    PROVE  /\ UNCHANGED <<nextRun, proj, sel, planOf>>
           /\ Turn(r) /\ pc[r] \in {"queued", "running"}
           /\ \E x \in {"complete", "error"}, y \in {"settled", "done"} :
                 outcome' = [outcome EXCEPT ![r] = x] /\ pc' = [pc EXCEPT ![r] = y]
<1> USE DEF requestVars
<1>1. CASE CompleteEmpty(r)
  BY <1>1 DEF CompleteEmpty, Turn, Due
<1>2. CASE pc[r] = "running" /\ OnResult(r)
  BY <1>2 DEF OnResult, Finish, Turn
<1>3. CASE pc[r] = "running" /\ FailRun(r)
  BY <1>3 DEF FailRun, Finish, Turn
<1> QED BY <1>1, <1>2, <1>3 DEF Settles

LEMMA NextOutcome == IInv /\ OutcomeAtFinish /\ [Next]_vars => OutcomeAtFinish'
<1> SUFFICES ASSUME IInv, OutcomeAtFinish, [Next]_vars PROVE OutcomeAtFinish'
  OBVIOUS
<1>0. TypeOK /\ ViewStep
  BY ViewCases DEF IInv
<1>1. ASSUME NEW p \in Project, NEW s \in Selection, NEW i \in PlanId \cup {NoPlan},
             Enqueue(p, s, i)
      PROVE  OutcomeAtFinish'
  BY <1>0, <1>1, FreshRun DEF OutcomeAtFinish, TypeOK
<1>2. ASSUME NEW r \in Run, Fork(r) PROVE OutcomeAtFinish'
  BY <1>0, <1>2 DEF Fork, OutcomeAtFinish, TypeOK
<1>3. ASSUME NEW r \in Run, Settles(r) PROVE OutcomeAtFinish'
  BY <1>0, <1>3, SettlesOutcome DEF OutcomeAtFinish, TypeOK
<1>4. ASSUME NEW r \in Run, OnProgress(r) PROVE OutcomeAtFinish'
  BY <1>4 DEF OnProgress, OutcomeAtFinish
<1>5. CASE Quiet
  BY <1>5 DEF Quiet, shownVars, OutcomeAtFinish
<1> QED BY <1>0, <1>1, <1>2, <1>3, <1>4, <1>5 DEF ViewStep

LEMMA OutcomeInvariant == Spec => [](IInv /\ OutcomeAtFinish)
<1> QED BY InitIInv, NextIInv, InitOutcome, NextOutcome, PTL DEF Spec

\* No event that races with the deciding one changes how a run settled.
THEOREM SettledForGood == Spec => SettlesOnce
<1>1. ASSUME IInv, OutcomeAtFinish, [Next]_vars
      PROVE  [\A r \in Run : outcome[r] # "pending" => outcome'[r] = outcome[r]]_vars
  <2> SUFFICES ASSUME NEW r \in Run, outcome[r] # "pending" PROVE outcome'[r] = outcome[r]
    OBVIOUS
  <2>0. TypeOK /\ ViewStep /\ pc[r] \in {"settled", "done"}
    BY <1>1, ViewCases DEF IInv, OutcomeAtFinish
  <2>1. ASSUME NEW x \in Run, Settles(x) PROVE outcome'[r] = outcome[r]
    BY <1>1, <2>0, <2>1, SettlesOutcome DEF TypeOK
  <2>2. ASSUME NEW p \in Project, NEW s \in Selection, NEW i \in PlanId \cup {NoPlan},
               Enqueue(p, s, i)
        PROVE  outcome'[r] = outcome[r]
    BY <2>2 DEF Enqueue
  <2>3. ASSUME NEW x \in Run, Fork(x) \/ OnProgress(x) PROVE outcome'[r] = outcome[r]
    BY <2>3 DEF Fork, OnProgress
  <2>4. CASE Quiet
    BY <2>4 DEF Quiet, shownVars
  <2> QED BY <2>0, <2>1, <2>2, <2>3, <2>4 DEF ViewStep
<1> QED BY <1>1, OutcomeInvariant, PTL DEF Spec, SettlesOnce

-----------------------------------------------------------------------------
(* The newest of the runs shown                                            *)

Executing(p) == {r \in Run : proj[r] = p /\ pc[r] = "running"}
Shown(p) == Settled(p) \cup Executing(p)

LEMMA NewestIs ==
    ASSUME NEW S \in SUBSET Run, NEW r \in S, \A q \in S : q <= r
    PROVE  Newest(S) = r
<1>1. \E x \in S : \A q \in S : q <= x
  OBVIOUS
<1>2. ASSUME NEW x \in S, \A q \in S : q <= x PROVE x = r
  <2>1. x \in Int /\ r \in Int /\ x <= r /\ r <= x
    BY <1>2, RunsAreIntegers
  <2> QED BY <2>1
<1> QED BY <1>1, <1>2 DEF Newest

LEMMA ShownAreRuns ==
    ASSUME TypeOK, NEW p \in Project
    PROVE  Settled(p) \subseteq Run /\ Ran(p) \subseteq Run /\ Shown(p) \subseteq Run
BY BoundsAssumption DEF TypeOK, Settled, Ran, Shown, Executing, Run

\* Of the runs requested so far, those whose promise has settled.
LEMMA SettledMeaning ==
    ASSUME IInv, OutcomeAtFinish, NEW p \in Project, NEW r \in Run
    PROVE  r \in Settled(p) <=> proj[r] = p /\ outcome[r] # "pending"
<1>1. outcome[r] # "pending" => ~(nextRun < r)
  BY DEF IInv, OutcomeAtFinish, QueueChained
<1>2. ~(nextRun < r) => r \in 1 .. nextRun
  BY BoundsAssumption DEF Run, IInv, TypeOK
<1>3. r \in 1 .. nextRun => ~(nextRun < r)
  BY BoundsAssumption DEF Run, IInv, TypeOK
<1> QED BY <1>1, <1>2, <1>3 DEF Settled

SettledIsOutcome ==
    \A p \in Project : /\ Settled(p) \subseteq Run
                       /\ \A r \in Run : r \in Settled(p) <=> proj[r] = p /\ outcome[r] # "pending"

LEMMA SettledNow == IInv /\ OutcomeAtFinish => SettledIsOutcome
BY SettledMeaning, ShownAreRuns DEF IInv, SettledIsOutcome

LEMMA SettledNext == IInv' /\ OutcomeAtFinish' => SettledIsOutcome'
BY SettledNow, PTL

\* A run whose turn has come is newer than all that are shown, and no other
\* run of its project is being executed.
LEMMA NewestAtTurn ==
    ASSUME IInv, OutcomeAtFinish, NEW r \in Run, Turn(r), NEW p \in Project, p = proj[r]
    PROVE  /\ \A q \in Shown(p) : q <= r
           /\ \A q \in Shown(p) \ {r} : q < r
           /\ Executing(p) \subseteq {r}
           /\ r \notin Settled(p)
           /\ \A q \in Settled(p) : q < r
<1>0. TypeOK /\ Shown(p) \subseteq Run /\ Settled(p) \subseteq Run
  BY ShownAreRuns DEF IInv
<1>1. ASSUME NEW q \in Run, proj[q] = p, q # r
      PROVE  (q < r /\ pc[q] = "done") \/ (r < q /\ pc[q] \in {"unused", "queued"})
  <2>1. q \in Int /\ r \in Int
    BY RunsAreIntegers
  <2>2. q < r \/ r < q
    BY <1>1, <2>1
  <2>3. (q < r => pc[q] = "done") /\ (r < q => pc[q] \in {"unused", "queued"})
    BY <1>1, AloneAtTurn
  <2> QED BY <2>2, <2>3
<1>2. r \notin Settled(p)
  BY <1>0, SettledMeaning DEF Turn, Due, OutcomeAtFinish
<1>3. Executing(p) \subseteq {r}
  BY <1>1 DEF Executing
<1>4. ASSUME NEW q \in Settled(p) PROVE q < r
  <2>1. q \in Run /\ proj[q] = p /\ q # r /\ pc[q] \in {"settled", "done"}
    BY <1>0, <1>2, SettledMeaning DEF OutcomeAtFinish
  <2> QED BY <1>1, <2>1
<1>5. \A q \in Shown(p) \ {r} : q < r
  BY <1>3, <1>4 DEF Shown
<1>6. r <= r
  BY RunsAreIntegers
<1>7. ASSUME NEW q \in Shown(p) PROVE q <= r
  <2>1. q = r \/ q < r
    BY <1>5
  <2>2. q \in Int /\ r \in Int
    BY <1>0, RunsAreIntegers
  <2> QED BY <2>1, <2>2
<1> QED BY <1>2, <1>3, <1>4, <1>5, <1>7

\* How a step changes the sets of runs that have settled or are executing.
LEMMA SettlesGrows ==
    ASSUME IInv, OutcomeAtFinish, OutcomeAtFinish', IInv', NEW r \in Run, Settles(r),
           NEW p \in Project
    PROVE  /\ proj[r] = p => Settled(p)' = Settled(p) \cup {r} /\ Executing(p)' = {}
           /\ proj[r] # p => Settled(p)' = Settled(p) /\ Executing(p)' = Executing(p)
<1>0. TypeOK /\ Settled(p) \subseteq Run /\ Settled(p)' \subseteq Run
  BY SettledNow, SettledNext DEF IInv, SettledIsOutcome
<1>1. PICK x \in {"complete", "error"}, y \in {"settled", "done"} :
         outcome' = [outcome EXCEPT ![r] = x] /\ pc' = [pc EXCEPT ![r] = y]
  BY SettlesOutcome
<1>2. proj' = proj /\ nextRun' = nextRun /\ Turn(r)
  BY SettlesOutcome
<1>3. \A q \in Run : /\ q \in Settled(p) <=> proj[q] = p /\ outcome[q] # "pending"
                     /\ q \in Settled(p)' <=> proj[q] = p /\ outcome'[q] # "pending"
  <2>1. \A q \in Run : q \in Settled(p)' <=> proj'[q] = p /\ outcome'[q] # "pending"
    BY SettledNext DEF SettledIsOutcome
  <2> QED BY <1>2, <2>1, SettledMeaning
<1>4. \A q \in Run : outcome'[q] # "pending" <=> q = r \/ outcome[q] # "pending"
  BY <1>0, <1>1 DEF TypeOK
<1>5. \A q \in Run : pc'[q] = "running" <=> q # r /\ pc[q] = "running"
  BY <1>0, <1>1 DEF TypeOK
<1>6. Executing(p)' = Executing(p) \ {r}
  BY <1>2, <1>5 DEF Executing
<1>7. CASE proj[r] = p
  <2>1. Settled(p)' = Settled(p) \cup {r}
    BY <1>0, <1>3, <1>4, <1>7
  <2> QED BY <1>2, <1>6, <1>7, <2>1, NewestAtTurn
<1>8. CASE proj[r] # p
  <2>1. Settled(p)' = Settled(p)
    BY <1>0, <1>3, <1>4, <1>8
  <2> QED BY <1>6, <1>8, <2>1 DEF Executing
<1> QED BY <1>7, <1>8

LEMMA OthersKeep ==
    ASSUME IInv, OutcomeAtFinish, NEW p \in Project
    PROVE  /\ Quiet => /\ Settled(p)' = Settled(p) /\ Executing(p)' = Executing(p)
                       /\ Ran(p)' = Ran(p)
           /\ \A r \in Run : OnProgress(r) =>
                 Settled(p)' = Settled(p) /\ Executing(p)' = Executing(p) /\ Ran(p)' = Ran(p)
           /\ \A r \in Run : Fork(r) =>
                 /\ Settled(p)' = Settled(p) /\ Ran(p)' = Ran(p)
                 /\ Executing(p)' = IF proj[r] = p THEN Executing(p) \cup {r} ELSE Executing(p)
<1> USE DEF requestVars
<1>1. ASSUME Quiet PROVE /\ Settled(p)' = Settled(p) /\ Executing(p)' = Executing(p)
                         /\ Ran(p)' = Ran(p)
  BY <1>1 DEF Quiet, shownVars, Settled, Executing, Ran
<1>2. ASSUME NEW r \in Run, OnProgress(r)
      PROVE  Settled(p)' = Settled(p) /\ Executing(p)' = Executing(p) /\ Ran(p)' = Ran(p)
  BY <1>2 DEF OnProgress, Settled, Executing, Ran
<1>3. ASSUME NEW r \in Run, Fork(r)
      PROVE  /\ Settled(p)' = Settled(p) /\ Ran(p)' = Ran(p)
             /\ Executing(p)' = IF proj[r] = p THEN Executing(p) \cup {r} ELSE Executing(p)
  <2>1. pc' = [pc EXCEPT ![r] = "running"] /\ UNCHANGED <<nextRun, proj, sel, outcome>>
    BY <1>3 DEF Fork
  <2>2. \A q \in Run : pc'[q] = "running" <=> q = r \/ pc[q] = "running"
    BY <2>1 DEF IInv, TypeOK
  <2>3. Executing(p)' = IF proj[r] = p THEN Executing(p) \cup {r} ELSE Executing(p)
    BY <2>1, <2>2 DEF Executing
  <2> QED BY <2>1, <2>3 DEF Settled, Ran
<1> QED BY <1>1, <1>2, <1>3

LEMMA RequestsKeep ==
    ASSUME IInv, OutcomeAtFinish, NEW p \in Project, NEW o \in Project, NEW s \in Selection,
           NEW i \in PlanId \cup {NoPlan}, Enqueue(o, s, i), IInv', OutcomeAtFinish'
    PROVE  Settled(p)' = Settled(p) /\ Executing(p)' = Executing(p) /\ Ran(p)' = Ran(p)
<1>0. TypeOK /\ Settled(p) \subseteq Run /\ Settled(p)' \subseteq Run
  BY SettledNow, SettledNext DEF IInv, SettledIsOutcome
<1>1. PICK n \in Run :
              /\ n = nextRun + 1 /\ pc[n] = "unused" /\ outcome[n] = "pending"
              /\ nextRun' = n
              /\ proj' = [proj EXCEPT ![n] = o]
              /\ sel' = [sel EXCEPT ![n] = s]
              /\ planOf' = [planOf EXCEPT ![n] = i]
              /\ pc' = [pc EXCEPT ![n] = "queued"]
              /\ UNCHANGED <<outcome, workerVars, viewVars>>
  BY FreshRun
<1>2. \A q \in Run : q \in Settled(p)' <=> proj'[q] = p /\ outcome'[q] # "pending"
  BY SettledNext DEF SettledIsOutcome
<1>3. \A q \in Run : q # n => proj'[q] = proj[q] /\ sel'[q] = sel[q] /\ pc'[q] = pc[q]
  BY <1>0, <1>1 DEF TypeOK
<1>4. n \notin Settled(p) /\ n \notin Settled(p)'
  BY <1>1, <1>2, SettledMeaning
<1>5. Settled(p)' = Settled(p)
  <2>1. ASSUME NEW q \in Run, q # n PROVE q \in Settled(p)' <=> q \in Settled(p)
    BY <1>1, <1>2, <1>3, <2>1, SettledMeaning
  <2> QED BY <1>0, <1>4, <2>1
<1>6. pc'[n] = "queued"
  BY <1>0, <1>1 DEF TypeOK
<1>7. Executing(p)' = Executing(p)
  BY <1>1, <1>3, <1>6 DEF Executing
<1>8. Ran(p)' = Ran(p)
  BY <1>0, <1>3, <1>4, <1>5 DEF Ran
<1> QED BY <1>5, <1>7, <1>8

-----------------------------------------------------------------------------
(* Workers                                                                 *)

\* A run has a worker only from fork on, a settled run has no live one, only
\* runs with something to execute get one, and what a worker says of a full
\* selection is that it ran everything.
WorkersBelong ==
    \A r \in Run :
        /\ pc[r] \notin {"running", "settled", "done"} => worker[r] = "none" /\ chan[r] = << >>
        /\ pc[r] \in {"settled", "done"} => worker[r] \in {"none", "killed", "dead"}
        /\ pc[r] \in {"waiting", "granted", "running", "settled"} => ~sel[r].empty
        /\ \A k \in 1 .. Len(chan[r]) :
              chan[r][k].type = "result" /\ sel[r].strategy = "full" => chan[r][k].full

LEMMA InitWorkers == Init => WorkersBelong
BY DEF Init, WorkersBelong

\* Messages are handled in order, so what is left of a channel was there before.
LEMMA TailKeeps ==
    ASSUME NEW c \in Seq(Message), c # << >>
    PROVE  /\ Head(c) = c[1] /\ 1 \in 1 .. Len(c)
           /\ \A k \in 1 .. Len(Tail(c)) : k + 1 \in 1 .. Len(c) /\ Tail(c)[k] = c[k + 1]
OBVIOUS

LEMMA RequestWorkers ==
    ASSUME IInv, OutcomeAtFinish, WorkersBelong, NEW p \in Project, NEW s \in Selection,
           NEW i \in PlanId \cup {NoPlan}, Enqueue(p, s, i)
    PROVE  WorkersBelong'
<1>1. PICK n \in Run :
              /\ n = nextRun + 1 /\ pc[n] = "unused" /\ outcome[n] = "pending"
              /\ nextRun' = n
              /\ proj' = [proj EXCEPT ![n] = p]
              /\ sel' = [sel EXCEPT ![n] = s]
              /\ planOf' = [planOf EXCEPT ![n] = i]
              /\ pc' = [pc EXCEPT ![n] = "queued"]
              /\ UNCHANGED <<outcome, workerVars, viewVars>>
  BY FreshRun
<1>2. worker[n] = "none" /\ chan[n] = << >>
  BY <1>1 DEF WorkersBelong
<1>3. pc'[n] = "queued" /\ \A q \in Run : q # n => pc'[q] = pc[q] /\ sel'[q] = sel[q]
  BY <1>1 DEF IInv, TypeOK
<1> QED BY <1>1, <1>2, <1>3 DEF WorkersBelong, workerVars

LEMMA FailWorkers ==
    ASSUME IInv, WorkersBelong, NEW r \in Run, pc[r] = "running", FailRun(r)
    PROVE  WorkersBelong'
BY DEF IInv, TypeOK, WorkersBelong, FailRun, Finish, requestVars

LEMMA ScheduleWorkers ==
    ASSUME IInv, WorkersBelong, NEW r \in Run, Schedule(r)
    PROVE  WorkersBelong'
<1> USE DEF requestVars, workerVars
<1>0. TypeOK /\ NoLostWaiter
  BY DEF IInv
<1>1. CASE CompleteEmpty(r)
  BY <1>0, <1>1 DEF CompleteEmpty, Due, WorkersBelong, TypeOK
<1>2. CASE Acquire(r) \/ Wait(r)
  <2>1. PICK x \in {"granted", "waiting"} : pc' = [pc EXCEPT ![r] = x]
    BY <1>2 DEF Acquire, Wait
  <2>2. pc[r] = "queued" /\ ~sel[r].empty /\ UNCHANGED <<sel, worker, chan>>
    BY <1>2 DEF Acquire, Wait, Due
  <2> QED BY <1>0, <2>1, <2>2 DEF WorkersBelong, TypeOK
<1>3. CASE Fork(r)
  BY <1>0, <1>3 DEF Fork, WorkersBelong, TypeOK
<1>4. CASE Release(r)
  <2>1. pc[r] = "settled" /\ UNCHANGED <<sel, worker, chan>>
    BY <1>4 DEF Release
  <2>2. CASE waiters = << >>
    <3>1. pc' = [pc EXCEPT ![r] = "done"]
      BY <1>4, <2>2 DEF Release
    <3> QED BY <1>0, <2>1, <3>1 DEF WorkersBelong, TypeOK
  <2>3. CASE waiters # << >>
    <3>1. PICK w \in Run : w = Head(waiters) /\ pc[w] = "waiting"
      BY <1>0, <2>3, HeadWaits
    <3>2. pc' = [pc EXCEPT ![r] = "done", ![w] = "granted"]
      BY <1>4, <2>3, <3>1 DEF Release
    <3> QED BY <1>0, <2>1, <3>1, <3>2 DEF WorkersBelong, TypeOK
  <2> QED BY <2>2, <2>3
<1> QED BY <1>1, <1>2, <1>3, <1>4 DEF Schedule

LEMMA HandleWorkers ==
    ASSUME IInv, WorkersBelong, NEW r \in Run, Handle(r)
    PROVE  WorkersBelong'
<1> USE DEF requestVars, workerVars, viewVars
<1>0. TypeOK
  BY DEF IInv
<1>1. CASE OnReady(r) \/ OnProgress(r) \/ OnCase(r)
  <2>1. /\ pc[r] = "running" /\ chan[r] # << >> /\ chan' = [chan EXCEPT ![r] = Tail(@)]
        /\ UNCHANGED <<pc, sel>> /\ \A q \in Run : q # r => worker'[q] = worker[q]
    BY <1>0, <1>1 DEF OnReady, OnProgress, OnCase, Incoming, Consume, TypeOK
  <2>2. \A k \in 1 .. Len(chan'[r]) :
           chan'[r][k].type = "result" /\ sel[r].strategy = "full" => chan'[r][k].full
    BY <1>0, <2>1, TailKeeps DEF TypeOK, WorkersBelong
  <2>3. \A q \in Run : q # r => chan'[q] = chan[q]
    BY <1>0, <2>1 DEF TypeOK
  <2> QED BY <2>1, <2>2, <2>3 DEF WorkersBelong
<1>2. CASE OnResult(r)
  BY <1>0, <1>2 DEF OnResult, Incoming, Finish, WorkersBelong, TypeOK
<1>3. CASE OnReadySendFailed(r) \/ OnBadMessage(r) \/ OnExit(r)
  BY <1>3, FailWorkers DEF OnReadySendFailed, OnBadMessage, OnExit, Incoming
<1> QED BY <1>1, <1>2, <1>3 DEF Handle

LEMMA WorkerStepWorkers ==
    ASSUME IInv, WorkersBelong, NEW r \in Run, WorkerStep(r)
    PROVE  WorkersBelong'
<1> USE DEF WorkerFrame, requestVars
<1>0. TypeOK
  BY DEF IInv
<1>1. CASE WorkerExit(r)
  <2>1. worker[r] # "none"
    BY <1>1 DEF WorkerExit
  <2> QED BY <1>0, <1>1, <2>1 DEF WorkerExit, WorkersBelong, TypeOK
<1>2. ASSUME NEW m \in Message, m.type = "result" /\ sel[r].strategy = "full" => m.full,
             Send(r, m), worker[r] \in {"booting", "executing"},
             UNCHANGED <<pc, sel>>,
             NEW y \in {"idle", "executing", "finished"}, worker' = [worker EXCEPT ![r] = y]
      PROVE  WorkersBelong'
  <2>1. pc[r] = "running" /\ chan' = [chan EXCEPT ![r] = Append(@, m)]
    BY <1>0, <1>2 DEF WorkersBelong, Send, TypeOK
  <2>2. chan'[r] = Append(chan[r], m) /\ chan[r] \in Seq(Message)
    BY <1>0, <2>1 DEF TypeOK
  <2>3. \A k \in 1 .. Len(chan'[r]) :
           chan'[r][k].type = "result" /\ sel[r].strategy = "full" => chan'[r][k].full
    <3> TAKE k \in 1 .. Len(chan'[r])
    <3>1. CASE k = Len(chan[r]) + 1
      BY <1>2, <2>2, <3>1
    <3>2. CASE k # Len(chan[r]) + 1
      <4>1. k \in 1 .. Len(chan[r]) /\ chan'[r][k] = chan[r][k]
        BY <2>2, <3>2
      <4> QED BY <4>1 DEF WorkersBelong
    <3> QED BY <3>1, <3>2
  <2>4. \A q \in Run : q # r => chan'[q] = chan[q] /\ worker'[q] = worker[q]
    BY <1>0, <1>2, <2>1 DEF TypeOK
  <2> QED BY <1>2, <2>1, <2>3, <2>4 DEF WorkersBelong
<1>3. worker = [worker EXCEPT ![r] = worker[r]]
  BY <1>0 DEF TypeOK
<1>4. CASE WorkerReady(r)
  BY <1>2, <1>4, MessageTypes DEF WorkerReady, Msg
<1>5. CASE WorkerSignal(r)
  <2>1. PICK t \in {"progress", "case"} : Send(r, Msg(t))
    BY <1>5 DEF WorkerSignal
  <2>2. worker[r] = "executing" /\ worker' = [worker EXCEPT ![r] = "executing"]
    BY <1>3, <1>5 DEF WorkerSignal
  <2>3. Msg(t) \in Message /\ Msg(t).type # "result"
    BY MessageTypes DEF Msg
  <2> QED BY <1>2, <1>5, <2>1, <2>2, <2>3 DEF WorkerSignal
<1>6. CASE WorkerResult(r)
  <2>1. PICK ok \in BOOLEAN, full \in BOOLEAN :
           /\ sel[r].strategy = "full" => full
           /\ Send(r, ResultMsg(ok, full))
    BY <1>6 DEF WorkerResult
  <2>2. ResultMsg(ok, full) \in Message /\ ResultMsg(ok, full).full = full
    BY MessageTypes DEF ResultMsg
  <2> QED BY <1>2, <1>6, <2>1, <2>2 DEF WorkerResult
<1>7. CASE WorkerBad(r)
  BY <1>2, <1>7, MessageTypes DEF WorkerBad, Msg
<1> QED BY <1>1, <1>4, <1>5, <1>6, <1>7 DEF WorkerStep

LEMMA NextWorkers ==
    ASSUME IInv, OutcomeAtFinish, WorkersBelong, [Next]_vars PROVE WorkersBelong'
<1> USE DEF requestVars, slotVars, workerVars, viewVars, planVars
<1>1. ASSUME NEW p \in Project, NEW s \in Requests, StartRun(p, s) \/ DryRun(p, s)
      PROVE  WorkersBelong'
  <2>1. CASE StartRun(p, s)
    BY <2>1, RequestWorkers, SelectionTypes DEF StartRun
  <2>2. CASE DryRun(p, s)
    BY <2>2 DEF DryRun, WorkersBelong
  <2> QED BY <1>1, <2>1, <2>2
<1>2. ASSUME NEW p \in Project, NEW i \in PlanId, CommitPlan(p, i) PROVE WorkersBelong'
  <2>1. Committed(plans[i].sel) \in Selection
    BY SelectionTypes, PlanUpdates DEF IInv, TypeOK
  <2> QED BY <1>2, <2>1, RequestWorkers DEF CommitPlan
<1>3. ASSUME NEW p \in Project, NEW i \in PlanId, RejectPlan(p, i) \/ Expire(i)
      PROVE  WorkersBelong'
  BY <1>3 DEF RejectPlan, Expire, WorkersBelong
<1>4. ASSUME NEW r \in Run, Schedule(r) \/ Handle(r) \/ OnTimeout(r) \/ WorkerStep(r)
      PROVE  WorkersBelong'
  BY <1>4, ScheduleWorkers, HandleWorkers, FailWorkers, WorkerStepWorkers DEF OnTimeout
<1>5. CASE UNCHANGED vars
  BY <1>5 DEF vars, WorkersBelong
<1> QED
  BY <1>1, <1>2, <1>3, <1>4, <1>5, ProjectAssumption DEF Next, Request

VInv == IInv /\ OutcomeAtFinish /\ WorkersBelong

LEMMA InitVInv == Init => VInv
BY InitIInv, InitOutcome, InitWorkers DEF VInv

LEMMA NextVInv == VInv /\ [Next]_vars => VInv'
BY NextIInv, NextOutcome, NextWorkers DEF VInv

LEMMA ViewInvariant == Spec => []VInv
<1> QED BY InitVInv, NextVInv, PTL DEF Spec

\* However a run settles, its worker has been killed or was dead already.
THEOREM OrphansKilled == Spec => []NoOrphanWorker
<1>1. VInv => NoOrphanWorker
  BY DEF VInv, OutcomeAtFinish, WorkersBelong, NoOrphanWorker
<1> QED BY <1>1, ViewInvariant, PTL

-----------------------------------------------------------------------------
(* Every run runs down: what a run and its worker can still do shrinks with *)
(* each of their steps.                                                     *)

\* The stages still ahead of a run, and of a worker process.
Ahead(state) == CASE state = "unused"  -> 6
                  [] state = "queued"  -> 5
                  [] state = "waiting" -> 4
                  [] state = "granted" -> 3
                  [] state = "running" -> 2
                  [] state = "settled" -> 1
                  [] OTHER             -> 0
WorkerAhead(state) == CASE state = "none"      -> 6
                        [] state = "booting"   -> 5
                        [] state = "idle"      -> 4
                        [] state = "executing" -> 3
                        [] state = "finished"  -> 2
                        [] state = "killed"    -> 1
                        [] OTHER               -> 0

\* The steps left to a run: those of its promise chain and of its worker, and
\* the messages to send and to handle, where sending one leaves one to handle.
Left(r) == Ahead(pc[r]) + 2 * WorkerAhead(worker[r]) + 2 * (MaxSignals - signals[r]) + Len(chan[r])

StepOf(r) == Schedule(r) \/ Handle(r) \/ OnTimeout(r) \/ WorkerStep(r)

\* No step gives a run more to do, its own or another run's, a request's or a
\* plan's; and its own steps leave it less.  So a run and its worker take a
\* bounded number of steps, whatever the order of messages, exits and timeouts.
RunsDown == [][\A r \in Run : /\ Left(r)' <= Left(r)
                              /\ StepOf(r) => Left(r)' < Left(r)]_vars

LEMMA Ranks ==
    /\ Ahead("unused") = 6 /\ Ahead("queued") = 5 /\ Ahead("waiting") = 4
    /\ Ahead("granted") = 3 /\ Ahead("running") = 2 /\ Ahead("settled") = 1 /\ Ahead("done") = 0
    /\ WorkerAhead("none") = 6 /\ WorkerAhead("booting") = 5 /\ WorkerAhead("idle") = 4
    /\ WorkerAhead("executing") = 3 /\ WorkerAhead("finished") = 2
    /\ WorkerAhead("killed") = 1 /\ WorkerAhead("dead") = 0
    /\ \A state : Ahead(state) \in Nat /\ WorkerAhead(state) \in Nat
BY DEF Ahead, WorkerAhead

\* The measure is a natural number.
LEMMA LeftParts ==
    ASSUME TypeOK, NEW r \in Run
    PROVE  /\ Ahead(pc[r]) \in Nat /\ WorkerAhead(worker[r]) \in Nat
           /\ signals[r] \in 0 .. MaxSignals /\ MaxSignals \in Nat
           /\ Len(chan[r]) \in Nat /\ Left(r) \in Nat
<1>1. Ahead(pc[r]) \in Nat
  BY Ranks
<1>2. WorkerAhead(worker[r]) \in Nat
  BY Ranks
<1>3. Len(chan[r]) \in Nat /\ signals[r] \in 0 .. MaxSignals /\ MaxSignals \in Nat
  BY BoundsAssumption DEF TypeOK
<1> QED BY <1>1, <1>2, <1>3 DEF Left

LEMMA LeftAfter ==
    ASSUME TypeOK', NEW r \in Run
    PROVE  /\ Ahead(pc'[r]) \in Nat /\ WorkerAhead(worker'[r]) \in Nat
           /\ signals'[r] \in 0 .. MaxSignals /\ Len(chan'[r]) \in Nat /\ Left(r)' \in Nat
<1>1. Ahead(pc'[r]) \in Nat
  BY Ranks
<1>2. WorkerAhead(worker'[r]) \in Nat
  BY Ranks
<1>3. Len(chan'[r]) \in Nat /\ signals'[r] \in 0 .. MaxSignals /\ MaxSignals \in Nat
  BY BoundsAssumption DEF TypeOK
<1> QED BY <1>1, <1>2, <1>3 DEF Left

LEMMA SameLeft ==
    ASSUME NEW r \in Run, pc'[r] = pc[r], worker'[r] = worker[r], signals'[r] = signals[r],
           chan'[r] = chan[r]
    PROVE  Left(r)' = Left(r)
BY DEF Left

\* The arithmetic of the measure.
LEMMA Drop ==
    ASSUME NEW a \in Nat, NEW w \in Nat, NEW n \in Nat, NEW c \in Nat, NEW m \in Nat,
           NEW b \in Nat, NEW x \in Nat, NEW k \in Nat, NEW d \in Nat,
           \/ b < a /\ x <= w /\ k = n /\ d <= c
           \/ b = a /\ x < w /\ k = n /\ d <= c + 1
           \/ b = a /\ x = w /\ k = n + 1 /\ d <= c + 1
           \/ b = a /\ x <= w /\ k = n /\ d < c
    PROVE  b + 2 * x + 2 * (m - k) + d < a + 2 * w + 2 * (m - n) + c
OBVIOUS

\* The measure drops with its parts: with a stage of the chain that is passed
\* and a stage of the worker that is, whatever message the latter adds, and
\* with a message that is sent or handled.
LEMMA LessLeft ==
    ASSUME TypeOK, TypeOK', NEW r \in Run,
           \/ /\ Ahead(pc'[r]) < Ahead(pc[r]) /\ WorkerAhead(worker'[r]) <= WorkerAhead(worker[r])
              /\ signals'[r] = signals[r] /\ Len(chan'[r]) <= Len(chan[r])
           \/ /\ pc'[r] = pc[r] /\ WorkerAhead(worker'[r]) < WorkerAhead(worker[r])
              /\ signals'[r] = signals[r] /\ Len(chan'[r]) <= Len(chan[r]) + 1
           \/ /\ pc'[r] = pc[r] /\ worker'[r] = worker[r]
              /\ signals'[r] = signals[r] + 1 /\ Len(chan'[r]) <= Len(chan[r]) + 1
           \/ /\ pc'[r] = pc[r] /\ WorkerAhead(worker'[r]) <= WorkerAhead(worker[r])
              /\ signals'[r] = signals[r] /\ Len(chan'[r]) < Len(chan[r])
    PROVE  Left(r)' < Left(r)
<1>1. /\ Ahead(pc'[r]) \in Nat /\ WorkerAhead(worker'[r]) \in Nat
      /\ signals'[r] \in Nat /\ Len(chan'[r]) \in Nat
  BY LeftAfter
<1>2. /\ Ahead(pc[r]) \in Nat /\ WorkerAhead(worker[r]) \in Nat
      /\ signals[r] \in Nat /\ Len(chan[r]) \in Nat /\ MaxSignals \in Nat
  BY LeftParts
<1>3. /\ pc'[r] = pc[r] => Ahead(pc'[r]) = Ahead(pc[r])
      /\ worker'[r] = worker[r] => WorkerAhead(worker'[r]) = WorkerAhead(worker[r])
  OBVIOUS
<1> QED BY <1>1, <1>2, <1>3, Drop DEF Left

\* A run that settles has its channel emptied and its worker killed.
LEMMA FinishLess ==
    ASSUME VInv, VInv', NEW r \in Run, NEW result, pc[r] = "running", Finish(r, result)
    PROVE  Left(r)' < Left(r) /\ \A q \in Run \ {r} : Left(q)' = Left(q)
<1>0. TypeOK /\ TypeOK' /\ WorkersBelong
  BY DEF VInv, IInv
<1>1. /\ pc'[r] = "settled" /\ signals' = signals /\ chan'[r] = << >>
      /\ worker'[r] = IF worker[r] = "dead" THEN "dead" ELSE "killed"
  BY <1>0 DEF Finish, TypeOK
<1>2. Ahead(pc'[r]) < Ahead(pc[r])
  BY <1>1, Ranks
<1>3. WorkerAhead(worker'[r]) <= WorkerAhead(worker[r])
  <2>1. worker[r] \in {"booting", "idle", "executing", "finished", "killed", "dead", "none"}
    BY <1>0 DEF TypeOK
  <2>2. worker'[r] = "killed" \/ (worker[r] = "dead" /\ worker'[r] = "dead")
    BY <1>1
  <2>3. worker[r] # "dead" => WorkerAhead(worker[r]) >= 1
    BY <2>1, Ranks
  <2>4. worker'[r] = "killed" => worker[r] # "dead"
    BY <1>1
  <2> QED BY <2>2, <2>3, <2>4, Ranks
<1>4. Len(chan'[r]) <= Len(chan[r])
  BY <1>0, <1>1, LeftParts
<1>5. Left(r)' < Left(r)
  BY <1>0, <1>1, <1>2, <1>3, <1>4, LessLeft
<1>6. ASSUME NEW q \in Run \ {r} PROVE Left(q)' = Left(q)
  BY <1>0, <1>1, SameLeft DEF Finish, TypeOK
<1> QED BY <1>5, <1>6

LEMMA ScheduleLess ==
    ASSUME VInv, VInv', NEW r \in Run, Schedule(r)
    PROVE  Left(r)' < Left(r) /\ \A q \in Run : Left(q)' <= Left(q)
<1>0. TypeOK /\ TypeOK' /\ NoLostWaiter /\ WorkersBelong
  BY DEF VInv, IInv
<1>1. signals' = signals /\ chan' = chan
  BY DEF Schedule, CompleteEmpty, Acquire, Wait, Fork, Release, workerVars
<1>2. WorkerAhead(worker'[r]) <= WorkerAhead(worker[r]) /\ \A q \in Run \ {r} : worker'[q] = worker[q]
  <2>1. CASE Fork(r)
    <3>1. worker[r] = "none" /\ worker' = [worker EXCEPT ![r] = "booting"]
      BY <1>0, <2>1 DEF Fork, WorkersBelong
    <3> QED BY <1>0, <3>1, Ranks DEF TypeOK
  <2>2. CASE ~Fork(r)
    <3>1. worker' = worker
      BY <2>2 DEF Schedule, CompleteEmpty, Acquire, Wait, Release, workerVars
    <3> QED BY <1>0, <3>1, LeftParts
  <2> QED BY <2>1, <2>2
<1>3. ASSUME NEW q \in Run, Ahead(pc'[q]) < Ahead(pc[q]), worker'[q] = worker[q]
      PROVE  Left(q)' < Left(q)
  <2>1. WorkerAhead(worker'[q]) <= WorkerAhead(worker[q]) /\ Len(chan'[q]) <= Len(chan[q])
    BY <1>0, <1>1, <1>3, LeftParts
  <2> QED BY <1>0, <1>1, <1>3, <2>1, LessLeft
<1>4. ASSUME Ahead(pc'[r]) < Ahead(pc[r]) PROVE Left(r)' < Left(r)
  <2>1. Len(chan'[r]) <= Len(chan[r])
    BY <1>0, <1>1, LeftParts
  <2> QED BY <1>0, <1>1, <1>2, <1>4, <2>1, LessLeft
<1>5. ASSUME NEW q \in Run \ {r}, pc'[q] = pc[q] PROVE Left(q)' = Left(q)
  BY <1>1, <1>2, <1>5, SameLeft
<1>6. \A q \in Run : Left(q) \in Nat /\ Left(q)' \in Nat
  BY <1>0, LeftParts, LeftAfter
<1>7. CASE ~Release(r)
  <2>1. PICK from, to \in {"queued", "waiting", "granted", "running", "done"} :
            pc[r] = from /\ pc' = [pc EXCEPT ![r] = to] /\ Ahead(to) < Ahead(from)
    <3>1. CASE CompleteEmpty(r)
      BY <3>1, Ranks DEF CompleteEmpty, Due
    <3>2. CASE Acquire(r)
      BY <3>2, Ranks DEF Acquire, Due
    <3>3. CASE Wait(r)
      BY <3>3, Ranks DEF Wait, Due
    <3>4. CASE Fork(r)
      BY <3>4, Ranks DEF Fork
    <3> QED BY <1>7, <3>1, <3>2, <3>3, <3>4 DEF Schedule
  <2>2. Ahead(pc'[r]) < Ahead(pc[r]) /\ \A q \in Run \ {r} : pc'[q] = pc[q]
    BY <1>0, <2>1 DEF TypeOK
  <2> QED BY <1>4, <1>5, <1>6, <2>2
<1>8. CASE Release(r)
  <2>1. pc[r] = "settled" /\ worker' = worker
    BY <1>8 DEF Release, workerVars
  <2>2. CASE waiters = << >>
    <3>1. pc' = [pc EXCEPT ![r] = "done"]
      BY <1>8, <2>2 DEF Release
    <3>2. Ahead(pc'[r]) < Ahead(pc[r]) /\ \A q \in Run \ {r} : pc'[q] = pc[q]
      BY <1>0, <2>1, <3>1, Ranks DEF TypeOK
    <3> QED BY <1>4, <1>5, <1>6, <3>2
  <2>3. CASE waiters # << >>
    <3>1. PICK w \in Run : w = Head(waiters) /\ pc[w] = "waiting"
      BY <1>0, <2>3, HeadWaits
    <3>2. pc' = [pc EXCEPT ![r] = "done", ![w] = "granted"]
      BY <1>8, <2>3, <3>1 DEF Release
    <3>3. /\ Ahead(pc'[r]) < Ahead(pc[r]) /\ Ahead(pc'[w]) < Ahead(pc[w])
          /\ \A q \in Run \ {r, w} : pc'[q] = pc[q]
      <4>1. r # w
        BY <2>1, <3>1
      <4>2. /\ pc'[r] = "done" /\ pc'[w] = "granted"
            /\ \A q \in Run \ {r, w} : pc'[q] = pc[q]
        BY <1>0, <3>2, <4>1 DEF TypeOK
      <4> QED BY <2>1, <3>1, <4>2, Ranks
    <3>4. Left(w)' < Left(w)
      BY <1>3, <2>1, <3>3
    <3> QED BY <1>4, <1>5, <1>6, <3>3, <3>4
  <2> QED BY <2>2, <2>3
<1> QED BY <1>7, <1>8

LEMMA ShorterTail ==
    ASSUME NEW c \in Seq(Message), c # << >>
    PROVE  Len(Tail(c)) < Len(c)
OBVIOUS

\* Handling a message uses it up; any other event settles the run.
LEMMA HandleLess ==
    ASSUME VInv, VInv', NEW r \in Run, Handle(r) \/ OnTimeout(r)
    PROVE  Left(r)' < Left(r) /\ \A q \in Run \ {r} : Left(q)' = Left(q)
<1>0. TypeOK /\ TypeOK'
  BY DEF VInv, IInv
<1>1. CASE OnReady(r) \/ OnProgress(r) \/ OnCase(r)
  <2>1. /\ chan[r] # << >> /\ chan' = [chan EXCEPT ![r] = Tail(@)]
        /\ UNCHANGED <<pc, signals>> /\ \A q \in Run \ {r} : worker'[q] = worker[q]
    BY <1>0, <1>1 DEF OnReady, OnProgress, OnCase, Incoming, Consume, TypeOK, workerVars
  <2>2. WorkerAhead(worker'[r]) <= WorkerAhead(worker[r])
    <3>1. worker'[r] = worker[r] \/ (worker[r] = "idle" /\ worker'[r] = "executing")
      <4>1. CASE OnReady(r)
        BY <1>0, <4>1 DEF OnReady, TypeOK
      <4>2. CASE OnProgress(r) \/ OnCase(r)
        BY <4>2 DEF OnProgress, OnCase, workerVars
      <4> QED BY <1>1, <4>1, <4>2
    <3> QED BY <3>1, Ranks
  <2>3. chan[r] \in Seq(Message) /\ chan'[r] = Tail(chan[r])
    BY <1>0, <2>1 DEF TypeOK
  <2>4. Len(chan'[r]) < Len(chan[r])
    BY <2>1, <2>3, ShorterTail
  <2>5. Left(r)' < Left(r)
    BY <1>0, <2>1, <2>2, <2>4, LessLeft
  <2>6. ASSUME NEW q \in Run \ {r} PROVE Left(q)' = Left(q)
    <3>1. chan'[q] = chan[q]
      BY <1>0, <2>1 DEF TypeOK
    <3> QED BY <2>1, <3>1, SameLeft
  <2> QED BY <2>5, <2>6
<1>2. CASE OnResult(r) \/ OnReadySendFailed(r) \/ OnBadMessage(r) \/ OnExit(r) \/ OnTimeout(r)
  <2>1. pc[r] = "running" /\ \E result : Finish(r, result)
    BY <1>2 DEF OnResult, OnReadySendFailed, OnBadMessage, OnExit, OnTimeout, Incoming, FailRun
  <2> QED BY <2>1, FinishLess
<1> QED BY <1>1, <1>2 DEF Handle

\* A worker passes from one stage to the next, or sends one more message of a
\* bounded number.
LEMMA WorkerLess ==
    ASSUME VInv, VInv', NEW r \in Run, WorkerStep(r)
    PROVE  Left(r)' < Left(r) /\ \A q \in Run \ {r} : Left(q)' = Left(q)
<1>0. TypeOK /\ TypeOK'
  BY DEF VInv, IInv
<1>1. pc' = pc
  BY DEF WorkerStep, WorkerReady, WorkerSignal, WorkerResult, WorkerBad, WorkerExit, WorkerFrame
<1>2. /\ \A q \in Run \ {r} : worker'[q] = worker[q] /\ signals'[q] = signals[q] /\ chan'[q] = chan[q]
      /\ Len(chan'[r]) <= Len(chan[r]) + 1
  <2>1. ASSUME NEW m, Send(r, m)
        PROVE  (\A q \in Run \ {r} : chan'[q] = chan[q]) /\ Len(chan'[r]) <= Len(chan[r]) + 1
    <3>1. chan'[r] = chan[r] \/ chan'[r] = Append(chan[r], m)
      BY <1>0, <2>1 DEF Send, TypeOK
    <3>2. chan[r] \in Seq(Message)
      BY <1>0 DEF TypeOK
    <3>3. Len(chan'[r]) <= Len(chan[r]) + 1
      BY <3>1, <3>2
    <3> QED BY <1>0, <2>1, <3>3 DEF Send, TypeOK
  <2>2. CASE WorkerExit(r)
    BY <1>0, <2>2, LeftParts DEF WorkerExit, TypeOK
  <2>3. CASE WorkerReady(r) \/ WorkerSignal(r) \/ WorkerResult(r) \/ WorkerBad(r)
    <3>1. \E m : Send(r, m)
      BY <2>3 DEF WorkerReady, WorkerSignal, WorkerResult, WorkerBad
    <3>2. \A q \in Run \ {r} : worker'[q] = worker[q] /\ signals'[q] = signals[q]
      BY <1>0, <2>3 DEF WorkerReady, WorkerSignal, WorkerResult, WorkerBad, TypeOK
    <3> QED BY <2>1, <3>1, <3>2
  <2> QED BY <2>2, <2>3 DEF WorkerStep
<1>3. ASSUME NEW q \in Run \ {r} PROVE Left(q)' = Left(q)
  BY <1>1, <1>2, SameLeft
<1>4. CASE WorkerSignal(r)
  <2>1. worker'[r] = worker[r] /\ signals'[r] = signals[r] + 1
    BY <1>0, <1>4 DEF WorkerSignal, TypeOK
  <2> QED BY <1>0, <1>1, <1>2, <1>3, <2>1, LessLeft
<1>5. CASE ~WorkerSignal(r)
  <2>1. PICK from, to \in {"booting", "idle", "executing", "finished", "killed", "dead"} :
            /\ worker[r] = from /\ worker'[r] = to /\ signals' = signals
            /\ WorkerAhead(to) < WorkerAhead(from)
    <3>1. CASE WorkerReady(r)
      BY <1>0, <3>1, Ranks DEF WorkerReady, TypeOK
    <3>2. CASE WorkerResult(r) \/ WorkerBad(r)
      BY <1>0, <3>2, Ranks DEF WorkerResult, WorkerBad, TypeOK
    <3>3. CASE WorkerExit(r)
      <4>1. worker[r] \in {"booting", "idle", "executing", "finished", "killed"}
            /\ worker'[r] = "dead" /\ signals' = signals
        BY <1>0, <3>3 DEF WorkerExit, TypeOK
      <4> QED BY <4>1, Ranks
    <3> QED BY <1>5, <3>1, <3>2, <3>3 DEF WorkerStep
  <2> QED BY <1>0, <1>1, <1>2, <1>3, <2>1, LessLeft
<1> QED BY <1>4, <1>5

\* Requests and plans give no run more to do.
LEMMA RequestLess ==
    ASSUME VInv, VInv', Request \/ \E i \in PlanId : Expire(i)
    PROVE  \A r \in Run : Left(r)' <= Left(r)
<1> USE DEF requestVars, workerVars
<1>0. TypeOK /\ TypeOK'
  BY DEF VInv, IInv
<1>1. ASSUME NEW p \in Project, NEW s \in Selection, NEW i \in PlanId \cup {NoPlan}, Enqueue(p, s, i)
      PROVE  \A r \in Run : Left(r)' <= Left(r)
  <2>1. PICK n \in Run : /\ pc[n] = "unused" /\ pc' = [pc EXCEPT ![n] = "queued"]
                         /\ UNCHANGED <<worker, chan, signals>>
    BY <1>1, FreshRun DEF VInv
  <2>2. Ahead(pc'[n]) < Ahead(pc[n]) /\ \A r \in Run \ {n} : pc'[r] = pc[r]
    BY <1>0, <2>1, Ranks DEF TypeOK
  <2>3. Left(n)' < Left(n) /\ Left(n) \in Nat /\ Left(n)' \in Nat
    <3>1. WorkerAhead(worker'[n]) <= WorkerAhead(worker[n]) /\ Len(chan'[n]) <= Len(chan[n])
      BY <1>0, <2>1, LeftParts
    <3> QED BY <1>0, <2>1, <2>2, <3>1, LeftParts, LeftAfter, LessLeft
  <2>4. ASSUME NEW r \in Run \ {n} PROVE Left(r)' = Left(r)
    BY <2>1, <2>2, SameLeft
  <2> QED BY <1>0, <2>3, <2>4, LeftParts
<1>2. ASSUME UNCHANGED <<pc, worker, chan, signals>> PROVE \A r \in Run : Left(r)' <= Left(r)
  BY <1>0, <1>2, SameLeft, LeftParts
<1>3. ASSUME NEW p \in Project, NEW s \in Requests, StartRun(p, s) \/ DryRun(p, s)
      PROVE  \A r \in Run : Left(r)' <= Left(r)
  BY <1>1, <1>2, <1>3, SelectionTypes DEF StartRun, DryRun
<1>4. ASSUME NEW p \in Project, NEW i \in PlanId, CommitPlan(p, i) \/ RejectPlan(p, i) \/ Expire(i)
      PROVE  \A r \in Run : Left(r)' <= Left(r)
  <2>1. Committed(plans[i].sel) \in Selection
    BY <1>0, SelectionTypes, PlanUpdates DEF TypeOK
  <2> QED BY <1>1, <1>2, <1>4, <2>1 DEF CommitPlan, RejectPlan, Expire
<1> QED BY <1>3, <1>4, ProjectAssumption DEF Request

\* Every run takes a bounded number of steps, for any number of runs and any
\* bound on the messages of a worker.  With DeadlockFree it leaves fairness
\* nothing to do but to let a step that is enabled happen.
THEOREM RunningDown == Spec => RunsDown
<1> DEFINE Less == \A r \in Run : /\ Left(r)' <= Left(r)
                                  /\ StepOf(r) => Left(r)' < Left(r)
<1>1. VInv /\ VInv' /\ [Next]_vars => [Less]_vars
  <2> SUFFICES ASSUME VInv, VInv', [Next]_vars PROVE [Less]_vars
    OBVIOUS
  <2>0. \A r \in Run : Left(r) \in Nat
    BY LeftParts DEF VInv, IInv
  <2>1. ASSUME NEW r \in Run, StepOf(r) PROVE Left(r)' < Left(r)
    BY <2>1, ScheduleLess, HandleLess, WorkerLess DEF StepOf
  <2>2. ASSUME NEW r \in Run, NEW q \in Run, StepOf(q) PROVE Left(r)' <= Left(r)
    <3>1. CASE Schedule(q)
      BY <3>1, ScheduleLess
    <3>2. CASE ~Schedule(q) /\ r # q
      BY <2>0, <2>2, <3>2, HandleLess, WorkerLess DEF StepOf
    <3>3. CASE r = q
      <4>1. Left(r)' < Left(r) /\ Left(r)' \in Nat
        BY <2>1, <2>2, <3>3, LeftAfter DEF VInv, IInv
      <4> QED BY <2>0, <4>1
    <3> QED BY <3>1, <3>2, <3>3
  <2>3. ASSUME Request \/ \E i \in PlanId : Expire(i), NEW r \in Run PROVE Left(r)' <= Left(r)
    BY <2>3, RequestLess
  <2> QED BY <2>1, <2>2, <2>3 DEF Next, StepOf
<1> QED BY <1>1, ViewInvariant, PTL DEF Spec, RunsDown

-----------------------------------------------------------------------------
(* What a settling run publishes                                           *)

\* The record of a run, labelled by what its worker did.
Truthful(rec) == rec.status = "complete" => (rec.strategy = "full" <=> rec.ranFull)

LEMMA StatusFields ==
    ASSUME NEW s \in RunStatus, NEW r \in Run, NEW x \in {"complete", "error"}
    PROVE  LET a == [s EXCEPT !.state = "complete", !.runId = r, !.lastResult = r, !.progress = FALSE]
               b == [s EXCEPT !.state = "error", !.runId = r, !.lastError = r, !.progress = FALSE]
               c == [s EXCEPT !.state = "running", !.runId = r, !.lastError = NoRun, !.progress = FALSE]
               d == [s EXCEPT !.state = "running", !.progress = TRUE]
           IN  /\ a.state = "complete" /\ a.runId = r /\ ~a.progress
               /\ b.state = "error" /\ b.runId = r /\ ~b.progress
               /\ c.state = "running" /\ c.runId = r /\ ~c.progress
               /\ d.state = "running" /\ d.runId = s.runId
BY DEF RunStatus

LEMMA SettlesPublishes ==
    ASSUME VInv, NEW r \in Run, Settles(r), NEW p \in Project, p = proj[r]
    PROVE  /\ runState'[p].state = outcome'[r] /\ runState'[p].runId = r /\ ~runState'[p].progress
           /\ \E rec \in Record : /\ history'[p] = Recorded(history[p], rec)
                                  /\ rec.run = r /\ rec.status = outcome'[r] /\ Truthful(rec)
           /\ IF sel[r].empty
              THEN lastFailures'[p] = lastFailures[p]
              ELSE lastFailures'[p] = IF outcome'[r] = "complete" THEN r ELSE NoRun
           /\ snapshot'[p] \in {snapshot[p], r}
<1>0. TypeOK /\ WorkersBelong /\ runState[p] \in RunStatus
  BY DEF VInv, IInv, TypeOK
<1>1. CASE CompleteEmpty(r)
  <2> DEFINE rec == [run |-> r, status |-> "complete", strategy |-> "incremental",
                     ranFull |-> FALSE]
  <2>1. rec \in Record /\ rec.run = r /\ rec.status = "complete" /\ Truthful(rec)
    BY DEF Record, Truthful
  <2>2. history'[p] = Recorded(history[p], rec) /\ outcome'[r] = "complete"
    BY <1>0, <1>1 DEF CompleteEmpty, TypeOK
  <2>3. runState'[p] = [runState[p] EXCEPT !.state = "complete", !.runId = r, !.lastResult = r,
                                           !.progress = FALSE]
    BY <1>0, <1>1 DEF CompleteEmpty, TypeOK
  <2>4. sel[r].empty /\ lastFailures' = lastFailures
    BY <1>1 DEF CompleteEmpty
  <2>5. snapshot'[p] \in {snapshot[p], r}
    BY <1>0, <1>1 DEF CompleteEmpty, Advanced, TypeOK
  <2>6. runState'[p].state = "complete" /\ runState'[p].runId = r /\ ~runState'[p].progress
    BY <1>0, <2>3, StatusFields
  <2> HIDE DEF rec
  <2> QED BY <2>1, <2>2, <2>4, <2>5, <2>6
<1>2. CASE pc[r] = "running" /\ OnResult(r)
  <2>1. PICK m \in Message : m = Head(chan[r]) /\ m = chan[r][1] /\ 1 \in 1 .. Len(chan[r])
                             /\ m.type = "result"
    BY <1>0, <1>2, TailKeeps DEF OnResult, Incoming, TypeOK
  <2>2. sel[r].strategy = "full" => m.full
    BY <1>0, <2>1 DEF WorkersBelong
  <2>3. sel[r] \in Selection
    BY <1>0 DEF TypeOK
  <2> DEFINE rec == [run |-> r, status |-> "complete",
                     strategy |-> IF Fallback(r, m.full) THEN "full" ELSE sel[r].strategy,
                     ranFull |-> m.full]
  <2>4. rec \in Record /\ rec.run = r /\ rec.status = "complete"
    BY <2>3 DEF Record, Message, Selection
  <2>5. Truthful(rec)
    <3>1. m.full \in BOOLEAN /\ sel[r].strategy \in {"full", "incremental"}
      BY <2>3 DEF Message, Selection
    <3>2. CASE m.full
      BY <3>1, <3>2 DEF Truthful, Fallback
    <3>3. CASE ~m.full
      BY <2>2, <3>1, <3>3 DEF Truthful, Fallback
    <3> QED BY <3>2, <3>3
  <2>6. history'[p] = Recorded(history[p], rec) /\ outcome'[r] = "complete"
    BY <1>0, <1>2, <2>1 DEF OnResult, Finish, TypeOK
  <2>7. runState'[p] = [runState[p] EXCEPT !.state = "complete", !.runId = r, !.lastResult = r,
                                           !.progress = FALSE]
    BY <1>0, <1>2 DEF OnResult, TypeOK
  <2>8. ~sel[r].empty
    BY <1>0, <1>2 DEF WorkersBelong
  <2>9. lastFailures'[p] = r /\ snapshot'[p] \in {snapshot[p], r}
    BY <1>0, <1>2 DEF OnResult, Advanced, TypeOK
  <2>10. runState'[p].state = "complete" /\ runState'[p].runId = r /\ ~runState'[p].progress
    BY <1>0, <2>7, StatusFields
  <2> HIDE DEF rec
  <2> QED BY <2>4, <2>5, <2>6, <2>8, <2>9, <2>10
<1>3. CASE pc[r] = "running" /\ FailRun(r)
  <2> DEFINE rec == [run |-> r, status |-> "error", strategy |-> "none", ranFull |-> FALSE]
  <2>1. rec \in Record /\ rec.run = r /\ rec.status = "error" /\ Truthful(rec)
    BY DEF Record, Truthful
  <2>2. history'[p] = Recorded(history[p], rec) /\ outcome'[r] = "error"
    BY <1>0, <1>3 DEF FailRun, Finish, TypeOK
  <2>3. runState'[p] = [runState[p] EXCEPT !.state = "error", !.runId = r, !.lastError = r,
                                           !.progress = FALSE]
    BY <1>0, <1>3 DEF FailRun, TypeOK
  <2>4. ~sel[r].empty
    BY <1>0, <1>3 DEF WorkersBelong
  <2>5. lastFailures'[p] = NoRun /\ snapshot' = snapshot
    BY <1>0, <1>3 DEF FailRun, TypeOK
  <2>6. runState'[p].state = "error" /\ runState'[p].runId = r /\ ~runState'[p].progress
    BY <1>0, <2>3, StatusFields
  <2> HIDE DEF rec
  <2> QED BY <2>1, <2>2, <2>4, <2>5, <2>6
<1> QED BY <1>1, <1>2, <1>3 DEF Settles

LEMMA SettlesElsewhere ==
    ASSUME TypeOK, NEW r \in Run, Settles(r), NEW p \in Project, p # proj[r]
    PROVE  /\ runState'[p] = runState[p] /\ live'[p] = live[p]
           /\ history'[p] = history[p] /\ lastFailures'[p] = lastFailures[p]
           /\ snapshot'[p] = snapshot[p]
BY DEF Settles, CompleteEmpty, OnResult, FailRun, TypeOK

-----------------------------------------------------------------------------
(* The run state                                                           *)

\* RunStateCurrent, for one project, with the fact that the run shown exists.
Current(p) ==
    LET c == Newest(Shown(p)) IN
    /\ c \in Shown(p) \cup {NoRun}
    /\ runState[p].runId = c
    /\ runState[p].state = CASE c = NoRun -> "idle"
                             [] c \in Executing(p) -> "running"
                             [] OTHER -> outcome[c]
    /\ runState[p].progress => c \in Executing(p)
    /\ c \in Executing(p) => live[p] = c

LEMMA CurrentMeans == (\A p \in Project : Current(p)) => RunStateCurrent
BY DEF RunStateCurrent, Current, Shown, Executing

LEMMA InitCurrent == Init => \A p \in Project : Current(p)
<1> SUFFICES ASSUME Init, NEW p \in Project PROVE Current(p)
  OBVIOUS
<1>1. Executing(p) = {} /\ Settled(p) = {}
  BY BoundsAssumption DEF Init, Executing, Settled
<1>2. Newest(Shown(p)) = NoRun
  BY <1>1 DEF Shown, Newest
<1> QED BY <1>1, <1>2 DEF Init, Current

LEMMA NextCurrent ==
    ASSUME VInv, VInv', [Next]_vars, NEW p \in Project, Current(p)
    PROVE  Current(p)'
<1> USE DEF requestVars, viewVars
<1>0. TypeOK /\ ViewStep /\ IInv /\ OutcomeAtFinish /\ IInv' /\ OutcomeAtFinish'
  BY ViewCases DEF VInv, IInv
<1>1. ASSUME Settled(p)' = Settled(p), Executing(p)' = Executing(p), runState'[p] = runState[p],
             live'[p] = live[p], \A q \in Shown(p) : outcome'[q] = outcome[q]
      PROVE  Current(p)'
  <2>1. Shown(p)' = Shown(p)
    BY <1>1 DEF Shown
  <2>2. PICK c : c = Newest(Shown(p))
    OBVIOUS
  <2>3. Newest(Shown(p))' = c
    BY <2>1, <2>2 DEF Newest
  <2>4. c \in Shown(p) => outcome'[c] = outcome[c]
    BY <1>1
  <2> QED BY <1>1, <2>1, <2>2, <2>3, <2>4 DEF Current
<1>2. ASSUME NEW r \in Run, r \in Shown(p)', \A q \in Shown(p)' : q <= r,
             runState'[p].runId = r,
             IF r \in Executing(p)'
             THEN runState'[p].state = "running" /\ live'[p] = r
             ELSE runState'[p].state = outcome'[r] /\ ~runState'[p].progress
      PROVE  Current(p)'
  <2>1. TypeOK'
    BY <1>0 DEF IInv
  <2>2. Shown(p)' \in SUBSET Run
    BY SettledNext, <1>0 DEF SettledIsOutcome, Shown, Executing
  <2>3. Newest(Shown(p)') = r
    BY <1>2, <2>2, NewestIs
  <2>4. Newest(Shown(p))' = r
    BY <2>3 DEF Newest
  <2>5. r # NoRun
    BY RunsAreIntegers
  <2> QED BY <1>2, <2>4, <2>5 DEF Current
<1>3. ASSUME NEW o \in Project, NEW s \in Selection, NEW i \in PlanId \cup {NoPlan},
             Enqueue(o, s, i)
      PROVE  Current(p)'
  <2>1. Settled(p)' = Settled(p) /\ Executing(p)' = Executing(p)
    BY <1>0, <1>3, RequestsKeep
  <2> QED BY <1>1, <1>3, <2>1 DEF Enqueue
<1>4. CASE Quiet
  BY <1>0, <1>1, <1>4, OthersKeep DEF Quiet, shownVars
<1>5. ASSUME NEW r \in Run, Fork(r) PROVE Current(p)'
  <2>1. Settled(p)' = Settled(p)
    BY <1>0, <1>5, OthersKeep
  <2>2. CASE proj[r] # p
    <3>1. Executing(p)' = Executing(p)
      BY <1>0, <1>5, <2>2, OthersKeep
    <3>2. runState'[p] = runState[p] /\ live'[p] = live[p] /\ outcome' = outcome
      BY <1>0, <1>5, <2>2 DEF Fork, TypeOK
    <3> QED BY <1>1, <2>1, <3>1, <3>2
  <2>3. CASE proj[r] = p
    <3>1. Executing(p)' = Executing(p) \cup {r}
      BY <1>0, <1>5, <2>3, OthersKeep
    <3>2. Turn(r)
      BY <1>5 DEF Fork, Turn
    <3>3. \A q \in Shown(p) : q <= r
      BY <1>0, <2>3, <3>2, NewestAtTurn
    <3>4. Shown(p)' = Shown(p) \cup {r} /\ r \in Shown(p)' /\ r \in Executing(p)' /\ r <= r
      BY <2>1, <3>1, RunsAreIntegers DEF Shown
    <3>5. /\ runState'[p] = [runState[p] EXCEPT !.state = "running", !.runId = r,
                                                !.lastError = NoRun, !.progress = FALSE]
          /\ live'[p] = r /\ runState[p] \in RunStatus
      BY <1>0, <1>5, <2>3 DEF Fork, TypeOK
    <3>6. runState'[p].state = "running" /\ runState'[p].runId = r
      BY <3>5, StatusFields
    <3> QED BY <1>2, <3>3, <3>4, <3>5, <3>6
  <2> QED BY <2>2, <2>3
<1>6. ASSUME NEW r \in Run, OnProgress(r) PROVE Current(p)'
  <2>1. Settled(p)' = Settled(p) /\ Executing(p)' = Executing(p)
    BY <1>0, <1>6, OthersKeep
  <2>2. CASE proj[r] # p
    <3>1. runState'[p] = runState[p] /\ live'[p] = live[p] /\ outcome' = outcome
      BY <1>0, <1>6, <2>2 DEF OnProgress, TypeOK
    <3> QED BY <1>1, <2>1, <3>1
  <2>3. CASE proj[r] = p
    <3>1. pc[r] = "running" /\ r \in Executing(p) /\ Turn(r)
      BY <1>6, <2>3 DEF OnProgress, Incoming, Executing, Turn
    <3>2. \A q \in Shown(p) : q <= r
      BY <1>0, <2>3, <3>1, NewestAtTurn
    <3>3. Shown(p)' = Shown(p) /\ r \in Shown(p)
      BY <2>1, <3>1 DEF Shown
    <3>4. Newest(Shown(p)) = r
      BY <1>0, <3>2, <3>3, NewestIs, ShownAreRuns
    <3>5. runState[p].runId = r /\ live[p] = r
      BY <3>1, <3>4 DEF Current
    <3>6. /\ runState'[p] = [runState[p] EXCEPT !.state = "running", !.progress = TRUE]
          /\ live' = live /\ runState[p] \in RunStatus
      BY <1>0, <1>6, <2>3 DEF OnProgress, TypeOK
    <3>7. runState'[p].state = "running" /\ runState'[p].runId = r
      BY <3>5, <3>6, StatusFields
    <3> QED BY <1>2, <2>1, <3>1, <3>2, <3>3, <3>5, <3>6, <3>7
  <2> QED BY <2>2, <2>3
<1>7. ASSUME NEW r \in Run, Settles(r) PROVE Current(p)'
  <2>1. CASE proj[r] # p
    <3>1. Settled(p)' = Settled(p) /\ Executing(p)' = Executing(p)
      BY <1>0, <1>7, <2>1, SettlesGrows
    <3>2. runState'[p] = runState[p] /\ live'[p] = live[p]
      BY <1>0, <1>7, <2>1, SettlesElsewhere
    <3>3. ASSUME NEW q \in Shown(p) PROVE outcome'[q] = outcome[q]
      <4>1. q \in Run /\ proj[q] = p
        BY <1>0, ShownAreRuns DEF Shown, Settled, Executing
      <4>2. q # r
        BY <2>1, <4>1
      <4>3. PICK x \in {"complete", "error"}, y \in {"settled", "done"} :
               outcome' = [outcome EXCEPT ![r] = x] /\ pc' = [pc EXCEPT ![r] = y]
        BY <1>0, <1>7, SettlesOutcome
      <4> QED BY <1>0, <4>1, <4>2, <4>3 DEF TypeOK
    <3> QED BY <1>1, <3>1, <3>2, <3>3
  <2>2. CASE proj[r] = p
    <3>1. Settled(p)' = Settled(p) \cup {r} /\ Executing(p)' = {}
      BY <1>0, <1>7, <2>2, SettlesGrows
    <3>2. Turn(r)
      BY <1>0, <1>7, SettlesOutcome
    <3>3. \A q \in Shown(p) : q <= r
      BY <1>0, <2>2, <3>2, NewestAtTurn
    <3>4. Shown(p)' = Settled(p) \cup {r} /\ r <= r
      BY <3>1, RunsAreIntegers DEF Shown
    <3>5. (\A q \in Shown(p)' : q <= r) /\ r \in Shown(p)'
      BY <3>3, <3>4 DEF Shown
    <3>6. /\ runState'[p].state = outcome'[r] /\ runState'[p].runId = r
          /\ ~runState'[p].progress
      BY <1>7, <2>2, SettlesPublishes
    <3> QED BY <1>2, <3>1, <3>5, <3>6
  <2> QED BY <2>1, <2>2
<1> QED BY <1>0, <1>3, <1>4, <1>5, <1>6, <1>7 DEF ViewStep

\* The run state a client polls is that of the run being executed or, between
\* runs, of the one that settled last; nothing an earlier worker does shows.
THEOREM StateIsCurrent == Spec => []RunStateCurrent
<1> DEFINE AllCurrent == \A p \in Project : Current(p)
<1>1. Init => AllCurrent
  BY InitCurrent
<1>2. VInv /\ VInv' /\ AllCurrent /\ [Next]_vars => AllCurrent'
  BY NextCurrent
<1>3. AllCurrent => RunStateCurrent
  BY CurrentMeans
<1> HIDE DEF AllCurrent
<1> QED BY <1>1, <1>2, <1>3, ViewInvariant, PTL DEF Spec

-----------------------------------------------------------------------------
(* The failure details                                                     *)

FailuresKept(p) ==
    LET last == Newest(Ran(p)) IN
    /\ last \in Ran(p) \cup {NoRun}
    /\ lastFailures[p] = IF last # NoRun /\ outcome[last] = "complete" THEN last ELSE NoRun

LEMMA NextFailures ==
    ASSUME VInv, VInv', [Next]_vars, NEW p \in Project, FailuresKept(p)
    PROVE  FailuresKept(p)'
<1> USE DEF requestVars, viewVars
<1>0. TypeOK /\ ViewStep /\ IInv /\ OutcomeAtFinish /\ IInv' /\ OutcomeAtFinish'
  BY ViewCases DEF VInv, IInv
<1>1. ASSUME Ran(p)' = Ran(p), lastFailures'[p] = lastFailures[p],
             \A q \in Ran(p) : outcome'[q] = outcome[q]
      PROVE  FailuresKept(p)'
  <2>1. PICK c : c = Newest(Ran(p))
    OBVIOUS
  <2>2. Newest(Ran(p))' = c
    BY <1>1, <2>1 DEF Newest
  <2>3. c \in Ran(p) => outcome'[c] = outcome[c]
    BY <1>1
  <2> QED BY <1>1, <2>1, <2>2, <2>3 DEF FailuresKept
<1>2. ASSUME NEW o \in Project, NEW s \in Selection, NEW i \in PlanId \cup {NoPlan},
             Enqueue(o, s, i)
      PROVE  FailuresKept(p)'
  <2>1. Ran(p)' = Ran(p)
    BY <1>0, <1>2, RequestsKeep
  <2> QED BY <1>1, <1>2, <2>1 DEF Enqueue
<1>3. CASE Quiet
  BY <1>0, <1>1, <1>3, OthersKeep DEF Quiet, shownVars
<1>4. ASSUME NEW r \in Run, Fork(r) \/ OnProgress(r) PROVE FailuresKept(p)'
  <2>1. Ran(p)' = Ran(p)
    BY <1>0, <1>4, OthersKeep
  <2> QED BY <1>1, <1>4, <2>1 DEF Fork, OnProgress
<1>5. ASSUME NEW r \in Run, Settles(r) PROVE FailuresKept(p)'
  <2>0. sel' = sel
    BY <1>0, <1>5, SettlesOutcome
  <2>1. ASSUME Ran(p)' = Ran(p), lastFailures'[p] = lastFailures[p] PROVE FailuresKept(p)'
    <3>1. ASSUME NEW q \in Ran(p) PROVE outcome'[q] = outcome[q]
      <4>1. q \in Run /\ pc[q] \in {"settled", "done"}
        BY <1>0, ShownAreRuns DEF Ran, Settled, OutcomeAtFinish
      <4> QED BY <1>0, <1>5, <4>1, SettlesOutcome DEF TypeOK
    <3> QED BY <1>1, <2>1, <3>1
  <2>2. CASE proj[r] # p
    <3>1. Settled(p)' = Settled(p)
      BY <1>0, <1>5, <2>2, SettlesGrows
    <3>2. Ran(p)' = Ran(p)
      BY <2>0, <3>1 DEF Ran
    <3> QED BY <1>0, <1>5, <2>1, <2>2, <3>2, SettlesElsewhere
  <2>3. CASE proj[r] = p /\ sel[r].empty
    <3>1. Settled(p)' = Settled(p) \cup {r}
      BY <1>0, <1>5, <2>3, SettlesGrows
    <3>2. Ran(p)' = Ran(p)
      BY <2>0, <2>3, <3>1 DEF Ran
    <3>3. lastFailures'[p] = lastFailures[p]
      BY <1>5, <2>3, SettlesPublishes
    <3> QED BY <2>1, <3>2, <3>3
  <2>4. CASE proj[r] = p /\ ~sel[r].empty
    <3>1. Settled(p)' = Settled(p) \cup {r}
      BY <1>0, <1>5, <2>4, SettlesGrows
    <3>2. Ran(p)' = Ran(p) \cup {r}
      BY <2>0, <2>4, <3>1 DEF Ran
    <3>3. Turn(r)
      BY <1>0, <1>5, SettlesOutcome
    <3>4. \A q \in Ran(p) : q <= r
      BY <1>0, <2>4, <3>3, NewestAtTurn DEF Ran, Shown
    <3>5. Ran(p)' \in SUBSET Run /\ r <= r
      BY <1>0, <3>2, ShownAreRuns, RunsAreIntegers
    <3>6. Newest(Ran(p)') = r
      BY <3>2, <3>4, <3>5, NewestIs
    <3>7. Newest(Ran(p))' = r
      BY <3>6 DEF Newest
    <3>8. lastFailures'[p] = IF outcome'[r] = "complete" THEN r ELSE NoRun
      BY <1>5, <2>4, SettlesPublishes
    <3>9. r # NoRun
      BY RunsAreIntegers
    <3> QED BY <3>2, <3>7, <3>8, <3>9 DEF FailuresKept
  <2> QED BY <2>2, <2>3, <2>4
<1> QED BY <1>0, <1>2, <1>3, <1>4, <1>5 DEF ViewStep

\* get_failures answers from the last run that reached a worker, or says there
\* is nothing when that run died.
THEOREM FailuresAreCurrent == Spec => []FailuresCurrent
<1> DEFINE AllKept == \A p \in Project : FailuresKept(p)
<1>1. ASSUME Init, NEW p \in Project PROVE FailuresKept(p)
  <2>1. Ran(p) = {}
    BY <1>1, BoundsAssumption DEF Init, Ran, Settled
  <2> QED BY <1>1, <2>1 DEF Init, FailuresKept, Newest
<1>2. VInv /\ VInv' /\ AllKept /\ [Next]_vars => AllKept'
  BY NextFailures
<1>3. AllKept => FailuresCurrent
  BY DEF FailuresCurrent, FailuresKept
<1>4. Init => AllKept
  BY <1>1
<1> HIDE DEF AllKept
<1> QED BY <1>2, <1>3, <1>4, ViewInvariant, PTL DEF Spec

-----------------------------------------------------------------------------
(* The history ring                                                        *)

\* What recordRun does to the ring h, entry by entry.
Pushed(h, rec, g) ==
    /\ g \in Seq(Record)
    /\ Len(g) = IF Len(h) < MaxHistory THEN Len(h) + 1 ELSE MaxHistory
    /\ 1 \in 1 .. Len(g) /\ g[1] = rec
    /\ \A k \in 1 .. Len(g) : k # 1 => k - 1 \in 1 .. Len(h) /\ g[k] = h[k - 1]
    /\ \A k \in 1 .. Len(h) : k < MaxHistory => k + 1 \in 1 .. Len(g) /\ g[k + 1] = h[k]

LEMMA RecordedEntries ==
    ASSUME NEW h \in Seq(Record), NEW rec \in Record, NEW g, g = Recorded(h, rec)
    PROVE  Pushed(h, rec, g)
<1> DEFINE a == <<rec>> \o h
           n == IF Len(h) < MaxHistory THEN Len(h) + 1 ELSE MaxHistory
<1>1. a \in Seq(Record) /\ Len(a) = Len(h) + 1
  OBVIOUS
<1>2. a[1] = rec /\ \A k \in 2 .. Len(h) + 1 : a[k] = h[k - 1]
  OBVIOUS
<1>3. n \in 1 .. Len(h) + 1
  BY HistoryAssumption
<1>4. g = SubSeq(a, 1, n)
  BY DEF Recorded
<1>5. Len(g) = n /\ \A k \in 1 .. n : g[k] = a[k]
  <2> HIDE DEF a, n
  <2> QED BY <1>1, <1>3, <1>4
<1>6. g \in Seq(Record)
  BY RecordedType
<1>7. \A k \in 1 .. Len(g) : k # 1 => k - 1 \in 1 .. Len(h) /\ g[k] = h[k - 1]
  <2> HIDE DEF a
  <2> QED BY <1>2, <1>3, <1>5
<1>8. ASSUME NEW k \in 1 .. Len(h), k < MaxHistory
      PROVE  k + 1 \in 1 .. Len(g) /\ g[k + 1] = h[k]
  <2>1. k + 1 \in 1 .. n /\ (k + 1) - 1 = k /\ k + 1 # 1
    BY <1>8, HistoryAssumption
  <2> HIDE DEF n
  <2> QED BY <1>5, <1>7, <2>1
<1> HIDE DEF a
<1> QED BY <1>2, <1>3, <1>5, <1>6, <1>7, <1>8 DEF Pushed

\* HistoryFaithful and LabelTruthful, for one project: a run that is not in the
\* ring is older than all that are, and the ring is full.
Ring(p) ==
    LET h == history[p] IN
    /\ Len(h) <= MaxHistory
    /\ \A j, k \in 1 .. Len(h) : j < k => h[j].run > h[k].run
    /\ \A k \in 1 .. Len(h) : /\ h[k].run \in Settled(p)
                              /\ h[k].status = outcome[h[k].run]
                              /\ Truthful(h[k])
    /\ \A q \in Settled(p) : (\A k \in 1 .. Len(h) : h[k].run # q) =>
          Len(h) = MaxHistory /\ \A k \in 1 .. Len(h) : q < h[k].run

LEMMA RingMeans ==
    ASSUME TypeOK, \A p \in Project : Ring(p) PROVE HistoryFaithful /\ LabelTruthful
<1> SUFFICES ASSUME NEW p \in Project
             PROVE  LET h == history[p]
                        kept == {h[k].run : k \in DOMAIN h}
                    IN  /\ \A j, k \in DOMAIN h : j < k => h[j].run > h[k].run
                        /\ kept \subseteq Settled(p)
                        /\ \A q \in Settled(p) \ kept :
                              Len(h) = MaxHistory /\ \A r \in kept : q < r
                        /\ \A k \in DOMAIN h : h[k].status = outcome[h[k].run]
                        /\ \A k \in DOMAIN h : Truthful(h[k])
  BY DEF HistoryFaithful, LabelTruthful, Truthful
<1>1. PICK h \in Seq(Record) : h = history[p]
  BY DEF TypeOK
<1>2. DOMAIN h = 1 .. Len(h)
  BY <1>1
<1> QED BY <1>1, <1>2 DEF Ring

\* Recording a run newer than every settled one keeps the ring in order.
LEMMA RingGrows ==
    ASSUME TypeOK, NEW p \in Project, Ring(p), NEW r \in Run, NEW rec \in Record,
           history'[p] = Recorded(history[p], rec), rec.run = r, rec.status = outcome'[r],
           Truthful(rec), Settled(p) \subseteq Run, Settled(p)' = Settled(p) \cup {r},
           \A q \in Settled(p) : q < r /\ outcome'[q] = outcome[q]
    PROVE  Ring(p)'
<1>1. PICK h \in Seq(Record) : h = history[p]
  BY DEF TypeOK
<1>2. PICK g : g = history'[p]
  OBVIOUS
<1>3. g = Recorded(h, rec)
  BY <1>1, <1>2
<1>4. /\ g \in Seq(Record)
      /\ Len(g) = IF Len(h) < MaxHistory THEN Len(h) + 1 ELSE MaxHistory
      /\ 1 \in 1 .. Len(g) /\ g[1] = rec
      /\ \A k \in 1 .. Len(g) : k # 1 => k - 1 \in 1 .. Len(h) /\ g[k] = h[k - 1]
      /\ \A k \in 1 .. Len(h) : k < MaxHistory => k + 1 \in 1 .. Len(g) /\ g[k + 1] = h[k]
  <2>1. Pushed(h, rec, g)
    BY <1>3, RecordedEntries
  <2> QED BY <2>1 DEF Pushed
<1>5. /\ Len(h) <= MaxHistory
      /\ \A j, k \in 1 .. Len(h) : j < k => h[j].run > h[k].run
      /\ \A k \in 1 .. Len(h) : /\ h[k].run \in Settled(p)
                                /\ h[k].status = outcome[h[k].run]
                                /\ Truthful(h[k])
      /\ \A q \in Settled(p) : (\A k \in 1 .. Len(h) : h[k].run # q) =>
            Len(h) = MaxHistory /\ \A k \in 1 .. Len(h) : q < h[k].run
  BY <1>1 DEF Ring
<1>6. Len(g) <= MaxHistory /\ Len(h) \in Nat /\ Len(g) \in Nat /\ MaxHistory \in Nat
  BY <1>4, HistoryAssumption
<1>7. \A k \in 1 .. Len(h) : h[k].run \in Run /\ h[k].run < r
  BY <1>5
<1>8. ASSUME NEW j \in 1 .. Len(g), NEW k \in 1 .. Len(g), j < k PROVE g[j].run > g[k].run
  <2>1. k # 1 /\ k - 1 \in 1 .. Len(h) /\ g[k] = h[k - 1]
    BY <1>4, <1>8
  <2>2. CASE j = 1
    <3>1. h[k - 1].run < r /\ h[k - 1].run \in Int /\ r \in Int
      BY <1>7, <2>1, RunsAreIntegers
    <3> QED BY <1>4, <2>1, <2>2, <3>1
  <2>3. CASE j # 1
    <3>1. j - 1 \in 1 .. Len(h) /\ g[j] = h[j - 1] /\ j - 1 < k - 1
      BY <1>4, <1>8, <2>3
    <3> QED BY <1>5, <2>1, <3>1
  <2> QED BY <2>2, <2>3
<1>9. ASSUME NEW k \in 1 .. Len(g)
      PROVE  /\ g[k].run \in Settled(p)' /\ g[k].status = outcome'[g[k].run]
             /\ Truthful(g[k])
  <2>1. CASE k = 1
    BY <1>4, <2>1
  <2>2. CASE k # 1
    BY <1>4, <1>5, <2>2
  <2> QED BY <2>1, <2>2
<1>10. ASSUME NEW q \in Settled(p)', \A k \in 1 .. Len(g) : g[k].run # q
       PROVE  Len(g) = MaxHistory /\ \A k \in 1 .. Len(g) : q < g[k].run
  <2>1. q \in Settled(p) /\ q < r /\ q \in Int /\ r \in Int
    BY <1>4, <1>10, RunsAreIntegers
  <2>2. CASE \A k \in 1 .. Len(h) : h[k].run # q
    <3>1. Len(h) = MaxHistory /\ \A k \in 1 .. Len(h) : q < h[k].run
      BY <1>5, <2>1, <2>2
    <3>2. ASSUME NEW k \in 1 .. Len(g) PROVE q < g[k].run
      BY <1>4, <2>1, <3>1
    <3> QED BY <1>4, <1>6, <3>1, <3>2
  <2>3. CASE \E m \in 1 .. Len(h) : h[m].run = q
    <3>1. PICK m \in 1 .. Len(h) : h[m].run = q
      BY <2>3
    <3>2. ~(m < MaxHistory)
      BY <1>4, <1>10, <3>1
    <3>3. m = Len(h) /\ Len(h) = MaxHistory
      BY <1>5, <1>6, <3>2
    <3>4. ASSUME NEW k \in 1 .. Len(g) PROVE q < g[k].run
      <4>1. CASE k = 1
        BY <1>4, <2>1, <4>1
      <4>2. CASE k # 1
        <5>1. k - 1 \in 1 .. Len(h) /\ g[k] = h[k - 1] /\ k - 1 < m
          BY <1>4, <1>6, <3>3, <4>2
        <5>2. h[k - 1].run > h[m].run /\ h[k - 1].run \in Int
          BY <1>5, <1>7, <5>1, RunsAreIntegers
        <5> QED BY <2>1, <3>1, <5>1, <5>2
      <4> QED BY <4>1, <4>2
    <3> QED BY <1>4, <1>6, <3>3, <3>4
  <2> QED BY <2>2, <2>3
<1> QED BY <1>2, <1>6, <1>8, <1>9, <1>10 DEF Ring, Truthful

LEMMA NextRing ==
    ASSUME VInv, VInv', [Next]_vars, NEW p \in Project, Ring(p)
    PROVE  Ring(p)'
<1> USE DEF requestVars, viewVars
<1>0. /\ TypeOK /\ ViewStep /\ IInv /\ OutcomeAtFinish /\ IInv' /\ OutcomeAtFinish'
      /\ Settled(p) \subseteq Run
  BY ViewCases, ShownAreRuns DEF VInv, IInv
<1>1. ASSUME Settled(p)' = Settled(p), history'[p] = history[p],
             \A q \in Settled(p) : outcome'[q] = outcome[q]
      PROVE  Ring(p)'
  BY <1>1 DEF Ring, Truthful
<1>2. ASSUME NEW o \in Project, NEW s \in Selection, NEW i \in PlanId \cup {NoPlan},
             Enqueue(o, s, i)
      PROVE  Ring(p)'
  <2>1. Settled(p)' = Settled(p)
    BY <1>0, <1>2, RequestsKeep
  <2> QED BY <1>1, <1>2, <2>1 DEF Enqueue
<1>3. CASE Quiet
  BY <1>0, <1>1, <1>3, OthersKeep DEF Quiet, shownVars
<1>4. ASSUME NEW r \in Run, Fork(r) \/ OnProgress(r) PROVE Ring(p)'
  <2>1. Settled(p)' = Settled(p)
    BY <1>0, <1>4, OthersKeep
  <2> QED BY <1>1, <1>4, <2>1 DEF Fork, OnProgress
<1>5. ASSUME NEW r \in Run, Settles(r) PROVE Ring(p)'
  <2>1. ASSUME NEW q \in Settled(p) PROVE outcome'[q] = outcome[q]
    <3>1. q \in Run /\ pc[q] \in {"settled", "done"}
      BY <1>0 DEF Settled, OutcomeAtFinish
    <3>2. PICK x \in {"complete", "error"}, y \in {"settled", "done"} :
             outcome' = [outcome EXCEPT ![r] = x] /\ pc' = [pc EXCEPT ![r] = y]
      BY <1>0, <1>5, SettlesOutcome
    <3>3. q # r
      BY <1>0, <1>5, <3>1, SettlesOutcome
    <3> QED BY <1>0, <3>1, <3>2, <3>3 DEF TypeOK
  <2>2. CASE proj[r] # p
    <3>1. Settled(p)' = Settled(p)
      BY <1>0, <1>5, <2>2, SettlesGrows
    <3>2. history'[p] = history[p]
      BY <1>0, <1>5, <2>2, SettlesElsewhere
    <3> QED BY <1>1, <2>1, <3>1, <3>2
  <2>3. CASE proj[r] = p
    <3>1. Settled(p)' = Settled(p) \cup {r}
      BY <1>0, <1>5, <2>3, SettlesGrows
    <3>2. Turn(r)
      BY <1>0, <1>5, SettlesOutcome
    <3>3. \A q \in Settled(p) : q < r
      BY <1>0, <2>3, <3>2, NewestAtTurn
    <3>4. PICK rec \in Record : /\ history'[p] = Recorded(history[p], rec)
                                /\ rec.run = r /\ rec.status = outcome'[r] /\ Truthful(rec)
      BY <1>5, <2>3, SettlesPublishes
    <3> QED BY <1>0, <2>1, <3>1, <3>3, <3>4, RingGrows
  <2> QED BY <2>2, <2>3
<1> QED BY <1>0, <1>2, <1>3, <1>4, <1>5 DEF ViewStep

LEMMA RingInvariant == Spec => [](HistoryFaithful /\ LabelTruthful)
<1> DEFINE AllRings == \A p \in Project : Ring(p)
<1>1. ASSUME Init, NEW p \in Project PROVE Ring(p)
  <2>1. Settled(p) = {}
    BY <1>1, BoundsAssumption DEF Init, Settled
  <2> QED BY <1>1, <2>1, HistoryAssumption DEF Init, Ring
<1>2. VInv /\ VInv' /\ AllRings /\ [Next]_vars => AllRings'
  BY NextRing
<1>3. VInv /\ AllRings => HistoryFaithful /\ LabelTruthful
  BY RingMeans DEF VInv, IInv
<1>4. Init => AllRings
  BY <1>1
<1> HIDE DEF AllRings
<1> QED BY <1>2, <1>3, <1>4, ViewInvariant, PTL DEF Spec

\* The ring holds the newest settled runs of the project, in order, with the
\* status each settled with, for any length of the ring.
THEOREM HistoryIsFaithful == Spec => []HistoryFaithful
<1> QED BY RingInvariant, PTL

\* A complete record is labelled "full" exactly when its worker ran everything.
THEOREM LabelsAreTruthful == Spec => []LabelTruthful
<1> QED BY RingInvariant, PTL

-----------------------------------------------------------------------------
(* The snapshot                                                            *)

\* The baseline is the hashes of a settled run, if there is one.
Baseline(p) == snapshot[p] \in Settled(p) \cup {NoRun}

LEMMA NextBaseline ==
    ASSUME VInv, VInv', [Next]_vars, NEW p \in Project, Baseline(p)
    PROVE  Baseline(p)' /\ snapshot'[p] >= snapshot[p]
<1> USE DEF requestVars, viewVars
<1>0. /\ TypeOK /\ ViewStep /\ IInv /\ OutcomeAtFinish /\ IInv' /\ OutcomeAtFinish'
      /\ Settled(p) \subseteq Run
  BY ViewCases, ShownAreRuns DEF VInv, IInv
<1>1. ASSUME Settled(p) \subseteq Settled(p)', snapshot'[p] = snapshot[p]
      PROVE  Baseline(p)' /\ snapshot'[p] >= snapshot[p]
  <2>1. snapshot[p] \in Int
    BY <1>0, RunsAreIntegers DEF Baseline
  <2> QED BY <1>1, <2>1 DEF Baseline
<1>2. ASSUME NEW o \in Project, NEW s \in Selection, NEW i \in PlanId \cup {NoPlan},
             Enqueue(o, s, i)
      PROVE  Baseline(p)' /\ snapshot'[p] >= snapshot[p]
  <2>1. Settled(p)' = Settled(p)
    BY <1>0, <1>2, RequestsKeep
  <2> QED BY <1>1, <1>2, <2>1 DEF Enqueue
<1>3. CASE Quiet
  BY <1>0, <1>1, <1>3, OthersKeep DEF Quiet, shownVars
<1>4. ASSUME NEW r \in Run, Fork(r) \/ OnProgress(r)
      PROVE  Baseline(p)' /\ snapshot'[p] >= snapshot[p]
  <2>1. Settled(p)' = Settled(p)
    BY <1>0, <1>4, OthersKeep
  <2> QED BY <1>1, <1>4, <2>1 DEF Fork, OnProgress
<1>5. ASSUME NEW r \in Run, Settles(r) PROVE Baseline(p)' /\ snapshot'[p] >= snapshot[p]
  <2>1. CASE proj[r] # p
    BY <1>0, <1>1, <1>5, <2>1, SettlesGrows, SettlesElsewhere
  <2>2. CASE proj[r] = p
    <3>1. Settled(p)' = Settled(p) \cup {r}
      BY <1>0, <1>5, <2>2, SettlesGrows
    <3>2. Turn(r)
      BY <1>0, <1>5, SettlesOutcome
    <3>3. \A q \in Settled(p) : q < r
      BY <1>0, <2>2, <3>2, NewestAtTurn
    <3>4. snapshot'[p] \in {snapshot[p], r}
      BY <1>5, <2>2, SettlesPublishes
    <3>5. CASE snapshot'[p] = snapshot[p]
      BY <1>1, <3>1, <3>5
    <3>6. CASE snapshot'[p] = r
      <4>1. snapshot[p] \in Int /\ r \in Int /\ snapshot[p] < r
        BY <1>0, <3>3, RunsAreIntegers DEF Baseline, NoRun
      <4> QED BY <3>1, <3>6, <4>1 DEF Baseline
    <3> QED BY <3>4, <3>5, <3>6
  <2> QED BY <2>1, <2>2
<1> QED BY <1>0, <1>2, <1>3, <1>4, <1>5 DEF ViewStep

\* The last-run snapshot never returns to the hashes of an earlier request.
THEOREM SnapshotAdvances == Spec => SnapshotNeverRegresses
<1> DEFINE AllBaselines == \A p \in Project : Baseline(p)
<1>1. Init => AllBaselines
  BY DEF Init, Baseline
<1>2. VInv /\ VInv' /\ AllBaselines /\ [Next]_vars =>
         AllBaselines' /\ [\A p \in Project : snapshot'[p] >= snapshot[p]]_vars
  BY NextBaseline
<1> HIDE DEF AllBaselines
<1> QED BY <1>1, <1>2, ViewInvariant, PTL DEF Spec, SnapshotNeverRegresses

-----------------------------------------------------------------------------
(* Dry-run plans                                                           *)

\* Plan ids are handed out in order, and the plan of a run is not in the map.
PlansSpent ==
    /\ \A i \in PlanId : plans[i].stored => i <= nextPlan
    /\ \A r \in Run : pc[r] # "unused" /\ planOf[r] # NoPlan =>
                         planOf[r] <= nextPlan /\ ~plans[planOf[r]].stored

LEMMA PlanFields ==
    ASSUME NEW ps \in [PlanId -> StoredPlan], NEW i \in PlanId
    PROVE  /\ Sweep(ps)[i] \in StoredPlan
           /\ Sweep(ps)[i].stored = (ps[i].stored /\ ~ps[i].expired)
           /\ [ps[i] EXCEPT !.expired = TRUE].stored = ps[i].stored
           /\ [Sweep(ps)[i] EXCEPT !.stored = FALSE].stored = FALSE
BY DEF Sweep, StoredPlan

LEMMA PlansAreIntegers == PlanId \subseteq Int /\ NoPlan \in Int /\ NoPlan \notin PlanId
BY BoundsAssumption DEF PlanId, NoPlan

\* PlanHonoured, for one run.
Honours(r) ==
    LET i == planOf'[r] IN
    (pc[r] = "unused" /\ pc'[r] = "queued" /\ i # NoPlan) =>
        /\ plans[i].project = proj'[r] /\ ~plans[i].expired
        /\ \A q \in Run : pc[q] # "unused" => planOf[q] # i

\* A step that requests no run and stores no plan.
LEMMA NoNewPlan ==
    ASSUME TypeOK, PlansSpent, planOf' = planOf, nextPlan' = nextPlan,
           \A r \in Run : pc'[r] = "unused" <=> pc[r] = "unused",
           \A i \in PlanId : plans'[i].stored => plans[i].stored
    PROVE  PlansSpent' /\ \A r \in Run : Honours(r)
<1>1. \A i \in PlanId : plans'[i].stored => i <= nextPlan'
  BY DEF PlansSpent
<1>2. ASSUME NEW r \in Run, pc'[r] # "unused", planOf'[r] # NoPlan
      PROVE  planOf'[r] <= nextPlan' /\ ~plans'[planOf'[r]].stored
  <2>1. planOf[r] <= nextPlan /\ ~plans[planOf[r]].stored
    BY <1>2 DEF PlansSpent
  <2>2. planOf[r] \in PlanId
    BY <1>2 DEF TypeOK
  <2> QED BY <2>1, <2>2
<1>3. \A r \in Run : Honours(r)
  BY DEF Honours
<1> QED BY <1>1, <1>2, <1>3 DEF PlansSpent

\* What a run moving on leaves alone.
LEMMA MovingOn ==
    ASSUME TypeOK, NoLostWaiter, NEW r \in Run,
           Schedule(r) \/ Handle(r) \/ OnTimeout(r) \/ WorkerStep(r)
    PROVE  /\ UNCHANGED <<plans, nextPlan, planOf>>
           /\ \A q \in Run : pc'[q] = "unused" <=> pc[q] = "unused"
<1> USE DEF requestVars, planVars
<1>1. CASE Schedule(r)
  <2>1. UNCHANGED <<plans, nextPlan, planOf>>
    BY <1>1 DEF Schedule, CompleteEmpty, Acquire, Wait, Fork, Release
  <2>2. Advances(r)
    BY <1>1, Progressions
  <2> QED BY <2>1, <2>2 DEF Advances
<1>2. CASE OnReady(r) \/ OnProgress(r) \/ OnCase(r) \/ WorkerStep(r)
  BY <1>2 DEF OnReady, OnProgress, OnCase, WorkerStep, WorkerReady, WorkerSignal, WorkerResult,
              WorkerBad, WorkerExit, WorkerFrame
<1>3. CASE OnResult(r)
  BY <1>3 DEF OnResult, Incoming, Finish, TypeOK
<1>4. CASE OnReadySendFailed(r) \/ OnBadMessage(r) \/ OnExit(r) \/ OnTimeout(r)
  BY <1>4 DEF OnReadySendFailed, OnBadMessage, OnExit, OnTimeout, Incoming, FailRun, Finish, TypeOK
<1> QED BY <1>1, <1>2, <1>3, <1>4 DEF Handle

LEMMA NextPlans ==
    ASSUME IInv, OutcomeAtFinish, PlansSpent, [Next]_vars
    PROVE  PlansSpent' /\ \A r \in Run : Honours(r)
<1> USE DEF requestVars, slotVars, workerVars, viewVars, planVars
<1>0. TypeOK /\ NoLostWaiter
  BY DEF IInv
<1>1. ASSUME NEW p \in Project, NEW s \in Requests, StartRun(p, s)
      PROVE  PlansSpent' /\ \A r \in Run : Honours(r)
  <2>1. PICK n \in Run : /\ planOf' = [planOf EXCEPT ![n] = NoPlan]
                         /\ pc' = [pc EXCEPT ![n] = "queued"] /\ UNCHANGED <<plans, nextPlan>>
    BY <1>1, FreshRun, SelectionTypes DEF StartRun
  <2>2. planOf'[n] = NoPlan /\ \A r \in Run : r # n => planOf'[r] = planOf[r] /\ pc'[r] = pc[r]
    BY <1>0, <2>1 DEF TypeOK
  <2> QED BY <1>0, <2>1, <2>2 DEF PlansSpent, Honours
<1>2. ASSUME NEW p \in Project, NEW s \in Requests, DryRun(p, s)
      PROVE  PlansSpent' /\ \A r \in Run : Honours(r)
  <2>1. /\ nextPlan < MaxPlans /\ nextPlan' = nextPlan + 1 /\ pc' = pc /\ planOf' = planOf
        /\ plans' = [Sweep(plans) EXCEPT ![nextPlan + 1] =
                       [stored |-> TRUE, expired |-> FALSE, project |-> p, sel |-> s]]
    BY <1>2 DEF DryRun
  <2>2. nextPlan \in Int /\ nextPlan < nextPlan + 1
    BY <1>0, BoundsAssumption DEF TypeOK
  <2>3. ASSUME NEW i \in PlanId, i # nextPlan + 1 PROVE plans'[i].stored => plans[i].stored
    <3>1. plans'[i] = Sweep(plans)[i]
      BY <1>0, <2>1, <2>3, SweepType DEF TypeOK
    <3> QED BY <1>0, <3>1, PlanFields DEF TypeOK
  <2>4. ASSUME NEW i \in PlanId, plans'[i].stored PROVE i <= nextPlan'
    <3>1. i \in Int
      BY PlansAreIntegers
    <3>2. CASE i = nextPlan + 1
      BY <2>1, <2>2, <3>2
    <3>3. CASE i # nextPlan + 1
      <4>1. i <= nextPlan
        BY <2>3, <2>4, <3>3 DEF PlansSpent
      <4> QED BY <2>1, <2>2, <3>1, <4>1
    <3> QED BY <3>2, <3>3
  <2>5. ASSUME NEW r \in Run, pc[r] # "unused", planOf[r] # NoPlan
        PROVE  planOf[r] <= nextPlan' /\ ~plans'[planOf[r]].stored
    <3>1. planOf[r] \in PlanId /\ planOf[r] \in Int
      BY <1>0, <2>5, PlansAreIntegers DEF TypeOK
    <3>2. planOf[r] <= nextPlan /\ ~plans[planOf[r]].stored
      BY <2>5 DEF PlansSpent
    <3>3. planOf[r] # nextPlan + 1 /\ planOf[r] <= nextPlan + 1
      BY <2>2, <3>1, <3>2
    <3> QED BY <2>1, <2>3, <3>1, <3>2, <3>3
  <2>6. PlansSpent'
    BY <2>1, <2>4, <2>5 DEF PlansSpent
  <2> QED BY <2>1, <2>6 DEF Honours
<1>3. ASSUME NEW p \in Project, NEW i \in PlanId, CommitPlan(p, i)
      PROVE  PlansSpent' /\ \A r \in Run : Honours(r)
  <2>1. Committed(plans[i].sel) \in Selection
    BY <1>0, SelectionTypes, PlanUpdates DEF TypeOK
  <2>2. PICK n \in Run : /\ planOf' = [planOf EXCEPT ![n] = i] /\ pc[n] = "unused"
                         /\ pc' = [pc EXCEPT ![n] = "queued"] /\ proj' = [proj EXCEPT ![n] = p]
    BY <1>3, <2>1, FreshRun DEF CommitPlan
  <2>3. /\ planOf'[n] = i /\ proj'[n] = p
        /\ \A r \in Run : r # n => planOf'[r] = planOf[r] /\ pc'[r] = pc[r]
    BY <1>0, <2>2 DEF TypeOK
  <2>4. plans[i].stored /\ ~plans[i].expired /\ plans[i].project = p /\ nextPlan' = nextPlan
    BY <1>0, <1>3, PlanFields DEF CommitPlan, Usable, TypeOK
  <2>5. plans' = [Sweep(plans) EXCEPT ![i].stored = FALSE]
    BY <1>3 DEF CommitPlan
  <2>6. ~plans'[i].stored /\ \A j \in PlanId : plans'[j].stored => plans[j].stored
    <3>1. Sweep(plans) \in [PlanId -> StoredPlan]
      BY <1>0, SweepType DEF TypeOK
    <3>2. plans'[i] = [Sweep(plans)[i] EXCEPT !.stored = FALSE]
      BY <2>5, <3>1
    <3>3. \A j \in PlanId : j # i => plans'[j] = Sweep(plans)[j]
      BY <2>5, <3>1
    <3>4. plans'[i].stored = FALSE
      BY <1>0, <3>2, PlanFields DEF TypeOK
    <3>5. \A j \in PlanId : j # i => (plans'[j].stored => plans[j].stored)
      BY <1>0, <3>3, PlanFields DEF TypeOK
    <3> QED BY <3>4, <3>5
  <2>7. i <= nextPlan /\ \A q \in Run : pc[q] # "unused" => planOf[q] # i
    BY <2>4, PlansAreIntegers DEF PlansSpent
  <2>8. PlansSpent'
    <3>1. ASSUME NEW r \in Run, pc'[r] # "unused", planOf'[r] # NoPlan
          PROVE  planOf'[r] <= nextPlan' /\ ~plans'[planOf'[r]].stored
      <4>1. CASE r = n
        BY <2>3, <2>4, <2>6, <2>7, <4>1
      <4>2. CASE r # n
        <5>1. planOf[r] <= nextPlan /\ ~plans[planOf[r]].stored /\ planOf'[r] = planOf[r]
          BY <2>3, <3>1, <4>2 DEF PlansSpent
        <5>2. planOf[r] \in PlanId
          BY <1>0, <2>3, <3>1, <4>2 DEF TypeOK
        <5> QED BY <2>4, <2>6, <5>1, <5>2
      <4> QED BY <4>1, <4>2
    <3>2. \A j \in PlanId : plans'[j].stored => j <= nextPlan'
      BY <2>4, <2>6 DEF PlansSpent
    <3> QED BY <3>1, <3>2 DEF PlansSpent
  <2>9. ASSUME NEW r \in Run PROVE Honours(r)
    <3>1. CASE r = n
      BY <2>3, <2>4, <2>7, <3>1 DEF Honours
    <3>2. CASE r # n
      BY <2>3, <3>2 DEF Honours
    <3> QED BY <3>1, <3>2
  <2> QED BY <2>8, <2>9
<1>4. ASSUME NEW p \in Project, NEW i \in PlanId, RejectPlan(p, i)
      PROVE  PlansSpent' /\ \A r \in Run : Honours(r)
  <2>1. plans' = [Sweep(plans) EXCEPT ![i].stored = FALSE] /\ UNCHANGED <<pc, planOf, nextPlan>>
    BY <1>4 DEF RejectPlan
  <2>2. Sweep(plans) \in [PlanId -> StoredPlan]
    BY <1>0, SweepType DEF TypeOK
  <2>3. plans'[i] = [Sweep(plans)[i] EXCEPT !.stored = FALSE]
    BY <2>1, <2>2
  <2>4. \A j \in PlanId : j # i => plans'[j] = Sweep(plans)[j]
    BY <2>1, <2>2
  <2>5. ASSUME NEW j \in PlanId, plans'[j].stored PROVE plans[j].stored
    <3>0. plans'[i].stored = FALSE
      BY <1>0, <2>3, PlanFields DEF TypeOK
    <3>1. j # i /\ plans'[j] = Sweep(plans)[j]
      BY <2>4, <2>5, <3>0
    <3> QED BY <1>0, <2>5, <3>1, PlanFields DEF TypeOK
  <2> QED BY <1>0, <2>1, <2>5, NoNewPlan
<1>5. ASSUME NEW i \in PlanId, Expire(i) PROVE PlansSpent' /\ \A r \in Run : Honours(r)
  <2>1. plans' = [plans EXCEPT ![i].expired = TRUE] /\ UNCHANGED <<pc, planOf, nextPlan>>
    BY <1>5 DEF Expire
  <2>2. plans'[i] = [plans[i] EXCEPT !.expired = TRUE]
    BY <1>0, <2>1 DEF TypeOK
  <2>3. \A j \in PlanId : j # i => plans'[j] = plans[j]
    BY <1>0, <2>1 DEF TypeOK
  <2>4. ASSUME NEW j \in PlanId, plans'[j].stored PROVE plans[j].stored
    <3>0. plans'[i].stored = plans[i].stored
      BY <1>0, <2>2, PlanFields DEF TypeOK
    <3>1. CASE j = i
      BY <2>4, <3>0, <3>1
    <3>2. CASE j # i
      BY <2>3, <2>4, <3>2
    <3> QED BY <3>1, <3>2
  <2> QED BY <1>0, <2>1, <2>4, NoNewPlan
<1>6. ASSUME NEW r \in Run, Schedule(r) \/ Handle(r) \/ OnTimeout(r) \/ WorkerStep(r)
      PROVE  PlansSpent' /\ \A q \in Run : Honours(q)
  BY <1>0, <1>6, MovingOn, NoNewPlan
<1>7. CASE UNCHANGED vars
  BY <1>0, <1>7, NoNewPlan DEF vars
<1> QED
  BY <1>1, <1>2, <1>3, <1>4, <1>5, <1>6, <1>7 DEF Next, Request

\* A dry-run plan is committed at most once, by its own project, before it
\* expires.
THEOREM PlansHonoured == Spec => PlanHonoured
<1>1. Init => PlansSpent
  BY DEF Init, PlansSpent
<1>2. VInv /\ PlansSpent /\ [Next]_vars => PlansSpent' /\ [\A r \in Run : Honours(r)]_vars
  BY NextPlans DEF VInv
<1>3. ASSUME \A r \in Run : Honours(r)
      PROVE  \A r \in Run : LET i == planOf'[r] IN
                (pc[r] = "unused" /\ pc'[r] = "queued" /\ i # NoPlan) =>
                    /\ plans[i].project = proj'[r] /\ ~plans[i].expired
                    /\ \A q \in Run : pc[q] # "unused" => planOf[q] # i
  BY <1>3 DEF Honours
<1>4. VInv /\ PlansSpent /\ [Next]_vars =>
         [\A r \in Run : LET i == planOf'[r] IN
             (pc[r] = "unused" /\ pc'[r] = "queued" /\ i # NoPlan) =>
                 /\ plans[i].project = proj'[r] /\ ~plans[i].expired
                 /\ \A q \in Run : pc[q] # "unused" => planOf[q] # i]_vars
  BY <1>2, <1>3
<1>5. VInv /\ PlansSpent /\ [Next]_vars => PlansSpent'
  BY <1>2
<1> QED BY <1>1, <1>4, <1>5, ViewInvariant, PTL DEF Spec, PlanHonoured

-----------------------------------------------------------------------------
(* What callers are told                                                   *)

\* The slot of a project that shows a settled run shows its result or error.
Marked(p) == /\ runState[p].state = "complete" => runState[p].lastResult = runState[p].runId
             /\ runState[p].state = "error" => runState[p].lastError = runState[p].runId

LEMMA MarkFields ==
    ASSUME NEW s \in RunStatus, NEW r \in Run
    PROVE  LET a == [s EXCEPT !.state = "complete", !.runId = r, !.lastResult = r, !.progress = FALSE]
               b == [s EXCEPT !.state = "error", !.runId = r, !.lastError = r, !.progress = FALSE]
               c == [s EXCEPT !.state = "running", !.runId = r, !.lastError = NoRun, !.progress = FALSE]
               d == [s EXCEPT !.state = "running", !.progress = TRUE]
           IN  /\ a.state = "complete" /\ a.runId = r /\ a.lastResult = r
               /\ b.state = "error" /\ b.runId = r /\ b.lastError = r
               /\ c.state = "running" /\ d.state = "running"
BY DEF RunStatus

LEMMA NextMarked ==
    ASSUME IInv, [Next]_vars, NEW p \in Project, Marked(p)
    PROVE  Marked(p)'
<1> USE DEF viewVars
<1>0. TypeOK /\ ViewStep /\ runState[p] \in RunStatus
  BY ViewCases DEF IInv, TypeOK
<1>1. ASSUME runState'[p] = runState[p] PROVE Marked(p)'
  BY <1>1 DEF Marked
<1>2. ASSUME NEW o \in Project, NEW s \in Selection, NEW i \in PlanId \cup {NoPlan},
             Enqueue(o, s, i)
      PROVE  Marked(p)'
  BY <1>1, <1>2 DEF Enqueue
<1>3. CASE Quiet
  BY <1>1, <1>3 DEF Quiet, shownVars
<1>4. ASSUME NEW r \in Run, p # proj[r], Fork(r) \/ OnProgress(r) \/ Settles(r)
      PROVE  Marked(p)'
  <2>1. runState'[p] = runState[p]
    BY <1>0, <1>4, SettlesElsewhere DEF Fork, OnProgress, TypeOK
  <2> QED BY <1>1, <2>1
<1>5. ASSUME NEW r \in Run, p = proj[r], Fork(r) \/ OnProgress(r) \/ Settles(r)
      PROVE  Marked(p)'
  <2>1. CASE Fork(r)
    <3>1. runState'[p] = [runState[p] EXCEPT !.state = "running", !.runId = r,
                                             !.lastError = NoRun, !.progress = FALSE]
      BY <1>0, <1>5, <2>1 DEF Fork, TypeOK
    <3>2. runState'[p].state = "running"
      BY <1>0, <3>1, MarkFields
    <3> QED BY <3>2 DEF Marked
  <2>2. CASE OnProgress(r)
    <3>1. runState'[p] = [runState[p] EXCEPT !.state = "running", !.progress = TRUE]
      BY <1>0, <1>5, <2>2 DEF OnProgress, TypeOK
    <3>2. runState'[p].state = "running"
      BY <1>0, <3>1, MarkFields
    <3> QED BY <3>2 DEF Marked
  <2>3. CASE CompleteEmpty(r) \/ OnResult(r)
    <3>1. runState'[p] = [runState[p] EXCEPT !.state = "complete", !.runId = r, !.lastResult = r,
                                             !.progress = FALSE]
      BY <1>0, <1>5, <2>3 DEF CompleteEmpty, OnResult, TypeOK
    <3>2. /\ runState'[p].state = "complete" /\ runState'[p].runId = r
          /\ runState'[p].lastResult = r
      BY <1>0, <3>1, MarkFields
    <3> QED BY <3>2 DEF Marked
  <2>4. CASE FailRun(r)
    <3>1. runState'[p] = [runState[p] EXCEPT !.state = "error", !.runId = r, !.lastError = r,
                                             !.progress = FALSE]
      BY <1>0, <1>5, <2>4 DEF FailRun, TypeOK
    <3>2. runState'[p].state = "error" /\ runState'[p].runId = r /\ runState'[p].lastError = r
      BY <1>0, <3>1, MarkFields
    <3> QED BY <3>2 DEF Marked
  <2> QED BY <1>5, <2>1, <2>2, <2>3, <2>4 DEF Settles
<1> QED BY <1>0, <1>2, <1>3, <1>4, <1>5 DEF ViewStep

\* What a call knows: the run it was accepted as is one of its project, and a
\* verdict it was given is that run's.
Own(k) ==
    /\ k.stage \in {"unmade", "reading"} => k.run = NoRun /\ k.reply.state = "idle"
    /\ k.run # NoRun => pc[k.run] # "unused" /\ proj[k.run] = k.project
    /\ k.stage \in {"waiting", "polling"} => k.run # NoRun
    /\ k.run # NoRun /\ k.reply.state \in {"complete", "error"} =>
          /\ outcome[k.run] = k.reply.state
          /\ k.reply.state = "complete" => k.reply.result = k.run
          /\ k.reply.state = "error" => k.reply.error = k.run

ToolInv == /\ VInv /\ \A p \in Project : Current(p) /\ Marked(p)
           /\ call \in [Call -> CallState] /\ \A c \in Call : Own(call[c])

\* Runs that were requested stay what they are.
LEMMA RunsStay ==
    ASSUME VInv, [Next]_vars, NEW r \in Run, pc[r] # "unused"
    PROVE  /\ pc'[r] # "unused" /\ proj'[r] = proj[r]
           /\ outcome[r] # "pending" => outcome'[r] = outcome[r]
<1>0. TypeOK /\ ViewStep /\ IInv /\ OutcomeAtFinish
  BY ViewCases DEF VInv, IInv
<1>1. ASSUME NEW p \in Project, NEW s \in Selection, NEW i \in PlanId \cup {NoPlan},
             Enqueue(p, s, i)
      PROVE  pc'[r] # "unused" /\ proj'[r] = proj[r] /\ outcome'[r] = outcome[r]
  BY <1>0, <1>1, FreshRun DEF TypeOK
<1>2. ASSUME NEW q \in Run, Fork(q) \/ OnProgress(q)
      PROVE  pc'[r] # "unused" /\ proj'[r] = proj[r] /\ outcome'[r] = outcome[r]
  BY <1>0, <1>2 DEF Fork, OnProgress, TypeOK, requestVars
<1>3. ASSUME NEW q \in Run, Settles(q)
      PROVE  /\ pc'[r] # "unused" /\ proj'[r] = proj[r]
             /\ outcome[r] # "pending" => outcome'[r] = outcome[r]
  <2>1. PICK x \in {"complete", "error"}, y \in {"settled", "done"} :
           outcome' = [outcome EXCEPT ![q] = x] /\ pc' = [pc EXCEPT ![q] = y]
    BY <1>0, <1>3, SettlesOutcome
  <2>2. outcome[r] # "pending" => q # r
    BY <1>0, <1>3, SettlesOutcome DEF OutcomeAtFinish
  <2>3. proj' = proj
    BY <1>0, <1>3, SettlesOutcome
  <2> QED BY <1>0, <2>1, <2>2, <2>3 DEF TypeOK
<1>4. CASE Quiet
  <2>1. proj' = proj /\ outcome' = outcome
    BY <1>4 DEF Quiet, shownVars
  <2>2. QueueChained /\ QueueChained' /\ nextRun' = nextRun
    BY <1>0, <1>4, NextIInv DEF IInv, Quiet, shownVars
  <2>3. pc'[r] # "unused"
    BY <2>2 DEF QueueChained
  <2> QED BY <2>1, <2>3
<1> QED BY <1>0, <1>1, <1>2, <1>3, <1>4 DEF ViewStep

LEMMA OwnStays ==
    ASSUME VInv, [Next]_vars, NEW k \in CallState, Own(k)
    PROVE  Own(k)'
<1>1. CASE k.run = NoRun
  BY <1>1 DEF Own
<1>2. CASE k.run # NoRun
  <2>1. k.run \in Run
    BY <1>2 DEF CallState
  <2>2. /\ pc'[k.run] # "unused" /\ proj'[k.run] = proj[k.run]
        /\ outcome[k.run] # "pending" => outcome'[k.run] = outcome[k.run]
    BY <1>2, <2>1, RunsStay DEF Own
  <2> QED BY <1>2, <2>2 DEF Own
<1> QED BY <1>1, <1>2

LEMMA CallBecomes ==
    ASSUME ToolInv, [Next]_vars, NEW c \in Call, NEW k \in CallState, Own(k)',
           call' = [call EXCEPT ![c] = k]
    PROVE  call' \in [Call -> CallState] /\ \A d \in Call : Own(call[d])'
<1>0. VInv /\ call \in [Call -> CallState] /\ \A d \in Call : Own(call[d])
  BY DEF ToolInv
<1>1. call' \in [Call -> CallState]
  BY <1>0
<1>2. ASSUME NEW d \in Call PROVE Own(call[d])'
  <2>1. CASE d = c
    <3>1. call'[d] = k
      BY <1>0, <2>1
    <3> QED BY <3>1 DEF Own
  <2>2. CASE d # c
    <3>1. PICK h \in CallState : h = call[d] /\ h = call'[d]
      BY <1>0, <2>2
    <3>2. Own(h)
      BY <1>0, <3>1
    <3>3. Own(h)'
      BY <1>0, <3>2, OwnStays
    <3> QED BY <3>1, <3>3 DEF Own
  <2> QED BY <2>1, <2>2
<1> QED BY <1>1, <1>2

\* A verdict read from the slot of a run's project is the run's own.
LEMMA StatusIsOwn ==
    ASSUME VInv, NEW p \in Project, Current(p), Marked(p), NEW r \in Run,
           NEW s \in Reply, s = Status(p, r), s.state \in {"complete", "error"}
    PROVE  /\ outcome[r] = s.state
           /\ s.state = "complete" => s.result = r
           /\ s.state = "error" => s.error = r
<1>0. runState[p].runId = NoRun \/ runState[p].runId = r
  BY DEF Status, NoReply
<1>1. /\ s.state = runState[p].state /\ s.result = runState[p].lastResult
      /\ s.error = runState[p].lastError
  BY <1>0 DEF Status
<1>2. PICK n : n = Newest(Shown(p))
  OBVIOUS
<1>3. /\ runState[p].runId = n
      /\ runState[p].state = CASE n = NoRun -> "idle"
                               [] n \in Executing(p) -> "running"
                               [] OTHER -> outcome[n]
  BY <1>2 DEF Current
<1>4. n = r /\ runState[p].state = outcome[r]
  BY <1>0, <1>1, <1>3
<1> QED BY <1>1, <1>3, <1>4 DEF Marked

LEMMA ToolStepIsStep ==
    ASSUME ToolInv, [ToolNext]_toolVars
    PROVE  [Next]_vars
<1>1. \A c \in Call : call[c].project \in Project
  BY DEF ToolInv, CallState
<1>2. ASSUME NEW c \in Call, NEW s \in Requests, Start(c, s) PROVE Next
  BY <1>1, <1>2 DEF Start, Next, Request
<1>3. ASSUME NEW c \in Call, NEW i \in PlanId, StartPlan(c, i) \/ RefusePlan(c, i) PROVE Next
  BY <1>1, <1>3 DEF StartPlan, RefusePlan, Next, Request
<1>4. ASSUME NEW c \in Call, NEW p \in Project, NEW s \in Requests, Preview(c, p, s) PROVE Next
  BY <1>4 DEF Preview, Next, Request
<1>5. ASSUME NEW c \in Call,
             \/ Answer(c) \/ WaitElapsed(c) \/ Poll(c) \/ RefuseSelection(c)
             \/ \E p \in Project : Begin(c, p)
      PROVE  UNCHANGED vars
  BY <1>5 DEF Answer, WaitElapsed, Poll, RefuseSelection, Begin
<1>6. ASSUME Background PROVE Next
  BY <1>6 DEF Background, Next
<1>7. CASE UNCHANGED toolVars
  BY <1>7 DEF toolVars
<1> QED BY <1>2, <1>3, <1>4, <1>5, <1>6, <1>7 DEF ToolNext, Progress

LEMMA CallFields ==
    ASSUME NEW k \in CallState
    PROVE  /\ \A p \in Project :
                 [k EXCEPT !.stage = "reading", !.project = p] \in CallState
           /\ \A p \in Project :
                 [k EXCEPT !.stage = "answered", !.project = p] \in CallState
           /\ \A b \in BOOLEAN, r \in Run :
                 [k EXCEPT !.stage = "waiting", !.patient = b, !.run = r] \in CallState
           /\ [k EXCEPT !.stage = "answered", !.reply.state = "error"] \in CallState
           /\ [k EXCEPT !.stage = "polling"] \in CallState
           /\ \A x \in Reply, t \in {"polling", "answered"} :
                 [k EXCEPT !.reply = x, !.stage = t] \in CallState
BY DEF CallState, Reply

\* A call that reads, or that ends without a run.
LEMMA BeginOwn ==
    ASSUME ToolInv, [Next]_vars, NEW c \in Call,
           \/ \E p \in Project : Begin(c, p) \/ \E s \in Requests : Preview(c, p, s)
           \/ (\E i \in PlanId : RefusePlan(c, i)) \/ RefuseSelection(c)
    PROVE  call' \in [Call -> CallState] /\ \A d \in Call : Own(call[d])'
<1>1. PICK h \in CallState : h = call[c] /\ Own(h)
  BY DEF ToolInv, Own
<1>2. h.run = NoRun /\ h.reply.state = "idle"
  BY <1>1 DEF Begin, Preview, RefusePlan, RefuseSelection, Own
<1>3. PICK k \in CallState : /\ k.run = NoRun /\ k.stage \in {"reading", "answered"}
                             /\ k.stage = "reading" => k.reply.state = "idle"
                             /\ call' = [call EXCEPT ![c] = k]
  <2> DEFINE Found == \E k \in CallState : /\ k.run = NoRun /\ k.stage \in {"reading", "answered"}
                                           /\ k.stage = "reading" => k.reply.state = "idle"
                                           /\ call' = [call EXCEPT ![c] = k]
  <2>1. ASSUME NEW p \in Project, Begin(c, p) PROVE Found
    <3>1. PICK k \in CallState : k = [h EXCEPT !.stage = "reading", !.project = p]
      BY CallFields
    <3>2. k.run = NoRun /\ k.stage = "reading" /\ k.reply.state = "idle"
      BY <1>2, <3>1 DEF CallState
    <3>3. call' = [call EXCEPT ![c] = k]
      BY <1>1, <2>1, <3>1 DEF Begin
    <3> QED BY <3>2, <3>3
  <2>2. ASSUME NEW p \in Project, NEW s \in Requests, Preview(c, p, s) PROVE Found
    <3>1. PICK k \in CallState : k = [h EXCEPT !.stage = "answered", !.project = p]
      BY CallFields
    <3>2. k.run = NoRun /\ k.stage = "answered"
      BY <1>2, <3>1 DEF CallState
    <3>3. call' = [call EXCEPT ![c] = k]
      BY <1>1, <2>2, <3>1 DEF Preview
    <3> QED BY <3>2, <3>3
  <2>3. ASSUME (\E i \in PlanId : RefusePlan(c, i)) \/ RefuseSelection(c) PROVE Found
    <3>1. PICK k \in CallState : k = [h EXCEPT !.stage = "answered", !.reply.state = "error"]
      BY CallFields
    <3>2. k.run = NoRun /\ k.stage = "answered"
      BY <1>2, <3>1 DEF CallState
    <3>3. call' = [call EXCEPT ![c] = k]
      BY <1>1, <2>3, <3>1 DEF RefusePlan, RefuseSelection
    <3> QED BY <3>2, <3>3
  <2> HIDE DEF Found
  <2>4. Found
    BY <2>1, <2>2, <2>3
  <2> QED BY <2>4 DEF Found
<1>4. Own(k)'
  BY <1>3 DEF Own
<1> QED BY <1>3, <1>4, CallBecomes

\* The run a call is accepted as is the one it waits for.
LEMMA AcceptedOwn ==
    ASSUME ToolInv, [Next]_vars, NEW c \in Call,
           \/ \E s \in Requests : Start(c, s)
           \/ \E i \in PlanId : StartPlan(c, i)
    PROVE  call' \in [Call -> CallState] /\ \A d \in Call : Own(call[d])'
<1>0. IInv /\ OutcomeAtFinish /\ TypeOK
  BY DEF ToolInv, VInv, IInv
<1>1. PICK h \in CallState : h = call[c]
  BY DEF ToolInv
<1>2. PICK s \in Selection, i \in PlanId \cup {NoPlan} : Enqueue(h.project, s, i) /\ Accepted(c)
  <2>1. ASSUME NEW s \in Requests, Start(c, s) PROVE Enqueue(h.project, s, NoPlan) /\ Accepted(c)
    BY <1>1, <2>1 DEF Start, StartRun
  <2>2. ASSUME NEW i \in PlanId, StartPlan(c, i)
        PROVE  Enqueue(h.project, Committed(plans[i].sel), i) /\ Accepted(c)
    BY <1>1, <2>2 DEF StartPlan, CommitPlan
  <2>3. \A i \in PlanId : Committed(plans[i].sel) \in Selection
    BY <1>0, SelectionTypes, PlanUpdates DEF TypeOK
  <2> QED BY <2>1, <2>2, <2>3, SelectionTypes
<1>3. h.project \in Project
  BY <1>1 DEF CallState
<1>4. PICK n \in Run : /\ nextRun' = n /\ proj' = [proj EXCEPT ![n] = h.project]
                       /\ pc' = [pc EXCEPT ![n] = "queued"] /\ outcome[n] = "pending"
                       /\ pc[n] = "unused"
  BY <1>0, <1>2, <1>3, FreshRun
<1>5. pc'[n] = "queued" /\ proj'[n] = h.project /\ n # NoRun
  BY <1>0, <1>4, RunsAreIntegers DEF TypeOK
<1>6. h.run = NoRun /\ h.reply.state \notin {"complete", "error"}
  BY <1>1 DEF ToolInv, Own, Start, StartPlan
<1>7. PICK b \in BOOLEAN : call' = [call EXCEPT ![c] = [h EXCEPT !.stage = "waiting", !.patient = b,
                                                               !.run = n]]
  BY <1>1, <1>2, <1>4 DEF Accepted
<1>8. PICK k \in CallState : /\ k = [h EXCEPT !.stage = "waiting", !.patient = b, !.run = n]
                             /\ k.run = n /\ k.stage = "waiting" /\ k.reply = h.reply
                             /\ k.project = h.project
  <2>1. [h EXCEPT !.stage = "waiting", !.patient = b, !.run = n] \in CallState
    BY CallFields
  <2> QED BY <2>1 DEF CallState
<1>9. Own(k)'
  BY <1>5, <1>6, <1>8 DEF Own
<1> QED BY <1>7, <1>8, <1>9, CallBecomes

\* A call that is answered, hands out a handle, or is polled.
LEMMA AnswerOwn ==
    ASSUME ToolInv, [Next]_vars, NEW c \in Call, Answer(c) \/ WaitElapsed(c) \/ Poll(c)
    PROVE  call' \in [Call -> CallState] /\ \A d \in Call : Own(call[d])'
<1>0. IInv /\ OutcomeAtFinish /\ TypeOK /\ VInv
  BY DEF ToolInv, VInv, IInv
<1>1. PICK h \in CallState : h = call[c] /\ Own(h)
  BY DEF ToolInv, Own
<1>2. /\ UNCHANGED vars /\ h.stage \in {"waiting", "polling"} /\ h.run \in Run
      /\ h.project \in Project /\ h.run # NoRun
  BY <1>1 DEF Answer, Resolved, WaitElapsed, Poll, Own, CallState
<1>3. PICK r \in Run, p \in Project : r = h.run /\ p = h.project
  BY <1>2
<1>4. pc[r] # "unused" /\ proj[r] = p /\ UNCHANGED <<pc, proj, outcome>> /\ r # NoRun
  BY <1>1, <1>2, <1>3 DEF Own, vars, requestVars
<1>5. ASSUME NEW x \in Reply, NEW t \in {"polling", "answered"},
             call' = [call EXCEPT ![c] = [h EXCEPT !.reply = x, !.stage = t]],
             x.state \in {"complete", "error"} =>
                /\ outcome[r] = x.state
                /\ x.state = "complete" => x.result = r
                /\ x.state = "error" => x.error = r
      PROVE  call' \in [Call -> CallState] /\ \A d \in Call : Own(call[d])'
  <2>1. PICK k \in CallState : k = [h EXCEPT !.reply = x, !.stage = t]
    BY <1>5, CallFields
  <2>2. k.run = r /\ k.project = p /\ k.reply = x /\ k.stage = t
    BY <1>3, <2>1 DEF CallState
  <2>3. Own(k)'
    BY <1>4, <1>5, <2>2 DEF Own
  <2>4. call' = [call EXCEPT ![c] = k]
    BY <1>5, <2>1
  <2> QED BY <2>3, <2>4, CallBecomes
<1>6. CASE Answer(c)
  <2>1. pc[r] = "done" /\ outcome[r] \in {"complete", "error"}
    BY <1>0, <1>1, <1>3, <1>6 DEF Answer, Resolved, OutcomeAtFinish, TypeOK
  <2>2. PICK x \in Reply : x = IF outcome[r] = "complete"
                               THEN [state |-> "complete", result |-> r, error |-> NoRun]
                               ELSE [state |-> "error", result |-> NoRun, error |-> r]
    <3>1. [state |-> "complete", result |-> r, error |-> NoRun] \in Reply
      BY DEF Reply
    <3>2. [state |-> "error", result |-> NoRun, error |-> r] \in Reply
      BY DEF Reply
    <3> QED BY <3>1, <3>2
  <2>3. call' = [call EXCEPT ![c] = [h EXCEPT !.reply = x, !.stage = "answered"]]
    BY <1>1, <1>3, <1>6, <2>2 DEF Answer
  <2> QED BY <1>5, <2>1, <2>2, <2>3
<1>7. CASE WaitElapsed(c)
  <2>1. PICK k \in CallState : k = [h EXCEPT !.stage = "polling"]
    BY CallFields
  <2>2. k.run = r /\ k.project = p /\ k.reply = h.reply /\ k.stage = "polling"
    BY <1>3, <2>1 DEF CallState
  <2>3. Own(k)'
    BY <1>1, <1>3, <1>4, <2>2 DEF Own
  <2>4. call' = [call EXCEPT ![c] = k]
    BY <1>1, <1>7, <2>1 DEF WaitElapsed
  <2> QED BY <2>3, <2>4, CallBecomes
<1>8. CASE Poll(c)
  <2>1. PICK x \in Reply : x = Status(p, r)
    <3>1. runState[p] \in RunStatus
      BY <1>0 DEF TypeOK
    <3>2. Status(p, r) \in Reply
      BY <3>1 DEF Status, Reply, RunStatus, NoReply
    <3> QED BY <3>2
  <2>2. x.state \in {"complete", "error"} =>
           /\ outcome[r] = x.state
           /\ x.state = "complete" => x.result = r
           /\ x.state = "error" => x.error = r
    BY <1>0, <2>1, StatusIsOwn DEF ToolInv
  <2>3. PICK t \in {"polling", "answered"} :
           call' = [call EXCEPT ![c] = [h EXCEPT !.reply = x, !.stage = t]]
    <3>1. call' = [call EXCEPT ![c] = [h EXCEPT !.reply = x,
                                          !.stage = IF x.state \in {"complete", "error"}
                                                    THEN "answered" ELSE h.stage]]
      BY <1>1, <1>3, <1>8, <2>1 DEF Poll
    <3>2. h.stage = "polling"
      BY <1>1, <1>8 DEF Poll
    <3> QED BY <3>1, <3>2
  <2> QED BY <1>5, <2>2, <2>3
<1> QED BY <1>6, <1>7, <1>8

LEMMA NextToolInv == ToolInv /\ [ToolNext]_toolVars => ToolInv'
<1> SUFFICES ASSUME ToolInv, [ToolNext]_toolVars PROVE ToolInv'
  OBVIOUS
<1>1. [Next]_vars /\ VInv /\ VInv' /\ IInv
  BY ToolStepIsStep, NextVInv DEF ToolInv, VInv
<1>2. \A p \in Project : Current(p)' /\ Marked(p)'
  BY <1>1, NextCurrent, NextMarked DEF ToolInv
<1>3. call' \in [Call -> CallState] /\ \A d \in Call : Own(call[d])'
  <2>1. CASE call' = call
    <3>1. ASSUME NEW d \in Call PROVE Own(call[d])'
      <4>1. PICK h \in CallState : h = call[d] /\ h = call'[d]
        BY <2>1 DEF ToolInv
      <4>2. Own(h)
        BY <4>1 DEF ToolInv
      <4>3. Own(h)'
        BY <1>1, <4>2, OwnStays
      <4> QED BY <4>1, <4>3 DEF Own
    <3> QED BY <2>1, <3>1 DEF ToolInv
  <2>2. ASSUME NEW c \in Call,
               \/ \E p \in Project : Begin(c, p) \/ \E s \in Requests : Preview(c, p, s)
               \/ (\E i \in PlanId : RefusePlan(c, i)) \/ RefuseSelection(c)
        PROVE  call' \in [Call -> CallState] /\ \A d \in Call : Own(call[d])'
    BY <1>1, <2>2, BeginOwn
  <2>3. ASSUME NEW c \in Call,
               \/ \E s \in Requests : Start(c, s)
               \/ \E i \in PlanId : StartPlan(c, i)
        PROVE  call' \in [Call -> CallState] /\ \A d \in Call : Own(call[d])'
    BY <1>1, <2>3, AcceptedOwn
  <2>4. ASSUME NEW c \in Call, Answer(c) \/ WaitElapsed(c) \/ Poll(c)
        PROVE  call' \in [Call -> CallState] /\ \A d \in Call : Own(call[d])'
    BY <1>1, <2>4, AnswerOwn
  <2>5. ASSUME NEW c \in Call, Progress(c)
        PROVE  call' \in [Call -> CallState] /\ \A d \in Call : Own(call[d])'
    BY <2>3, <2>4, <2>5 DEF Progress
  <2>6. (Background \/ UNCHANGED toolVars) => call' = call
    BY DEF Background, toolVars
  <2> QED BY <2>1, <2>2, <2>3, <2>4, <2>5, <2>6 DEF ToolNext
<1> QED BY <1>1, <1>2, <1>3 DEF ToolInv

LEMMA InitToolInv == ToolInit => ToolInv
<1> SUFFICES ASSUME ToolInit PROVE ToolInv
  OBVIOUS
<1>1. Init /\ VInv /\ \A p \in Project : Current(p)
  BY InitVInv, InitCurrent DEF ToolInit
<1>2. \A p \in Project : Marked(p)
  BY <1>1 DEF Init, Marked
<1>3. ASSUME NEW c \in Call
      PROVE  call[c] \in CallState /\ Own(call[c])
  <2>1. (CHOOSE p \in Project : TRUE) \in Project
    BY ProjectAssumption
  <2>2. call[c] = [stage |-> "unmade", project |-> CHOOSE p \in Project : TRUE,
                   patient |-> FALSE, run |-> NoRun, reply |-> NoReply]
    BY DEF ToolInit
  <2> QED BY <2>1, <2>2 DEF CallState, Reply, NoReply, Own
<1>4. call \in [Call -> CallState]
  BY <1>3 DEF ToolInit
<1> QED BY <1>1, <1>2, <1>3, <1>4 DEF ToolInv

\* A verdict that run_tests or get_test_status gave a caller is that of the
\* caller's own run, for any number of calls, projects, runs and workers.
THEOREM VerdictsAreOwn == ToolSpec => []VerdictIsOwn
<1>1. ToolInv => VerdictIsOwn
  BY DEF ToolInv, Own, VerdictIsOwn
<1> QED BY <1>1, InitToolInv, NextToolInv, PTL DEF ToolSpec

\* The tools call the orchestrator as Request does and change nothing of it, so
\* every theorem about Spec holds of the orchestrator that serves them.
THEOREM ToolsAreClients == ToolSpec => Spec
<1>1. ToolInit => Init
  BY DEF ToolInit
<1>2. ToolInv /\ [ToolNext]_toolVars => [Next]_vars
  BY ToolStepIsStep
<1> QED BY <1>1, <1>2, InitToolInv, NextToolInv, PTL DEF ToolSpec, Spec

\* Every call keeps its type (ToolTypeOK).
THEOREM CallsTyped == ToolSpec => []ToolTypeOK
<1>1. ToolInv => ToolTypeOK
  BY DEF ToolInv, ToolTypeOK
<1> QED BY <1>1, InitToolInv, NextToolInv, PTL DEF ToolSpec

===============================================================================
