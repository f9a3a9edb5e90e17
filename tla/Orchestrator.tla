----------------------------- MODULE Orchestrator -----------------------------
(***************************************************************************)
(* The run orchestrator (src/orchestrator/index.ts): it accepts run        *)
(* requests and dry-run plans, serializes the runs of a project on a       *)
(* promise chain, bounds the runs in progress by a global semaphore, forks *)
(* one worker process per run, handles that worker's IPC messages, exit    *)
(* and timeouts, and publishes the outcome in the views other components   *)
(* read: the pollable run state, the failure details, the live view, the   *)
(* history ring and the last-run snapshot.                                 *)
(*                                                                         *)
(* Every handler runs to completion on the daemon's single thread, so one  *)
(* action is one handler.  Run ids are UUIDs in the code; here they are    *)
(* numbers handed out in request order, which lets properties speak of     *)
(* the order in which runs were requested.  A result is represented by the *)
(* id of the run that produced it.                                         *)
(***************************************************************************)
EXTENDS Integers, Sequences, FiniteSets

CONSTANTS
    Project,      \* registered projects
    Requests,     \* the selections a caller's request may resolve to
    MaxRuns,      \* bound: runs requested in a behaviour
    MaxPlans,     \* bound: dry-run plans made in a behaviour
    MaxSignals,   \* bound: progress and test-case messages of one worker
    MaxWorkers,   \* maxConcurrentWorkers
    MaxHistory    \* maxHistory, the length of the history ring (50)

-----------------------------------------------------------------------------
(* Data                                                                    *)

Run == 1 .. MaxRuns
NoRun == 0
PlanId == 1 .. MaxPlans
NoPlan == 0

\* ResolvedSelection: "empty" means there is nothing to run, "delta" that it
\* came from the incremental path (and so may advance the snapshot),
\* "degraded" that its confidence is not "high".
Selection == [strategy : {"full", "incremental"}, empty : BOOLEAN,
              delta : BOOLEAN, degraded : BOOLEAN]

FullSuite     == [strategy |-> "full", empty |-> FALSE, delta |-> FALSE, degraded |-> FALSE]
ExplicitFiles == [strategy |-> "incremental", empty |-> FALSE, delta |-> FALSE, degraded |-> FALSE]
DeltaFull     == [FullSuite EXCEPT !.delta = TRUE]
DeltaRelated  == [ExplicitFiles EXCEPT !.delta = TRUE]
DeltaDegraded == [DeltaRelated EXCEPT !.degraded = TRUE]
DeltaEmpty    == [DeltaRelated EXCEPT !.empty = TRUE]
Resolvable    == {FullSuite, ExplicitFiles, DeltaFull, DeltaRelated, DeltaDegraded, DeltaEmpty}

ASSUME ProjectAssumption  == Project # {}
ASSUME RequestsAssumption == Requests \subseteq Resolvable
ASSUME BoundsAssumption   == /\ MaxRuns \in Nat /\ MaxPlans \in Nat /\ MaxSignals \in Nat
ASSUME WorkersAssumption  == MaxWorkers \in Nat \ {0}
ASSUME HistoryAssumption  == MaxHistory \in Nat \ {0}

\* FromWorker, with what the handlers tell apart.  "case" stands for config,
\* case-start and case-result; "bad" for every message the orchestrator turns
\* into a failed run: error, a result without a body, a result or error that
\* carries another run's id, and anything parseFromWorker rejects.
Message == [type : {"ready", "progress", "case", "result", "bad"},
            success : BOOLEAN, full : BOOLEAN]
Msg(t) == [type |-> t, success |-> FALSE, full |-> FALSE]
ResultMsg(ok, full) == [type |-> "result", success |-> ok, full |-> full]

Record == [run : Run, status : {"complete", "error"},
           strategy : {"full", "incremental", "none"}, ranFull : BOOLEAN]

RunStatus == [state : {"idle", "running", "complete", "error"}, runId : Run \cup {NoRun},
              lastResult : Run \cup {NoRun}, lastError : Run \cup {NoRun}, progress : BOOLEAN]

\* A dry-run plan: "stored" while it is in the plans map.
StoredPlan == [stored : BOOLEAN, expired : BOOLEAN, project : Project, sel : Selection]

-----------------------------------------------------------------------------
VARIABLES
    nextRun,      \* runs requested so far
    proj,         \* the project each run was requested for
    sel,          \* the selection each run was enqueued with
    planOf,       \* the plan a run commits, or NoPlan
    tail,         \* queues: the last run chained for each project
    prev,         \* the run each run is chained after
    pc,           \* how far each run's promise chain has got
    outcome,      \* how each run's promise settled
    active,       \* activeWorkers
    waiters,      \* workerWaiters
    worker,       \* the forked process of each run
    chan,         \* messages from the worker not handled yet
    signals,      \* progress and case messages each worker has sent
    runState,     \* the pollable run state of each project
    lastFailures, \* the run whose failure details are kept, or NoRun
    live,         \* the run the live view shows
    history,      \* the history ring of each project, newest first
    snapshot,     \* the run whose selection-time hashes are the baseline
    plans, nextPlan

requestVars == <<nextRun, proj, sel, planOf, tail, prev>>
slotVars    == <<active, waiters>>
workerVars  == <<worker, chan, signals>>
viewVars    == <<runState, lastFailures, live, history, snapshot>>
planVars    == <<plans, nextPlan>>
vars == <<requestVars, pc, outcome, slotVars, workerVars, viewVars, planVars>>

\* Runs that hold a worker slot.
Holding == {r \in Run : pc[r] \in {"granted", "running", "settled"}}

Init ==
    /\ nextRun = 0
    /\ proj = [r \in Run |-> CHOOSE p \in Project : TRUE]
    /\ sel = [r \in Run |-> FullSuite]
    /\ planOf = [r \in Run |-> NoPlan]
    /\ tail = [p \in Project |-> NoRun]
    /\ prev = [r \in Run |-> NoRun]
    /\ pc = [r \in Run |-> "unused"]
    /\ outcome = [r \in Run |-> "pending"]
    /\ active = 0
    /\ waiters = << >>
    /\ worker = [r \in Run |-> "none"]
    /\ chan = [r \in Run |-> << >>]
    /\ signals = [r \in Run |-> 0]
    /\ runState = [p \in Project |-> [state |-> "idle", runId |-> NoRun, lastResult |-> NoRun,
                                      lastError |-> NoRun, progress |-> FALSE]]
    /\ lastFailures = [p \in Project |-> NoRun]
    /\ live = [p \in Project |-> NoRun]
    /\ history = [p \in Project |-> << >>]
    /\ snapshot = [p \in Project |-> NoRun]
    /\ plans = [i \in PlanId |-> [stored |-> FALSE, expired |-> FALSE,
                                  project |-> CHOOSE p \in Project : TRUE, sel |-> FullSuite]]
    /\ nextPlan = 0

-----------------------------------------------------------------------------
(* Requests.  A request that throws a SelectionError changes nothing and   *)
(* is not an action.                                                       *)

\* enqueue: chain the run behind the project's last one.
Enqueue(p, s, i) ==
    /\ nextRun < MaxRuns
    /\ LET r == nextRun + 1 IN
       /\ nextRun' = r
       /\ proj' = [proj EXCEPT ![r] = p]
       /\ sel' = [sel EXCEPT ![r] = s]
       /\ planOf' = [planOf EXCEPT ![r] = i]
       /\ prev' = [prev EXCEPT ![r] = tail[p]]
       /\ tail' = [tail EXCEPT ![p] = r]
       /\ pc' = [pc EXCEPT ![r] = "queued"]
    /\ UNCHANGED <<outcome, slotVars, workerVars, viewVars>>

StartRun(p, s) ==
    /\ Enqueue(p, s, NoPlan)
    /\ UNCHANGED planVars

\* sweepExpiredPlans
Sweep(ps) == [i \in PlanId |-> [ps[i] EXCEPT !.stored = @ /\ ~ps[i].expired]]

\* plan: a dry run resolves a selection and keeps it for a later commit.
DryRun(p, s) ==
    /\ nextPlan < MaxPlans
    /\ nextPlan' = nextPlan + 1
    /\ plans' = [Sweep(plans) EXCEPT ![nextPlan + 1] =
                    [stored |-> TRUE, expired |-> FALSE, project |-> p, sel |-> s]]
    /\ UNCHANGED <<requestVars, pc, outcome, slotVars, workerVars, viewVars>>

\* The clock passes a plan's expiresAtMs.
Expire(i) ==
    /\ plans[i].stored /\ ~plans[i].expired
    /\ plans' = [plans EXCEPT ![i].expired = TRUE]
    /\ UNCHANGED <<requestVars, pc, outcome, slotVars, workerVars, viewVars, nextPlan>>

\* The selection a committed plan runs: the strategy is derived from the
\* frozen files, and the run is not delta-driven.
Committed(s) ==
    [s EXCEPT !.delta = FALSE,
              !.strategy = IF s.empty THEN "full" ELSE @]

Usable(p, i) == Sweep(plans)[i].stored /\ plans[i].project = p

\* Mutant of CommitPlan: the plan is not deleted before the run is queued.
CommitKeepsPlan(p, i) ==
    /\ Usable(p, i)
    /\ plans' = Sweep(plans)
    /\ Enqueue(p, Committed(plans[i].sel), i)
    /\ UNCHANGED nextPlan

\* startPlanRun with a plan of this project that has not expired.
CommitPlan(p, i) ==
    /\ Usable(p, i)
    /\ plans' = [Sweep(plans) EXCEPT ![i].stored = FALSE]
    /\ Enqueue(p, Committed(plans[i].sel), i)
    /\ UNCHANGED nextPlan

\* startPlanRun with any other id: a plan of that id is dropped and PlanError
\* thrown, to whichever project it belonged.
RejectPlan(p, i) ==
    /\ ~Usable(p, i)
    /\ plans' = [Sweep(plans) EXCEPT ![i].stored = FALSE]
    /\ UNCHANGED <<requestVars, pc, outcome, slotVars, workerVars, viewVars, nextPlan>>

-----------------------------------------------------------------------------
(* The views a settling run writes.                                        *)

\* Mutant of Recorded: a full ring drops the new record, not the oldest.
RecordedAtEnd(h, rec) ==
    SubSeq(Append(h, rec), 1, IF Len(h) < MaxHistory THEN Len(h) + 1 ELSE MaxHistory)

\* recordRun: newest first, cut at maxHistory.
Recorded(h, rec) == SubSeq(<<rec>> \o h, 1, IF Len(h) < MaxHistory THEN Len(h) + 1 ELSE MaxHistory)

\* advanceSnapshotIfDeltaRun; the degraded flag is the result's confidence.
Advanced(snap, r, success, degraded) ==
    IF sel[r].delta /\ success /\ ~degraded THEN r ELSE snap

\* Mutant of Fallback: the planned label is reported.
FallbackIgnored(r, full) == FALSE

\* result handler: a run that was planned incremental but ran the full suite
\* keeps the worker's label, and its confidence is high.
Fallback(r, full) == full /\ sel[r].strategy = "incremental"

\* Mutant of Due: the callback does not wait for the chain before it.
DueAtOnce(r) == pc[r] = "queued"

\* The chain before this run has settled: its .then callback is due.
Due(r) == pc[r] = "queued" /\ (prev[r] # NoRun => pc[prev[r]] = "done")

\* enqueue's callback for an empty selection: nothing is forked.
CompleteEmpty(r) ==
    /\ Due(r) /\ sel[r].empty
    /\ LET p == proj[r] IN
       /\ live' = [live EXCEPT ![p] = r]
       /\ snapshot' = [snapshot EXCEPT ![p] = Advanced(@, r, TRUE, sel[r].degraded)]
       /\ history' = [history EXCEPT ![p] = Recorded(@, [run |-> r, status |-> "complete",
                                            strategy |-> "incremental", ranFull |-> FALSE])]
       /\ runState' = [runState EXCEPT ![p] = [@ EXCEPT !.state = "complete", !.runId = r,
                                                        !.lastResult = r, !.progress = FALSE]]
    /\ pc' = [pc EXCEPT ![r] = "done"]
    /\ outcome' = [outcome EXCEPT ![r] = "complete"]
    /\ UNCHANGED <<requestVars, slotVars, workerVars, lastFailures, planVars>>

-----------------------------------------------------------------------------
(* The worker semaphore.                                                   *)

\* Mutant of Acquire: the cap is not checked.
AcquireUnbounded(r) ==
    /\ Due(r) /\ ~sel[r].empty
    /\ active' = active + 1
    /\ pc' = [pc EXCEPT ![r] = "granted"]
    /\ UNCHANGED <<requestVars, outcome, waiters, workerVars, viewVars, planVars>>

\* acquireWorker with a slot free.
Acquire(r) ==
    /\ Due(r) /\ ~sel[r].empty
    /\ active < MaxWorkers
    /\ active' = active + 1
    /\ pc' = [pc EXCEPT ![r] = "granted"]
    /\ UNCHANGED <<requestVars, outcome, waiters, workerVars, viewVars, planVars>>

\* acquireWorker with every slot taken.
Wait(r) ==
    /\ Due(r) /\ ~sel[r].empty
    /\ active >= MaxWorkers
    /\ waiters' = Append(waiters, r)
    /\ pc' = [pc EXCEPT ![r] = "waiting"]
    /\ UNCHANGED <<requestVars, outcome, active, workerVars, viewVars, planVars>>

\* Mutants of Release: the counter drops although the slot was handed over; the
\* waiter that was woken stays in the list; nobody is woken.
ReleaseAlwaysDecrements(r) ==
    /\ pc[r] = "settled"
    /\ active' = active - 1
    /\ IF waiters # << >>
       THEN /\ pc' = [pc EXCEPT ![r] = "done", ![Head(waiters)] = "granted"]
            /\ waiters' = Tail(waiters)
       ELSE /\ pc' = [pc EXCEPT ![r] = "done"]
            /\ UNCHANGED waiters
    /\ UNCHANGED <<requestVars, outcome, workerVars, viewVars, planVars>>
ReleaseKeepsWaiter(r) ==
    /\ pc[r] = "settled"
    /\ IF waiters # << >>
       THEN /\ pc' = [pc EXCEPT ![r] = "done", ![Head(waiters)] = "granted"]
            /\ UNCHANGED <<waiters, active>>
       ELSE /\ pc' = [pc EXCEPT ![r] = "done"]
            /\ active' = active - 1
            /\ UNCHANGED waiters
    /\ UNCHANGED <<requestVars, outcome, workerVars, viewVars, planVars>>
ReleaseWakesNobody(r) ==
    /\ pc[r] = "settled"
    /\ pc' = [pc EXCEPT ![r] = "done"]
    /\ active' = active - 1
    /\ UNCHANGED waiters
    /\ UNCHANGED <<requestVars, outcome, workerVars, viewVars, planVars>>

\* execute's finally block: the slot goes to the first waiter, if any.
Release(r) ==
    /\ pc[r] = "settled"
    /\ IF waiters # << >>
       THEN /\ pc' = [pc EXCEPT ![r] = "done", ![Head(waiters)] = "granted"]
            /\ waiters' = Tail(waiters)
            /\ UNCHANGED active
       ELSE /\ pc' = [pc EXCEPT ![r] = "done"]
            /\ active' = active - 1
            /\ UNCHANGED waiters
    /\ UNCHANGED <<requestVars, outcome, workerVars, viewVars, planVars>>

-----------------------------------------------------------------------------
(* executeWorker                                                           *)

\* Publish the run as running and fork its worker.
Fork(r) ==
    /\ pc[r] = "granted"
    /\ pc' = [pc EXCEPT ![r] = "running"]
    /\ worker' = [worker EXCEPT ![r] = "booting"]
    /\ runState' = [runState EXCEPT ![proj[r]] = [@ EXCEPT !.state = "running", !.runId = r,
                                                   !.lastError = NoRun, !.progress = FALSE]]
    /\ live' = [live EXCEPT ![proj[r]] = r]
    /\ UNCHANGED <<requestVars, outcome, slotVars, chan, signals, lastFailures, history,
                   snapshot, planVars>>

\* Mutant of Finish: the child is not killed.
FinishWithoutKill(r, result) ==
    /\ pc' = [pc EXCEPT ![r] = "settled"]
    /\ outcome' = [outcome EXCEPT ![r] = result]
    /\ chan' = [chan EXCEPT ![r] = << >>]
    /\ UNCHANGED <<requestVars, slotVars, worker, signals, planVars>>

\* finish: settle the promise once, drop the listeners and kill the child,
\* which dies some time after the signal is sent.
Finish(r, result) ==
    /\ pc' = [pc EXCEPT ![r] = "settled"]
    /\ outcome' = [outcome EXCEPT ![r] = result]
    /\ chan' = [chan EXCEPT ![r] = << >>]
    /\ worker' = [worker EXCEPT ![r] = IF @ = "dead" THEN "dead" ELSE "killed"]
    /\ UNCHANGED <<requestVars, slotVars, signals, planVars>>

\* Mutants of FailRun: the failure details of an earlier run stay; the record
\* carries a status no reader knows.
FailRunKeepsFailures(r) ==
    /\ LET p == proj[r] IN
       /\ history' = [history EXCEPT ![p] = Recorded(@, [run |-> r, status |-> "error",
                                            strategy |-> "none", ranFull |-> FALSE])]
       /\ runState' = [runState EXCEPT ![p] = [@ EXCEPT !.state = "error", !.runId = r,
                                                        !.lastError = r, !.progress = FALSE]]
    /\ UNCHANGED <<live, lastFailures, snapshot>>
    /\ Finish(r, "error")
FailRunWrongStatus(r) ==
    /\ LET p == proj[r] IN
       /\ lastFailures' = [lastFailures EXCEPT ![p] = NoRun]
       /\ history' = [history EXCEPT ![p] = Recorded(@, [run |-> r, status |-> "failed",
                                            strategy |-> "none", ranFull |-> FALSE])]
       /\ runState' = [runState EXCEPT ![p] = [@ EXCEPT !.state = "error", !.runId = r,
                                                        !.lastError = r, !.progress = FALSE]]
    /\ UNCHANGED <<live, snapshot>>
    /\ Finish(r, "error")

\* finish(failRun)
FailRun(r) ==
    /\ LET p == proj[r] IN
       /\ lastFailures' = [lastFailures EXCEPT ![p] = NoRun]
       /\ history' = [history EXCEPT ![p] = Recorded(@, [run |-> r, status |-> "error",
                                            strategy |-> "none", ranFull |-> FALSE])]
       /\ runState' = [runState EXCEPT ![p] = [@ EXCEPT !.state = "error", !.runId = r,
                                                        !.lastError = r, !.progress = FALSE]]
    /\ UNCHANGED <<live, snapshot>>
    /\ Finish(r, "error")

\* The next message of a run that is still listening.
Incoming(r, type) == pc[r] = "running" /\ chan[r] # << >> /\ Head(chan[r]).type = type
Consume(r) == chan' = [chan EXCEPT ![r] = Tail(@)]

\* "ready": send the run message; the worker starts executing it.
OnReady(r) ==
    /\ Incoming(r, "ready")
    /\ Consume(r)
    /\ worker' = [worker EXCEPT ![r] = IF @ = "idle" THEN "executing" ELSE @]
    /\ UNCHANGED <<requestVars, pc, outcome, slotVars, signals, viewVars, planVars>>

\* "ready" from a process that is gone: the send fails.
OnReadySendFailed(r) ==
    /\ Incoming(r, "ready")
    /\ worker[r] = "dead"
    /\ FailRun(r)

\* "progress" updates the run state; it does not set its runId.
OnProgress(r) ==
    /\ Incoming(r, "progress")
    /\ Consume(r)
    /\ runState' = [runState EXCEPT ![proj[r]] = [@ EXCEPT !.state = "running", !.progress = TRUE]]
    /\ UNCHANGED <<requestVars, pc, outcome, slotVars, worker, signals, lastFailures, live,
                   history, snapshot, planVars>>

\* "config", "case-start" and "case-result" only touch the live view.
OnCase(r) ==
    /\ Incoming(r, "case")
    /\ Consume(r)
    /\ UNCHANGED <<requestVars, pc, outcome, slotVars, worker, signals, viewVars, planVars>>

\* "result": publish the run as complete, then finish.
OnResult(r) ==
    /\ Incoming(r, "result")
    /\ LET p == proj[r]
           m == Head(chan[r])
           fallback == Fallback(r, m.full)
       IN
       /\ lastFailures' = [lastFailures EXCEPT ![p] = r]
       /\ snapshot' = [snapshot EXCEPT ![p] =
                          Advanced(@, r, m.success, sel[r].degraded /\ ~fallback)]
       /\ history' = [history EXCEPT ![p] = Recorded(@, [run |-> r, status |-> "complete",
              strategy |-> IF fallback THEN "full" ELSE sel[r].strategy, ranFull |-> m.full])]
       /\ runState' = [runState EXCEPT ![p] = [@ EXCEPT !.state = "complete", !.runId = r,
                                                        !.lastResult = r, !.progress = FALSE]]
    /\ UNCHANGED live
    /\ Finish(r, "complete")

\* "error", a foreign run id, a missing result or an invalid message.
OnBadMessage(r) == Incoming(r, "bad") /\ FailRun(r)

\* Mutant of OnExit: the exit listener outlives the run and finish does not
\* look at its settled flag.
OnExitAfterSettling(r) == worker[r] = "dead" /\ FailRun(r)

\* The child's exit event; it may overtake messages still in the pipe.
OnExit(r) == pc[r] = "running" /\ worker[r] = "dead" /\ FailRun(r)

\* Mutant of OnTimeout: the timers are not cleared when the run settles.
OnTimeoutNotCleared(r) == pc[r] \in {"running", "settled", "done"} /\ FailRun(r)

\* The stall watchdog, armed from fork to finish, or the optional run timeout.
OnTimeout(r) == pc[r] = "running" /\ FailRun(r)

-----------------------------------------------------------------------------
(* The worker process, as far as its messages show (src/worker/index.ts).  *)

Send(r, m) == chan' = [chan EXCEPT ![r] = IF pc[r] = "running" THEN Append(@, m) ELSE @]
WorkerFrame == UNCHANGED <<requestVars, pc, outcome, slotVars, viewVars, planVars>>

WorkerReady(r) ==
    /\ worker[r] = "booting"
    /\ worker' = [worker EXCEPT ![r] = "idle"]
    /\ Send(r, Msg("ready"))
    /\ UNCHANGED signals
    /\ WorkerFrame

WorkerSignal(r) ==
    /\ worker[r] = "executing"
    /\ signals[r] < MaxSignals
    /\ signals' = [signals EXCEPT ![r] = @ + 1]
    /\ \E t \in {"progress", "case"} : Send(r, Msg(t))
    /\ UNCHANGED worker
    /\ WorkerFrame

\* A full selection runs everything; an incremental one may fall back to it.
WorkerResult(r) ==
    /\ worker[r] = "executing"
    /\ worker' = [worker EXCEPT ![r] = "finished"]
    /\ \E ok \in BOOLEAN, full \in BOOLEAN :
          /\ sel[r].strategy = "full" => full
          /\ Send(r, ResultMsg(ok, full))
    /\ UNCHANGED signals
    /\ WorkerFrame

\* handleRun rejects, or the message cannot be used.
WorkerBad(r) ==
    /\ worker[r] = "executing"
    /\ worker' = [worker EXCEPT ![r] = "finished"]
    /\ Send(r, Msg("bad"))
    /\ UNCHANGED signals
    /\ WorkerFrame

\* A crash, the OOM killer, or the SIGTERM sent by finish taking effect.
WorkerExit(r) ==
    /\ worker[r] \notin {"none", "dead"}
    /\ worker' = [worker EXCEPT ![r] = "dead"]
    /\ UNCHANGED <<chan, signals>>
    /\ WorkerFrame

-----------------------------------------------------------------------------
Request == \E p \in Project :
    \/ \E s \in Requests : StartRun(p, s) \/ DryRun(p, s)
    \/ \E i \in PlanId : CommitPlan(p, i) \/ RejectPlan(p, i)

Schedule(r) == CompleteEmpty(r) \/ Acquire(r) \/ Wait(r) \/ Fork(r) \/ Release(r)

Handle(r) == \/ OnReady(r) \/ OnReadySendFailed(r) \/ OnProgress(r) \/ OnCase(r)
             \/ OnResult(r) \/ OnBadMessage(r) \/ OnExit(r)

WorkerStep(r) == \/ WorkerReady(r) \/ WorkerSignal(r) \/ WorkerResult(r) \/ WorkerBad(r)
                 \/ WorkerExit(r)

Next == \/ Request
        \/ \E i \in PlanId : Expire(i)
        \/ \E r \in Run : Schedule(r) \/ Handle(r) \/ OnTimeout(r) \/ WorkerStep(r)

Spec == Init /\ [][Next]_vars

\* Promise callbacks run when due, events the event loop has received are
\* dispatched, and the watchdog of a running run fires unless the run settles.
\* Nothing is assumed of the worker: it may hang or die at any point.
Fairness == \A r \in Run : /\ WF_vars(Schedule(r))
                           /\ WF_vars(Handle(r))
                           /\ WF_vars(OnTimeout(r))

FairSpec == Spec /\ Fairness

-----------------------------------------------------------------------------
(* Properties                                                              *)

TypeOK ==
    /\ nextRun \in 0 .. MaxRuns
    /\ proj \in [Run -> Project]
    /\ sel \in [Run -> Selection]
    /\ planOf \in [Run -> PlanId \cup {NoPlan}]
    /\ tail \in [Project -> Run \cup {NoRun}]
    /\ prev \in [Run -> Run \cup {NoRun}]
    /\ pc \in [Run -> {"unused", "queued", "waiting", "granted", "running", "settled", "done"}]
    /\ outcome \in [Run -> {"pending", "complete", "error"}]
    /\ active \in Int
    /\ waiters \in Seq(Run)
    /\ worker \in [Run -> {"none", "booting", "idle", "executing", "finished", "killed", "dead"}]
    /\ chan \in [Run -> Seq(Message)]
    /\ signals \in [Run -> 0 .. MaxSignals]
    /\ runState \in [Project -> RunStatus]
    /\ lastFailures \in [Project -> Run \cup {NoRun}]
    /\ live \in [Project -> Run \cup {NoRun}]
    /\ history \in [Project -> Seq(Record)]
    /\ snapshot \in [Project -> Run \cup {NoRun}]
    /\ plans \in [PlanId -> StoredPlan]
    /\ nextPlan \in 0 .. MaxPlans

Settled(p) == {r \in 1 .. nextRun : proj[r] = p /\ outcome[r] # "pending"}
Ran(p)     == {r \in Settled(p) : ~sel[r].empty}

\* The latest of a set of runs, or NoRun.
Newest(S) == IF S = {} THEN NoRun ELSE CHOOSE r \in S : \A q \in S : q <= r

\* A run leaves the queue only when every earlier request for its project has
\* settled and given its slot back: per-project serialization, in order.
ProjectSerialized ==
    \A q, r \in Run :
        (q < r /\ proj[q] = proj[r] /\ pc[r] \notin {"unused", "queued"}) => pc[q] = "done"

\* The promise chain has no gap and no branch: a run is chained behind the
\* newest earlier request of its own project, and the map's entry for a project
\* is its newest request.  ProjectSerialized rests on it.
QueueChained ==
    /\ \A r \in Run : pc[r] = "unused" <=> nextRun < r
    /\ \A p \in Project :
          /\ tail[p] <= nextRun
          /\ tail[p] # NoRun => proj[tail[p]] = p
          /\ \A q \in Run : (q <= nextRun /\ proj[q] = p) => q <= tail[p]
    /\ \A r \in Run : pc[r] # "unused" =>
          /\ prev[r] < r
          /\ prev[r] # NoRun => proj[prev[r]] = proj[r]
          /\ \A q \in Run : (q < r /\ proj[q] = proj[r]) => q <= prev[r]

\* The semaphore's counter is the number of runs holding a slot, never above
\* the cap, and no slot is idle while a run waits for one.
SlotsAccounted ==
    /\ active = Cardinality(Holding)
    /\ active <= MaxWorkers
    /\ waiters # << >> => active = MaxWorkers

\* Exactly the runs parked in acquireWorker are in the waiter list, once
\* each: a slot handed over always wakes a run that still wants it.
NoLostWaiter ==
    /\ \A r \in Run : pc[r] = "waiting" <=> \E k \in 1 .. Len(waiters) : waiters[k] = r
    /\ \A j, k \in 1 .. Len(waiters) : waiters[j] = waiters[k] => j = k

\* No run is stuck: one of its project, itself or an earlier one, is due, holds
\* a slot (and then has the fork, the watchdog or the release to come), or waits
\* for a slot that some run holds.
NoDeadlock ==
    \A r \in Run : pc[r] \notin {"unused", "done"} =>
        \E q \in Run : /\ q <= r /\ proj[q] = proj[r]
                       /\ \/ Due(q) \/ q \in Holding
                          \/ pc[q] = "waiting" /\ Holding # {}

\* The pollable state of a project is that of its current run: the one being
\* executed, else the one that settled last.  A late message, exit or timeout
\* of an earlier worker never shows.
RunStateCurrent ==
    \A p \in Project :
        LET executing == {r \in Run : proj[r] = p /\ pc[r] = "running"}
            current   == Newest(Settled(p) \cup executing)
            s         == runState[p]
        IN  /\ s.runId = current
            /\ s.state = CASE current = NoRun -> "idle"
                           [] current \in executing -> "running"
                           [] OTHER -> outcome[current]
            /\ s.progress => current \in executing
            /\ current \in executing => live[p] = current

\* The history ring holds the most recent settled runs of the project, each
\* once and newest first, with the status their promise settled with.
HistoryFaithful ==
    \A p \in Project :
        LET h == history[p]
            kept == {h[k].run : k \in DOMAIN h}
        IN  /\ \A j, k \in DOMAIN h : j < k => h[j].run > h[k].run
            /\ kept \subseteq Settled(p)
            /\ \A q \in Settled(p) \ kept : Len(h) = MaxHistory /\ \A r \in kept : q < r
            /\ \A k \in DOMAIN h : h[k].status = outcome[h[k].run]

\* Failure details (lastFailures, getFailureDetail) are those of the last run
\* that reached a worker, and none are kept when that run ended in an error
\* (failRun).  This is less than the comments at orchestrator/index.ts:214 and
\* :920 say, "most recent run": an empty selection completes (CompleteEmpty) and
\* leaves the details of an older run in place.
FailuresCurrent ==
    \A p \in Project :
        LET last == Newest(Ran(p))
        IN  lastFailures[p] = IF last # NoRun /\ outcome[last] = "complete" THEN last ELSE NoRun

\* A recorded result is labelled "full" exactly when the worker ran everything,
\* whatever was planned (a committed plan, an execution-time fallback).
LabelTruthful ==
    \A p \in Project : \A k \in DOMAIN history[p] :
        LET rec == history[p][k]
        IN  rec.status = "complete" => (rec.strategy = "full" <=> rec.ranFull)

\* The worker of a settled run has been told to die, or is dead.
NoOrphanWorker ==
    \A r \in Run : outcome[r] # "pending" => worker[r] \in {"none", "killed", "dead"}

\* A run's promise settles once: no timeout, exit or message that races with
\* the deciding event changes its outcome.
SettlesOnce == [][\A r \in Run : outcome[r] # "pending" => outcome'[r] = outcome[r]]_vars

\* The last-run snapshot never goes back to the hashes of an earlier request.
SnapshotNeverRegresses == [][\A p \in Project : snapshot'[p] >= snapshot[p]]_vars

\* A plan is executed at most once, before it expires and only for the project
\* it was made for.
PlanHonoured ==
    [][\A r \in Run : LET i == planOf'[r] IN
          (pc[r] = "unused" /\ pc'[r] = "queued" /\ i # NoPlan) =>
              /\ plans[i].project = proj'[r] /\ ~plans[i].expired
              /\ \A q \in Run : pc[q] # "unused" => planOf[q] # i]_vars

\* Every accepted run settles and gives its slot back, whatever workers do.
EveryRunSettles == \A r \in Run : pc[r] = "queued" ~> pc[r] = "done"

=============================================================================
