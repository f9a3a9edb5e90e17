----------------------------- MODULE RunTestsTool -----------------------------
(***************************************************************************)
(* The MCP tools run_tests and get_test_status (src/mcp/server.ts) on top  *)
(* of the orchestrator.  A run_tests call reads the project's wait setting *)
(* from disk, starts a run, and waits for it: for ever, or until a timer   *)
(* hands out a job handle whose holder then polls get_test_status with the *)
(* run's id.                                                               *)
(*                                                                         *)
(* Progress notifications and their keep-alive timer carry no state that   *)
(* another handler reads and are left out.                                 *)
(***************************************************************************)
EXTENDS Orchestrator

CONSTANT Call   \* run_tests calls of a behaviour

VARIABLE call   \* what each caller has asked for and been told

toolVars == <<vars, call>>

\* A reply of get_test_status, or the settled result of run_tests.
Reply == [state : {"idle", "queued", "running", "complete", "error"},
          result : Run \cup {NoRun}, error : Run \cup {NoRun}]
NoReply == [state |-> "idle", result |-> NoRun, error |-> NoRun]

\* "reading": awaiting readProjectDefaultRunWaitMs; "waiting": racing the run
\* and the timer; "polling": holding a job handle; "answered": nothing more to
\* come.  patient: the effective wait is null.
CallState == [stage : {"unmade", "reading", "waiting", "polling", "answered"},
              project : Project, patient : BOOLEAN, run : Run \cup {NoRun}, reply : Reply]

ToolInit ==
    /\ Init
    /\ call = [c \in Call |-> [stage |-> "unmade", project |-> CHOOSE p \in Project : TRUE,
                               patient |-> FALSE, run |-> NoRun, reply |-> NoReply]]

-----------------------------------------------------------------------------
(* run_tests                                                               *)

\* The handler up to its first await; a dry run ends here.
Begin(c, p) ==
    /\ call[c].stage = "unmade"
    /\ call' = [call EXCEPT ![c].stage = "reading", ![c].project = p]
    /\ UNCHANGED vars

Preview(c, p, s) ==
    /\ call[c].stage = "unmade"
    /\ DryRun(p, s)
    /\ call' = [call EXCEPT ![c].stage = "answered", ![c].project = p]

\* The setting is read: the run is accepted, directly or from a plan, and the
\* handler waits for it.
Accepted(c) == \E patient \in BOOLEAN :
    call' = [call EXCEPT ![c].stage = "waiting", ![c].patient = patient, ![c].run = nextRun']

Start(c, s) ==
    /\ call[c].stage = "reading"
    /\ StartRun(call[c].project, s)
    /\ Accepted(c)

StartPlan(c, i) ==
    /\ call[c].stage = "reading"
    /\ CommitPlan(call[c].project, i)
    /\ Accepted(c)

\* PlanError: the tool answers with PlanExpired.
RefusePlan(c, i) ==
    /\ call[c].stage = "reading"
    /\ RejectPlan(call[c].project, i)
    /\ call' = [call EXCEPT ![c].stage = "answered", ![c].reply.state = "error"]

\* SelectionError, of a dry run or of a run: the tool answers with
\* ValidationError.
RefuseSelection(c) ==
    /\ call[c].stage \in {"unmade", "reading"}
    /\ call' = [call EXCEPT ![c].stage = "answered", ![c].reply.state = "error"]
    /\ UNCHANGED vars

\* The promise of the run has settled.
Resolved(c) == call[c].stage = "waiting" /\ pc[call[c].run] = "done"

\* Mutant of Answer: a rejected promise is not awaited.
AnswerOnlyResults(c) ==
    /\ Resolved(c) /\ outcome[call[c].run] = "complete"
    /\ call' = [call EXCEPT ![c].stage = "answered",
                            ![c].reply = [state |-> "complete", result |-> call[c].run,
                                          error |-> NoRun]]
    /\ UNCHANGED vars

\* The caller gets the result, or WorkerFailure.
Answer(c) ==
    /\ Resolved(c)
    /\ LET r == call[c].run IN
       call' = [call EXCEPT ![c].stage = "answered",
                            ![c].reply = IF outcome[r] = "complete"
                                         THEN [state |-> "complete", result |-> r, error |-> NoRun]
                                         ELSE [state |-> "error", result |-> NoRun, error |-> r]]
    /\ UNCHANGED vars

\* The timer wins the race.  Promise callbacks run before timers do, so it
\* cannot win once the run has settled.
WaitElapsed(c) ==
    /\ call[c].stage = "waiting" /\ ~call[c].patient /\ ~Resolved(c)
    /\ call' = [call EXCEPT ![c].stage = "polling"]
    /\ UNCHANGED vars

-----------------------------------------------------------------------------
(* get_test_status                                                         *)

\* Mutant of Status: the run id is not compared.
StatusOfSlot(p, r) ==
    LET s == runState[p]
    IN  [state |-> s.state, result |-> s.lastResult, error |-> s.lastError]

\* The reply for project p and run r.
Status(p, r) ==
    LET s == runState[p]
    IN  IF s.runId # NoRun /\ s.runId # r
        THEN [NoReply EXCEPT !.state = "queued"]
        ELSE [state |-> s.state, result |-> s.lastResult, error |-> s.lastError]

\* The holder of a handle polls until the state is "complete" or "error".
Poll(c) ==
    /\ call[c].stage = "polling"
    /\ LET reply == Status(call[c].project, call[c].run) IN
       call' = [call EXCEPT ![c].reply = reply,
                            ![c].stage = IF reply.state \in {"complete", "error"}
                                         THEN "answered" ELSE @]
    /\ UNCHANGED vars

-----------------------------------------------------------------------------
Background ==
    /\ \/ \E i \in PlanId : Expire(i)
       \/ \E r \in Run : Schedule(r) \/ Handle(r) \/ OnTimeout(r) \/ WorkerStep(r)
    /\ UNCHANGED call

\* What the daemon does for a call it has accepted.
Progress(c) == (\E s \in Requests : Start(c, s)) \/ Answer(c) \/ WaitElapsed(c)

ToolNext ==
    \/ \E c \in Call :
          \/ \E p \in Project : Begin(c, p) \/ \E s \in Requests : Preview(c, p, s)
          \/ \E i \in PlanId : StartPlan(c, i) \/ RefusePlan(c, i)
          \/ RefuseSelection(c) \/ Progress(c) \/ Poll(c)
    \/ Background

ToolSpec == ToolInit /\ [][ToolNext]_toolVars

\* The file read and the timer end, promise callbacks run, and a caller that
\* holds a handle keeps polling.
ToolFairness ==
    /\ \A r \in Run : /\ WF_toolVars(Schedule(r) /\ UNCHANGED call)
                      /\ WF_toolVars(Handle(r) /\ UNCHANGED call)
                      /\ WF_toolVars(OnTimeout(r) /\ UNCHANGED call)
    /\ \A c \in Call : WF_toolVars(Progress(c)) /\ WF_toolVars(Poll(c))

FairToolSpec == ToolSpec /\ ToolFairness

-----------------------------------------------------------------------------
(* Properties                                                              *)

\* Every call is at a stage, with a run and a reply of their types.
ToolTypeOK == call \in [Call -> CallState]

\* A verdict a caller was given is that of its own run: a complete reply
\* carries that run's result, an error reply that run's error, however many
\* other runs of the project came before, after or between two polls.
VerdictIsOwn ==
    \A c \in Call : LET k == call[c] IN
        (k.run # NoRun /\ k.reply.state \in {"complete", "error"}) =>
            /\ outcome[k.run] = k.reply.state
            /\ k.reply.state = "complete" => k.reply.result = k.run
            /\ k.reply.state = "error" => k.reply.error = k.run

\* Every accepted call is answered, with a result, an error or a handle.
EveryCallAnswered ==
    \A c \in Call : call[c].stage = "waiting" ~> call[c].stage \in {"polling", "answered"}

\* run_tests' description: "poll get_test_status(projectId, runId) with that
\* SAME runId until state is complete or error to get the result".  The slot
\* of the project may have gone to a later run by the time of the poll.
PollingEnds == \A c \in Call : call[c].stage = "polling" ~> call[c].stage = "answered"
===============================================================================
