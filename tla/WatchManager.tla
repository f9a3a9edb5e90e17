----------------------------- MODULE WatchManager -----------------------------
(***************************************************************************)
(* Watch mode (src/watch/index.ts, WatchManager) over what the orchestrator*)
(* promises (RunQueue), with the tools of src/mcp/server.ts that register  *)
(* projects, start and stop watches and request runs.                      *)
(*                                                                         *)
(* A version of a project's tree is a number; a run covers the version it  *)
(* was requested at, because runTests resolves its selection when it is    *)
(* called.  An event of the file system is of a file that                  *)
(* isIgnoredWatchPath filters, such as those the daemon writes to          *)
(* .test-mcp, or of another one ("source"): that a user edits, or that the *)
(* tests of a run write, a snapshot or a fixture.                          *)
(***************************************************************************)
EXTENDS Integers, FiniteSets

CONSTANTS
    Project,
    Cap,          \* runs that execute at once
    MaxRuns,      \* bound on runs
    Changes,      \* bound on the versions of each project's tree
    MaxManual,    \* bound on run_tests calls
    MaxSessions   \* bound on watches started

ASSUME BoundsAssumption ==
    /\ {Cap, MaxRuns, MaxManual, MaxSessions} \subseteq Nat
    /\ Changes \in [Project -> Nat]
    /\ Project # {}

VARIABLES
    registered,  \* projects in the registry
    tree,        \* version of each project's tree, ignored files apart
    sessions,    \* the map of that name: the session of each project, or None
    session,     \* every session started, also the stopped ones
    started,     \* their number
    last, owner, status, \* the queue
    by,          \* the session that requested a run, or None
    seen         \* the version of the tree a run was requested at

Queue == INSTANCE RunQueue

queueVars == <<last, owner, status>>
watchVars == <<sessions, session, started>>
vars == <<registered, tree, watchVars, queueVars, by, seen>>

Request == 1 .. MaxRuns
SessionId == 1 .. MaxSessions
None == 0
Version == Nat
Event == {"source", "ignored"}

Session == [project : Project, base : Version,
            state : {"idle", "running", "complete", "error"},
            pending : BOOLEAN, debounce : BOOLEAN,
            run : Request \cup {None}, events : SUBSET Event]

NewSession(p) == [project |-> p, base |-> tree[p], state |-> "idle", pending |-> FALSE,
                  debounce |-> FALSE, run |-> None, events |-> {}]

\* A callback that finds the session it closed over in the map.
Live(s) == sessions[session[s].project] = s

\* The project of a session or a run that is not there yet.
Somewhere == CHOOSE p \in Project : TRUE

Init ==
    /\ registered = {}
    /\ tree = [p \in Project |-> 0]
    /\ sessions = [p \in Project |-> None]
    /\ session = [s \in SessionId |-> NewSession(Somewhere)]
    /\ started = 0
    /\ last = 0
    /\ owner = [r \in Request |-> Somewhere]
    /\ status = [r \in Request |-> "none"]
    /\ by = [r \in Request |-> None]
    /\ seen = [r \in Request |-> 0]

-----------------------------------------------------------------------------
(* The file system and the orchestrator                                    *)

Emit(p, e) == session' = [s \in SessionId |-> IF sessions[p] = s
                                              THEN [session[s] EXCEPT !.events = @ \cup {e}]
                                              ELSE session[s]]

\* A file that is not ignored is edited.
Change(p) ==
    /\ tree[p] < Changes[p]
    /\ tree' = [tree EXCEPT ![p] = @ + 1]
    /\ Emit(p, "source")
    /\ UNCHANGED <<registered, sessions, started, queueVars, by, seen>>

StartRun(r) ==
    /\ Queue!Start(r)
    /\ UNCHANGED <<registered, tree, watchVars, by, seen>>

\* The tests of a run write into the tree that is watched: snapshots and
\* fixtures are not ignored, and nothing tells them from an edit.
RunWrites(r) ==
    /\ status[r] = "executing"
    /\ Change(owner[r])

\* A run that settles has written its snapshot and its record to .test-mcp.
SettleRun(r) ==
    /\ Queue!Settle(r)
    /\ Emit(owner[r], "ignored")
    /\ UNCHANGED <<registered, tree, sessions, started, by, seen>>

\* runTests: the selection is resolved and the run enqueued.
RunTests(p, requester) ==
    /\ Queue!Accept(p)
    /\ by' = [by EXCEPT ![last + 1] = requester]
    /\ seen' = [seen EXCEPT ![last + 1] = tree[p]]

-----------------------------------------------------------------------------
(* The session                                                             *)

\* Mutant of Ignored: nothing is filtered.
NothingIgnored(e) == e = "none"

\* isIgnoredWatchPath
Ignored(e) == e = "ignored"

\* The callback of fs.watch; schedule restarts the debounce.
Notice(s, e) ==
    /\ Live(s) /\ e \in session[s].events
    /\ session' = [session EXCEPT ![s].events = @ \ {e},
                                  ![s].debounce = @ \/ ~Ignored(e)]
    /\ UNCHANGED <<registered, tree, sessions, started, queueVars, by, seen>>

\* Mutant of RunOnce: the state does not say that a run is in flight.
RunOnceQuiet(s, rec) ==
    /\ RunTests(rec.project, s)
    /\ session' = [session EXCEPT ![s] = [rec EXCEPT !.pending = FALSE, !.run = last + 1]]

\* Mutant of RunOnce: the flag of a change outlives the run that picks it up.
RunOnceKeepsFlag(s, rec) ==
    /\ RunTests(rec.project, s)
    /\ session' = [session EXCEPT ![s] = [rec EXCEPT !.state = "running", !.run = last + 1]]

\* runOnce, for a session that is otherwise as in rec.
RunOnce(s, rec) ==
    /\ RunTests(rec.project, s)
    /\ session' = [session EXCEPT ![s] =
                     [rec EXCEPT !.state = "running", !.pending = FALSE, !.run = last + 1]]

\* Mutant of Trigger: the change is dropped while a run is in flight.
TriggerDropped(s, rec) ==
    IF rec.state = "running"
    THEN /\ session' = [session EXCEPT ![s] = rec]
         /\ UNCHANGED <<queueVars, by, seen>>
    ELSE RunOnce(s, rec)

\* trigger
Trigger(s, rec) ==
    IF rec.state = "running"
    THEN /\ session' = [session EXCEPT ![s] = [rec EXCEPT !.pending = TRUE]]
         /\ UNCHANGED <<queueVars, by, seen>>
    ELSE RunOnce(s, rec)

\* The debounce timer goes off.
Fire(s) ==
    /\ Live(s) /\ session[s].debounce
    /\ Trigger(s, [session[s] EXCEPT !.debounce = FALSE])
    /\ UNCHANGED <<registered, tree, sessions, started>>

\* Mutant of Continues: a session that was stopped continues too.
ContinuesStopped(s) == session[s].pending

\* The condition of the finally callback.
Continues(s) == Live(s) /\ session[s].pending

\* Mutant of Finally: the flag of a change that came during the run is lost.
FinallyForgets(s, rec) ==
    /\ session' = [session EXCEPT ![s] = [rec EXCEPT !.run = None, !.pending = FALSE]]
    /\ UNCHANGED <<queueVars, by, seen>>

Finally(s, rec) ==
    IF Continues(s)
    THEN RunOnce(s, rec)
    ELSE /\ session' = [session EXCEPT ![s] = [rec EXCEPT !.run = None]]
         /\ UNCHANGED <<queueVars, by, seen>>

\* The callbacks of the promise: then or catch, and finally.
RunSettled(s) ==
    /\ session[s].run # None /\ status[session[s].run] = "settled"
    /\ \E outcome \in {"complete", "error"} :
          Finally(s, [session[s] EXCEPT !.state = outcome])
    /\ UNCHANGED <<registered, tree, sessions, started>>

-----------------------------------------------------------------------------
(* The tools.  One that answers UnknownProject, or finds a watch to start   *)
(* started and one to stop stopped, changes nothing.                        *)

Register(p) ==
    /\ registered' = registered \cup {p}
    /\ UNCHANGED <<tree, watchVars, queueVars, by, seen>>

\* The watch of the project goes on.
Unregister(p) ==
    /\ p \in registered
    /\ registered' = registered \ {p}
    /\ UNCHANGED <<tree, watchVars, queueVars, by, seen>>

StartWatch(p) ==
    /\ p \in registered /\ sessions[p] = None
    /\ started < MaxSessions
    /\ started' = started + 1
    /\ sessions' = [sessions EXCEPT ![p] = started + 1]
    /\ session' = [session EXCEPT ![started + 1] = NewSession(p)]
    /\ UNCHANGED <<registered, tree, queueVars, by, seen>>

\* stop: the timer is cleared and the watcher closed.
Stopped(s) == [session[s] EXCEPT !.debounce = FALSE, !.events = {}]

StopWatch(p) ==
    /\ p \in registered /\ sessions[p] # None
    /\ session' = [session EXCEPT ![sessions[p]] = Stopped(sessions[p])]
    /\ sessions' = [sessions EXCEPT ![p] = None]
    /\ UNCHANGED <<registered, tree, started, queueVars, by, seen>>

\* The daemon shuts down.
StopAll ==
    /\ session' = [s \in SessionId |-> IF Live(s) THEN Stopped(s) ELSE session[s]]
    /\ sessions' = [p \in Project |-> None]
    /\ UNCHANGED <<registered, tree, started, queueVars, by, seen>>

\* run_tests; which projects request a run does not matter here.
RunTestsTool(p) ==
    /\ p \in registered
    /\ Cardinality({r \in 1 .. last : by[r] = None}) < MaxManual
    /\ RunTests(p, None)
    /\ UNCHANGED <<registered, tree, watchVars>>

SessionStep(s) == (\E e \in Event : Notice(s, e)) \/ Fire(s) \/ RunSettled(s)

Next == \/ \E p \in Project : Change(p) \/ Register(p) \/ Unregister(p) \/ StartWatch(p)
                              \/ StopWatch(p) \/ RunTestsTool(p)
        \/ \E r \in Request : StartRun(r) \/ RunWrites(r) \/ SettleRun(r)
        \/ \E s \in SessionId : SessionStep(s)
        \/ StopAll

Spec == Init /\ [][Next]_vars

\* Events are delivered, timers go off and callbacks run, and every run
\* settles, for the watchdog ends those that do not by themselves.
FairSpec == /\ Spec
            /\ \A s \in SessionId : WF_vars(SessionStep(s))
            /\ WF_vars(\E r \in Request : StartRun(r) \/ SettleRun(r))

-----------------------------------------------------------------------------
(* Properties                                                              *)

\* Every variable has its type, and a session that is running, and no other,
\* has a promise whose callbacks are to run.
TypeOK ==
    /\ registered \subseteq Project
    /\ tree \in [Project -> Version]
    /\ sessions \in [Project -> SessionId \cup {None}]
    /\ session \in [SessionId -> Session]
    /\ \A s \in SessionId : session[s].state = "running" <=> session[s].run # None
    /\ started \in 0 .. MaxSessions
    /\ last \in 0 .. MaxRuns
    /\ owner \in [Request -> Project]
    /\ status \in [Request -> {"none", "pending", "executing", "settled"}]
    /\ by \in [Request -> SessionId \cup {None}]
    /\ seen \in [Request -> Version]

\* A watch that is at rest (get_test_status shows neither a run nor, to come,
\* an event or a timer) has a settled run that was requested after the latest
\* change, or nothing has changed since the watch began: what an agent polls is
\* the result for the code as it is (trigger's pending flag, and the rerun in
\* runOnce's finally).
AtRest(s) == LET w == session[s]
             IN  Live(s) /\ "source" \notin w.events /\ ~w.debounce /\ w.state # "running"

CoveredBy(s, r) == by[r] = s /\ seen[r] = tree[session[s].project]

RestCurrent ==
    \A s \in SessionId : AtRest(s) =>
        \/ tree[session[s].project] = session[s].base
        \/ \E r \in Request : CoveredBy(s, r) /\ status[r] = "settled"

\* A watch has at most one run unsettled, however often files change: changes
\* that arrive meanwhile are one more run (trigger).
OneRunPerWatch ==
    \A q, r \in Request :
        (by[q] # None /\ by[r] = by[q] /\ status[q] # "settled" /\ status[r] # "settled") => q = r

\* A session that was stopped requests no run any more, also when its callbacks
\* still run and the project is watched again (runOnce's identity check).
StoppedIsSilent ==
    [][\A s \in SessionId : (\E r \in Request : by[r] # s /\ by'[r] = s) => Live(s)]_vars

\* A project has at most as many runs of watches as its files that are not
\* ignored had changes, edits and what the tests of runs write: a watch runs
\* again neither for what the daemon itself writes when a run settles
\* (isIgnoredWatchPath), nor twice for one change that passes through the event,
\* the timer and the flag (schedule, trigger, runOnce's finally).  A project
\* whose tests write such a file in every run does run for ever.
OneRunPerChange ==
    \A p \in Project : Cardinality({r \in 1 .. last : owner[r] = p /\ by[r] # None}) <= tree[p]

\* Every change to a project that is watched is followed by a settled run of
\* the watch that was requested after it, unless the watch is stopped.
ChangeCovered ==
    \A s \in SessionId, p \in Project : \A v \in 1 .. Changes[p] :
        (sessions[p] = s /\ tree[p] = v /\ session[s].base < v)
            ~> (\/ sessions[p] # s
                \/ \E r \in Request : by[r] = s /\ seen[r] >= v /\ status[r] = "settled")
=============================================================================
