# Formal model of testing-mcp

TLA+ modules, TLC configurations and TLAPS proofs for the daemon in `src/src/`,
which accepts test runs over MCP and executes them with each project's own
Vitest in forked worker processes. Paths below are relative to this
repository's root (`src/src/orchestrator/index.ts` is the orchestrator).

## The system

| component | state it keeps | operations | what makes it correct |
|---|---|---|---|
| **orchestrator** `orchestrator/index.ts` | a promise chain per project (`queues`), the worker semaphore (`activeWorkers`, `workerWaiters`), dry-run plans, run state, last failures, live view, history ring and test inventory per project | `startRun`, `plan`, `startPlanRun`, the chained callback of `enqueue`, acquire and release of a slot, fork, one handler per worker message, exit, stall and run timers | runs of a project do not overlap or overtake; slots are neither lost nor duplicated; a run settles once, and always; published views are those of the right run |
| **worker** `worker/index.ts` | one run in one process | `ready`, `handleRun`, reporter events, heartbeats, result or error | what it executes is what was selected, or everything |
| **selection, snapshot** `selection/index.ts`, `snapshot/index.ts` | `last-run-snapshot.json` | changed set since the snapshot or HEAD, `plan`, saving the selection-time hashes after a success | never under-select: no regression hides behind the baseline |
| **MCP server** `mcp/server.ts` | none beyond the running call | `run_tests` (await settings, start, race a timer), `get_test_status` (compare run ids) | a caller gets the verdict of its own run, and always an answer |
| **history** `history/index.ts` | one file per run | write, prune, load at start | the kept files are the newest runs |
| **registry** `registry/project-registry.ts` | registered projects, mirrored to a file | register, unregister, load | the file and the map agree |
| **watch** `watch/index.ts` | a session per watched project: its state, debounce timer, pending flag | notice an event, debounce, trigger, rerun, start, stop | every change leads to a run that saw it, and a change to one run at most; what the daemon writes leads to none; a stopped watch is silent |
| **daemon** `daemon/index.ts` | lock, config and token files | start, stop, status, signal handling | one daemon per state directory, found by its lock |
| **CLI, bridge** `cli/main.ts`, `cli/mcp-bridge-resilience.ts` | the upstream transport of the stdio bridge, the cached handshake, the recreation in flight | forward, recreate the session, repeat a refused send | a request is executed once at most, across daemon restarts; one transport talks to the client |
| **UI** `ui/index.ts` | SSE subscribers | render and push views | subscribers see the end of a log |

Beside the program the repository carries a Python toolkit for planning
documents, under `.agents/` and `_bmad/`. It is vendored and no part of the
daemon: nothing in `src/src/` calls it.

The components meet in four ways. The MCP server, the watcher and the UI call
the orchestrator and read its views; all of that happens on the daemon's one
thread, between awaits. The orchestrator and a worker exchange IPC messages and
see each other's death as an exit event or a failed send. Selection reads the
working tree, git and the snapshot at the time of the request, while the worker
reads the working tree when the run's turn comes. Daemon and CLI processes meet
in the state directory.

The hard parts are accordingly: events of a dying worker that race with its
result and with timers; promise chains and semaphore hand-overs interleaved
over projects; the gap between selecting and executing; baselines that outlive
the tree they describe; identity of runs across polls; callbacks that outlive
the watch they were made for; sessions that the daemon forgets and two failures
rebuild at once; and files written by several processes. `PROJECT.json` lists each hazard at its line.

## Modules

`Orchestrator.tla` is the core. One action is one handler: the daemon is single
threaded, so a handler runs to completion. `pc[r]` is the position of run r in
its promise chain: `queued` (chained, callback not run), `waiting` (parked in
`acquireWorker`), `granted` (slot held, `executeWorker` not begun), `running`
(worker forked, listeners attached), `settled` (`finish` done, slot still
held), `done`. `worker[r]` is the forked process and `chan[r]` the messages it
sent that were not handled; `finish` empties it because the listeners are gone.
Run ids are numbers in request order instead of UUIDs, and a result is
represented by the id of the run that produced it, so that a property can ask
whose result a view shows. Messages keep what handlers distinguish. The stall
watchdog and the run timeout are one untimed action, `OnTimeout`, that may
happen whenever they are armed.

`RunQueue.tla` is what the orchestrator promises: requests of a project execute
one at a time in order, at most `MaxWorkers` at once, and each settles once.
`OrchestratorRefinement.tla` maps the core to it: a run executes from the grant
of its slot until it is released.

`RunTestsTool.tla` extends the core with the MCP calls: a call reads the
project settings (an await), starts a run or commits a plan, is refused when the
plan (`PlanError`) or the selection (`SelectionError`) is no good, otherwise
races the run against its timer and, holding a job handle, polls
`get_test_status`.

`StallWatchdog.tla` puts one run in discrete time: the stall timer of
`executeWorker`, and the worker's attempts to start Vitest with their retries,
backoffs and heartbeats. `Tick` lets a unit of time pass and fires the
intervals that are due; messages age in `chan` and are handled within
`Latency`, while the stall timer goes off on time, even before a message that
would rearm it, as an event loop that was blocked runs its timers first. The
worker is well, stuck in something it awaits (its intervals still fire) or
frozen. `covering` is the part of `startVitest` after the last test, in which a
run with coverage collects, remaps and writes it and sends nothing but its
heartbeat, for any time that the heartbeat's window covers (`OnTime`). The time after Vitest has closed, in which the result is delivered and
handled, lasts `Latency` at most.

`Incremental.tla` models selection and the baseline for one project: the
working tree, HEAD, the snapshot file and the test inventory, with requests
that resolve their selection at once and execute later, in order. A file's hash
is its content. Vitest is external: `Static` is the import graph it follows,
`Hidden` what a test depends on beyond that graph, `Passes` the outcome of a
test in a tree. Edits, commits, lost snapshots, git failures, failed writes,
failed runs and restarts may happen at any time the configuration allows.

`DaemonLifecycle.tla` models the processes that meet in the state directory.
Each process runs one command, and every access to a shared file is a step of
its own. A `start` that gets the port becomes the daemon and closes on a
signal; a process may be killed at any step and leaves the file it was writing
as it was or torn. A process id stands for a generated token. Ids are not
reused in the model; the code has no defence against reuse beyond the check
that a process of that id is alive.

`WatchManager.tla` puts watch mode on top of `RunQueue`: what a watch needs of
the orchestrator is the abstract promise, which the core is shown to implement.
A version of a project's sources is a number, and a run covers the version at
its request, because `runTests` resolves the selection when it is called. An
event is of a path that `isIgnoredWatchPath` filters, as those are that the
daemon writes to `.test-mcp` when a run settles (`SettleRun`), or of any other:
one that a user edits (`Change`), or a snapshot or fixture that the tests of a
run write while it executes (`RunWrites`). A session object outlives its entry in `sessions`:
the callbacks of its run close over it, whether the watch was stopped, or
stopped and started again, in the meantime. The tools that register projects,
start and stop watches and request runs are actions of the same module.

`McpBridge.tla` follows each message of one client through the stdio bridge, by
the stage it has reached. Transports are numbered, and a session has the number
of the transport it was made for. The daemon's side is the map of sessions of
`createMcpRequestListener` (`live`) and those whose handshake is complete
(`ready`); it may die and come back, and a stream may be cut. `recreateSession`
is two replays, each of which may fail, and the swap; `createSendFailureHandler`
and `createTransportErrorHandler` are `SendFailed` and `StreamError`. The SDK's
transports are external: a send is a POST, and `close` aborts what is under way,
which the daemon may have received all the same.

`Forwarding.tla` is what the bridge promises its client: a message is executed
once at most, an answer is that of an execution, and a message that was given up
is not answered any more, though the daemon may execute it even so. `McpBridge`
implements it. The copies of the handshake that a recreation sends for the new
session are the bridge's own messages, and not counted.

The `MC` modules give the constants their values. Operators described as
mutants are deliberately wrong variants of the definition they precede, used to
confirm that a property notices the mistake; nothing refers to them.

## What the runs show

| run | bounds | shows |
|---|---|---|
| slots | 2 projects, 3 runs, 1 slot, ring of 2, runs that reach a worker and runs that do not | queueing, the semaphore, that no run is ever stuck, settling once, no orphan workers, and that run state, history, failure details, strategy labels and snapshots are those of the right run |
| refinement | 2 projects, 3 runs, 1 slot, 1 plan | the core implements `RunQueue`; a plan is executed at most once, unexpired, for its project |
| replies | 2 calls, 2 projects, 2 runs, 1 slot, 1 plan, no progress messages, fairness | every run settles, every call is answered, and with its own run's verdict |
| watchdog | one run, at constants with no time to spare | a healthy worker is not killed, a stuck one is |
| static | 2 sources, 1 outside the project, 2 tests | nothing is under-selected when the import graph is static |
| dynamic | the same with a dynamic import | high confidence means complete; no regression is hidden, because a degraded run does not move the baseline |
| lifecycle | 4 processes, one command at a time, any of them killed at any step | the daemon that serves is the one the lock and the token file describe; stop, status and start tell the truth |
| watch | 1 project, 3 changes, 1 run of an agent, 4 runs, 2 watches, 1 slot, fairness | a watch at rest shows the result for the sources as they are, every change, by a user or by the tests of a run, is covered and pays for one run at most; a stopped watch requests nothing |
| bridge | a handshake and 2 requests, 2 deaths of the daemon, 1 cut stream, 6 transports, fairness | the bridge implements `Forwarding`: no request is executed twice, no answer is made up or undone; no superseded transport is left talking, handshakes are complete, the bridge outlives its sessions and recovers |
| midrun, polling, tokens | the least that shows it | a disagreement each, listed below |

Two projects are the least for which a slot is contended by runs that do not
queue behind one another; with three runs one project has a queue while the
other waits. A ring of two overflows with three runs. Progress and test-case
messages are bounded by one per worker in `slots`: they change the run state
and the live view alone, and a second one finds the same state as the first.
Liveness is checked without them, because a worker that sends progress for ever
is stopped only by the bound. In the real system such a worker keeps its run
alive as long as it keeps sending, unless `runTimeoutMs` is set: this is by
design of the watchdog, so `EveryRunSettles` speaks of workers whose messages
are finite. Two calls let one poll while the slot belongs to the other's run.

In `watchdog` the grace, the interval, the attempts and the backoff have about
the proportions of the code, in seconds, and the heartbeat windows are a few
intervals long; the coverage window is longer than that of the pool start, as
it is in the code (1800 s and 130 s, `worker/index.ts:160,148`), by more than
any threshold: a coverage tail that is silent for the whole window needs the
coverage heartbeat, for that of the pool start has given up by then. The window
opens with the run, so tests that take 30 minutes leave their tail without a
heartbeat; such a worker is not counted as healthy (`OnTime`).
`Margins` says which inequalities between the constants make
`HealthyNeverStalled` true. A pool start may take longer there than every
threshold, so the heartbeats matter; and one unit more of boot time, of the gap
between tests, of backoff, latency or closing time, one more attempt, or two
units more between heartbeats kills a healthy worker. With the code's constants
and the default grace of 5 s the threshold is 10 s for Vitest's default
timeout, against 4 s of heartbeat interval and 2 s of the longest backoff. A
project with a `testTimeout` of 1 s or less has a threshold of 6 s, which those
two use up. A configured grace smaller than the time the worker needs to load
and resolve the project's Vitest kills every run.

The selection runs use two sources and two tests, where test `t` depends on `x`
and test `u` on `x` and `y`; three or four edits are enough to break a file,
run, repair it and return. `static` keeps the graph static and finds no hidden
regression, whatever happens to a third source outside the project; `dynamic` lets `u` reach `y` by a dynamic import. Both trust HEAD
(`TrustHead`: what is committed passes) and keep files still while a run is
queued (`~MidRunEdits`), which `midrun` does not.

Four processes are two starts, a stop and one more start or status: enough for
a daemon to be killed or stopped, its leftovers to be met, and its successor to
be stopped or examined. `lifecycle` does not let commands overlap, and a closing
daemon may overlap with any; overlapping starts are the subject of `tokens`.

Three changes are one that is being run, one that waits for that run, and one
that comes while it waits. Four runs are one for each change and the agent's;
two watches are one that is stopped with its run in flight and its successor.
Sessions of different projects meet in the queue alone, so one project is
enough.

Two requests are enough for one to fail late, when the other has already had
the session recreated; with two deaths of the daemon the second can interrupt
the recovery from the first. The bound of six transports is not reached, so it
takes no behaviour away. `Recovers` speaks of a message that is sent when no
fault comes any more and no recreation is in flight: a recreation that fails
loses the messages that wait for it, and the next message starts another.

`CHECK_DEADLOCK FALSE` is set where run ids, processes, edits or faults are
bounded or the system ends: with the last run settled nothing is left to do.

Every property of a passing run is paired in `PROJECT.json` with a mutant of
the code that violates it.

### Disagreements found

| run | code | text |
|---|---|---|
| midrun | the hashes saved are those of the request, the tests executed those of a later tree (`snapshot/index.ts:171`) | `snapshot/index.ts:153` this is what keeps invariant 5 sound |
| polling | a run whose slot went to a later run is reported queued for ever (`mcp/server.ts:306`) | `:145` poll until complete or error |
| tokens | a start that loses the port has already replaced the token file (`daemon/index.ts:243`) | `daemon/index.ts:86` kept in sync with the live daemon token |

Reading the code beside its documents also shows these, which no run states.

* Selection: a helper under `__tests__` counts as a test, and so does a test
  file that another one loads dynamically, so a change of it alone is "provably
  complete" without being so (`selection/index.ts:121`, comment at `:119`). The
  last-run delta does not see files outside the project (`snapshot/index.ts:74`),
  whose change is said to escalate (`selection/index.ts:318`). The first
  delta-driven run after a clean checkout saves hashes of files it never
  executed (`orchestrator/index.ts:494`; `docs/architecture.md:156`). `plan` has
  no rule for configuration files (`docs/architecture.md:247`), and any changed
  source, not only a new one, degrades the confidence
  (`selection/index.ts:158`; `docs/architecture.md:253`).
* Runs: a slot is reused when the kill signal is sent, not when the worker
  process ends (`orchestrator/index.ts:577,752`; `docs/architecture.md:269`). A
  poll of a running or failed run returns an earlier run's `lastResult`
  (`mcp/server.ts:319,308`). A run that finds nothing changed completes and is
  published as the project's last result, but leaves the failure details of the
  run before it (`orchestrator/index.ts:432-460`), which are said to be those of
  the "most recent run" (`:214`, `:920`): after a failing run and an empty one,
  the details shown belong to no failure of the latest result. `FailuresCurrent`
  states what the code does, that an empty run is passed over. `fork` may throw
  at once (`:638`); the run then rejects without `failRun`, so its state stays
  "running" and it has no record.
* Watch: `unregister_project` leaves the watch of the project running, and
  `stop_watch` then answers `UnknownProject` (`mcp/server.ts:347`;
  `docs/usage.md:286`); the model has this behaviour (`Unregister`, `StopWatch`).
  Each event restarts the debounce, so changes that never pause keep a watch
  from running. A project whose tests write a file outside the ignored
  directories in every run triggers its watch for ever: the filter is for files
  that test-mcp itself writes (`watch/index.ts:39-47`). Nothing listens to an `error` of the watcher.
* Bridge: the reply 404 says nothing of the session it was for, so one that
  arrives after a finished recreation replaces the healthy session and aborts
  the answers due on it (`cli/mcp-bridge-resilience.ts:24`); the model has this
  behaviour too. The answer to a replayed `initialize` reaches the client a
  second time. The session a bridge leaves behind stays in the daemon's map.
* Registry: a `registry.json` that is corrupt or newer is treated as empty, and
  the next registration overwrites it (`daemon/index.ts:247`).
* Overlapping commands can remove the lock of a live daemon: `stop`, `status`
  and `start` remove the file whatever it holds by then.

## Fairness

`Fairness` in the core: promise callbacks run when due (`Schedule`), received
events are dispatched (`Handle`), and the watchdog of a running worker fires
unless the run settles first (`OnTimeout`). Nothing is assumed of a worker. The
watchdog is always armed from fork to finish (`orchestrator/index.ts:736`), so
its fairness needs no configuration. `ToolFairness` adds that the settings file
is read, that timers end, and that a caller holding a handle keeps polling.

`WatchManager`: the operating system delivers events, debounce timers go off,
promise callbacks run, and the queue makes progress, which is `EveryRunSettles`
of the core. Nothing is assumed of changes or of the tools.

`McpBridge`: a message that is under way arrives, fails or is answered, and the
bridge handles what its transports report. Nothing is assumed of the client, of
the faults or of the daemon's return.

## Proofs

TLAPS proves, for every value of the constants under their named assumptions:

* `OrchestratorProofs`: type correctness, `QueueChained`, `ProjectSerialized`,
  `SlotsAccounted`, `NoLostWaiter` and `NoDeadlock`. Serialization follows from
  chaining and from "a run that left the queue has a predecessor that is done",
  by the order of request numbers. Slot accounting needs, beside itself, that
  waiters are exactly the waiting runs, once each: without it a release could
  hand a slot to a run that has one already. `NoDeadlock` says that the earliest
  unsettled run of a project has a callback due, holds a slot, or waits for a
  slot that another run holds. It is derived, not inductive: that run's
  predecessor is done, since it is of the same project and smaller, and while a
  run waits the slots are all held. `QueueChained`, which no run lists, is
  proved as what the others stand on.
* `OrchestratorRefinementProofs`: the core implements `RunQueue`. Each action
  is a step of the abstract queue or leaves it unchanged; the abstract guards
  are supplied by the invariants above.
* `IncrementalProofs`: `NoHiddenRegression` and `HighConfidenceSound` under
  `SoundSetting`, and the types without it. The
  invariant says that HEAD and the baseline are trees in which every test
  passes, and that a queued selection was computed against such a tree and from
  the files still on disk. The baseline has the hashes of the files inside the
  project alone, so it stands for every tree that agrees with it there; as no
  test depends on a file outside, these trees pass the same tests
  (`InsideDecides`). The tests a selection leaves out reach no changed file, so
  they have the outcome they had in the tree the changed set was computed
  against, in which everything passed.
* `DaemonLifecycleProofs`, first part, however commands overlap and wherever
  they are killed: the types; `OneServes`, two processes never serve at once;
  and `StopsDaemons`, a stop signals only a process that has been the daemon,
  never another command. The invariant says that a process which is to serve or
  serves holds the port, that it has chosen a token before, and that whoever a
  lock, or what somebody read of one, names has held the port.
  Second part, every property of the run lifecycle, for any number of processes
  and tokens, under `~Overlap`: one command at a time, each of which may be
  killed at any step. At most one command is then at work, so what it read of
  the lock is outdated only by a daemon that removed its own. A start that is
  past its check therefore knows that no daemon has a lock in place
  (`AloneStarting`), and it owns the lock, the token file and the port until it
  serves. A daemon that closes gives up the port before its lock, so a start
  that finds no lock finds the port free. The run tokens shows that the
  hypothesis is needed.
* `OrchestratorViewsProofs`: everything else the runs `slots`, `refinement` and
  `replies` check of the core and its callers, except liveness:
  `RunStateCurrent`, `NoOrphanWorker`, `HistoryFaithful`, `FailuresCurrent`,
  `LabelTruthful`, `SettlesOnce`, `SnapshotNeverRegresses`, `PlanHonoured`,
  `VerdictIsOwn`, and the types of the tool calls. The core's invariant is
  extended by "a run's outcome is pending exactly until it settles" and by what
  is known of a worker in each position. From the chaining of the queue follows
  that a run whose turn has come is newer than every run of its project that
  has settled, and older than every one that waits: what it publishes is the
  newest there is. Each view then has an inductive statement per project.
  `RunningDown` proves the part of `EveryRunSettles` that needs no fairness: the
  positions a run and its worker have before them, and the messages to send and
  to handle, are a measure that no step increases and that every step of the
  run decreases. A worker's messages are counted by the model's bound
  `MaxSignals`, which may be any number. `DeadlockFree` and `RunningDown`
  together leave to fairness only that a step which can be taken is taken.
  `ToolsAreClients` shows that a behaviour of the MCP calls is one of the core,
  so that every theorem about the core holds while they are served. For
  `VerdictIsOwn` the slot that shows a settled run must carry the result or the
  error of that run, and the run of a call must be of the call's project.
* `StallWatchdogProofs`: `HealthyNeverStalled` under `Margins`, `StallBounded`,
  and the types, for every value of the times. For a healthy worker, either a
  message is in the channel that will be handled, and rearm the timer, before
  the timer goes off, or the timer still has the threshold less the time since
  the last sign of life; `Margins` makes the rest longer than `Latency`. In a
  coverage tail the signs of life are heartbeats: while the window is open, each
  multiple of `Interval` has one, which leaves a whole threshold at that time
  (`CoverRoom`), and `Margins` has the interval shorter than that. For a
  worker that gets nowhere, the time left and the time it has been stuck add up
  to at most the heartbeat window, `MaxTimeout`, the grace and `Latency`: a
  heartbeat that could rearm the timer later was sent within the window.
* `WatchManagerProofs`: `TypeOK`, `RestCurrent`, `StoppedIsSilent`,
  `OneRunPerChange`, and `OneRunPerWatch`, that a watch has at most one unsettled
  run however often files change. The invariant says that a watch owes a run
  exactly as long as it holds the event, the timer or the flag that will lead to
  one, and that otherwise its latest run, settled or awaited, was requested at
  the version there is. It needs that a flag is only set while a run is in
  flight, whose callbacks will find it. `OneRunPerChange` is an account: a
  change of a file that is not ignored, an edit or a write of a run's tests,
  gives its project one token, held by the event, the timer or the flag in turn,
  and used up by the run; the tokens held and the runs requested by watches are
  at most the changes. What the daemon itself writes gives none. It does not
  follow that runs cannot cause runs: those of tests that write such files do.
* `McpBridgeProofs`: the types, `ImplementsForwarding`, `NoStrayTransport`,
  `HandshakeFirst` and `BridgeOutlivesSessions`, for any number of requests,
  transports and faults. The invariant says that one recreation at most is in
  flight and is to replace the current transport, that nothing is sent on a
  transport before its handshake is replayed, and that a message which may still
  reach the daemon has not been there. The last part makes each handling of a
  message by the daemon the abstract `Execute`, which wants a message that was
  never executed; the rest of the refinement is by the stages of a message.

The assumptions of `SoundSetting` are named in `IncrementalProofs`, and the run
midrun shows what happens without one of them.

Only model-checked: liveness (`EveryRunSettles`, `EveryCallAnswered`,
`ChangeCovered`, `Recovers`), which is outside the prover. `PollingEnds` is only
refuted.

## Not modelled

Rendering and HTTP, the live test list and log ring, coverage arithmetic,
result mapping, ignore patterns, path arithmetic and schemas are data or pure
output. The UI follows a log by reading the ring again, and keeps no state that
another component reads.

The history files are left out: the ring they mirror is in `Orchestrator`, the
daemon swallows their failures and reads them only when it starts. Pruning
promises that loading agrees with it on what is oldest, and that it never
removes the record just written (`history/index.ts:33-39`); this is not checked. The registry's file and its load at the start are
left out of `WatchManager`, which has the set of registered projects.

A synchronous throw of `fork` (`orchestrator/index.ts:638`) is left out, for the
failures of a spawn that can be expected arrive as events; the confidence that a
committed plan froze is not followed in `Incremental`, which has no plans.

The run timeout of `runTimeoutMs` is in `Orchestrator`, not in `StallWatchdog`.
Authentication, the command line's arguments and the tools that only read are
left out.

The vendored Python toolkit for planning documents is outside the scope: it is
not part of the program, keeps no state between invocations, and meets no other
component. The program is the TypeScript under `src/src/`, some 6500 lines, of
which the definitions here translate about 2500.

## Order of work

The modules were written from the core outwards: `Orchestrator` with `RunQueue`
and the refinement, `Incremental`, `RunTestsTool`, `StallWatchdog`,
`DaemonLifecycle`, then `WatchManager` on the abstract queue, and `McpBridge`.
What a later version could add is the files of the history and the registry,
with a daemon that dies between two writes.
