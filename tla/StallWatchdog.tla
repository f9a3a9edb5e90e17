----------------------------- MODULE StallWatchdog -----------------------------
(***************************************************************************)
(* One run's stall watchdog (src/orchestrator/index.ts, executeWorker) and *)
(* the messages of the worker that keep it quiet (src/worker/index.ts:     *)
(* withPoolStartHeartbeat, withCoverageTailHeartbeat, runOnce, runVitest,  *)
(* handleRun), in discrete time.                                           *)
(*                                                                         *)
(* A Tick lets one unit of time pass everywhere and makes every interval   *)
(* timer of the worker that is due fire.  A message is handled at most     *)
(* Latency units after it was sent; the stall timer goes off on time, even *)
(* when a message is waiting, because an event loop runs its timers first. *)
(***************************************************************************)
EXTENDS Integers, Sequences

CONSTANTS
    Grace,         \* staleTestGraceMs
    DefaultTimeout,\* DEFAULT_UNKNOWN_TEST_TIMEOUT_MS
    MinTimeout,    \* MIN_SANE_TEST_TIMEOUT_MS
    MaxTimeout,    \* MAX_SANE_TEST_TIMEOUT_MS
    Timeouts,      \* values of testTimeout that projects configure
    Unknown,       \* a project whose testTimeout discovery cannot tell
    Attempts,      \* POOL_START_MAX_ATTEMPTS
    Delay,         \* POOL_START_RETRY_DELAY_MS
    Interval,      \* POOL_START_HEARTBEAT_INTERVAL_MS, same for coverage
    PoolMax,       \* POOL_START_HEARTBEAT_MAX_MS
    CoverageMax,   \* COVERAGE_TAIL_HEARTBEAT_MAX_MS
    Latency,       \* a message is handled within this time
    BootMax,       \* a healthy worker is forked and configured within this time,
    StartMax,      \*   reports a first test or ends an attempt within this one,
    Gap,           \*   reports another test or resolves startVitest within this one
    CloseMax       \*   and closes Vitest within this one

ASSUME TimesAssumption ==
    /\ {Grace, DefaultTimeout, MinTimeout, MaxTimeout, Delay, PoolMax, CoverageMax,
        Latency, BootMax, StartMax, Gap, CloseMax} \subseteq Nat
    /\ {Attempts, Interval} \subseteq Nat \ {0}
    /\ MinTimeout <= DefaultTimeout /\ DefaultTimeout <= MaxTimeout
    /\ Timeouts \subseteq Nat /\ Unknown \notin Nat
    /\ PoolMax <= CoverageMax

VARIABLES
    setting,  \* the project's testTimeout, and whether the run measures coverage
    phase,    \* what the worker is doing
    health,   \* "well", "stuck" in what it is doing, or "frozen" altogether
    attempt,  \* of starting Vitest
    pass,     \* Vitest runs of this request: the fallback is a second one
    reported, \* has this attempt reported a test?
    since,    \* time since the worker last got somewhere
    pool,     \* age of the pool-start heartbeat of this attempt
    cover,    \* age of the coverage heartbeat
    chan,     \* messages sent and not handled
    effective,\* effectiveTestTimeoutMs
    left,     \* time until the stall timer goes off
    verdict   \* "watching", "stalled" (killed by the watchdog) or "ended"

workerVars == <<phase, health, attempt, pass, reported, since, pool, cover>>
watchVars  == <<effective, left>>
vars == <<setting, workerVars, chan, watchVars, verdict>>

Settings == [timeout : Timeouts \cup {Unknown}, coverage : BOOLEAN]
Message  == [type : {"ready", "config", "case", "end"}, age : 0 .. Latency]
Msg(t)   == [type |-> t, age |-> 0]
Config   == Msg("config")

\* Counting further than this tells nothing new.
Longest == PoolMax + CoverageMax + MaxTimeout + Grace + Latency + 1
Older(n, bound) == IF n < bound THEN n + 1 ELSE n

Init ==
    /\ setting \in Settings
    /\ phase = "booting" /\ health = "well"
    /\ attempt = 1 /\ pass = 1 /\ reported = FALSE
    /\ since = 0 /\ pool = 0 /\ cover = 0
    /\ chan = << >>
    /\ effective = DefaultTimeout /\ left = Grace  \* the provisional threshold
    /\ verdict = "watching"

Watching == verdict = "watching"

-----------------------------------------------------------------------------
(* The worker                                                              *)

\* Intervals that are set: each fires at multiples of Interval until it has
\* been on for longer than its maximum.
Starting        == phase \in {"attempting", "covering"}  \* startVitest is pending
PoolBeats(age)  == Starting /\ age % Interval = 0 /\ age <= PoolMax
Measuring       == setting.coverage /\ phase \in {"attempting", "covering", "backoff", "closing"}

\* Mutant of CoverBeats: a run that measures coverage has no heartbeat of its own.
CoverBeatsNever(age) == FALSE

CoverBeats(age) == Measuring /\ age % Interval = 0 /\ age <= CoverageMax

\* Mutant of Beats: the pool-start heartbeat never gives up.
BeatsForEver(p, c) ==
    IF health = "frozen" THEN << >>
    ELSE (IF Starting /\ (p % Interval = 0 \/ p > PoolMax) THEN <<Config>> ELSE << >>)
         \o (IF CoverBeats(c) THEN <<Config>> ELSE << >>)

\* The heartbeats due when the intervals have the ages p and c.
Beats(p, c) ==
    IF health = "frozen" THEN << >>
    ELSE (IF PoolBeats(p) THEN <<Config>> ELSE << >>) \o (IF CoverBeats(c) THEN <<Config>> ELSE << >>)

\* How long a healthy worker stays in its phase, the coverage tail apart.  A
\* backoff lasts exactly as long as its sleep.
PhaseMax == CASE phase \in {"booting", "idle", "discovering"} -> BootMax
              [] phase = "attempting" -> IF reported THEN Gap ELSE StartMax
              [] phase = "backoff"    -> Delay * attempt
              [] phase = "closing"    -> CloseMax
              [] OTHER                -> Latency  \* until its last message is handled

\* The tail may be silent for as long as the heartbeat of the run goes on: its
\* window opens with the run, not with the tail.
OnTime == IF phase = "covering" THEN since < Gap \/ cover < CoverageMax ELSE since < PhaseMax

Tick ==
    /\ Watching /\ left > 0
    /\ \A k \in DOMAIN chan : chan[k].age < Latency
    /\ health = "well" => OnTime
    /\ LET p == Older(pool, PoolMax + 1)
           c == IF Measuring THEN Older(cover, CoverageMax + 1) ELSE cover
       IN  /\ pool' = p /\ cover' = c
           /\ chan' = [k \in DOMAIN chan |-> [chan[k] EXCEPT !.age = @ + 1]] \o Beats(p, c)
    /\ since' = Older(since, Longest)
    /\ left' = left - 1
    /\ UNCHANGED <<setting, phase, health, attempt, pass, reported, effective, verdict>>

\* The worker gets somewhere.
Works == Watching /\ health = "well"
Moves(to) == phase' = to /\ since' = 0
WorkerFrame == UNCHANGED <<setting, health, watchVars, verdict>>

Boot ==
    /\ Works /\ phase = "booting"
    /\ phase' = "idle"
    /\ chan' = Append(chan, Msg("ready"))
    /\ UNCHANGED <<attempt, pass, reported, since, pool, cover>>
    /\ WorkerFrame

\* Mutant of BeginAttempt: no heartbeat is sent before the first interval ends.
BeginAttemptSilent(n, before) ==
    /\ Moves("attempting")
    /\ attempt' = n /\ reported' = FALSE
    /\ pool' = 0
    /\ chan' = chan \o before

\* withPoolStartHeartbeat sends its first heartbeat at once.
BeginAttempt(n, before) ==
    /\ Moves("attempting")
    /\ attempt' = n /\ reported' = FALSE
    /\ pool' = 0
    /\ chan' = chan \o before \o <<Config>>

\* handleRun: the resolved configuration is announced when it is known.
Discover ==
    /\ Works /\ phase = "discovering"
    /\ BeginAttempt(1, IF setting.timeout = Unknown THEN << >> ELSE <<Config>>)
    /\ cover' = 0
    /\ UNCHANGED pass
    /\ WorkerFrame

\* A reporter event: progress, case-start or case-result.  Bound: one for
\* each unit of time.
Report ==
    /\ Works /\ phase = "attempting"
    /\ ~\E k \in DOMAIN chan : chan[k] = Msg("case")
    /\ Moves("attempting") /\ reported' = TRUE
    /\ chan' = Append(chan, Msg("case"))
    /\ UNCHANGED <<attempt, pass, pool, cover>>
    /\ WorkerFrame

\* The last test module has ended, and Vitest collects, remaps and writes the
\* coverage before startVitest resolves; nothing tells the orchestrator so.
Cover ==
    /\ Works /\ phase = "attempting" /\ reported /\ setting.coverage
    /\ phase' = "covering"
    /\ UNCHANGED <<chan, attempt, pass, reported, since, pool, cover>>
    /\ WorkerFrame

\* A transient pool-start failure, and the next attempt after the sleep.
Retry ==
    /\ Works /\ phase = "attempting"
    /\ attempt < Attempts
    /\ Moves("backoff")
    /\ UNCHANGED <<chan, attempt, pass, reported, pool, cover>>
    /\ WorkerFrame

EndBackoff ==
    /\ Works /\ phase = "backoff"
    /\ since = Delay * attempt
    /\ BeginAttempt(attempt + 1, << >>)
    /\ UNCHANGED <<pass, cover>>
    /\ WorkerFrame

\* startVitest resolves; vitest.close() follows.
Close ==
    /\ Works /\ Starting
    /\ Moves("closing")
    /\ UNCHANGED <<chan, attempt, pass, reported, pool, cover>>
    /\ WorkerFrame

\* A selection that matched no test, or whose related pass threw, is run again
\* in full.
SecondPass ==
    /\ Works /\ phase \in {"attempting", "closing"}
    /\ pass = 1 /\ ~setting.coverage
    /\ pass' = 2
    /\ BeginAttempt(1, << >>)
    /\ UNCHANGED cover
    /\ WorkerFrame

\* A result, or an error, is sent.
Finish ==
    /\ Works /\ phase \in {"discovering", "attempting", "covering", "closing"}
    /\ Moves("done")
    /\ chan' = Append(chan, Msg("end"))
    /\ UNCHANGED <<attempt, pass, reported, pool, cover>>
    /\ WorkerFrame

\* The worker hangs: in what it awaits, with its event loop alive, or with the
\* event loop blocked.
Fall(how) ==
    /\ Works /\ phase # "done"
    /\ health' = how
    /\ UNCHANGED <<setting, phase, attempt, pass, reported, since, pool, cover, chan, watchVars,
                   verdict>>

-----------------------------------------------------------------------------
(* The orchestrator                                                        *)

\* armWatchdog
Clamp(t) == IF t < MinTimeout THEN MinTimeout ELSE IF t > MaxTimeout THEN MaxTimeout ELSE t

\* scheduleStallCheck once hasHeardFromWorker, which every call but the first
\* has set.
Rearm(t) ==
    /\ effective' = t
    /\ left' = t + Grace

OnReady ==
    /\ Head(chan).type = "ready"
    /\ phase' = IF phase = "idle" THEN "discovering" ELSE phase
    /\ UNCHANGED <<health, attempt, pass, reported, since, pool, cover, watchVars, verdict>>

OnConfig ==
    /\ Head(chan).type = "config"
    /\ Rearm(IF setting.timeout = Unknown THEN effective ELSE Clamp(setting.timeout))
    /\ UNCHANGED <<workerVars, verdict>>

OnCase ==
    /\ Head(chan).type = "case"
    /\ Rearm(effective)
    /\ UNCHANGED <<workerVars, verdict>>

OnEnd ==
    /\ Head(chan).type = "end"
    /\ verdict' = "ended"
    /\ UNCHANGED <<workerVars, watchVars>>

Deliver ==
    /\ Watching /\ chan # << >>
    /\ chan' = Tail(chan)
    /\ OnReady \/ OnConfig \/ OnCase \/ OnEnd
    /\ UNCHANGED setting

\* The process exits; its exit event ends the run.
Exit ==
    /\ Watching
    /\ verdict' = "ended"
    /\ UNCHANGED <<setting, workerVars, chan, watchVars>>

\* The stall timer goes off.
Stall ==
    /\ Watching /\ left = 0
    /\ verdict' = "stalled"
    /\ UNCHANGED <<setting, workerVars, chan, watchVars>>

Next == \/ Tick \/ Boot \/ Discover \/ Report \/ Cover \/ Retry \/ EndBackoff \/ Close \/ SecondPass
        \/ Finish \/ Deliver \/ Exit \/ Stall
        \/ \E how \in {"stuck", "frozen"} : Fall(how)

Spec == Init /\ [][Next]_vars

-----------------------------------------------------------------------------
(* Properties                                                              *)

\* Every variable has its type; the timeout in effect is within the sane range.
TypeOK ==
    /\ setting \in Settings
    /\ phase \in {"booting", "idle", "discovering", "attempting", "covering", "backoff",
                 "closing", "done"}
    /\ health \in {"well", "stuck", "frozen"}
    /\ attempt \in 1 .. Attempts /\ pass \in 1 .. 2 /\ reported \in BOOLEAN
    /\ since \in 0 .. Longest
    /\ pool \in 0 .. PoolMax + 1 /\ cover \in 0 .. CoverageMax + 1
    /\ chan \in Seq(Message)
    /\ effective \in MinTimeout .. MaxTimeout
    /\ left \in 0 .. MaxTimeout + Grace
    /\ verdict \in {"watching", "stalled", "ended"}

\* The margins that the constants must leave.  A worker is silent for at most
\* the longer of Interval and Gap before an attempt fails or startVitest
\* resolves, the coverage tail between two heartbeats included, and
\* then for a backoff or for the time closing takes; all of it must be shorter
\* than every threshold a run may have.
Margins ==
    LET silence == IF Gap > Interval THEN Gap ELSE Interval
    IN  /\ BootMax + Latency < Grace
        /\ StartMax <= PoolMax
        /\ \A t \in {Clamp(u) : u \in Timeouts} \cup {DefaultTimeout} :
              /\ silence + (Attempts - 1) * Delay + Latency < t + Grace
              /\ silence + CloseMax + Latency < t + Grace

\* A worker that is well is never killed by the stall timer
\* (scheduleStallCheck): the heartbeats of withPoolStartHeartbeat and
\* withCoverageTailHeartbeat cover pool starts, and coverage tails that outlast
\* the pool-start window, slower than the threshold, and nothing that a retry's
\* backoff, a fallback pass or a slow message adds exceeds the margins.
HealthyNeverStalled == verdict = "stalled" => health # "well"

\* A worker that has got nowhere for the length of a heartbeat window and one
\* threshold is no longer waited for: the heartbeats, which also come from a
\* worker that hangs in startVitest, give up (POOL_START_HEARTBEAT_MAX_MS,
\* COVERAGE_TAIL_HEARTBEAT_MAX_MS) and the stall timer then goes off.
StallBounded ==
    Watching => since <= (IF setting.coverage THEN CoverageMax ELSE PoolMax)
                           + MaxTimeout + Grace + Latency
===============================================================================
