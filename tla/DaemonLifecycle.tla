---------------------------- MODULE DaemonLifecycle ----------------------------
(***************************************************************************)
(* The processes that meet in the state directory (src/daemon/index.ts,    *)
(* src/cli/main.ts): `start`, which becomes the daemon, `stop` and         *)
(* `status`, over the lock, config and token files and the port.  Commands *)
(* are separate processes, so every system call on a shared file is a step *)
(* of its own.  `restart` is a stop followed by a start; ensureDaemon is a *)
(* start that is skipped when the lock names a live process.               *)
(*                                                                         *)
(* A liveness check is one step with the removal or signal it guards:      *)
(* process ids are not reused, so one found dead stays dead.               *)
(***************************************************************************)
CONSTANTS
    Procs,    \* process ids; one process, one command
    Env,      \* values of TEST_MCP_TOKEN
    Unset,    \* TEST_MCP_TOKEN is not set; no token in config.json
    Nobody,   \* no process: the lock of no one, a free port, nothing read
    Torn,     \* a file whose writer died while writing it
    Overlap,  \* may commands run at the same time?
    Crashes   \* may processes be killed at any time?

ASSUME LifecycleAssumption ==
    /\ Overlap \in BOOLEAN /\ Crashes \in BOOLEAN
    /\ Unset \notin Procs \cup Env /\ Nobody \notin Procs \cup Env \cup {Unset}
    /\ Torn \notin Procs \cup Env \cup {Unset, Nobody}

VARIABLES
    lock,      \* daemon.lock: its pid, Torn, or Nobody when there is no file
    config,    \* config.json: its token, Unset, Torn, or Nobody when there is no file
    tokenFile, \* token: likewise
    port,      \* the process listening on the port
    pc,        \* where each process is, and how it ended
    cmd,       \* its command and its TEST_MCP_TOKEN
    saw,       \* the pid in the lock it read
    token,     \* the token it uses
    sig        \* was it sent a SIGTERM that it has not received?

files == <<lock, config, tokenFile>>
vars  == <<files, port, pc, cmd, saw, token, sig>>

\* A generated token is represented by the process that generated it.
Tokens == Procs \cup Env
Starting == {"read", "check", "config", "default", "resolve", "publish", "bind", "bound", "locked"}
Closing  == {"closing", "unlocking", "exiting"}
Ended    == {"already", "broken", "collided", "not running", "stale", "stopped", "timeout",
             "running", "dead"}

Init ==
    /\ lock = Nobody /\ tokenFile = Nobody /\ port = Nobody
    /\ config \in {Nobody, Unset}
    /\ pc = [p \in Procs |-> "unborn"]
    /\ cmd = [p \in Procs |-> [kind |-> "none", env |-> Unset]]
    /\ saw = [p \in Procs |-> Nobody]
    /\ token = [p \in Procs |-> Unset]
    /\ sig = [p \in Procs |-> FALSE]

Alive(p) == pc[p] \notin Ended \cup {"unborn"}

\* Mutant of IsPidAlive: a process one may not signal (EPERM) counts as dead.
IsPidAliveDenied(p) == FALSE

IsPidAlive(p) == Alive(p)

Serving(p) == pc[p] = "serving"
Goes(p, to) == pc' = [pc EXCEPT ![p] = to]
\* A command is at work unless it has become the daemon.
Busy(p) == Alive(p) /\ pc[p] \notin {"serving"} \cup Closing
Free(q) == IF port = q THEN Nobody ELSE port

Begin(p, kind, env) ==
    /\ pc[p] = "unborn"
    /\ Overlap \/ ~\E q \in Procs : Busy(q)
    /\ Goes(p, "read")
    /\ cmd' = [cmd EXCEPT ![p] = [kind |-> kind, env |-> env]]
    /\ UNCHANGED <<files, port, saw, token, sig>>

\* Mutant of ReadLockfile: a torn file is taken for a lock.
ReadLockfileRaw(p) ==
    /\ pc[p] = "read"
    /\ saw' = [saw EXCEPT ![p] = lock]
    /\ Goes(p, IF lock # Nobody THEN "check"
               ELSE IF cmd[p].kind = "start" THEN "config" ELSE "not running")
    /\ UNCHANGED <<files, port, cmd, token, sig>>

\* readLockfile; a torn file is not JSON and counts as none.
ReadLockfile(p) ==
    /\ pc[p] = "read"
    /\ LET found == IF lock = Torn THEN Nobody ELSE lock
       IN  /\ saw' = [saw EXCEPT ![p] = found]
           /\ Goes(p, IF found # Nobody THEN "check"
                      ELSE IF cmd[p].kind = "start" THEN "config" ELSE "not running")
    /\ UNCHANGED <<files, port, cmd, token, sig>>

-----------------------------------------------------------------------------
(* startDaemon                                                             *)

\* Mutant of StartCheck: the token file is refreshed although a daemon runs.
StartCheckPublishes(p) ==
    /\ pc[p] = "check" /\ cmd[p].kind = "start"
    /\ \/ /\ IsPidAlive(saw[p])
          /\ Goes(p, "already") /\ UNCHANGED lock
          /\ tokenFile' = IF cmd[p].env = Unset THEN tokenFile ELSE cmd[p].env
       \/ /\ ~IsPidAlive(saw[p])
          /\ lock' = Nobody /\ Goes(p, "config") /\ UNCHANGED tokenFile
    /\ UNCHANGED <<config, port, cmd, saw, token, sig>>

\* A live daemon is left alone; a stale lock is removed.
StartCheck(p) ==
    /\ pc[p] = "check" /\ cmd[p].kind = "start"
    /\ \/ IsPidAlive(saw[p]) /\ Goes(p, "already") /\ UNCHANGED lock
       \/ ~IsPidAlive(saw[p]) /\ lock' = Nobody /\ Goes(p, "config")
    /\ UNCHANGED <<config, tokenFile, port, cmd, saw, token, sig>>

\* loadOrCreateConfig
ReadConfig(p) ==
    /\ pc[p] = "config"
    /\ Goes(p, CASE config = Torn   -> "broken"
                 [] config = Nobody -> "default"
                 [] OTHER           -> "resolve")
    /\ token' = IF config \in Tokens THEN [token EXCEPT ![p] = config] ELSE token
    /\ UNCHANGED <<files, port, cmd, saw, sig>>

WriteDefault(p) ==
    /\ pc[p] = "default"
    /\ config' = Unset
    /\ Goes(p, "resolve")
    /\ UNCHANGED <<lock, tokenFile, port, cmd, saw, token, sig>>

\* Is resolveToken about to generate a token?
Generates(p) == pc[p] = "resolve" /\ cmd[p].env = Unset /\ token[p] = Unset

\* Mutant of ResolveToken: the token rotates on every start.
ResolveTokenAnew(p) ==
    /\ pc[p] = "resolve"
    /\ token' = [token EXCEPT ![p] = IF cmd[p].env # Unset THEN cmd[p].env ELSE p]
    /\ config' = IF cmd[p].env = Unset THEN p ELSE config
    /\ Goes(p, "publish")
    /\ UNCHANGED <<lock, tokenFile, port, cmd, saw, sig>>

\* resolveToken: the environment, the persisted token, or a new one, persisted.
ResolveToken(p) ==
    /\ pc[p] = "resolve"
    /\ token' = [token EXCEPT ![p] = IF cmd[p].env # Unset THEN cmd[p].env
                                     ELSE IF Generates(p) THEN p ELSE @]
    /\ config' = IF Generates(p) THEN p ELSE config
    /\ Goes(p, "publish")
    /\ UNCHANGED <<lock, tokenFile, port, cmd, saw, sig>>

WriteTokenFile(p) ==
    /\ pc[p] = "publish"
    /\ tokenFile' = token[p]
    /\ Goes(p, "bind")
    /\ UNCHANGED <<lock, config, port, cmd, saw, token, sig>>

\* server.listen, or EADDRINUSE
Bind(p) ==
    /\ pc[p] = "bind"
    /\ Goes(p, IF port = Nobody THEN "bound" ELSE "collided")
    /\ port' = IF port = Nobody THEN p ELSE port
    /\ UNCHANGED <<files, cmd, saw, token, sig>>

WriteLock(p) ==
    /\ pc[p] = "bound"
    /\ lock' = p
    /\ Goes(p, "locked")
    /\ UNCHANGED <<config, tokenFile, port, cmd, saw, token, sig>>

\* The command installs its signal handler.
Serve(p) ==
    /\ pc[p] = "locked"
    /\ Goes(p, "serving")
    /\ UNCHANGED <<files, port, cmd, saw, token, sig>>

\* Mutant of Shutdown: the server is not closed first.
ShutdownListening(p) == Goes(p, "closing") /\ UNCHANGED port

\* close: the watchers stop and the server closes.
Shutdown(p) == Goes(p, "closing") /\ port' = Nobody

\* SIGTERM or SIGINT.  The handler runs once; without it the process dies.
OnSignal(p) ==
    /\ sig[p] /\ Alive(p)
    /\ sig' = [sig EXCEPT ![p] = FALSE]
    /\ \/ Serving(p) /\ Shutdown(p)
       \/ ~Serving(p) /\ Goes(p, "dead") /\ port' = Free(p)
    /\ UNCHANGED <<files, cmd, saw, token>>

CloseReadsLock(p) ==
    /\ pc[p] = "closing"
    /\ Goes(p, IF lock = p THEN "unlocking" ELSE "exiting")
    /\ UNCHANGED <<files, port, cmd, saw, token, sig>>

CloseRemovesLock(p) ==
    /\ pc[p] = "unlocking"
    /\ lock' = Nobody
    /\ Goes(p, "exiting")
    /\ UNCHANGED <<config, tokenFile, port, cmd, saw, token, sig>>

Exit(p) ==
    /\ pc[p] = "exiting"
    /\ Goes(p, "dead") /\ port' = Free(p)
    /\ UNCHANGED <<files, cmd, saw, token, sig>>

-----------------------------------------------------------------------------
(* stopDaemon and getDaemonStatus                                          *)

StopCheck(p) ==
    /\ pc[p] = "check" /\ cmd[p].kind = "stop"
    /\ \/ /\ IsPidAlive(saw[p])
          /\ sig' = [sig EXCEPT ![saw[p]] = TRUE]
          /\ Goes(p, "polling") /\ UNCHANGED lock
       \/ ~IsPidAlive(saw[p]) /\ lock' = Nobody /\ Goes(p, "stale") /\ UNCHANGED sig
    /\ UNCHANGED <<config, tokenFile, port, cmd, saw, token>>

Poll(p) ==
    /\ pc[p] = "polling" /\ lock = Nobody
    /\ Goes(p, "stopped")
    /\ UNCHANGED <<files, port, cmd, saw, token, sig>>

\* Mutants of GiveUp: the lock is removed whatever the daemon does; success is
\* claimed whatever it does.
GiveUpRemoving(p) ==
    /\ pc[p] = "polling"
    /\ lock' = Nobody
    /\ Goes(p, IF IsPidAlive(saw[p]) THEN "timeout" ELSE "stopped")
    /\ UNCHANGED <<config, tokenFile, port, cmd, saw, token, sig>>
GiveUpClaiming(p) ==
    /\ pc[p] = "polling"
    /\ lock' = IF IsPidAlive(saw[p]) THEN lock ELSE Nobody
    /\ Goes(p, "stopped")
    /\ UNCHANGED <<config, tokenFile, port, cmd, saw, token, sig>>

\* Fifty polls have found a lock.
GiveUp(p) ==
    /\ pc[p] = "polling"
    /\ \/ IsPidAlive(saw[p]) /\ Goes(p, "timeout") /\ UNCHANGED lock
       \/ ~IsPidAlive(saw[p]) /\ lock' = Nobody /\ Goes(p, "stopped")
    /\ UNCHANGED <<config, tokenFile, port, cmd, saw, token, sig>>

StatusCheck(p) ==
    /\ pc[p] = "check" /\ cmd[p].kind = "status"
    /\ \/ IsPidAlive(saw[p]) /\ Goes(p, "running") /\ UNCHANGED lock
       \/ ~IsPidAlive(saw[p]) /\ lock' = Nobody /\ Goes(p, "stale")
    /\ UNCHANGED <<config, tokenFile, port, cmd, saw, token, sig>>

-----------------------------------------------------------------------------
(* The environment                                                         *)

\* A user interrupts a daemon.
Interrupt(p) ==
    /\ Alive(p) /\ cmd[p].kind = "start" /\ ~sig[p]
    /\ sig' = [sig EXCEPT ![p] = TRUE]
    /\ UNCHANGED <<files, port, pc, cmd, saw, token>>

\* A process is killed, perhaps while it writes a file.
Crash(p) ==
    /\ Crashes /\ Alive(p)
    /\ Goes(p, "dead") /\ port' = Free(p)
    /\ lock' \in {lock} \cup (IF pc[p] = "bound" THEN {Torn} ELSE {})
    /\ config' \in {config} \cup (IF pc[p] = "default" \/ Generates(p) THEN {Torn} ELSE {})
    /\ tokenFile' \in {tokenFile} \cup (IF pc[p] = "publish" THEN {Torn} ELSE {})
    /\ UNCHANGED <<cmd, saw, token, sig>>

Next == \E p \in Procs :
    \/ \E kind \in {"start", "stop", "status"}, env \in Env \cup {Unset} : Begin(p, kind, env)
    \/ ReadLockfile(p) \/ StartCheck(p) \/ ReadConfig(p) \/ WriteDefault(p) \/ ResolveToken(p)
    \/ WriteTokenFile(p) \/ Bind(p) \/ WriteLock(p) \/ Serve(p)
    \/ OnSignal(p) \/ CloseReadsLock(p) \/ CloseRemovesLock(p) \/ Exit(p)
    \/ StopCheck(p) \/ Poll(p) \/ GiveUp(p) \/ StatusCheck(p)
    \/ Interrupt(p) \/ Crash(p)

Spec == Init /\ [][Next]_vars

-----------------------------------------------------------------------------
(* Properties                                                              *)

\* Every variable has its type; a process that is past reading has a command.
TypeOK ==
    /\ lock \in Procs \cup {Nobody, Torn}
    /\ config \in Tokens \cup {Nobody, Unset, Torn}
    /\ tokenFile \in Tokens \cup {Nobody, Torn}
    /\ port \in Procs \cup {Nobody}
    /\ pc \in [Procs -> {"unborn", "serving", "polling"} \cup Starting \cup Closing \cup Ended]
    /\ cmd \in [Procs -> [kind : {"none", "start", "stop", "status"}, env : Env \cup {Unset}]]
    /\ saw \in [Procs -> Procs \cup {Nobody}]
    /\ token \in [Procs -> Tokens \cup {Unset}]
    /\ sig \in [Procs -> BOOLEAN]

\* The daemon that serves is the one the lock names (startDaemon, stopDaemon:
\* "do not delete a live daemon's lockfile"): with no lock it could be neither
\* found nor stopped, and the next start would fail.
LiveDaemonHasLock == \A p \in Procs : Serving(p) => lock = p

\* The token file holds the token of the daemon that serves (writeTokenFile:
\* "Kept in sync with the live daemon token").
TokenInSync == \A p \in Procs : Serving(p) => tokenFile = token[p]

\* A persisted token is never replaced (resolveToken: "stable across
\* restarts"), whatever starts, fails or dies.
TokenPersists == [][(config \in Tokens) => (config' = config)]_config

\* A stop that reports success has stopped the process it names: that process
\* does not listen any more (stopDaemon: "Do not claim success while the process
\* is still alive").
StopTruthful == \A p \in Procs : pc[p] = "stopped" => port # saw[p] /\ ~Serving(saw[p])

\* A command never reports that nothing runs while a daemon serves.
NoFalseAbsence ==
    [][\A p \in Procs : (Alive(p) /\ pc'[p] \in {"not running", "stale"})
                            => ~\E q \in Procs : Serving(q)]_pc

\* A start never finds the port taken: whatever died or is still shutting down,
\* a daemon that is no longer named by the lock has released the port (close
\* closes the server before it removes the lock).
StartNeverCollides == \A p \in Procs : pc[p] # "collided"
===============================================================================
