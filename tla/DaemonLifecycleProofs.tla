------------------------- MODULE DaemonLifecycleProofs -------------------------
(***************************************************************************)
(* Proofs about DaemonLifecycle for any number of processes and any        *)
(* tokens: first what holds however commands overlap, which rests on the   *)
(* port having one holder and on the lock naming nothing but daemons, then *)
(* what holds when they do not overlap.                                    *)
(*                                                                         *)
(* The argument of the second part: at most one command is at work, so what it read of the    *)
(* lock is outdated only by the daemon removing its own.  A start that is  *)
(* past its check therefore knows that no daemon serves or is about to     *)
(* remove a lock, and all files are its own until it serves.               *)
(***************************************************************************)
EXTENDS DaemonLifecycle, TLAPS

\* The state of a process whose pid the lock may hold, or may have held.
Reached == {"locked", "serving", "dead"} \cup Closing
\* A process that listens.
Listening == {"bound", "locked", "serving"}

\* The port belongs to the daemon between its bind and its close.
PortHeld    == \A q \in Procs : port = q <=> pc[q] \in Listening
\* A start that writes the token file has a token.
TokenChosen == \A p \in Procs : pc[p] = "publish" => token[p] # Unset
\* The lock, and what a command read of it, name daemons or processes that died.
Named       == /\ \A q \in Procs : lock = q => pc[q] \in Reached
               /\ \A p, q \in Procs : saw[p] = q => pc[q] \in Reached
               /\ \A p \in Procs : pc[p] \in {"check", "polling"} => saw[p] \in Procs

\* The invariant that needs no hypothesis.
Always == TypeOK /\ PortHeld /\ TokenChosen /\ Named

-----------------------------------------------------------------------------
(* However commands overlap.                                               *)

\* The step of one process leaves the others where they are.
LEMMA Goings ==
    ASSUME TypeOK, NEW p \in Procs
    PROVE  \A to : Goes(p, to) => pc'[p] = to /\ \A q \in Procs \ {p} : pc'[q] = pc[q]
BY DEF TypeOK, Goes

\* A step that writes no pid to the lock and reads none, and takes the port only
\* when it is free, keeps what the lock and the port say.
LEMMA Frame ==
    ASSUME Always, NEW p \in Procs, \A q \in Procs \ {p} : pc'[q] = pc[q],
           saw' = saw, lock' = lock \/ lock' \in {Nobody, Torn},
           pc[p] \in Reached => pc'[p] \in Reached,
           pc'[p] \in {"check", "polling"} => pc[p] = "check",
           \/ port' = port /\ (pc[p] \in Listening <=> pc'[p] \in Listening)
           \/ port' = Free(p) /\ pc'[p] \notin Listening
           \/ port = Nobody /\ port' = p /\ pc'[p] \in Listening
    PROVE  PortHeld' /\ Named'
<1>1. PortHeld'
  BY LifecycleAssumption DEF Always, PortHeld, Free
<1>2. \A q \in Procs : pc[q] \in Reached => pc'[q] \in Reached
  OBVIOUS
<1>3. \A q \in Procs : lock' = q => lock = q
  BY LifecycleAssumption
<1>4. QED
  BY <1>1, <1>2, <1>3 DEF Always, Named

\* The first half of a start moves towards the port and writes no pid.
LEMMA StartingKeepsAlways ==
    ASSUME Always, NEW p \in Procs,
           \/ StartCheck(p) \/ ReadConfig(p) \/ WriteDefault(p) \/ ResolveToken(p)
           \/ WriteTokenFile(p)
    PROVE  Always'
<1>1. TypeOK
  BY DEF Always
<1>2. UNCHANGED <<saw, port>> /\ (lock' = lock \/ lock' = Nobody)
  BY DEF StartCheck, ReadConfig, WriteDefault, ResolveToken, WriteTokenFile, files
<1>3. PICK to \in {"already", "config", "broken", "default", "resolve", "publish", "bind"} : Goes(p, to)
  BY DEF StartCheck, ReadConfig, WriteDefault, ResolveToken, WriteTokenFile
<1>4. pc[p] \in {"check", "config", "default", "resolve", "publish"}
  BY DEF StartCheck, ReadConfig, WriteDefault, ResolveToken, WriteTokenFile
<1>5. pc'[p] = to /\ \A q \in Procs \ {p} : pc'[q] = pc[q]
  BY <1>1, <1>3, Goings
<1>6. PortHeld' /\ Named'
  <2>1. pc[p] \notin Reached /\ pc[p] \notin Listening /\ pc'[p] \notin Listening
    BY <1>4, <1>5 DEF Reached, Listening, Closing
  <2>2. pc'[p] \notin {"check", "polling"}
    BY <1>5
  <2>3. QED
    BY <1>2, <1>5, <2>1, <2>2, Frame
<1>7. TypeOK' /\ TokenChosen'
  <2>1. CASE StartCheck(p)
    <3>1. TypeOK'
      BY <1>1, <2>1 DEF TypeOK, StartCheck, Goes, Starting, Closing, Ended, Tokens
    <3>2. pc'[p] # "publish" /\ token' = token
      BY <1>1, <2>1, Goings DEF StartCheck
    <3>3. QED
      BY <1>5, <3>1, <3>2 DEF Always, TokenChosen
  <2>2. CASE ReadConfig(p)
    <3>1. TypeOK'
      BY <1>1, <2>2 DEF TypeOK, ReadConfig, Goes, Starting, Closing, Ended, Tokens, files
    <3>2. pc'[p] # "publish" /\ \A q \in Procs \ {p} : token'[q] = token[q]
      BY <1>1, <2>2, Goings DEF ReadConfig, TypeOK
    <3>3. QED
      BY <1>5, <3>1, <3>2 DEF Always, TokenChosen
  <2>3. CASE WriteDefault(p)
    <3>1. TypeOK'
      BY <1>1, <2>3 DEF TypeOK, WriteDefault, Goes, Starting, Closing, Ended, Tokens
    <3>2. pc'[p] # "publish" /\ token' = token
      BY <1>1, <2>3, Goings DEF WriteDefault
    <3>3. QED
      BY <1>5, <3>1, <3>2 DEF Always, TokenChosen
  <2>4. CASE ResolveToken(p)
    <3>1. TypeOK'
      BY <1>1, <2>4 DEF TypeOK, ResolveToken, Goes, Starting, Closing, Ended, Tokens
    <3>2. token'[p] # Unset /\ \A q \in Procs \ {p} : token'[q] = token[q]
      BY <1>1, <2>4, LifecycleAssumption DEF ResolveToken, Generates, TypeOK, Tokens
    <3>3. QED
      BY <1>5, <3>1, <3>2 DEF Always, TokenChosen
  <2>5. CASE WriteTokenFile(p)
    <3>1. token[p] # Unset
      BY <2>5 DEF WriteTokenFile, Always, TokenChosen
    <3>2. TypeOK'
      BY <1>1, <2>5, <3>1 DEF TypeOK, WriteTokenFile, Goes, Starting, Closing, Ended, Tokens
    <3>3. pc'[p] # "publish" /\ token' = token
      BY <1>1, <2>5, Goings DEF WriteTokenFile
    <3>4. QED
      BY <1>5, <3>2, <3>3 DEF Always, TokenChosen
  <2>6. QED
    BY <2>1, <2>2, <2>3, <2>4, <2>5
<1> QED
  BY <1>6, <1>7 DEF Always

\* The port has no second holder, and the lock names a start only when it has
\* the port.
LEMMA ListeningKeepsAlways ==
    ASSUME Always, NEW p \in Procs,
           \/ Bind(p) \/ WriteLock(p) \/ Serve(p) \/ OnSignal(p)
           \/ CloseReadsLock(p) \/ CloseRemovesLock(p) \/ Exit(p)
    PROVE  Always'
<1>1. TypeOK
  BY DEF Always
<1>2. UNCHANGED <<saw, token>>
  BY DEF Bind, WriteLock, Serve, OnSignal, CloseReadsLock, CloseRemovesLock, Exit
<1>3. PICK to \in {"bound", "collided", "locked", "serving", "closing", "unlocking", "exiting", "dead"} :
          Goes(p, to)
  BY DEF Bind, WriteLock, Serve, OnSignal, Shutdown, CloseReadsLock, CloseRemovesLock, Exit
<1>4. pc'[p] = to /\ \A q \in Procs \ {p} : pc'[q] = pc[q]
  BY <1>1, <1>3, Goings
<1>5. TokenChosen'
  BY <1>2, <1>4 DEF Always, TokenChosen
<1>6. TypeOK'
  <2>1. CASE Bind(p) \/ Serve(p) \/ CloseReadsLock(p)
    BY <1>1, <2>1 DEF TypeOK, Bind, Serve, CloseReadsLock, Goes, Starting, Closing, Ended, Tokens, files
  <2>2. CASE WriteLock(p) \/ CloseRemovesLock(p)
    BY <1>1, <2>2 DEF TypeOK, WriteLock, CloseRemovesLock, Goes, Starting, Closing, Ended, Tokens
  <2>3. CASE OnSignal(p)
    BY <1>1, <2>3 DEF TypeOK, OnSignal, Shutdown, Free, Goes, Starting, Closing, Ended, Tokens, files
  <2>4. CASE Exit(p)
    BY <1>1, <2>4 DEF TypeOK, Exit, Free, Goes, Starting, Closing, Ended, Tokens, files
  <2>5. QED
    BY <2>1, <2>2, <2>3, <2>4
<1>7. PortHeld' /\ Named'
  <2>1. CASE Bind(p)
    <3>1. pc[p] = "bind" /\ lock' = lock
      BY <2>1 DEF Bind, files
    <3>2. \/ port = Nobody /\ port' = p /\ pc'[p] = "bound"
          \/ port' = port /\ pc'[p] = "collided"
      BY <1>1, <2>1, Goings DEF Bind
    <3>3. QED
      BY <1>2, <1>4, <3>1, <3>2, Frame DEF Reached, Listening, Closing
  <2>2. CASE WriteLock(p)
    <3>1. pc[p] = "bound" /\ pc'[p] = "locked" /\ lock' = p /\ port' = port
      BY <1>1, <2>2, Goings DEF WriteLock
    <3>2. PortHeld'
      BY <1>4, <3>1 DEF Always, PortHeld, Listening
    <3>3. \A q \in Procs : pc[q] \in Reached => pc'[q] \in Reached
      BY <1>4, <3>1 DEF Reached
    <3>4. Named'
      BY <1>2, <1>4, <3>1, <3>3 DEF Always, Named, Reached
    <3>5. QED
      BY <3>2, <3>4
  <2>3. CASE Serve(p)
    <3>1. pc[p] = "locked" /\ pc'[p] = "serving" /\ lock' = lock /\ port' = port
      BY <1>1, <2>3, Goings DEF Serve, files
    <3>2. QED
      BY <1>2, <1>4, <3>1, Frame DEF Reached, Listening
  <2>4. CASE OnSignal(p)
    <3>1. lock' = lock
      BY <2>4 DEF OnSignal, files
    <3>2. \/ pc[p] = "serving" /\ pc'[p] = "closing" /\ port' = Nobody
          \/ pc'[p] = "dead" /\ port' = Free(p)
      BY <1>1, <2>4, Goings DEF OnSignal, Shutdown, Serving
    <3>3. pc[p] = "serving" => port = p
      BY DEF Always, PortHeld, Listening
    <3>4. port' = Free(p) /\ pc'[p] \in {"closing", "dead"}
      BY <3>2, <3>3 DEF Free
    <3>5. QED
      BY <1>2, <1>4, <3>1, <3>4, Frame DEF Reached, Listening, Closing
  <2>5. CASE CloseReadsLock(p) \/ CloseRemovesLock(p)
    <3>1. /\ pc[p] \in {"closing", "unlocking"} /\ pc'[p] \in {"unlocking", "exiting"}
          /\ lock' = lock \/ lock' = Nobody
          /\ port' = port
      BY <1>1, <2>5, Goings DEF CloseReadsLock, CloseRemovesLock, files
    <3>2. QED
      BY <1>2, <1>4, <3>1, Frame DEF Reached, Listening, Closing
  <2>6. CASE Exit(p)
    <3>1. pc'[p] = "dead" /\ lock' = lock /\ port' = Free(p)
      BY <1>1, <2>6, Goings DEF Exit, files
    <3>2. QED
      BY <1>2, <1>4, <3>1, Frame DEF Reached, Listening
  <2>7. QED
    BY <2>1, <2>2, <2>3, <2>4, <2>5, <2>6
<1> QED
  BY <1>5, <1>6, <1>7 DEF Always

\* What a command reads of the lock is a pid the lock may hold.
LEMMA ReadLockfileKeepsAlways == ASSUME Always, NEW p \in Procs, ReadLockfile(p) PROVE Always'
<1>1. TypeOK
  BY DEF Always
<1>2. pc[p] = "read" /\ \A q \in Procs \ {p} : pc'[q] = pc[q]
  BY <1>1, Goings DEF ReadLockfile
<1>3. UNCHANGED <<lock, config, tokenFile, port, cmd, token, sig>>
  BY DEF ReadLockfile, files
<1>4. \/ lock \in Procs /\ saw' = [saw EXCEPT ![p] = lock] /\ pc'[p] = "check"
      \/ lock \notin Procs /\ saw' = [saw EXCEPT ![p] = Nobody] /\ pc'[p] \in {"config", "not running"}
  BY <1>1, Goings, LifecycleAssumption DEF ReadLockfile, TypeOK
<1>5. TypeOK'
  BY <1>1 DEF TypeOK, ReadLockfile, Goes, Starting, Closing, Ended, Tokens, files
<1>6. PortHeld' /\ TokenChosen'
  BY <1>2, <1>3, <1>4 DEF Always, PortHeld, TokenChosen, Listening
<1>7. Named'
  <2>1. \A q \in Procs : pc[q] \in Reached => pc'[q] \in Reached
    BY <1>2 DEF Reached, Closing
  <2>2. \A r, q \in Procs : saw'[r] = q => lock = q \/ saw[r] = q
    BY <1>1, <1>4, LifecycleAssumption DEF TypeOK
  <2>3. \A r \in Procs : pc'[r] \in {"check", "polling"} => saw'[r] \in Procs
    BY <1>1, <1>2, <1>4 DEF TypeOK, Always, Named
  <2>4. QED
    BY <1>3, <2>1, <2>2, <2>3 DEF Always, Named
<1> QED
  BY <1>5, <1>6, <1>7 DEF Always

\* Commands that end, and the environment, add no pid to the lock.
LEMMA OthersKeepAlways ==
    ASSUME Always, NEW p \in Procs,
           \/ \E kind \in {"start", "stop", "status"}, env \in Env \cup {Unset} : Begin(p, kind, env)
           \/ StopCheck(p) \/ Poll(p) \/ GiveUp(p) \/ StatusCheck(p) \/ Crash(p)
    PROVE  Always'
<1>1. TypeOK
  BY DEF Always
<1>2. UNCHANGED <<saw, token>> /\ lock' \in {lock, Nobody, Torn}
  BY DEF Begin, StopCheck, Poll, GiveUp, StatusCheck, Crash, files
<1>3. PICK to \in {"read", "polling", "stale", "stopped", "timeout", "running", "dead"} : Goes(p, to)
  BY DEF Begin, StopCheck, Poll, GiveUp, StatusCheck, Crash
<1>4. pc'[p] = to /\ \A q \in Procs \ {p} : pc'[q] = pc[q]
  BY <1>1, <1>3, Goings
<1>5. TokenChosen'
  BY <1>2, <1>4 DEF Always, TokenChosen
<1>6. TypeOK'
  <2>1. ASSUME NEW kind \in {"start", "stop", "status"}, NEW env \in Env \cup {Unset}, Begin(p, kind, env)
        PROVE  TypeOK'
    BY <1>1, <2>1 DEF TypeOK, Begin, Goes, Starting, Closing, Ended, Tokens, files
  <2>2. CASE StopCheck(p)
    BY <1>1, <2>2 DEF TypeOK, StopCheck, Goes, Starting, Closing, Ended, Tokens
  <2>3. CASE Poll(p)
    BY <1>1, <2>3 DEF TypeOK, Poll, Goes, Starting, Closing, Ended, Tokens, files
  <2>4. CASE GiveUp(p)
    BY <1>1, <2>4 DEF TypeOK, GiveUp, Goes, Starting, Closing, Ended, Tokens
  <2>5. CASE StatusCheck(p)
    BY <1>1, <2>5 DEF TypeOK, StatusCheck, Goes, Starting, Closing, Ended, Tokens
  <2>6. CASE Crash(p)
    BY <1>1, <2>6 DEF TypeOK, Crash, Free, Goes, Starting, Closing, Ended, Tokens
  <2>7. QED
    BY <2>1, <2>2, <2>3, <2>4, <2>5, <2>6
<1>7. PortHeld' /\ Named'
  <2>1. CASE Crash(p)
    <3>1. pc'[p] = "dead" /\ port' = Free(p)
      BY <1>1, <2>1, Goings DEF Crash
    <3>2. QED
      BY <1>2, <1>4, <3>1, Frame DEF Reached, Listening
  <2>2. CASE ~Crash(p)
    <3>1. port' = port /\ pc[p] \in {"unborn", "check", "polling"}
      BY <2>2 DEF Begin, StopCheck, Poll, GiveUp, StatusCheck
    <3>2. pc'[p] \in {"check", "polling"} => pc[p] = "check"
      <4>1. ASSUME Goes(p, "polling") PROVE StopCheck(p)
        <5>1. pc'[p] = "polling"
          BY <1>1, <4>1, Goings
        <5>2. ASSUME NEW kind, NEW env, Begin(p, kind, env) PROVE pc'[p] = "read"
          BY <1>1, <5>2, Goings DEF Begin
        <5>3. Poll(p) \/ GiveUp(p) \/ StatusCheck(p) => pc'[p] # "polling"
          BY <1>1, Goings DEF Poll, GiveUp, StatusCheck
        <5>4. QED
          BY <2>2, <5>1, <5>2, <5>3
      <4>2. QED
        BY <1>3, <1>4, <4>1 DEF StopCheck
    <3>3. pc'[p] \in {"read", "polling", "stale", "stopped", "timeout", "running", "dead"}
      BY <1>4
    <3>4. pc[p] \notin Reached /\ pc[p] \notin Listening /\ pc'[p] \notin Listening
      BY <3>1, <3>3 DEF Reached, Listening, Closing
    <3>5. QED
      BY <1>2, <1>4, <3>1, <3>2, <3>4, Frame
  <2>3. QED
    BY <2>1, <2>2
<1> QED
  BY <1>5, <1>6, <1>7 DEF Always

\* Nothing listens and no file names a process at the start.
LEMMA InitAlways == ASSUME Init PROVE Always
<1>1. TypeOK
  BY DEF Init, TypeOK, Tokens
<1>2. \A p \in Procs : pc[p] = "unborn" /\ saw[p] = Nobody /\ lock # p /\ port # p
  BY LifecycleAssumption DEF Init
<1>3. QED
  BY <1>1, <1>2, LifecycleAssumption DEF Always, PortHeld, TokenChosen, Named, Listening

\* A user's signal changes nothing until it is handled.
LEMMA InterruptKeepsAlways == ASSUME Always, NEW p \in Procs, Interrupt(p) PROVE Always'
<1>1. UNCHANGED <<lock, config, tokenFile, port, pc, cmd, saw, token>>
  BY DEF Interrupt, files
<1>2. TypeOK'
  BY <1>1 DEF Always, TypeOK, Interrupt, Tokens
<1>3. QED
  BY <1>1, <1>2 DEF Always, PortHeld, TokenChosen, Named

\* Every step keeps the invariant, whatever else is at work.
LEMMA NextKeepsAlways == ASSUME Always, [Next]_vars PROVE Always'
<1>1. CASE UNCHANGED vars
  BY <1>1 DEF vars, files, Always, TypeOK, PortHeld, TokenChosen, Named
<1>2. QED
  BY <1>1, InterruptKeepsAlways, StartingKeepsAlways, ListeningKeepsAlways, ReadLockfileKeepsAlways,
     OthersKeepAlways DEF Next

\* The invariant holds whatever starts, stops, overlaps or dies.
LEMMA AlwaysInvariant == Spec => []Always
<1>1. Init => Always
  BY InitAlways
<1>2. Always /\ [Next]_vars => Always'
  BY NextKeepsAlways
<1> QED
  BY <1>1, <1>2, PTL DEF Spec

\* Every variable keeps its type (startDaemon, stopDaemon, getDaemonStatus).
THEOREM TypeCorrect == Spec => []TypeOK
<1>1. Always => TypeOK
  BY DEF Always
<1> QED
  BY <1>1, AlwaysInvariant, PTL

\* Two processes never serve at the same time (startDaemon: a start whose bind
\* fails exits), however many starts overlap.
OneDaemon == \A p, q \in Procs : Serving(p) /\ Serving(q) => p = q

\* At most one daemon serves, with no hypothesis on who starts when.
THEOREM OneServes == Spec => []OneDaemon
<1>1. Always => OneDaemon
  BY DEF Always, PortHeld, Listening, OneDaemon, Serving
<1> QED
  BY <1>1, AlwaysInvariant, PTL

\* A signal that a process has not had before comes from a user, or a stop sends
\* it to a process that has written its lock as the holder of the port (stopDaemon
\* kills the pid of the lock): a stop never kills a command.
SignalsDaemons ==
    [][\A q \in Procs : sig'[q] /\ ~sig[q]
                            => Interrupt(q) \/ pc[q] \in {"locked", "serving"} \cup Closing]_vars

\* A stop signals daemons only, whatever it read of the lock and whatever has
\* happened to the lock since.
THEOREM StopsDaemons == Spec => SignalsDaemons
<1> DEFINE Fair == \A q \in Procs : sig'[q] /\ ~sig[q]
                        => Interrupt(q) \/ pc[q] \in {"locked", "serving"} \cup Closing
<1>1. ASSUME Always, NEW p \in Procs, StopCheck(p) PROVE Fair
  <2>1. ASSUME NEW q \in Procs, sig'[q], ~sig[q] PROVE q = saw[p] /\ Alive(q)
    BY <1>1, <2>1 DEF StopCheck, IsPidAlive, Always, TypeOK
  <2>2. ASSUME NEW q \in Procs, sig'[q], ~sig[q] PROVE pc[q] \in Reached /\ Alive(q)
    BY <1>1, <2>1, <2>2 DEF Always, Named
  <2>3. QED
    BY <2>2 DEF Reached, Alive, Ended
<1>2. ASSUME Always, NEW p \in Procs, Interrupt(p) PROVE Fair
  <2>1. \A q \in Procs \ {p} : sig'[q] = sig[q]
    BY <1>2 DEF Interrupt, Always, TypeOK
  <2>2. QED
    BY <1>2, <2>1
<1>3. ASSUME Always, NEW p \in Procs, OnSignal(p) PROVE Fair
  BY <1>3 DEF OnSignal, Always, TypeOK
<1>4. ASSUME NEW p \in Procs,
             \/ \E kind \in {"start", "stop", "status"}, env \in Env \cup {Unset} : Begin(p, kind, env)
             \/ ReadLockfile(p) \/ StartCheck(p) \/ ReadConfig(p) \/ WriteDefault(p)
             \/ ResolveToken(p) \/ WriteTokenFile(p) \/ Bind(p) \/ WriteLock(p) \/ Serve(p)
             \/ CloseReadsLock(p) \/ CloseRemovesLock(p) \/ Exit(p) \/ Poll(p) \/ GiveUp(p)
             \/ StatusCheck(p) \/ Crash(p)
      PROVE  sig' = sig
  BY <1>4 DEF Begin, ReadLockfile, StartCheck, ReadConfig, WriteDefault, ResolveToken,
     WriteTokenFile, Bind, WriteLock, Serve, CloseReadsLock, CloseRemovesLock, Exit, Poll, GiveUp,
     StatusCheck, Crash
<1>5. Always /\ [Next]_vars => [Fair]_vars
  BY <1>1, <1>2, <1>3, <1>4 DEF Next
<1> QED
  BY <1>5, AlwaysInvariant, PTL DEF Spec, SignalsDaemons

-----------------------------------------------------------------------------
(* When commands do not overlap.                                           *)

\* A start that has found no live daemon and has not written its lock.
Beyond == {"config", "default", "resolve", "publish", "bind", "bound"}
\* A daemon whose lock is in place.
Locked == {"locked", "serving", "closing", "unlocking"}

\* At most one command is at work.
OneCommand    == \A p, q \in Procs : Busy(p) /\ Busy(q) => p = q
\* The lock names the daemon from its write to its removal, or one that died.
LockHeld      == \A q \in Procs : /\ pc[q] \in Locked => lock = q
                                  /\ lock = q => pc[q] \in Locked \cup {"dead"}
\* No daemon has its lock in place while a start is past its check.
AloneStarting == \A p, q \in Procs : pc[p] \in Beyond => pc[q] \notin Locked
\* What a command read of the lock is outdated only by its removal.
LockRead      == \A p \in Procs : pc[p] \in {"check", "polling"}
                                      => saw[p] \in Procs /\ lock \in {saw[p], Nobody}
\* The process that a command read in the lock has served, or died.
SawDaemon     == \A p \in Procs : saw[p] # Nobody => pc[saw[p]] \in {"serving", "dead"} \cup Closing
\* The daemon that a successful stop names no longer serves.
StopDone      == \A p \in Procs : pc[p] = "stopped" => saw[p] # Nobody /\ ~Serving(saw[p])
\* The token file stays the start's own from its write on.
TokenKept     == \A p \in Procs : pc[p] \in {"bind", "bound", "locked", "serving"}
                                      => tokenFile = token[p]
\* What a start read of the config file is still there when it writes.
ConfigRead    == \A p \in Procs : /\ pc[p] = "default" => config = Nobody
                                  /\ pc[p] = "resolve" /\ token[p] = Unset => config = Unset

\* The inductive invariant.
Inv == /\ Always
       /\ OneCommand /\ LockHeld /\ AloneStarting /\ LockRead /\ SawDaemon
       /\ StopDone /\ TokenKept /\ ConfigRead /\ StartNeverCollides

-----------------------------------------------------------------------------
(* The invariant is inductive.                                             *)

\* Goings, under this invariant.
LEMMA Moved ==
    ASSUME Inv, NEW p \in Procs
    PROVE  \A to : Goes(p, to) => pc'[p] = to /\ \A q \in Procs \ {p} : pc'[q] = pc[q]
BY Goings DEF Inv, Always

\* What the type invariant says of the variables other than pc.
LEMMA Types ==
    ASSUME Inv
    PROVE  /\ lock \in Procs \cup {Nobody, Torn} /\ port \in Procs \cup {Nobody}
           /\ config \in Procs \cup Env \cup {Nobody, Unset, Torn}
           /\ saw \in [Procs -> Procs \cup {Nobody}] /\ sig \in [Procs -> BOOLEAN]
           /\ token \in [Procs -> Procs \cup Env \cup {Unset}]
BY DEF Inv, Always, TypeOK, Tokens

\* No other command is at work.
LEMMA Alone ==
    ASSUME Inv, NEW p \in Procs, pc[p] \in Starting \cup {"polling"}
    PROVE  \A q \in Procs \ {p} : pc[q] \notin Starting \cup {"polling"}
BY DEF Inv, OneCommand, Busy, Alive, Starting, Closing, Ended

\* What a command reads of the lock is a daemon past its start, or a dead one.
LEMMA ReadLockfileKeepsInv == ASSUME Inv, NEW p \in Procs, ReadLockfile(p) PROVE Inv'
<1>1. pc[p] = "read" /\ \A q \in Procs \ {p} : pc'[q] = pc[q]
  BY Moved DEF ReadLockfile, Shutdown
<1>2. \/ lock \in Procs /\ saw' = [saw EXCEPT ![p] = lock] /\ pc'[p] = "check"
      \/ lock \notin Procs /\ saw' = [saw EXCEPT ![p] = Nobody] /\ pc'[p] \in {"config", "not running"}
  BY Moved, LifecycleAssumption, Types DEF ReadLockfile
<1>3. UNCHANGED <<lock, config, tokenFile, port, cmd, token, sig>>
  BY DEF ReadLockfile, files
<1>4. \A q \in Procs \ {p} : pc[q] \notin Starting \cup {"polling"}
  BY <1>1, Alone DEF Starting
<1>5. OneCommand'
  BY <1>1, <1>2, <1>3, <1>4, Types, LifecycleAssumption DEF Inv, OneCommand, Busy, Alive,
     Ended, Closing
<1>6. LockHeld'
  BY <1>1, <1>2, <1>3, <1>4, Types, LifecycleAssumption DEF Inv, LockHeld, Locked
<1>7. AloneStarting'
  BY <1>1, <1>2, <1>3, <1>4, Types, LifecycleAssumption DEF Inv, AloneStarting, Beyond,
     Locked, Starting, LockHeld
<1>8. LockRead'
  BY <1>1, <1>2, <1>3, <1>4, Types, LifecycleAssumption DEF Inv, LockRead, Starting
<1>9. SawDaemon'
  <2>1. ASSUME lock \in Procs PROVE pc[lock] \in {"serving", "dead"} \cup Closing /\ lock # p
    BY <1>1, <1>4, <2>1 DEF Inv, LockHeld, Locked, Starting, Closing
  <2>2. ASSUME NEW q \in Procs, saw'[q] # Nobody
        PROVE  pc[saw'[q]] \in {"serving", "dead"} \cup Closing /\ saw'[q] \in Procs
    BY <1>2, <2>1, <2>2, Types DEF Inv, SawDaemon
  <2>3. ASSUME NEW q \in Procs, saw'[q] # Nobody PROVE saw'[q] # p
    BY <1>1, <2>2, <2>3 DEF Closing
  <2>4. QED
    BY <1>1, <2>2, <2>3 DEF SawDaemon
<1>10. StopDone'
  BY <1>1, <1>2, <1>3, <1>4, Types, LifecycleAssumption DEF Inv, StopDone, Serving
<1>11. TokenKept'
  BY <1>1, <1>2, <1>3, <1>4, Types, LifecycleAssumption DEF Inv, TokenKept
<1>12. ConfigRead'
  BY <1>1, <1>2, <1>3, <1>4, Types, LifecycleAssumption DEF Inv, ConfigRead, Starting
<1>13. StartNeverCollides'
  BY <1>1, <1>2, <1>3, <1>4, Types, LifecycleAssumption DEF Inv, StartNeverCollides
<1>14. Always'
  BY ReadLockfileKeepsAlways DEF Inv
<1> QED
  BY <1>5, <1>6, <1>7, <1>8, <1>9, <1>10, <1>11, <1>12, <1>13, <1>14 DEF Inv

\* A start goes on only if the process of the lock is dead: no daemon is then
\* locked, and the lock it removes is nobody's.
LEMMA StartCheckKeepsInv == ASSUME Inv, NEW p \in Procs, StartCheck(p) PROVE Inv'
<1>1. pc[p] = "check" /\ \A q \in Procs \ {p} : pc'[q] = pc[q]
  BY Moved DEF StartCheck, Shutdown
<1>2. \/ Alive(saw[p]) /\ pc'[p] = "already" /\ lock' = lock
      \/ ~Alive(saw[p]) /\ pc'[p] = "config" /\ lock' = Nobody
  BY Moved DEF StartCheck, IsPidAlive
<1>3. UNCHANGED <<config, tokenFile, port, cmd, saw, token, sig>>
  BY DEF StartCheck, files
<1>4. \A q \in Procs \ {p} : pc[q] \notin Starting \cup {"polling"}
  BY <1>1, Alone DEF Starting
<1>5. OneCommand'
  BY <1>1, <1>2, <1>3, <1>4, Types DEF Inv, OneCommand, Busy, Alive, Ended, Closing
<1>6. LockHeld'
  BY <1>1, <1>2, <1>3, <1>4, Types, LifecycleAssumption DEF Inv, LockHeld, Locked, LockRead,
     Alive, Ended
<1>7. AloneStarting'
  <2>1. ASSUME pc'[p] = "config", NEW q \in Procs, pc[q] \in Locked PROVE FALSE
    <3>1. ~Alive(saw[p]) /\ lock \in {saw[p], Nobody}
      BY <1>1, <1>2, <2>1 DEF Inv, LockRead
    <3>2. lock = q
      BY <2>1 DEF Inv, LockHeld
    <3>3. Alive(q)
      BY <2>1 DEF Locked, Alive, Ended
    <3>4. QED
      BY <3>1, <3>2, <3>3, LifecycleAssumption
  <2>2. pc'[p] \notin Locked
    BY <1>2 DEF Locked
  <2>3. QED
    BY <1>1, <1>2, <1>4, <2>1, <2>2 DEF Inv, AloneStarting, Beyond, Starting
<1>8. LockRead'
  BY <1>1, <1>2, <1>3, <1>4, Types, LifecycleAssumption DEF Inv, LockRead, Starting
<1>9. SawDaemon'
  BY <1>1, <1>2, <1>3, <1>4, Types DEF Inv, SawDaemon, Closing
<1>10. StopDone'
  BY <1>1, <1>2, <1>3, <1>4, Types DEF Inv, StopDone, Serving
<1>11. TokenKept'
  BY <1>1, <1>2, <1>3, <1>4, Types DEF Inv, TokenKept
<1>12. ConfigRead'
  BY <1>1, <1>2, <1>3, <1>4, Types DEF Inv, ConfigRead, Starting
<1>13. StartNeverCollides'
  BY <1>1, <1>2, <1>3, <1>4, Types DEF Inv, StartNeverCollides
<1>14. Always'
  BY StartingKeepsAlways DEF Inv
<1> QED
  BY <1>5, <1>6, <1>7, <1>8, <1>9, <1>10, <1>11, <1>12, <1>13, <1>14 DEF Inv

\* A start that will generate a token has found none in the config file.
LEMMA ReadConfigKeepsInv == ASSUME Inv, NEW p \in Procs, ReadConfig(p) PROVE Inv'
<1>1. pc[p] = "config" /\ \A q \in Procs \ {p} : pc'[q] = pc[q]
  BY Moved DEF ReadConfig, Shutdown
<1>2. /\ pc'[p] \in {"broken", "default", "resolve"}
      /\ pc'[p] = "default" => config = Nobody
      /\ pc'[p] = "resolve" /\ token'[p] = Unset => config = Unset
      /\ \A q \in Procs \ {p} : token'[q] = token[q]
  BY Moved, LifecycleAssumption, Types DEF ReadConfig, Tokens
<1>3. UNCHANGED <<lock, config, tokenFile, port, cmd, saw, sig>>
  BY DEF ReadConfig, files
<1>4. \A q \in Procs \ {p} : pc[q] \notin Starting \cup {"polling"}
  BY <1>1, Alone DEF Starting
<1>5. OneCommand'
  BY <1>1, <1>2, <1>3, <1>4, Types, LifecycleAssumption DEF Inv, OneCommand, Busy, Alive,
     Ended, Closing
<1>6. LockHeld'
  BY <1>1, <1>2, <1>3, <1>4, Types, LifecycleAssumption DEF Inv, LockHeld, Locked
<1>7. AloneStarting'
  BY <1>1, <1>2, <1>3, <1>4, Types, LifecycleAssumption DEF Inv, AloneStarting, Beyond,
     Locked, Starting
<1>8. LockRead'
  BY <1>1, <1>2, <1>3, <1>4, Types, LifecycleAssumption DEF Inv, LockRead, Starting
<1>9. SawDaemon'
  BY <1>1, <1>2, <1>3, <1>4, Types, LifecycleAssumption DEF Inv, SawDaemon, Closing
<1>10. StopDone'
  BY <1>1, <1>2, <1>3, <1>4, Types, LifecycleAssumption DEF Inv, StopDone, Serving
<1>11. TokenKept'
  BY <1>1, <1>2, <1>3, <1>4, Types, LifecycleAssumption DEF Inv, TokenKept
<1>12. ConfigRead'
  BY <1>1, <1>2, <1>3, <1>4, Types, LifecycleAssumption DEF Inv, ConfigRead, Starting
<1>13. StartNeverCollides'
  BY <1>1, <1>2, <1>3, <1>4, Types, LifecycleAssumption DEF Inv, StartNeverCollides
<1>14. Always'
  BY StartingKeepsAlways DEF Inv
<1> QED
  BY <1>5, <1>6, <1>7, <1>8, <1>9, <1>10, <1>11, <1>12, <1>13, <1>14 DEF Inv

\* The default config holds no token, and replaces none.
LEMMA WriteDefaultKeepsInv == ASSUME Inv, NEW p \in Procs, WriteDefault(p) PROVE Inv'
<1>1. pc[p] = "default" /\ \A q \in Procs \ {p} : pc'[q] = pc[q]
  BY Moved DEF WriteDefault, Shutdown
<1>2. pc'[p] = "resolve" /\ config' = Unset
  BY Moved DEF WriteDefault
<1>3. UNCHANGED <<lock, tokenFile, port, cmd, saw, token, sig>>
  BY DEF WriteDefault, files
<1>4. \A q \in Procs \ {p} : pc[q] \notin Starting \cup {"polling"}
  BY <1>1, Alone DEF Starting
<1>5. OneCommand'
  BY <1>1, <1>2, <1>3, <1>4, Types DEF Inv, OneCommand, Busy, Alive, Ended, Closing
<1>6. LockHeld'
  BY <1>1, <1>2, <1>3, <1>4, Types, LifecycleAssumption DEF Inv, LockHeld, Locked
<1>7. AloneStarting'
  BY <1>1, <1>2, <1>3, <1>4, Types DEF Inv, AloneStarting, Beyond, Locked, Starting
<1>8. LockRead'
  BY <1>1, <1>2, <1>3, <1>4, Types, LifecycleAssumption DEF Inv, LockRead, Starting
<1>9. SawDaemon'
  BY <1>1, <1>2, <1>3, <1>4, Types DEF Inv, SawDaemon, Closing
<1>10. StopDone'
  BY <1>1, <1>2, <1>3, <1>4, Types DEF Inv, StopDone, Serving
<1>11. TokenKept'
  BY <1>1, <1>2, <1>3, <1>4, Types DEF Inv, TokenKept
<1>12. ConfigRead'
  BY <1>1, <1>2, <1>3, <1>4, Types DEF Inv, ConfigRead, Starting
<1>13. StartNeverCollides'
  BY <1>1, <1>2, <1>3, <1>4, Types DEF Inv, StartNeverCollides
<1>14. Always'
  BY StartingKeepsAlways DEF Inv
<1> QED
  BY <1>5, <1>6, <1>7, <1>8, <1>9, <1>10, <1>11, <1>12, <1>13, <1>14 DEF Inv

\* A start leaves resolveToken with a token.
LEMMA ResolveTokenKeepsInv == ASSUME Inv, NEW p \in Procs, ResolveToken(p) PROVE Inv'
<1>1. pc[p] = "resolve" /\ \A q \in Procs \ {p} : pc'[q] = pc[q]
  BY Moved DEF ResolveToken, Shutdown
<1>2. /\ pc'[p] = "publish" /\ token'[p] # Unset
      /\ \A q \in Procs \ {p} : token'[q] = token[q]
  BY Moved, LifecycleAssumption, Types DEF ResolveToken, Generates
<1>3. UNCHANGED <<lock, tokenFile, port, cmd, saw, sig>>
  BY DEF ResolveToken, files
<1>4. \A q \in Procs \ {p} : pc[q] \notin Starting \cup {"polling"}
  BY <1>1, Alone DEF Starting
<1>5. OneCommand'
  BY <1>1, <1>2, <1>3, <1>4, Types DEF Inv, OneCommand, Busy, Alive, Ended, Closing
<1>6. LockHeld'
  BY <1>1, <1>2, <1>3, <1>4, Types, LifecycleAssumption DEF Inv, LockHeld, Locked
<1>7. AloneStarting'
  BY <1>1, <1>2, <1>3, <1>4, Types DEF Inv, AloneStarting, Beyond, Locked, Starting
<1>8. LockRead'
  BY <1>1, <1>2, <1>3, <1>4, Types, LifecycleAssumption DEF Inv, LockRead, Starting
<1>9. SawDaemon'
  BY <1>1, <1>2, <1>3, <1>4, Types DEF Inv, SawDaemon, Closing
<1>10. StopDone'
  BY <1>1, <1>2, <1>3, <1>4, Types DEF Inv, StopDone, Serving
<1>11. TokenKept'
  BY <1>1, <1>2, <1>3, <1>4, Types DEF Inv, TokenKept
<1>12. ConfigRead'
  BY <1>1, <1>2, <1>3, <1>4, Types DEF Inv, ConfigRead, Starting
<1>13. StartNeverCollides'
  BY <1>1, <1>2, <1>3, <1>4, Types DEF Inv, StartNeverCollides
<1>14. Always'
  BY StartingKeepsAlways DEF Inv
<1> QED
  BY <1>5, <1>6, <1>7, <1>8, <1>9, <1>10, <1>11, <1>12, <1>13, <1>14 DEF Inv

\* The token file is the start's own: no daemon serves behind it.
LEMMA WriteTokenFileKeepsInv == ASSUME Inv, NEW p \in Procs, WriteTokenFile(p) PROVE Inv'
<1>1. pc[p] = "publish" /\ \A q \in Procs \ {p} : pc'[q] = pc[q]
  BY Moved DEF WriteTokenFile, Shutdown
<1>2. pc'[p] = "bind" /\ tokenFile' = token[p]
  BY Moved DEF WriteTokenFile
<1>3. UNCHANGED <<lock, config, port, cmd, saw, token, sig>>
  BY DEF WriteTokenFile, files
<1>4. \A q \in Procs \ {p} : pc[q] \notin Starting \cup {"polling"}
  BY <1>1, Alone DEF Starting
<1>5. OneCommand'
  BY <1>1, <1>2, <1>3, <1>4, Types DEF Inv, OneCommand, Busy, Alive, Ended, Closing
<1>6. LockHeld'
  BY <1>1, <1>2, <1>3, <1>4, Types, LifecycleAssumption DEF Inv, LockHeld, Locked
<1>7. AloneStarting'
  BY <1>1, <1>2, <1>3, <1>4, Types DEF Inv, AloneStarting, Beyond, Locked, Starting
<1>8. LockRead'
  BY <1>1, <1>2, <1>3, <1>4, Types, LifecycleAssumption DEF Inv, LockRead, Starting
<1>9. SawDaemon'
  BY <1>1, <1>2, <1>3, <1>4, Types DEF Inv, SawDaemon, Closing
<1>10. StopDone'
  BY <1>1, <1>2, <1>3, <1>4, Types DEF Inv, StopDone, Serving
<1>11. TokenKept'
  BY <1>1, <1>2, <1>3, <1>4, Types DEF Inv, TokenKept, AloneStarting, Beyond, Locked, Starting
<1>12. ConfigRead'
  BY <1>1, <1>2, <1>3, <1>4, Types DEF Inv, ConfigRead, Starting
<1>13. StartNeverCollides'
  BY <1>1, <1>2, <1>3, <1>4, Types DEF Inv, StartNeverCollides
<1>14. Always'
  BY StartingKeepsAlways DEF Inv
<1> QED
  BY <1>5, <1>6, <1>7, <1>8, <1>9, <1>10, <1>11, <1>12, <1>13, <1>14 DEF Inv

\* The port is free: its holder would be locked, and no start goes on beside one.
LEMMA BindKeepsInv == ASSUME Inv, NEW p \in Procs, Bind(p) PROVE Inv'
<1>1. pc[p] = "bind" /\ \A q \in Procs \ {p} : pc'[q] = pc[q]
  BY Moved DEF Bind, Shutdown
<1>2. pc'[p] = "bound" /\ port = Nobody /\ port' = p
  <2>1. SUFFICES ASSUME port # Nobody PROVE FALSE
    BY Moved DEF Bind
  <2>2. port \in Procs /\ pc[port] \in {"bound", "locked", "serving"}
    BY <2>1, Types DEF Inv, Always, PortHeld, Listening
  <2>3. pc[port] = "bound"
    BY <1>1, <2>2 DEF Inv, AloneStarting, Beyond, Locked
  <2>4. QED
    BY <1>1, <2>2, <2>3, Alone DEF Starting
<1>3. UNCHANGED <<lock, config, tokenFile, cmd, saw, token, sig>>
  BY DEF Bind, files
<1>4. \A q \in Procs \ {p} : pc[q] \notin Starting \cup {"polling"}
  BY <1>1, Alone DEF Starting
<1>5. OneCommand'
  BY <1>1, <1>2, <1>3, <1>4, Types DEF Inv, OneCommand, Busy, Alive, Ended, Closing
<1>6. LockHeld'
  BY <1>1, <1>2, <1>3, <1>4, Types, LifecycleAssumption DEF Inv, LockHeld, Locked
<1>7. AloneStarting'
  BY <1>1, <1>2, <1>3, <1>4, Types DEF Inv, AloneStarting, Beyond, Locked, Starting
<1>8. LockRead'
  BY <1>1, <1>2, <1>3, <1>4, Types, LifecycleAssumption DEF Inv, LockRead, Starting
<1>9. SawDaemon'
  BY <1>1, <1>2, <1>3, <1>4, Types DEF Inv, SawDaemon, Closing
<1>10. StopDone'
  BY <1>1, <1>2, <1>3, <1>4, Types DEF Inv, StopDone, Serving
<1>11. TokenKept'
  BY <1>1, <1>2, <1>3, <1>4, Types DEF Inv, TokenKept
<1>12. ConfigRead'
  BY <1>1, <1>2, <1>3, <1>4, Types DEF Inv, ConfigRead, Starting
<1>13. StartNeverCollides'
  BY <1>1, <1>2, <1>3, <1>4, Types DEF Inv, StartNeverCollides
<1>14. Always'
  BY ListeningKeepsAlways DEF Inv
<1> QED
  BY <1>5, <1>6, <1>7, <1>8, <1>9, <1>10, <1>11, <1>12, <1>13, <1>14 DEF Inv

\* The lock that a start replaces is no live daemon's.
LEMMA WriteLockKeepsInv == ASSUME Inv, NEW p \in Procs, WriteLock(p) PROVE Inv'
<1>1. pc[p] = "bound" /\ \A q \in Procs \ {p} : pc'[q] = pc[q]
  BY Moved DEF WriteLock, Shutdown
<1>2. pc'[p] = "locked" /\ lock' = p
  BY Moved DEF WriteLock
<1>3. UNCHANGED <<config, tokenFile, port, cmd, saw, token, sig>>
  BY DEF WriteLock, files
<1>4. \A q \in Procs \ {p} : pc[q] \notin Starting \cup {"polling"}
  BY <1>1, Alone DEF Starting
<1>5. OneCommand'
  BY <1>1, <1>2, <1>3, <1>4, Types DEF Inv, OneCommand, Busy, Alive, Ended, Closing
<1>6. LockHeld'
  BY <1>1, <1>2, <1>3, <1>4, Types, LifecycleAssumption DEF Inv, LockHeld, Locked,
     AloneStarting, Beyond
<1>7. AloneStarting'
  BY <1>1, <1>2, <1>3, <1>4, Types DEF Inv, AloneStarting, Beyond, Locked, Starting
<1>8. LockRead'
  BY <1>1, <1>2, <1>3, <1>4, Types, LifecycleAssumption DEF Inv, LockRead, Starting
<1>9. SawDaemon'
  BY <1>1, <1>2, <1>3, <1>4, Types DEF Inv, SawDaemon, Closing
<1>10. StopDone'
  BY <1>1, <1>2, <1>3, <1>4, Types DEF Inv, StopDone, Serving
<1>11. TokenKept'
  BY <1>1, <1>2, <1>3, <1>4, Types DEF Inv, TokenKept
<1>12. ConfigRead'
  BY <1>1, <1>2, <1>3, <1>4, Types DEF Inv, ConfigRead, Starting
<1>13. StartNeverCollides'
  BY <1>1, <1>2, <1>3, <1>4, Types DEF Inv, StartNeverCollides
<1>14. Always'
  BY ListeningKeepsAlways DEF Inv
<1> QED
  BY <1>5, <1>6, <1>7, <1>8, <1>9, <1>10, <1>11, <1>12, <1>13, <1>14 DEF Inv

\* The daemon that begins to serve was not serving when any stop saw it.
LEMMA ServeKeepsInv == ASSUME Inv, NEW p \in Procs, Serve(p) PROVE Inv'
<1>1. pc[p] = "locked" /\ \A q \in Procs \ {p} : pc'[q] = pc[q]
  BY Moved DEF Serve, Shutdown
<1>2. pc'[p] = "serving"
  BY Moved DEF Serve
<1>3. UNCHANGED <<lock, config, tokenFile, port, cmd, saw, token, sig>>
  BY DEF Serve, files
<1>4. \A q \in Procs \ {p} : pc[q] \notin Starting \cup {"polling"}
  BY <1>1, Alone DEF Starting
<1>5. OneCommand'
  BY <1>1, <1>2, <1>3, <1>4, Types DEF Inv, OneCommand, Busy, Alive, Ended, Closing
<1>6. LockHeld'
  BY <1>1, <1>2, <1>3, <1>4, Types, LifecycleAssumption DEF Inv, LockHeld, Locked
<1>7. AloneStarting'
  BY <1>1, <1>2, <1>3, <1>4, Types DEF Inv, AloneStarting, Beyond, Locked, Starting
<1>8. LockRead'
  BY <1>1, <1>2, <1>3, <1>4, Types, LifecycleAssumption DEF Inv, LockRead, Starting
<1>9. SawDaemon'
  BY <1>1, <1>2, <1>3, <1>4, Types DEF Inv, SawDaemon, Closing
<1>10. StopDone'
  BY <1>1, <1>2, <1>3, <1>4, Types DEF Inv, StopDone, Serving, SawDaemon, Closing
<1>11. TokenKept'
  BY <1>1, <1>2, <1>3, <1>4, Types DEF Inv, TokenKept
<1>12. ConfigRead'
  BY <1>1, <1>2, <1>3, <1>4, Types DEF Inv, ConfigRead, Starting
<1>13. StartNeverCollides'
  BY <1>1, <1>2, <1>3, <1>4, Types DEF Inv, StartNeverCollides
<1>14. Always'
  BY ListeningKeepsAlways DEF Inv
<1> QED
  BY <1>5, <1>6, <1>7, <1>8, <1>9, <1>10, <1>11, <1>12, <1>13, <1>14 DEF Inv

\* A daemon that closes gives up the port and keeps its lock.
LEMMA OnSignalKeepsInv == ASSUME Inv, NEW p \in Procs, OnSignal(p) PROVE Inv'
<1>1. \A q \in Procs \ {p} : pc'[q] = pc[q]
  BY Moved DEF OnSignal, Shutdown
<1>2. \/ pc[p] = "serving" /\ pc'[p] = "closing" /\ port' = Nobody
      \/ Alive(p) /\ pc[p] # "serving" /\ pc'[p] = "dead" /\ port' = Free(p)
  BY Moved DEF OnSignal, Serving, Shutdown
<1>3. UNCHANGED <<lock, config, tokenFile, cmd, saw, token>>
  BY DEF OnSignal, files
<1>4. OneCommand'
  BY <1>1, <1>2, <1>3, Types DEF Inv, OneCommand, Busy, Alive, Ended, Closing
<1>5. LockHeld'
  BY <1>1, <1>2, <1>3, Types, LifecycleAssumption DEF Inv, LockHeld, Locked
<1>6. AloneStarting'
  BY <1>1, <1>2, <1>3, Types DEF Inv, AloneStarting, Beyond, Locked, Starting
<1>7. LockRead'
  BY <1>1, <1>2, <1>3, Types, LifecycleAssumption DEF Inv, LockRead, Starting
<1>8. SawDaemon'
  BY <1>1, <1>2, <1>3, Types DEF Inv, SawDaemon, Closing
<1>9. StopDone'
  BY <1>1, <1>2, <1>3, Types DEF Inv, StopDone, Serving
<1>10. TokenKept'
  BY <1>1, <1>2, <1>3, Types DEF Inv, TokenKept
<1>11. ConfigRead'
  BY <1>1, <1>2, <1>3, Types DEF Inv, ConfigRead, Starting
<1>12. StartNeverCollides'
  BY <1>1, <1>2, <1>3, Types DEF Inv, StartNeverCollides
<1>13. Always'
  BY ListeningKeepsAlways DEF Inv
<1> QED
  BY <1>4, <1>5, <1>6, <1>7, <1>8, <1>9, <1>10, <1>11, <1>12, <1>13 DEF Inv

\* The lock that a closing daemon reads is its own.
LEMMA CloseReadsLockKeepsInv == ASSUME Inv, NEW p \in Procs, CloseReadsLock(p) PROVE Inv'
<1>1. pc[p] = "closing" /\ \A q \in Procs \ {p} : pc'[q] = pc[q]
  BY Moved DEF CloseReadsLock, Shutdown
<1>2. pc'[p] = "unlocking"
  BY Moved, <1>1 DEF CloseReadsLock, LockHeld, Locked, Inv
<1>3. UNCHANGED <<lock, config, tokenFile, port, cmd, saw, token, sig>>
  BY DEF CloseReadsLock, files
<1>4. OneCommand'
  BY <1>1, <1>2, <1>3, Types DEF Inv, OneCommand, Busy, Alive, Ended, Closing
<1>5. LockHeld'
  BY <1>1, <1>2, <1>3, Types, LifecycleAssumption DEF Inv, LockHeld, Locked
<1>6. AloneStarting'
  BY <1>1, <1>2, <1>3, Types DEF Inv, AloneStarting, Beyond, Locked, Starting
<1>7. LockRead'
  BY <1>1, <1>2, <1>3, Types, LifecycleAssumption DEF Inv, LockRead, Starting
<1>8. SawDaemon'
  BY <1>1, <1>2, <1>3, Types DEF Inv, SawDaemon, Closing
<1>9. StopDone'
  BY <1>1, <1>2, <1>3, Types DEF Inv, StopDone, Serving
<1>10. TokenKept'
  BY <1>1, <1>2, <1>3, Types DEF Inv, TokenKept
<1>11. ConfigRead'
  BY <1>1, <1>2, <1>3, Types DEF Inv, ConfigRead, Starting
<1>12. StartNeverCollides'
  BY <1>1, <1>2, <1>3, Types DEF Inv, StartNeverCollides
<1>13. Always'
  BY ListeningKeepsAlways DEF Inv
<1> QED
  BY <1>4, <1>5, <1>6, <1>7, <1>8, <1>9, <1>10, <1>11, <1>12, <1>13 DEF Inv

\* A closing daemon removes its own lock and no other.
LEMMA CloseRemovesLockKeepsInv == ASSUME Inv, NEW p \in Procs, CloseRemovesLock(p) PROVE Inv'
<1>1. pc[p] = "unlocking" /\ \A q \in Procs \ {p} : pc'[q] = pc[q]
  BY Moved DEF CloseRemovesLock, Shutdown
<1>2. pc'[p] = "exiting" /\ lock' = Nobody
  BY Moved DEF CloseRemovesLock
<1>3. UNCHANGED <<config, tokenFile, port, cmd, saw, token, sig>>
  BY DEF CloseRemovesLock, files
<1>4. OneCommand'
  BY <1>1, <1>2, <1>3, Types DEF Inv, OneCommand, Busy, Alive, Ended, Closing
<1>5. LockHeld'
  BY <1>1, <1>2, <1>3, Types, LifecycleAssumption DEF Inv, LockHeld, Locked
<1>6. AloneStarting'
  BY <1>1, <1>2, <1>3, Types DEF Inv, AloneStarting, Beyond, Locked, Starting
<1>7. LockRead'
  BY <1>1, <1>2, <1>3, Types, LifecycleAssumption DEF Inv, LockRead, Starting
<1>8. SawDaemon'
  BY <1>1, <1>2, <1>3, Types DEF Inv, SawDaemon, Closing
<1>9. StopDone'
  BY <1>1, <1>2, <1>3, Types DEF Inv, StopDone, Serving
<1>10. TokenKept'
  BY <1>1, <1>2, <1>3, Types DEF Inv, TokenKept
<1>11. ConfigRead'
  BY <1>1, <1>2, <1>3, Types DEF Inv, ConfigRead, Starting
<1>12. StartNeverCollides'
  BY <1>1, <1>2, <1>3, Types DEF Inv, StartNeverCollides
<1>13. Always'
  BY ListeningKeepsAlways DEF Inv
<1> QED
  BY <1>4, <1>5, <1>6, <1>7, <1>8, <1>9, <1>10, <1>11, <1>12, <1>13 DEF Inv

\* A daemon that exits has given up port and lock.
LEMMA ExitKeepsInv == ASSUME Inv, NEW p \in Procs, Exit(p) PROVE Inv'
<1>1. pc[p] = "exiting" /\ \A q \in Procs \ {p} : pc'[q] = pc[q]
  BY Moved DEF Exit, Shutdown
<1>2. pc'[p] = "dead" /\ port' = Free(p)
  BY Moved DEF Exit
<1>3. UNCHANGED <<lock, config, tokenFile, cmd, saw, token, sig>>
  BY DEF Exit, files
<1>4. OneCommand'
  BY <1>1, <1>2, <1>3, Types DEF Inv, OneCommand, Busy, Alive, Ended, Closing
<1>5. LockHeld'
  BY <1>1, <1>2, <1>3, Types, LifecycleAssumption DEF Inv, LockHeld, Locked
<1>6. AloneStarting'
  BY <1>1, <1>2, <1>3, Types DEF Inv, AloneStarting, Beyond, Locked, Starting
<1>7. LockRead'
  BY <1>1, <1>2, <1>3, Types, LifecycleAssumption DEF Inv, LockRead, Starting
<1>8. SawDaemon'
  BY <1>1, <1>2, <1>3, Types DEF Inv, SawDaemon, Closing
<1>9. StopDone'
  BY <1>1, <1>2, <1>3, Types DEF Inv, StopDone, Serving
<1>10. TokenKept'
  BY <1>1, <1>2, <1>3, Types DEF Inv, TokenKept
<1>11. ConfigRead'
  BY <1>1, <1>2, <1>3, Types DEF Inv, ConfigRead, Starting
<1>12. StartNeverCollides'
  BY <1>1, <1>2, <1>3, Types DEF Inv, StartNeverCollides
<1>13. Always'
  BY ListeningKeepsAlways DEF Inv
<1> QED
  BY <1>4, <1>5, <1>6, <1>7, <1>8, <1>9, <1>10, <1>11, <1>12, <1>13 DEF Inv

\* A stop removes a lock only if its process is dead.
LEMMA StopCheckKeepsInv == ASSUME Inv, NEW p \in Procs, StopCheck(p) PROVE Inv'
<1>1. pc[p] = "check" /\ \A q \in Procs \ {p} : pc'[q] = pc[q]
  BY Moved DEF StopCheck, Shutdown
<1>2. \/ Alive(saw[p]) /\ pc'[p] = "polling" /\ lock' = lock
      \/ ~Alive(saw[p]) /\ pc'[p] = "stale" /\ lock' = Nobody
  BY Moved DEF StopCheck, IsPidAlive
<1>3. UNCHANGED <<config, tokenFile, port, cmd, saw, token>>
  BY DEF StopCheck, files
<1>4. \A q \in Procs \ {p} : pc[q] \notin Starting \cup {"polling"}
  BY <1>1, Alone DEF Starting
<1>5. OneCommand'
  BY <1>1, <1>2, <1>3, <1>4, Types DEF Inv, OneCommand, Busy, Alive, Ended, Closing
<1>6. LockHeld'
  BY <1>1, <1>2, <1>3, <1>4, Types, LifecycleAssumption DEF Inv, LockHeld, Locked, LockRead,
     Alive, Ended
<1>7. AloneStarting'
  BY <1>1, <1>2, <1>3, <1>4, Types DEF Inv, AloneStarting, Beyond, Locked, Starting, LockRead,
     LockHeld, Alive, Ended
<1>8. LockRead'
  BY <1>1, <1>2, <1>3, <1>4, Types, LifecycleAssumption DEF Inv, LockRead, Starting
<1>9. SawDaemon'
  BY <1>1, <1>2, <1>3, <1>4, Types DEF Inv, SawDaemon, Closing
<1>10. StopDone'
  BY <1>1, <1>2, <1>3, <1>4, Types DEF Inv, StopDone, Serving
<1>11. TokenKept'
  BY <1>1, <1>2, <1>3, <1>4, Types DEF Inv, TokenKept
<1>12. ConfigRead'
  BY <1>1, <1>2, <1>3, <1>4, Types DEF Inv, ConfigRead, Starting
<1>13. StartNeverCollides'
  BY <1>1, <1>2, <1>3, <1>4, Types DEF Inv, StartNeverCollides
<1>14. Always'
  BY OthersKeepAlways DEF Inv
<1> QED
  BY <1>5, <1>6, <1>7, <1>8, <1>9, <1>10, <1>11, <1>12, <1>13, <1>14 DEF Inv

\* A stop that finds no lock knows that the daemon it saw no longer serves.
LEMMA PollKeepsInv == ASSUME Inv, NEW p \in Procs, Poll(p) PROVE Inv'
<1>1. pc[p] = "polling" /\ \A q \in Procs \ {p} : pc'[q] = pc[q]
  BY Moved DEF Poll, Shutdown
<1>2. lock = Nobody /\ pc'[p] = "stopped"
  BY Moved DEF Poll
<1>3. UNCHANGED <<lock, config, tokenFile, port, cmd, saw, token, sig>>
  BY DEF Poll, files
<1>4. \A q \in Procs \ {p} : pc[q] \notin Starting \cup {"polling"}
  BY <1>1, Alone DEF Starting
<1>5. OneCommand'
  BY <1>1, <1>2, <1>3, <1>4, Types DEF Inv, OneCommand, Busy, Alive, Ended, Closing
<1>6. LockHeld'
  BY <1>1, <1>2, <1>3, <1>4, Types, LifecycleAssumption DEF Inv, LockHeld, Locked
<1>7. AloneStarting'
  BY <1>1, <1>2, <1>3, <1>4, Types DEF Inv, AloneStarting, Beyond, Locked, Starting
<1>8. LockRead'
  BY <1>1, <1>2, <1>3, <1>4, Types, LifecycleAssumption DEF Inv, LockRead, Starting
<1>9. SawDaemon'
  BY <1>1, <1>2, <1>3, <1>4, Types DEF Inv, SawDaemon, Closing
<1>10. StopDone'
  BY <1>1, <1>2, <1>3, <1>4, Types, LifecycleAssumption DEF Inv, StopDone, Serving, LockRead,
     LockHeld, Locked
<1>11. TokenKept'
  BY <1>1, <1>2, <1>3, <1>4, Types DEF Inv, TokenKept
<1>12. ConfigRead'
  BY <1>1, <1>2, <1>3, <1>4, Types DEF Inv, ConfigRead, Starting
<1>13. StartNeverCollides'
  BY <1>1, <1>2, <1>3, <1>4, Types DEF Inv, StartNeverCollides
<1>14. Always'
  BY OthersKeepAlways DEF Inv
<1> QED
  BY <1>5, <1>6, <1>7, <1>8, <1>9, <1>10, <1>11, <1>12, <1>13, <1>14 DEF Inv

\* A stop that gives up removes a lock only if its process is dead.
LEMMA GiveUpKeepsInv == ASSUME Inv, NEW p \in Procs, GiveUp(p) PROVE Inv'
<1>1. pc[p] = "polling" /\ \A q \in Procs \ {p} : pc'[q] = pc[q]
  BY Moved DEF GiveUp, Shutdown
<1>2. \/ Alive(saw[p]) /\ pc'[p] = "timeout" /\ lock' = lock
      \/ ~Alive(saw[p]) /\ pc'[p] = "stopped" /\ lock' = Nobody
  BY Moved DEF GiveUp, IsPidAlive
<1>3. UNCHANGED <<config, tokenFile, port, cmd, saw, token, sig>>
  BY DEF GiveUp, files
<1>4. \A q \in Procs \ {p} : pc[q] \notin Starting \cup {"polling"}
  BY <1>1, Alone DEF Starting
<1>5. OneCommand'
  BY <1>1, <1>2, <1>3, <1>4, Types DEF Inv, OneCommand, Busy, Alive, Ended, Closing
<1>6. LockHeld'
  BY <1>1, <1>2, <1>3, <1>4, Types, LifecycleAssumption DEF Inv, LockHeld, Locked, LockRead,
     Alive, Ended
<1>7. AloneStarting'
  BY <1>1, <1>2, <1>3, <1>4, Types DEF Inv, AloneStarting, Beyond, Locked, Starting, LockRead,
     LockHeld, Alive, Ended
<1>8. LockRead'
  BY <1>1, <1>2, <1>3, <1>4, Types, LifecycleAssumption DEF Inv, LockRead, Starting
<1>9. SawDaemon'
  BY <1>1, <1>2, <1>3, <1>4, Types DEF Inv, SawDaemon, Closing
<1>10. StopDone'
  BY <1>1, <1>2, <1>3, <1>4, Types, LifecycleAssumption DEF Inv, StopDone, Serving, LockRead,
     Alive, Ended
<1>11. TokenKept'
  BY <1>1, <1>2, <1>3, <1>4, Types DEF Inv, TokenKept
<1>12. ConfigRead'
  BY <1>1, <1>2, <1>3, <1>4, Types DEF Inv, ConfigRead, Starting
<1>13. StartNeverCollides'
  BY <1>1, <1>2, <1>3, <1>4, Types DEF Inv, StartNeverCollides
<1>14. Always'
  BY OthersKeepAlways DEF Inv
<1> QED
  BY <1>5, <1>6, <1>7, <1>8, <1>9, <1>10, <1>11, <1>12, <1>13, <1>14 DEF Inv

\* A status removes a lock only if its process is dead.
LEMMA StatusCheckKeepsInv == ASSUME Inv, NEW p \in Procs, StatusCheck(p) PROVE Inv'
<1>1. pc[p] = "check" /\ \A q \in Procs \ {p} : pc'[q] = pc[q]
  BY Moved DEF StatusCheck, Shutdown
<1>2. \/ Alive(saw[p]) /\ pc'[p] = "running" /\ lock' = lock
      \/ ~Alive(saw[p]) /\ pc'[p] = "stale" /\ lock' = Nobody
  BY Moved DEF StatusCheck, IsPidAlive
<1>3. UNCHANGED <<config, tokenFile, port, cmd, saw, token, sig>>
  BY DEF StatusCheck, files
<1>4. \A q \in Procs \ {p} : pc[q] \notin Starting \cup {"polling"}
  BY <1>1, Alone DEF Starting
<1>5. OneCommand'
  BY <1>1, <1>2, <1>3, <1>4, Types DEF Inv, OneCommand, Busy, Alive, Ended, Closing
<1>6. LockHeld'
  BY <1>1, <1>2, <1>3, <1>4, Types, LifecycleAssumption DEF Inv, LockHeld, Locked, LockRead,
     Alive, Ended
<1>7. AloneStarting'
  BY <1>1, <1>2, <1>3, <1>4, Types DEF Inv, AloneStarting, Beyond, Locked, Starting, LockRead,
     LockHeld, Alive, Ended
<1>8. LockRead'
  BY <1>1, <1>2, <1>3, <1>4, Types, LifecycleAssumption DEF Inv, LockRead, Starting
<1>9. SawDaemon'
  BY <1>1, <1>2, <1>3, <1>4, Types DEF Inv, SawDaemon, Closing
<1>10. StopDone'
  BY <1>1, <1>2, <1>3, <1>4, Types DEF Inv, StopDone, Serving
<1>11. TokenKept'
  BY <1>1, <1>2, <1>3, <1>4, Types DEF Inv, TokenKept
<1>12. ConfigRead'
  BY <1>1, <1>2, <1>3, <1>4, Types DEF Inv, ConfigRead, Starting
<1>13. StartNeverCollides'
  BY <1>1, <1>2, <1>3, <1>4, Types DEF Inv, StartNeverCollides
<1>14. Always'
  BY OthersKeepAlways DEF Inv
<1> QED
  BY <1>5, <1>6, <1>7, <1>8, <1>9, <1>10, <1>11, <1>12, <1>13, <1>14 DEF Inv

\* A process killed at any step leaves half a file only where it was writing.
LEMMA CrashKeepsInv == ASSUME Inv, NEW p \in Procs, Crash(p) PROVE Inv'
<1>1. \A q \in Procs \ {p} : pc'[q] = pc[q]
  BY Moved DEF Crash, Shutdown
<1>2. /\ Alive(p) /\ pc'[p] = "dead" /\ port' = Free(p)
      /\ lock' = lock \/ (pc[p] = "bound" /\ lock' = Torn)
      /\ config' = config \/ pc[p] \in {"default", "resolve"}
      /\ tokenFile' = tokenFile \/ pc[p] = "publish"
  BY Moved DEF Crash, Generates
<1>3. UNCHANGED <<cmd, saw, token, sig>>
  BY DEF Crash, files
<1>4. pc[p] \in Starting => \A q \in Procs \ {p} : pc[q] \notin Starting \cup {"polling"}
  BY Alone
<1>5. OneCommand'
  BY <1>1, <1>2, <1>3, <1>4, Types DEF Inv, OneCommand, Busy, Alive, Ended, Closing
<1>6. LockHeld'
  BY <1>1, <1>2, <1>3, <1>4, Types, LifecycleAssumption DEF Inv, LockHeld, Locked,
     AloneStarting, Beyond
<1>7. AloneStarting'
  BY <1>1, <1>2, <1>3, <1>4, Types DEF Inv, AloneStarting, Beyond, Locked, Starting
<1>8. LockRead'
  BY <1>1, <1>2, <1>3, <1>4, Types, LifecycleAssumption DEF Inv, LockRead, Starting
<1>9. SawDaemon'
  BY <1>1, <1>2, <1>3, <1>4, Types DEF Inv, SawDaemon, Closing
<1>10. StopDone'
  BY <1>1, <1>2, <1>3, <1>4, Types DEF Inv, StopDone, Serving
<1>11. TokenKept'
  BY <1>1, <1>2, <1>3, <1>4, Types DEF Inv, TokenKept, AloneStarting, Beyond, Locked, Starting
<1>12. ConfigRead'
  BY <1>1, <1>2, <1>3, <1>4, Types DEF Inv, ConfigRead, Starting
<1>13. StartNeverCollides'
  BY <1>1, <1>2, <1>3, <1>4, Types DEF Inv, StartNeverCollides
<1>14. Always'
  BY OthersKeepAlways DEF Inv
<1> QED
  BY <1>5, <1>6, <1>7, <1>8, <1>9, <1>10, <1>11, <1>12, <1>13, <1>14 DEF Inv

\* A command begins only when no other is at work.
LEMMA BeginKeepsInv ==
    ASSUME ~Overlap, Inv, NEW p \in Procs, NEW kind \in {"start", "stop", "status"},
           NEW env \in Env \cup {Unset}, Begin(p, kind, env)
    PROVE  Inv'
<1>1. pc[p] = "unborn" /\ pc'[p] = "read" /\ \A q \in Procs \ {p} : pc'[q] = pc[q]
  BY Moved DEF Begin
<1>2. UNCHANGED <<lock, config, tokenFile, port, saw, token, sig>>
  BY DEF Begin, files
<1>3. \A q \in Procs : ~Busy(q)
  BY DEF Begin
<1>4. OneCommand'
  BY <1>1, <1>3 DEF OneCommand, Busy, Alive
<1>5. LockHeld' /\ LockRead' /\ AloneStarting'
  BY <1>1, <1>2 DEF Inv, LockHeld, LockRead, AloneStarting, Beyond, Locked
<1>6. SawDaemon' /\ StopDone'
  BY <1>1, <1>2, Types DEF Inv, SawDaemon, StopDone, Serving, Closing
<1>7. TokenKept' /\ ConfigRead' /\ StartNeverCollides'
  BY <1>1, <1>2 DEF Inv, TokenKept, ConfigRead, StartNeverCollides
<1>8. Always'
  BY OthersKeepAlways DEF Inv
<1> QED
  BY <1>4, <1>5, <1>6, <1>7, <1>8 DEF Inv

\* A signal that is sent changes nothing until it is handled.
LEMMA InterruptKeepsInv == ASSUME Inv, NEW p \in Procs, Interrupt(p) PROVE Inv'
<1>1. UNCHANGED <<lock, config, tokenFile, port, pc, cmd, saw, token>>
  BY DEF Interrupt, files
<1>2. Always'
  BY InterruptKeepsAlways DEF Inv
<1>3. QED
  BY <1>1, <1>2 DEF Inv, OneCommand, LockHeld, AloneStarting, LockRead, SawDaemon,
                    StopDone, TokenKept, ConfigRead, StartNeverCollides,
                    Busy, Alive, Serving

\* Nothing runs and no file names a process at the start.
LEMMA InitInv == ASSUME Init PROVE Inv
<1>1. Always
  BY InitAlways
<1>2. \A p \in Procs : pc[p] = "unborn" /\ saw[p] = Nobody /\ lock # p /\ port # p
  BY LifecycleAssumption DEF Init
<1>3. OneCommand /\ LockHeld /\ AloneStarting /\ LockRead
  BY <1>2 DEF OneCommand, LockHeld, AloneStarting, LockRead, Busy, Alive, Locked,
     Beyond
<1>4. SawDaemon /\ StopDone /\ TokenKept /\ ConfigRead /\ StartNeverCollides
  BY <1>2 DEF SawDaemon, StopDone, TokenKept, ConfigRead, StartNeverCollides
<1> QED
  BY <1>1, <1>3, <1>4 DEF Inv

\* Every step keeps the invariant.
LEMMA NextKeepsInv == ASSUME ~Overlap, Inv, Next PROVE Inv'
BY BeginKeepsInv, ReadLockfileKeepsInv, StartCheckKeepsInv, ReadConfigKeepsInv,
   WriteDefaultKeepsInv, ResolveTokenKeepsInv, WriteTokenFileKeepsInv, BindKeepsInv,
   WriteLockKeepsInv, ServeKeepsInv, OnSignalKeepsInv, CloseReadsLockKeepsInv,
   CloseRemovesLockKeepsInv, ExitKeepsInv, StopCheckKeepsInv, PollKeepsInv, GiveUpKeepsInv,
   StatusCheckKeepsInv, InterruptKeepsInv, CrashKeepsInv DEF Next

\* So does a step that changes nothing.
LEMMA StutterKeepsInv == ASSUME Inv, UNCHANGED vars PROVE Inv'
<1>1. Always'
  BY NextKeepsAlways DEF Inv
<1>2. QED
  BY <1>1 DEF vars, files, Inv, OneCommand, LockHeld, AloneStarting, LockRead, SawDaemon, StopDone,
     TokenKept, ConfigRead, StartNeverCollides, Busy, Alive, Serving

\* The invariant holds when commands do not overlap.
THEOREM Invariance == ASSUME ~Overlap PROVE Spec => []Inv
<1>1. Init => Inv
  BY InitInv
<1>2. Inv /\ [Next]_vars => Inv'
  BY NextKeepsInv, StutterKeepsInv
<1> QED
  BY <1>1, <1>2, PTL DEF Spec

-----------------------------------------------------------------------------
(* The properties.                                                         *)

\* However many commands follow one another and wherever they are killed, the
\* daemon that serves is the one the lock names.
THEOREM DaemonFound == ASSUME ~Overlap PROVE Spec => []LiveDaemonHasLock
<1>1. Inv => LiveDaemonHasLock
  BY DEF Inv, LockHeld, Locked, LiveDaemonHasLock, Serving
<1> QED
  BY <1>1, Invariance, PTL

\* The token file holds the token of the daemon that serves (writeTokenFile).
THEOREM TokenCurrent == ASSUME ~Overlap PROVE Spec => []TokenInSync
<1>1. Inv => TokenInSync
  BY DEF Inv, TokenKept, TokenInSync, Serving
<1> QED
  BY <1>1, Invariance, PTL

\* A stop that claims success has stopped the process it names (stopDaemon).
THEOREM StopsTruthfully == ASSUME ~Overlap PROVE Spec => []StopTruthful
<1>1. Inv => StopTruthful
  <2>1. ASSUME Inv, NEW p \in Procs, pc[p] = "stopped" PROVE port # saw[p] /\ ~Serving(saw[p])
    <3>1. saw[p] \in Procs /\ pc[saw[p]] \in {"serving", "dead"} \cup Closing /\ ~Serving(saw[p])
      BY <2>1, Types DEF Inv, StopDone, SawDaemon
    <3>2. QED
      BY <2>1, <3>1 DEF Inv, Always, PortHeld, Listening, Serving, Closing
  <2> QED
    BY <2>1 DEF StopTruthful
<1> QED
  BY <1>1, Invariance, PTL

\* A start never finds the port taken (startDaemon, close).
THEOREM StartsSucceed == ASSUME ~Overlap PROVE Spec => []StartNeverCollides
<1>1. Inv => StartNeverCollides
  BY DEF Inv
<1> QED
  BY <1>1, Invariance, PTL

\* A persisted token is never replaced (resolveToken, loadOrCreateConfig).
THEOREM TokenStable == ASSUME ~Overlap PROVE Spec => TokenPersists
<1>1. ASSUME Inv, Next, config \in Tokens PROVE config' = config
  <2>1. config \notin {Nobody, Unset}
    BY <1>1, LifecycleAssumption DEF Tokens
  <2>2. ASSUME NEW p \in Procs,
  WriteDefault(p) \/ ResolveToken(p) \/ Crash(p) PROVE config' = config
    BY <1>1, <2>1, <2>2 DEF Inv, ConfigRead, WriteDefault, ResolveToken, Crash, Generates
  <2>3. ASSUME NEW p \in Procs, NEW kind, NEW env, Begin(p, kind, env) PROVE config' = config
    BY <2>3 DEF Begin, files
  <2>4. ASSUME NEW p \in Procs, \/ ReadLockfile(p) \/ StartCheck(p) \/ ReadConfig(p)
                                \/ WriteTokenFile(p) \/ Bind(p) \/ WriteLock(p) \/ Serve(p)
                                \/ OnSignal(p) \/ CloseReadsLock(p) \/ CloseRemovesLock(p)
                                \/ Exit(p) \/ StopCheck(p) \/ Poll(p) \/ GiveUp(p)
                                \/ StatusCheck(p) \/ Interrupt(p)
        PROVE  config' = config
    BY <2>4 DEF ReadLockfile, StartCheck, ReadConfig, WriteTokenFile, Bind, WriteLock, Serve,
       OnSignal,
                CloseReadsLock, CloseRemovesLock, Exit, StopCheck, Poll, GiveUp, StatusCheck,
                Interrupt, files
  <2>5. QED
    BY <1>1, <2>2, <2>3, <2>4 DEF Next
<1>2. Inv /\ [Next]_vars => [(config \in Tokens) => (config' = config)]_config
  BY <1>1 DEF vars, files
<1> QED
  BY <1>2, Invariance, PTL DEF Spec, TokenPersists

\* No command says that nothing runs while a daemon serves (stopDaemon,
\* getDaemonStatus).
THEOREM AbsenceTrue == ASSUME ~Overlap PROVE Spec => NoFalseAbsence
<1> DEFINE Truthful == \A p \in Procs : (Alive(p) /\ pc'[p] \in {"not running", "stale"})
                                             => ~\E q \in Procs : Serving(q)
<1>1. ASSUME Inv, NEW p \in Procs, ReadLockfile(p), pc'[p] = "not running", NEW q \in Procs, Serving(q)
      PROVE  FALSE
  <2>1. lock = q
    BY <1>1 DEF Inv, LockHeld, Locked, Serving
  <2>2. Goes(p, "check")
    BY <1>1, <2>1, LifecycleAssumption DEF ReadLockfile
  <2>3. pc'[p] = "check"
    BY <1>1, <2>2, Moved
  <2>4. QED
    BY <1>1, <2>3
<1>2. ASSUME Inv, NEW p \in Procs, StopCheck(p) \/ StatusCheck(p), pc'[p] = "stale",
             NEW q \in Procs, Serving(q)
      PROVE  FALSE
  <2>1. lock = q
    BY <1>2 DEF Inv, LockHeld, Locked, Serving
  <2>2. pc[p] = "check"
    BY <1>2 DEF StopCheck, StatusCheck
  <2>3. saw[p] = q
    BY <1>2, <2>1, <2>2, LifecycleAssumption DEF Inv, LockRead
  <2>4. Alive(saw[p])
    BY <1>2, <2>3 DEF Serving, Alive, Ended
  <2>5. Goes(p, "polling") \/ Goes(p, "running")
    BY <1>2, <2>4 DEF StopCheck, StatusCheck, IsPidAlive
  <2>6. QED
    BY <1>2, <2>5, Moved
<1>3. ASSUME Inv, NEW p \in Procs, NEW r \in Procs, p # r,
             Alive(p), \E to : Goes(r, to)
      PROVE  pc'[p] \notin {"not running", "stale"}
  BY <1>3, Moved DEF Alive, Ended
<1>4. ASSUME Inv, NEW r \in Procs, NEW kind, NEW env, Begin(r, kind, env) PROVE Truthful
  <2>1. pc'[r] = "read" /\ Goes(r, "read")
    BY <1>4, Moved DEF Begin
  <2>2. QED
    BY <1>3, <1>4, <2>1
<1>5. ASSUME Inv, NEW r \in Procs,
ReadLockfile(r) \/ StopCheck(r) \/ StatusCheck(r) PROVE Truthful
  <2>1. \E to : Goes(r, to) /\ pc'[r] = to
    BY <1>5, Moved DEF ReadLockfile, StopCheck, StatusCheck
  <2>2. ASSUME ReadLockfile(r) PROVE pc'[r] # "stale"
    <3>1. PICK to \in {"check", "config", "not running"} : Goes(r, to)
      BY <2>2 DEF ReadLockfile
    <3>2. QED
      BY <1>5, <3>1, Moved
  <2>3. ASSUME StopCheck(r) \/ StatusCheck(r) PROVE pc'[r] # "not running"
    <3>1. PICK to \in {"polling", "running", "stale"} : Goes(r, to)
      BY <2>3 DEF StopCheck, StatusCheck
    <3>2. QED
      BY <1>5, <3>1, Moved
  <2>4. QED
    BY <1>1, <1>2, <1>3, <1>5, <2>1, <2>2, <2>3
<1>6. ASSUME Inv, NEW r \in Procs,
             \/ StartCheck(r) \/ ReadConfig(r) \/ WriteDefault(r) \/ ResolveToken(r)
             \/ WriteTokenFile(r) \/ Bind(r) \/ WriteLock(r) \/ Serve(r) \/ OnSignal(r)
             \/ CloseReadsLock(r) \/ CloseRemovesLock(r) \/ Exit(r) \/ Poll(r) \/ GiveUp(r) \/ Crash(r)
      PROVE  Truthful
  <2>1. PICK to \in {"already", "config", "broken", "default", "resolve", "publish", "bind", "bound",
                     "collided", "locked", "serving", "closing", "unlocking", "exiting", "dead",
                     "stopped", "timeout"} : Goes(r, to)
    <3>1. CASE StartCheck(r) \/ ReadConfig(r) \/ WriteDefault(r) \/ ResolveToken(r) \/ WriteTokenFile(r)
      BY <3>1 DEF StartCheck, ReadConfig, WriteDefault, ResolveToken, WriteTokenFile
    <3>2. CASE Bind(r) \/ WriteLock(r) \/ Serve(r) \/ OnSignal(r) \/ Crash(r)
      BY <3>2 DEF Bind, WriteLock, Serve, OnSignal, Shutdown, Crash
    <3>3. CASE CloseReadsLock(r) \/ CloseRemovesLock(r) \/ Exit(r) \/ Poll(r) \/ GiveUp(r)
      BY <3>3 DEF CloseReadsLock, CloseRemovesLock, Exit, Poll, GiveUp
    <3>4. QED
      BY <1>6, <3>1, <3>2, <3>3
  <2>2. pc'[r] \notin {"not running", "stale"}
    BY <1>6, <2>1, Moved
  <2>3. QED
    BY <1>3, <1>6, <2>1, <2>2
<1>7. ASSUME Inv, NEW r \in Procs, Interrupt(r) PROVE pc' = pc
  BY <1>7 DEF Interrupt
<1>8. Inv /\ [Next]_vars => [Truthful]_pc
  BY <1>4, <1>5, <1>6, <1>7 DEF Next, vars
<1> QED
  BY <1>8, Invariance, PTL DEF Spec, NoFalseAbsence

===============================================================================
