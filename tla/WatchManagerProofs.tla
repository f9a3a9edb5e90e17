-------------------------- MODULE WatchManagerProofs --------------------------
(***************************************************************************)
(* Proofs about WatchManager, for any number of projects, watches, runs    *)
(* and changes.                                                            *)
(***************************************************************************)
EXTENDS WatchManager, FiniteSetTheorems, TLAPS

USE DEF SessionId, Request, None, Event, Version, Queue!Request

(***************************************************************************)
(* The strengthening.  A watch that has seen a change and not yet requested*)
(* a run after it holds the event, the timer or the flag that will lead to *)
(* one; otherwise its latest run was requested at the version there is.    *)
(* Only a live session may forget a flag that no run will pick up.         *)
(***************************************************************************)
ByAccepted == /\ \A r \in Request : by[r] # None => r <= last /\ by[r] <= started
              /\ \A p \in Project : sessions[p] <= started

FlagMeansRunning == \A s \in SessionId : (Live(s) /\ session[s].pending) => session[s].state = "running"

Owed(s) == "source" \in session[s].events \/ session[s].debounce \/ session[s].pending

Requested(s) == \E r \in Request : /\ CoveredBy(s, r)
                                   /\ status[r] = "settled" \/ session[s].run = r

Covered == \A s \in SessionId : Live(s) =>
              Owed(s) \/ tree[session[s].project] = session[s].base \/ Requested(s)

\* The run that a watch has not seen settle is the one its callbacks wait for.
RunKept == \A r \in Request : (by[r] # None /\ status[r] # "settled") => session[by[r]].run = r

\* The map files a session under its own project.
Filed == \A p \in Project : sessions[p] # None => session[sessions[p]].project = p

IInv == TypeOK /\ Filed /\ ByAccepted /\ FlagMeansRunning /\ Covered /\ RunKept

-----------------------------------------------------------------------------
(* Types                                                                   *)

LEMMA SomewhereType == Somewhere \in Project
BY BoundsAssumption DEF Somewhere

LEMMA SessionFields ==
    ASSUME NEW w \in Session
    PROVE  /\ w.project \in Project /\ w.base \in Nat
           /\ w.state \in {"idle", "running", "complete", "error"}
           /\ w.pending \in BOOLEAN /\ w.debounce \in BOOLEAN
           /\ w.run \in Request \cup {None} /\ w.events \subseteq Event
BY DEF Session

LEMMA EventsOnly ==
    ASSUME NEW w \in Session, NEW e, NEW v, v = [w EXCEPT !.events = e]
    PROVE  /\ v.project = w.project /\ v.base = w.base /\ v.state = w.state
           /\ v.pending = w.pending /\ v.debounce = w.debounce /\ v.run = w.run
BY DEF Session

LEMMA EventsOnlyEach ==
    ASSUME TypeOK,
           \A s \in SessionId : session'[s] = [session[s] EXCEPT !.events = session'[s].events]
    PROVE  \A s \in SessionId :
              /\ session'[s].project = session[s].project /\ session'[s].base = session[s].base
              /\ session'[s].state = session[s].state /\ session'[s].pending = session[s].pending
              /\ session'[s].debounce = session[s].debounce /\ session'[s].run = session[s].run
<1> SUFFICES ASSUME NEW s \in SessionId
             PROVE  /\ session'[s].project = session[s].project /\ session'[s].base = session[s].base
                    /\ session'[s].state = session[s].state /\ session'[s].pending = session[s].pending
                    /\ session'[s].debounce = session[s].debounce /\ session'[s].run = session[s].run
  OBVIOUS
<1>1. session[s] \in Session
  BY DEF TypeOK
<1>2. session'[s] = [session[s] EXCEPT !.events = session'[s].events]
  OBVIOUS
<1> HIDE DEF SessionId
<1> QED BY <1>1, <1>2, EventsOnly

LEMMA InitType == Init => TypeOK
<1> SUFFICES ASSUME Init PROVE TypeOK
  OBVIOUS
<1>1. NewSession(Somewhere) \in Session
  BY SomewhereType DEF Init, NewSession, Session
<1>2. session \in [SessionId -> Session] /\ \A s \in SessionId : session[s] = NewSession(Somewhere)
  BY <1>1 DEF Init
<1>3. \A s \in SessionId : session[s].state = "running" <=> session[s].run # None
  BY <1>2 DEF NewSession
<1>4. owner \in [Request -> Project]
  BY SomewhereType DEF Init
<1> QED BY <1>2, <1>3, <1>4, BoundsAssumption DEF Init, TypeOK

\* What an event changes.
LEMMA EmitType ==
    ASSUME TypeOK, NEW p, NEW e \in Event, Emit(p, e)
    PROVE  /\ session' \in [SessionId -> Session]
           /\ \A s \in SessionId :
                 /\ session'[s] = [session[s] EXCEPT !.events = session'[s].events]
                 /\ session'[s].events = IF sessions[p] = s THEN session[s].events \cup {e}
                                         ELSE session[s].events
<1>1. ASSUME NEW s \in SessionId
      PROVE  /\ session'[s] \in Session
             /\ session'[s] = [session[s] EXCEPT !.events = session'[s].events]
             /\ session'[s].events = IF sessions[p] = s THEN session[s].events \cup {e}
                                     ELSE session[s].events
  <2>1. session[s] \in Session
    BY DEF TypeOK
  <2>2. session'[s] = IF sessions[p] = s THEN [session[s] EXCEPT !.events = @ \cup {e}]
                      ELSE session[s]
    BY DEF Emit
  <2> QED BY <2>1, <2>2 DEF Session
<1>2. DOMAIN session' = SessionId /\ session' = [s \in SessionId |-> session'[s]]
  BY DEF Emit
<1> QED BY <1>1, <1>2

\* What a request changes.
LEMMA RunTestsEffect ==
    ASSUME TypeOK, NEW p \in Project, NEW a \in SessionId \cup {None}, RunTests(p, a)
    PROVE  /\ last + 1 \in Request /\ last' = last + 1
           /\ owner' \in [Request -> Project]
           /\ status' \in [Request -> {"none", "pending", "executing", "settled"}]
           /\ by' \in [Request -> SessionId \cup {None}]
           /\ seen' \in [Request -> Version]
           /\ status'[last + 1] = "pending" /\ by'[last + 1] = a /\ seen'[last + 1] = tree[p]
           /\ owner'[last + 1] = p
           /\ \A r \in Request \ {last + 1} : /\ status'[r] = status[r] /\ owner'[r] = owner[r]
                                             /\ by'[r] = by[r] /\ seen'[r] = seen[r]
<1>1. last + 1 \in Request /\ last' = last + 1
  BY BoundsAssumption DEF TypeOK, RunTests, Queue!Accept
<1>2. tree[p] \in Nat
  BY DEF TypeOK
<1>3. /\ owner' = [owner EXCEPT ![last + 1] = p]
      /\ status' = [status EXCEPT ![last + 1] = "pending"]
      /\ by' = [by EXCEPT ![last + 1] = a]
      /\ seen' = [seen EXCEPT ![last + 1] = tree[p]]
  BY DEF RunTests, Queue!Accept
<1>4. /\ owner \in [Request -> Project] /\ seen \in [Request -> Version]
      /\ status \in [Request -> {"none", "pending", "executing", "settled"}]
      /\ by \in [Request -> SessionId \cup {None}]
  BY DEF TypeOK
<1> QED BY <1>1, <1>2, <1>3, <1>4

\* What a step of the queue changes.
LEMMA QueueEffect ==
    ASSUME TypeOK, NEW r \in Request, Queue!Start(r) \/ Queue!Settle(r)
    PROVE  /\ status' \in [Request -> {"none", "pending", "executing", "settled"}]
           /\ last' = last /\ owner' = owner
           /\ \A q \in Request : status[q] = "settled" => status'[q] = "settled"
BY DEF TypeOK, Queue!Start, Queue!Settle

\* What runOnce makes of the session it is given.
LEMMA RunOnceEffect ==
    ASSUME TypeOK, NEW s \in SessionId, NEW rec \in Session, RunOnce(s, rec)
    PROVE  /\ session' \in [SessionId -> Session]
           /\ session'[s].project = rec.project /\ session'[s].base = rec.base
           /\ session'[s].state = "running" /\ session'[s].pending = FALSE
           /\ session'[s].run = last + 1
           /\ \A t \in SessionId \ {s} : session'[t] = session[t]
           /\ RunTests(rec.project, s) /\ rec.project \in Project
<1>1. last + 1 \in Request
  BY RunTestsEffect, SessionFields DEF RunOnce
<1>2. [rec EXCEPT !.state = "running", !.pending = FALSE, !.run = last + 1] \in Session
  BY <1>1 DEF Session
<1>3. session \in [SessionId -> Session]
  BY DEF TypeOK
<1> QED BY <1>1, <1>2, <1>3, SessionFields DEF RunOnce, Session

LEMMA RunOnceType ==
    ASSUME TypeOK, NEW s \in SessionId, NEW rec \in Session, RunOnce(s, rec),
           UNCHANGED <<registered, tree, sessions, started>>
    PROVE  TypeOK'
<1>1. /\ session' \in [SessionId -> Session]
      /\ \A t \in SessionId : session'[t].state = "running" <=> session'[t].run # None
  <2>1. last + 1 # None
    BY DEF TypeOK
  <2> QED BY <2>1, RunOnceEffect DEF TypeOK
<1>2. RunTests(rec.project, s) /\ rec.project \in Project
  BY RunOnceEffect
<1> HIDE DEF SessionId, Request, Version
<1>3. /\ last' \in 0 .. MaxRuns /\ owner' \in [Request -> Project]
      /\ status' \in [Request -> {"none", "pending", "executing", "settled"}]
      /\ by' \in [Request -> SessionId \cup {None}] /\ seen' \in [Request -> Version]
  BY <1>2, RunTestsEffect DEF Request
<1> QED BY <1>1, <1>3 DEF TypeOK

\* A step that leaves the queue alone and replaces one session.
LEMMA SetSessionType ==
    ASSUME TypeOK, NEW s \in SessionId, NEW rec \in Session,
           session' = [session EXCEPT ![s] = rec],
           rec.state = "running" <=> rec.run # None,
           UNCHANGED <<tree, queueVars, by, seen>>,
           registered' \subseteq Project, sessions' \in [Project -> SessionId \cup {None}],
           started' \in 0 .. MaxSessions
    PROVE  TypeOK'
<1>1. /\ session' \in [SessionId -> Session]
      /\ \A t \in SessionId : session'[t].state = "running" <=> session'[t].run # None
  BY DEF TypeOK
<1> QED BY <1>1 DEF TypeOK, queueVars

-----------------------------------------------------------------------------
(* The invariant is kept by runOnce, by a change of one session, by an event *)
(* and by the queue.                                                       *)

LEMMA RunOnceInv ==
    ASSUME IInv, NEW s \in SessionId, NEW rec \in Session,
           rec.project = session[s].project, Live(s),
           session[s].run = None \/ status[session[s].run] = "settled",
           RunOnce(s, rec), UNCHANGED <<registered, tree, sessions, started>>
    PROVE  IInv'
<1> TypeOK
  BY DEF IInv
<1>1. TypeOK'
  BY RunOnceType
<1>2. /\ last + 1 \in Request /\ last' = last + 1 /\ last \in Nat
      /\ status'[last + 1] = "pending" /\ by'[last + 1] = s /\ seen'[last + 1] = tree[rec.project]
      /\ \A r \in Request \ {last + 1} :
            status'[r] = status[r] /\ by'[r] = by[r] /\ seen'[r] = seen[r]
  <2>1. RunTests(rec.project, s) /\ rec.project \in Project
    BY RunOnceEffect
  <2>2. last \in Nat
    BY DEF TypeOK
  <2> QED BY <2>1, <2>2, RunTestsEffect
<1>3. /\ session'[s].project = session[s].project
      /\ session'[s].state = "running" /\ session'[s].run = last + 1
      /\ \A t \in SessionId \ {s} : session'[t] = session[t]
  BY RunOnceEffect
<1>4. \A t \in SessionId : Live(t)' <=> Live(t)
  BY <1>3 DEF Live
<1>4a. Filed'
  BY <1>3 DEF IInv, Filed, TypeOK
<1>5. ByAccepted'
  <2>1. s <= started
    BY SessionFields DEF IInv, ByAccepted, Live, TypeOK
  <2> QED BY <1>2, <2>1 DEF IInv, ByAccepted
<1>6. FlagMeansRunning'
  BY <1>3, <1>4 DEF IInv, FlagMeansRunning
<1>7. Covered'
  <2> SUFFICES ASSUME NEW t \in SessionId, Live(t)
               PROVE  (Owed(t) \/ tree[session[t].project] = session[t].base \/ Requested(t))'
    BY <1>4 DEF Covered
  <2>1. CASE t = s
    <3>1. /\ by'[last + 1] = s /\ seen'[last + 1] = tree'[session'[s].project]
          /\ session'[s].run = last + 1
      BY <1>2, <1>3
    <3>2. Requested(s)'
      BY <1>2, <3>1 DEF Requested, CoveredBy
    <3> QED BY <2>1, <3>2
  <2>2. CASE t # s
    <3>1. session'[t] = session[t] /\ tree' = tree
      BY <1>3, <2>2
    <3>2. \A r \in Request : CoveredBy(t, r) => r # last + 1
      BY <1>2 DEF IInv, ByAccepted, CoveredBy
    <3>3. Requested(t) => Requested(t)'
      BY <1>2, <3>1, <3>2 DEF Requested, CoveredBy
    <3> QED BY <3>1, <3>3 DEF IInv, Covered, Owed
  <2> QED BY <2>1, <2>2
<1>8. RunKept'
  <2> SUFFICES ASSUME NEW r \in Request, by'[r] # None, status'[r] # "settled"
               PROVE  session'[by'[r]].run = r
    BY DEF RunKept
  <2>1. CASE r = last + 1
    BY <1>2, <1>3, <2>1
  <2>2. CASE r # last + 1
    <3>1. session[by[r]].run = r /\ by'[r] = by[r] /\ status[r] # "settled" /\ by[r] # None
      BY <1>2, <2>2 DEF IInv, RunKept
    <3>2. by[r] # s
      BY <3>1
    <3>3. by[r] \in SessionId
      BY <3>1 DEF TypeOK
    <3> QED BY <1>3, <3>1, <3>2, <3>3
  <2> QED BY <2>1, <2>2
<1> QED BY <1>1, <1>4a, <1>5, <1>6, <1>7, <1>8 DEF IInv

LEMMA SetSessionInv ==
    ASSUME IInv, NEW s \in SessionId, NEW rec \in Session,
           session' = [session EXCEPT ![s] = rec],
           rec.project = session[s].project, rec.base = session[s].base,
           rec.state = "running" <=> rec.run # None,
           Live(s) => (rec.pending => rec.state = "running"),
           Live(s) => (Owed(s) => Owed(s)'),
           \/ rec.run = session[s].run
           \/ session[s].run # None /\ status[session[s].run] = "settled",
           UNCHANGED <<registered, tree, sessions, started, queueVars, by, seen>>
    PROVE  IInv'
<1> TypeOK
  BY DEF IInv
<1>1. TypeOK'
  BY SetSessionType DEF TypeOK
<1>2. session'[s] = rec /\ \A t \in SessionId \ {s} : session'[t] = session[t]
  BY DEF TypeOK
<1>3. UNCHANGED <<last, status, by, seen, tree, sessions, started>>
  BY DEF queueVars
<1>4. \A t \in SessionId : Live(t)' <=> Live(t)
  BY <1>2, <1>3 DEF Live
<1>4a. Filed'
  BY <1>2, <1>3 DEF IInv, Filed, TypeOK
<1>5. ByAccepted'
  BY <1>3 DEF IInv, ByAccepted
<1>6. FlagMeansRunning'
  BY <1>2, <1>4 DEF IInv, FlagMeansRunning
<1>7. Covered'
  <2> SUFFICES ASSUME NEW t \in SessionId, Live(t)
               PROVE  (Owed(t) \/ tree[session[t].project] = session[t].base \/ Requested(t))'
    BY <1>4 DEF Covered
  <2>1. Owed(t) \/ tree[session[t].project] = session[t].base \/ Requested(t)
    BY DEF IInv, Covered
  <2>2. CASE t = s
    <3>1. Requested(s) => Requested(s)'
      BY <1>2, <1>3 DEF Requested, CoveredBy
    <3> QED BY <1>2, <1>3, <2>1, <2>2, <3>1
  <2>3. CASE t # s
    BY <1>2, <1>3, <2>1, <2>3 DEF Owed, Requested, CoveredBy
  <2> QED BY <2>2, <2>3
<1>8. RunKept'
  <2> SUFFICES ASSUME NEW r \in Request, by[r] # None, status[r] # "settled"
               PROVE  session'[by[r]].run = r
    BY <1>3 DEF RunKept
  <2>1. session[by[r]].run = r /\ by[r] \in SessionId
    BY DEF IInv, RunKept, TypeOK
  <2> QED BY <1>2, <2>1
<1> QED BY <1>1, <1>4a, <1>5, <1>6, <1>7, <1>8 DEF IInv

\* A step that neither requests nor touches a session's own fields: an event,
\* a step of the queue, or a change of the registry.
LEMMA OutsideInv ==
    ASSUME IInv, TypeOK',
           UNCHANGED <<sessions, started, last, by, seen>>,
           \A s \in SessionId :
              /\ session'[s] = [session[s] EXCEPT !.events = session'[s].events]
              /\ "source" \in session[s].events => "source" \in session'[s].events,
           \A r \in Request : status[r] = "settled" => status'[r] = "settled",
           \A s \in SessionId :
              Live(s) => \/ tree'[session[s].project] = tree[session[s].project]
                         \/ "source" \in session'[s].events
    PROVE  IInv'
<1>1. \A s \in SessionId :
         /\ session'[s].project = session[s].project /\ session'[s].base = session[s].base
         /\ session'[s].state = session[s].state /\ session'[s].pending = session[s].pending
         /\ session'[s].debounce = session[s].debounce /\ session'[s].run = session[s].run
  BY EventsOnlyEach DEF IInv
<1>2. \A t \in SessionId : Live(t)' <=> Live(t)
  BY <1>1 DEF Live
<1>2a. Filed'
  BY <1>1 DEF IInv, Filed, TypeOK
<1>3. ByAccepted'
  BY DEF IInv, ByAccepted
<1>4. FlagMeansRunning'
  BY <1>1, <1>2 DEF IInv, FlagMeansRunning
<1>5. Covered'
  <2> SUFFICES ASSUME NEW t \in SessionId, Live(t)
               PROVE  (Owed(t) \/ tree[session[t].project] = session[t].base \/ Requested(t))'
    BY <1>2 DEF Covered
  <2>1. Owed(t) \/ tree[session[t].project] = session[t].base \/ Requested(t)
    BY DEF IInv, Covered
  <2>2. Owed(t) => Owed(t)'
    BY <1>1 DEF Owed
  <2>3. CASE "source" \in session'[t].events
    BY <2>3 DEF Owed
  <2>4. CASE tree'[session[t].project] = tree[session[t].project]
    <3>1. \A r \in Request : CoveredBy(t, r) => CoveredBy(t, r)'
      BY <1>1, <2>4 DEF CoveredBy
    <3>2. session'[t].run = session[t].run
      BY <1>1
    <3>3. Requested(t) => Requested(t)'
      BY <3>1, <3>2 DEF Requested
    <3> QED BY <1>1, <2>1, <2>2, <2>4, <3>3
  <2> QED BY <2>3, <2>4
<1>6. RunKept'
  <2> SUFFICES ASSUME NEW r \in Request, by[r] # None, status[r] # "settled"
               PROVE  session'[by[r]].run = r
    BY DEF RunKept
  <2>1. session[by[r]].run = r /\ by[r] \in SessionId
    BY DEF IInv, RunKept, TypeOK
  <2> QED BY <1>1, <2>1
<1> QED BY <1>2a, <1>3, <1>4, <1>5, <1>6 DEF IInv

-----------------------------------------------------------------------------
(* The actions keep the invariant.                                         *)

LEMMA InitInv == Init => IInv
<1> SUFFICES ASSUME Init PROVE IInv
  OBVIOUS
<1>1. TypeOK
  BY InitType
<1>2. \A s \in SessionId : ~Live(s)
  <2>1. ASSUME NEW s \in SessionId PROVE ~Live(s)
    <3>1. session[s].project \in Project
      BY <1>1, SessionFields DEF TypeOK
    <3> QED BY <3>1 DEF Live, Init
  <2> QED BY <2>1
<1> QED BY <1>1, <1>2 DEF Init, IInv, Filed, ByAccepted, FlagMeansRunning, Covered, RunKept

LEMMA WorldInv ==
    ASSUME IInv, NEW p \in Project,
           Change(p) \/ (\E r \in Request : StartRun(r) \/ RunWrites(r) \/ SettleRun(r))
    PROVE  IInv'
<1> TypeOK
  BY DEF IInv
<1>1. ASSUME NEW q \in Project, Change(q) PROVE IInv'
  <2>1. Emit(q, "source")
    BY <1>1 DEF Change
  <2>2. /\ session' \in [SessionId -> Session]
        /\ \A s \in SessionId :
              /\ session'[s] = [session[s] EXCEPT !.events = session'[s].events]
              /\ session'[s].events = IF sessions[q] = s THEN session[s].events \cup {"source"}
                                      ELSE session[s].events
    BY <2>1, EmitType
  <2>3. /\ tree' \in [Project -> Version]
        /\ \A o \in Project \ {q} : tree'[o] = tree[o]
    BY <1>1 DEF Change, TypeOK
  <2>4. \A s \in SessionId : session[s] \in Session
    BY DEF TypeOK
  <2>5. \A s \in SessionId : session'[s].state = "running" <=> session'[s].run # None
    <3>1. \A s \in SessionId : session'[s].state = session[s].state /\ session'[s].run = session[s].run
      BY <2>2, EventsOnlyEach
    <3> QED BY <3>1 DEF TypeOK
  <2>6. TypeOK'
    BY <1>1, <2>2, <2>3, <2>5 DEF Change, TypeOK, queueVars
  <2>7. \A s \in SessionId : Live(s) => \/ tree'[session[s].project] = tree[session[s].project]
                                       \/ "source" \in session'[s].events
    BY <2>2, <2>3, <2>4, SessionFields DEF Live
  <2> QED BY <1>1, <2>2, <2>6, <2>7, OutsideInv DEF Change, queueVars
<1>2. ASSUME NEW r \in Request, StartRun(r) PROVE IInv'
  <2>1. Queue!Start(r) /\ UNCHANGED <<registered, tree, sessions, session, started, by, seen>>
    BY <1>2 DEF StartRun, watchVars
  <2>2. /\ status' \in [Request -> {"none", "pending", "executing", "settled"}]
        /\ last' = last /\ owner' = owner
        /\ \A q \in Request : status[q] = "settled" => status'[q] = "settled"
    BY <2>1, QueueEffect
  <2>3. TypeOK'
    BY <2>1, <2>2 DEF TypeOK
  <2>4. \A s \in SessionId : session'[s] = [session[s] EXCEPT !.events = session'[s].events]
    BY <2>1 DEF TypeOK, Session
  <2> QED BY <2>1, <2>2, <2>3, <2>4, OutsideInv
<1>3. ASSUME NEW r \in Request, SettleRun(r) PROVE IInv'
  <2>1. /\ Queue!Settle(r) /\ Emit(owner[r], "ignored")
        /\ UNCHANGED <<registered, tree, sessions, started, by, seen>>
    BY <1>3 DEF SettleRun
  <2>2. /\ status' \in [Request -> {"none", "pending", "executing", "settled"}]
        /\ last' = last /\ owner' = owner
        /\ \A q \in Request : status[q] = "settled" => status'[q] = "settled"
    BY <2>1, QueueEffect
  <2>3. /\ session' \in [SessionId -> Session]
        /\ \A s \in SessionId :
              /\ session'[s] = [session[s] EXCEPT !.events = session'[s].events]
              /\ "source" \in session[s].events => "source" \in session'[s].events
    BY <2>1, EmitType
  <2>4. \A s \in SessionId : session'[s].state = "running" <=> session'[s].run # None
    <3>1. \A s \in SessionId : session'[s].state = session[s].state /\ session'[s].run = session[s].run
      BY <2>3, EventsOnlyEach
    <3> QED BY <3>1 DEF TypeOK
  <2>5. TypeOK'
    BY <2>1, <2>2, <2>3, <2>4 DEF TypeOK
  <2> QED BY <2>1, <2>2, <2>3, <2>5, OutsideInv
<1>4. ASSUME NEW r \in Request, RunWrites(r) PROVE IInv'
  <2>1. Change(owner[r]) /\ owner[r] \in Project
    BY <1>4 DEF RunWrites, TypeOK
  <2> QED BY <1>1, <2>1
<1> QED BY <1>1, <1>2, <1>3, <1>4

LEMMA SessionStepInv ==
    ASSUME IInv, NEW s \in SessionId, SessionStep(s)
    PROVE  IInv'
<1> TypeOK
  BY DEF IInv
<1> DEFINE w == session[s]
<1>0. w \in Session /\ (w.state = "running" <=> w.run # None)
  BY DEF TypeOK
<1>1. ASSUME NEW e \in Event, Notice(s, e) PROVE IInv'
  <2> DEFINE rec == [w EXCEPT !.events = @ \ {e}, !.debounce = @ \/ ~Ignored(e)]
  <2>1. /\ session' = [session EXCEPT ![s] = rec]
        /\ UNCHANGED <<registered, tree, sessions, started, queueVars, by, seen>>
    BY <1>1 DEF Notice
  <2>2. /\ rec \in Session /\ rec.project = w.project /\ rec.base = w.base
        /\ rec.state = w.state /\ rec.pending = w.pending /\ rec.run = w.run
        /\ rec.events = w.events \ {e} /\ rec.debounce = (w.debounce \/ ~Ignored(e))
    BY <1>0 DEF Session, Ignored
  <2>3. session'[s] = rec
    BY <2>1 DEF TypeOK
  <2>4. Owed(s) => Owed(s)'
    BY <2>2, <2>3 DEF Owed, Ignored
  <2>5. Live(s) => (rec.pending => rec.state = "running")
    BY <2>2 DEF IInv, FlagMeansRunning
  <2> HIDE DEF rec
  <2> QED BY <1>0, <2>1, <2>2, <2>4, <2>5, SetSessionInv
<1>2. ASSUME Fire(s) PROVE IInv'
  <2> DEFINE rec == [w EXCEPT !.debounce = FALSE]
             late == [rec EXCEPT !.pending = TRUE]
  <2>1. Live(s) /\ Trigger(s, rec) /\ UNCHANGED <<registered, tree, sessions, started>>
    BY <1>2 DEF Fire
  <2>2. /\ rec \in Session /\ rec.project = w.project /\ rec.base = w.base
        /\ rec.state = w.state /\ rec.run = w.run
    BY <1>0 DEF Session
  <2>3. CASE rec.state = "running"
    <3>1. session' = [session EXCEPT ![s] = late] /\ UNCHANGED <<queueVars, by, seen>>
      BY <2>1, <2>3 DEF Trigger
    <3>2. /\ late \in Session /\ late.project = w.project /\ late.base = w.base
          /\ late.state = w.state /\ late.run = w.run /\ late.pending = TRUE
      BY <1>0 DEF Session
    <3>3. Owed(s)'
      BY <3>1, <3>2 DEF Owed, TypeOK
    <3> HIDE DEF late
    <3> QED BY <1>0, <2>1, <2>2, <2>3, <3>1, <3>2, <3>3, SetSessionInv
  <2>4. CASE rec.state # "running"
    <3>1. RunOnce(s, rec)
      BY <2>1, <2>4 DEF Trigger
    <3>2. session[s].run = None
      BY <1>0, <2>2, <2>4
    <3> HIDE DEF rec
    <3> QED BY <2>1, <2>2, <3>1, <3>2, RunOnceInv
  <2> QED BY <2>3, <2>4
<1>3. ASSUME RunSettled(s) PROVE IInv'
  <2>1. PICK outcome \in {"complete", "error"} : Finally(s, [w EXCEPT !.state = outcome])
    BY <1>3 DEF RunSettled
  <2> DEFINE rec == [w EXCEPT !.state = outcome]
             rest == [rec EXCEPT !.run = None]
  <2>2. /\ w.run # None /\ status[w.run] = "settled"
        /\ UNCHANGED <<registered, tree, sessions, started>>
    BY <1>3 DEF RunSettled
  <2>3. rec \in Session /\ rec.project = w.project
    BY <1>0 DEF Session
  <2>4. CASE Continues(s)
    <3>1. RunOnce(s, rec) /\ Live(s)
      BY <2>1, <2>4 DEF Finally, Continues
    <3> HIDE DEF rec
    <3> QED BY <2>2, <2>3, <3>1, RunOnceInv
  <2>5. CASE ~Continues(s)
    <3>1. session' = [session EXCEPT ![s] = rest] /\ UNCHANGED <<queueVars, by, seen>>
      BY <2>1, <2>5 DEF Finally
    <3>2. /\ rest \in Session /\ rest.project = w.project /\ rest.base = w.base
          /\ rest.state = outcome /\ rest.run = None /\ rest.pending = w.pending
          /\ rest.debounce = w.debounce /\ rest.events = w.events
      BY <1>0 DEF Session
    <3>3. Owed(s) => Owed(s)'
      BY <3>1, <3>2 DEF Owed, TypeOK
    <3>4. Live(s) => ~w.pending
      BY <2>5 DEF Continues
    <3> HIDE DEF rest
    <3> QED BY <2>2, <3>1, <3>2, <3>3, <3>4, SetSessionInv
  <2> QED BY <2>4, <2>5
<1> QED BY <1>1, <1>2, <1>3 DEF SessionStep

LEMMA RegistryInv ==
    ASSUME IInv, NEW p \in Project, Register(p) \/ Unregister(p)
    PROVE  IInv'
<1>1. /\ registered' \subseteq Project
      /\ UNCHANGED <<tree, sessions, session, started, last, owner, status, by, seen>>
  BY DEF IInv, TypeOK, Register, Unregister, watchVars, queueVars
<1>2. TypeOK'
  BY <1>1 DEF IInv, TypeOK
<1>3. \A s \in SessionId : session'[s] = [session[s] EXCEPT !.events = session'[s].events]
  BY <1>1 DEF IInv, TypeOK, Session
<1> QED BY <1>1, <1>2, <1>3, OutsideInv

LEMMA StartWatchInv ==
    ASSUME IInv, NEW p \in Project, StartWatch(p)
    PROVE  IInv'
<1> TypeOK
  BY DEF IInv
<1> DEFINE n == started + 1
           fresh == NewSession(p)
<1>1. /\ n \in SessionId /\ started' = n /\ sessions[p] = None
      /\ sessions' = [sessions EXCEPT ![p] = n] /\ session' = [session EXCEPT ![n] = fresh]
      /\ UNCHANGED <<registered, tree, last, owner, status, by, seen>>
  BY BoundsAssumption DEF StartWatch, TypeOK, queueVars
<1>2. /\ fresh \in Session /\ fresh.project = p /\ fresh.base = tree[p]
      /\ fresh.state = "idle" /\ fresh.run = None /\ fresh.pending = FALSE
  BY DEF NewSession, Session, TypeOK
<1> HIDE DEF fresh
<1>3. session'[n] = fresh /\ \A s \in SessionId \ {n} : session'[s] = session[s]
  BY <1>1 DEF TypeOK
<1>4. sessions' \in [Project -> SessionId \cup {None}] /\ started' \in 0 .. MaxSessions
  BY <1>1, BoundsAssumption DEF TypeOK
<1>5. TypeOK'
  BY <1>1, <1>2, <1>4, SetSessionType DEF TypeOK, queueVars
<1>6. \A s \in SessionId \ {n} : Live(s)' => Live(s) /\ session'[s] = session[s]
  <2>1. ASSUME NEW s \in SessionId, s # n, Live(s)' PROVE Live(s)
    <3>1. session[s].project \in Project
      BY SessionFields DEF TypeOK
    <3>2. sessions'[session[s].project] = s
      BY <1>3, <2>1 DEF Live
    <3>3. sessions'[session[s].project] =
             IF session[s].project = p THEN n ELSE sessions[session[s].project]
      BY <1>1, <3>1 DEF TypeOK
    <3> QED BY <2>1, <3>2, <3>3 DEF Live
  <2> QED BY <1>3, <2>1
<1>7. \A r \in Request : by[r] # n
  BY BoundsAssumption DEF IInv, ByAccepted, TypeOK
<1>8. ByAccepted'
  <2>1. ASSUME NEW q \in Project PROVE sessions'[q] <= started'
    <3>1. sessions[q] <= started /\ sessions[q] \in Int /\ started \in Int
      BY DEF IInv, ByAccepted, TypeOK
    <3> QED BY <1>1, <3>1 DEF TypeOK
  <2>2. ASSUME NEW r \in Request, by[r] # None PROVE r <= last /\ by[r] <= started'
    <3>1. r <= last /\ by[r] <= started /\ by[r] \in Int /\ started \in Int
      BY <2>2 DEF IInv, ByAccepted, TypeOK
    <3> QED BY <1>1, <3>1
  <2> QED BY <1>1, <2>1, <2>2 DEF ByAccepted
<1>8a. Filed'
  <2>1. ASSUME NEW q \in Project, sessions'[q] # None PROVE session'[sessions'[q]].project = q
    <3>1. CASE q = p
      BY <1>1, <1>2, <1>3, <3>1 DEF TypeOK
    <3>2. CASE q # p
      <4>1. sessions'[q] = sessions[q] /\ sessions[q] \in SessionId /\ sessions[q] # n
        <5>1. sessions'[q] = sessions[q]
          BY <1>1, <3>2 DEF TypeOK
        <5>2. sessions[q] \in SessionId
          BY <2>1, <5>1 DEF TypeOK
        <5>3. sessions[q] <= started /\ started \in Nat
          BY DEF IInv, ByAccepted, TypeOK
        <5> QED BY <5>1, <5>2, <5>3
      <4>2. session[sessions[q]].project = q
        BY <2>1, <4>1 DEF IInv, Filed
      <4> QED BY <1>3, <4>1, <4>2
    <3> QED BY <3>1, <3>2
  <2> QED BY <2>1 DEF Filed
<1>9. FlagMeansRunning'
  BY <1>2, <1>3, <1>6 DEF IInv, FlagMeansRunning
<1>10. Covered'
  <2>1. ASSUME NEW s \in SessionId, s # n, Live(s)'
        PROVE  (Owed(s) \/ tree[session[s].project] = session[s].base \/ Requested(s))'
    <3>1. Owed(s) \/ tree[session[s].project] = session[s].base \/ Requested(s)
      BY <1>6, <2>1 DEF IInv, Covered
    <3> QED BY <1>1, <1>3, <2>1, <3>1 DEF Owed, Requested, CoveredBy
  <2>2. tree'[session'[n].project] = session'[n].base
    BY <1>1, <1>2, <1>3
  <2> QED BY <2>1, <2>2 DEF Covered
<1>11. RunKept'
  BY <1>1, <1>3, <1>7 DEF IInv, RunKept, TypeOK
<1> QED BY <1>5, <1>8, <1>8a, <1>9, <1>10, <1>11 DEF IInv

\* Sessions that stop keep what their callbacks need, and those that go on are
\* as before.
LEMMA StopsInv ==
    ASSUME IInv,
           session' \in [SessionId -> Session],
           sessions' \in [Project -> SessionId \cup {None}],
           \A p \in Project : sessions'[p] \in {sessions[p], None},
           \A s \in SessionId : /\ session'[s].project = session[s].project
                                /\ session'[s].state = session[s].state
                                /\ session'[s].run = session[s].run
                                /\ Live(s)' => session'[s] = session[s],
           UNCHANGED <<registered, tree, started, queueVars, by, seen>>
    PROVE  IInv'
<1> TypeOK
  BY DEF IInv
<1>1. UNCHANGED <<registered, tree, started, last, owner, status, by, seen>>
  BY DEF queueVars
<1>2. \A s \in SessionId : session[s].project \in Project
  BY SessionFields DEF TypeOK
<1>3. \A s \in SessionId : Live(s)' => Live(s)
  <2>1. ASSUME NEW s \in SessionId, Live(s)' PROVE Live(s)
    <3>1. sessions'[session[s].project] = s
      BY <2>1 DEF Live
    <3>2. s # None
      BY DEF SessionId, None
    <3> QED BY <1>2, <3>1, <3>2 DEF Live
  <2> QED BY <2>1
<1>4. TypeOK'
  BY <1>1 DEF TypeOK
<1>5. ByAccepted'
  <2>1. ASSUME NEW p \in Project PROVE sessions'[p] <= started'
    <3>1. sessions[p] <= started /\ None <= started
      BY DEF IInv, ByAccepted, TypeOK, None
    <3> QED BY <1>1, <3>1
  <2> QED BY <1>1, <2>1 DEF IInv, ByAccepted
<1>5a. Filed'
  BY DEF IInv, Filed, TypeOK
<1>6. FlagMeansRunning'
  <2>1. ASSUME NEW s \in SessionId, Live(s)' PROVE session'[s].pending => session'[s].state = "running"
    BY <1>3, <2>1 DEF IInv, FlagMeansRunning
  <2> QED BY <2>1 DEF FlagMeansRunning
<1>7. Covered'
  <2>1. ASSUME NEW s \in SessionId, Live(s)'
        PROVE  (Owed(s) \/ tree[session[s].project] = session[s].base \/ Requested(s))'
    <3>1. Owed(s) \/ tree[session[s].project] = session[s].base \/ Requested(s)
      BY <1>3, <2>1 DEF IInv, Covered
    <3>2. session'[s] = session[s]
      BY <2>1
    <3>3. Owed(s) => Owed(s)'
      BY <3>2 DEF Owed
    <3>4. Requested(s) => Requested(s)'
      BY <1>1, <3>2 DEF Requested, CoveredBy
    <3> QED BY <1>1, <3>1, <3>2, <3>3, <3>4
  <2> QED BY <2>1 DEF Covered
<1>8. RunKept'
  <2> SUFFICES ASSUME NEW r \in Request, by[r] # None, status[r] # "settled"
               PROVE  session'[by[r]].run = r
    BY <1>1 DEF RunKept
  <2>1. session[by[r]].run = r /\ by[r] \in SessionId
    BY DEF IInv, RunKept, TypeOK
  <2> QED BY <2>1
<1> QED BY <1>4, <1>5, <1>5a, <1>6, <1>7, <1>8 DEF IInv

LEMMA StopWatchInv ==
    ASSUME IInv, NEW p \in Project, StopWatch(p)
    PROVE  IInv'
<1> TypeOK
  BY DEF IInv
<1>0. sessions[p] \in SessionId
  BY DEF StopWatch, TypeOK
<1>a. PICK n \in SessionId : n = sessions[p]
  BY <1>0
<1> DEFINE rec == Stopped(n)
<1>1. /\ session' = [session EXCEPT ![n] = rec]
      /\ sessions' = [sessions EXCEPT ![p] = None]
      /\ UNCHANGED <<registered, tree, started, queueVars, by, seen>>
  BY <1>a DEF StopWatch
<1>2. /\ rec \in Session /\ rec.project = session[n].project
      /\ rec.state = session[n].state /\ rec.run = session[n].run
  <2>1. session[n] \in Session
    BY <1>1 DEF TypeOK
  <2> QED BY <2>1 DEF Stopped, Session
<1>3. sessions[p] = n /\ session[n].project = p
  BY <1>a DEF IInv, Filed
<1> HIDE DEF rec
<1>4. session'[n] = rec /\ \A s \in SessionId \ {n} : session'[s] = session[s]
  BY <1>1 DEF TypeOK
<1>5. session' \in [SessionId -> Session]
  BY <1>1, <1>2 DEF TypeOK
<1>6. /\ sessions' \in [Project -> SessionId \cup {None}]
      /\ \A q \in Project : sessions'[q] \in {sessions[q], None}
      /\ sessions'[p] = None
  BY <1>1 DEF TypeOK
<1>7. \A s \in SessionId : /\ session'[s].project = session[s].project
                           /\ session'[s].state = session[s].state
                           /\ session'[s].run = session[s].run
  BY <1>2, <1>4
<1>8. ~Live(n)'
  BY <1>1, <1>3, <1>6, <1>7 DEF Live
<1>9. \A s \in SessionId : Live(s)' => session'[s] = session[s]
  BY <1>4, <1>8
<1> HIDE DEF SessionId
<1> QED BY <1>1, <1>5, <1>6, <1>7, <1>9, StopsInv

LEMMA StopAllInv ==
    ASSUME IInv, StopAll
    PROVE  IInv'
<1> TypeOK
  BY DEF IInv
<1>1. /\ session' = [s \in SessionId |-> IF Live(s) THEN Stopped(s) ELSE session[s]]
      /\ sessions' = [p \in Project |-> None]
      /\ UNCHANGED <<registered, tree, started, queueVars, by, seen>>
  BY DEF StopAll
<1>2. \A s \in SessionId : /\ Stopped(s) \in Session /\ Stopped(s).project = session[s].project
                           /\ Stopped(s).state = session[s].state
                           /\ Stopped(s).run = session[s].run
  <2>1. ASSUME NEW s \in SessionId
        PROVE  /\ Stopped(s) \in Session /\ Stopped(s).project = session[s].project
               /\ Stopped(s).state = session[s].state /\ Stopped(s).run = session[s].run
    <3>1. session[s] \in Session
      BY DEF TypeOK
    <3> QED BY <3>1 DEF Stopped, Session
  <2> QED BY <2>1
<1>3. /\ session' \in [SessionId -> Session]
      /\ \A s \in SessionId : /\ session'[s].project = session[s].project
                              /\ session'[s].state = session[s].state
                              /\ session'[s].run = session[s].run
  BY <1>1, <1>2 DEF TypeOK
<1>4. /\ sessions' \in [Project -> SessionId \cup {None}]
      /\ \A q \in Project : sessions'[q] \in {sessions[q], None} /\ sessions'[q] = None
  BY <1>1
<1>5. \A s \in SessionId : ~Live(s)'
  <2>1. ASSUME NEW s \in SessionId PROVE ~Live(s)'
    <3>1. session'[s].project \in Project
      BY <1>3, SessionFields
    <3> QED BY <1>4, <3>1 DEF Live
  <2> QED BY <2>1
<1> HIDE DEF SessionId
<1> QED BY <1>1, <1>3, <1>4, <1>5, StopsInv

\* A run that no watch requested.
LEMMA RunTestsToolInv ==
    ASSUME IInv, NEW p \in Project, RunTestsTool(p)
    PROVE  IInv'
<1> TypeOK
  BY DEF IInv
<1>1. /\ RunTests(p, None)
      /\ UNCHANGED <<registered, tree, sessions, session, started>>
  BY DEF RunTestsTool, watchVars
<1>2. /\ last + 1 \in Request /\ last' = last + 1 /\ last \in Nat
      /\ status'[last + 1] = "pending" /\ by'[last + 1] = None
      /\ \A r \in Request \ {last + 1} :
            status'[r] = status[r] /\ by'[r] = by[r] /\ seen'[r] = seen[r]
  <2>1. last \in Nat
    BY DEF TypeOK
  <2> QED BY <1>1, <2>1, RunTestsEffect
<1>3. /\ last' \in 0 .. MaxRuns /\ owner' \in [Request -> Project]
      /\ status' \in [Request -> {"none", "pending", "executing", "settled"}]
      /\ by' \in [Request -> SessionId \cup {None}] /\ seen' \in [Request -> Version]
  BY <1>1, RunTestsEffect
<1>4. TypeOK'
  BY <1>1, <1>3 DEF TypeOK
<1>5. ByAccepted'
  BY <1>1, <1>2 DEF IInv, ByAccepted
<1>6. Filed' /\ FlagMeansRunning'
  BY <1>1 DEF IInv, Filed, FlagMeansRunning, Live
<1>7. Covered'
  <2> SUFFICES ASSUME NEW t \in SessionId, Live(t)
               PROVE  (Owed(t) \/ tree[session[t].project] = session[t].base \/ Requested(t))'
    BY <1>1 DEF Covered, Live
  <2>1. \A r \in Request : CoveredBy(t, r) => r # last + 1
    BY <1>2 DEF IInv, ByAccepted, CoveredBy
  <2>2. Requested(t) => Requested(t)'
    BY <1>1, <1>2, <2>1 DEF Requested, CoveredBy
  <2> QED BY <1>1, <2>2 DEF IInv, Covered, Owed
<1>8. RunKept'
  BY <1>1, <1>2 DEF IInv, RunKept
<1> QED BY <1>4, <1>5, <1>6, <1>7, <1>8 DEF IInv

LEMMA NextInv == IInv /\ [Next]_vars => IInv'
<1> SUFFICES ASSUME IInv, [Next]_vars PROVE IInv'
  OBVIOUS
<1>1. ASSUME NEW p \in Project,
             Change(p) \/ Register(p) \/ Unregister(p) \/ StartWatch(p) \/ StopWatch(p) \/ RunTestsTool(p)
      PROVE  IInv'
  BY <1>1, WorldInv, RegistryInv, StartWatchInv, StopWatchInv, RunTestsToolInv
<1>2. ASSUME \E r \in Request : StartRun(r) \/ RunWrites(r) \/ SettleRun(r) PROVE IInv'
  <2>1. PICK p \in Project : TRUE
    BY BoundsAssumption
  <2> QED BY <1>2, <2>1, WorldInv
<1>3. ASSUME NEW s \in SessionId, SessionStep(s) PROVE IInv'
  BY <1>3, SessionStepInv
<1>4. CASE StopAll
  BY <1>4, StopAllInv
<1>5. CASE UNCHANGED vars
  BY <1>5 DEF vars, watchVars, queueVars, IInv, TypeOK, Filed, ByAccepted, FlagMeansRunning, Covered,
              RunKept, Live, Owed, Requested, CoveredBy
<1> QED BY <1>1, <1>2, <1>3, <1>4, <1>5 DEF Next

LEMMA Invariance == Spec => []IInv
<1>1. Init => IInv
  BY InitInv
<1>2. IInv /\ [Next]_vars => IInv'
  BY NextInv
<1> QED BY <1>1, <1>2, PTL DEF Spec

-----------------------------------------------------------------------------
(* Every run of a watch is paid for by a change.  A change gives the watch  *)
(* of its project one token, the event; the token becomes the timer, then  *)
(* the flag or a run, and is never copied on the way.                      *)

Bit(b) == IF b THEN 1 ELSE 0

Tokens(w) == Bit("source" \in w.events) + Bit(w.debounce) + Bit(w.pending)

TokensOf(p) == IF sessions[p] = None THEN 0 ELSE Tokens(session[sessions[p]])

WatchRuns(p) == {r \in 1 .. last : owner[r] = p /\ by[r] # None}

Paid == \A p \in Project : Cardinality(WatchRuns(p)) + TokensOf(p) <= tree[p]

LEMMA BitType == \A b : Bit(b) \in 0 .. 1
BY DEF Bit

LEMMA TokensType == \A w : Tokens(w) \in 0 .. 3
BY BitType DEF Tokens

LEMMA TokensOfType == \A p \in Project : TokensOf(p) \in 0 .. 3
BY TokensType DEF TokensOf

LEMMA WatchRunsFinite ==
    ASSUME TypeOK, NEW p \in Project
    PROVE  IsFiniteSet(WatchRuns(p)) /\ Cardinality(WatchRuns(p)) \in Nat
<1>0. last \in Int /\ 1 \in Int
  BY DEF TypeOK
<1>1. IsFiniteSet(1 .. last)
  BY <1>0, FS_Interval
<1>2. WatchRuns(p) \in SUBSET (1 .. last)
  BY DEF WatchRuns
<1>3. IsFiniteSet(WatchRuns(p))
  BY <1>1, <1>2, FS_Subset
<1> QED BY <1>3, FS_CardinalityType

\* A step that requests no run and adds no more tokens than changes.
LEMMA QuietPaid ==
    ASSUME TypeOK, Paid, UNCHANGED <<last, owner, by>>, tree' \in [Project -> Nat],
           \A p \in Project : TokensOf(p)' - TokensOf(p) <= tree'[p] - tree[p]
    PROVE  Paid'
<1> SUFFICES ASSUME NEW p \in Project
             PROVE  Cardinality(WatchRuns(p)') + TokensOf(p)' <= tree'[p]
  BY DEF Paid
<1>1. WatchRuns(p)' = WatchRuns(p)
  BY DEF WatchRuns
<1>2. Cardinality(WatchRuns(p)) \in Nat
  BY WatchRunsFinite
<1>3. TokensOf(p) \in Int /\ tree[p] \in Int /\ tree'[p] \in Int
  <2>1. TokensOf(p) \in 0 .. 3
    BY TokensOfType
  <2>2. tree \in [Project -> Nat]
    BY DEF TypeOK
  <2> QED BY <2>1, <2>2
<1>4. TokensOf(p)' \in Int
  BY TokensType DEF TokensOf
<1>5. TokensOf(p)' - TokensOf(p) <= tree'[p] - tree[p]
  OBVIOUS
<1>6. Cardinality(WatchRuns(p)) + TokensOf(p) <= tree[p]
  BY DEF Paid
<1> HIDE DEF Version
<1> QED BY <1>1, <1>2, <1>3, <1>4, <1>5, <1>6

\* A run that a watch requests takes one of its tokens.
LEMMA RunOncePaid ==
    ASSUME IInv, Paid, NEW s \in SessionId, NEW rec \in Session,
           rec.project = session[s].project, Live(s),
           Tokens([rec EXCEPT !.pending = FALSE]) < Tokens(session[s]),
           RunOnce(s, rec), UNCHANGED <<registered, tree, sessions, started>>
    PROVE  Paid'
<1> TypeOK
  BY DEF IInv
<1> DEFINE p == rec.project
<1>1. /\ RunTests(p, s) /\ p \in Project
      /\ \A t \in SessionId \ {s} : session'[t] = session[t]
  BY RunOnceEffect
<1>2. sessions[p] = s
  BY DEF Live
<1>3. Tokens(session'[s]) < Tokens(session[s])
  <2>1. session'[s] = [rec EXCEPT !.state = "running", !.pending = FALSE, !.run = last + 1]
    BY DEF RunOnce, TypeOK
  <2>2. Tokens(session'[s]) = Tokens([rec EXCEPT !.pending = FALSE])
    BY <2>1 DEF Tokens, Session
  <2> QED BY <2>2
<1> HIDE DEF p
<1>4. /\ last \in Nat /\ last' = last + 1 /\ by'[last + 1] = s /\ owner'[last + 1] = p
      /\ \A r \in Request \ {last + 1} : by'[r] = by[r] /\ owner'[r] = owner[r]
      /\ last + 1 \in Request
  BY <1>1, RunTestsEffect DEF TypeOK
<1> SUFFICES ASSUME NEW q \in Project
             PROVE  Cardinality(WatchRuns(q)') + TokensOf(q)' <= tree[q]
  BY DEF Paid
<1>5. /\ IsFiniteSet(WatchRuns(q)) /\ Cardinality(WatchRuns(q)) \in Nat
      /\ Cardinality(WatchRuns(q)) + TokensOf(q) <= tree[q] /\ tree[q] \in Int
  BY WatchRunsFinite DEF Paid, TypeOK
<1>5a. \A r \in 1 .. last : r \in Request /\ r # last + 1
  BY <1>4, BoundsAssumption
<1>6. CASE q = p
  <2>1. WatchRuns(q)' = WatchRuns(q) \cup {last + 1} /\ last + 1 \notin WatchRuns(q)
    BY <1>4, <1>5a, <1>6 DEF WatchRuns
  <2>2. Cardinality(WatchRuns(q)') = Cardinality(WatchRuns(q)) + 1
    BY <1>5, <2>1, FS_AddElement
  <2>3. TokensOf(q) = Tokens(session[s]) /\ TokensOf(q)' = Tokens(session'[s])
    BY <1>2, <1>6 DEF TokensOf
  <2>4. Tokens(session[s]) \in Int /\ Tokens(session'[s]) \in Int
    BY TokensType
  <2> QED BY <1>3, <1>5, <2>2, <2>3, <2>4
<1>7. CASE q # p
  <2>1. WatchRuns(q)' = WatchRuns(q)
    BY <1>4, <1>5a, <1>7 DEF WatchRuns
  <2>2. sessions[q] # s
    <3>1. s # None /\ session[s].project = p
      BY DEF p
    <3> QED BY <1>7, <3>1 DEF IInv, Filed
  <2>3. TokensOf(q)' = TokensOf(q)
    BY <1>1, <2>2 DEF TokensOf, TypeOK
  <2> QED BY <1>5, <2>1, <2>3
<1> QED BY <1>6, <1>7

\* A step that leaves one session with no more tokens than it had.
LEMMA SetSessionPaid ==
    ASSUME IInv, Paid, NEW s \in SessionId, NEW rec,
           session' = [session EXCEPT ![s] = rec], Tokens(rec) <= Tokens(session[s]),
           UNCHANGED <<registered, tree, sessions, started, queueVars, by, seen>>
    PROVE  Paid'
<1> TypeOK
  BY DEF IInv
<1>1. ASSUME NEW p \in Project PROVE TokensOf(p)' - TokensOf(p) <= tree'[p] - tree[p]
  <2>1. tree[p] \in Int /\ TokensOf(p) \in Int
    BY <1>1, TokensOfType DEF TypeOK
  <2>2. CASE sessions[p] = s
    <3>1. TokensOf(p)' = Tokens(rec) /\ TokensOf(p) = Tokens(session[s])
      BY <2>2 DEF TokensOf, TypeOK
    <3>2. Tokens(rec) \in Int
      BY TokensType
    <3> QED BY <2>1, <3>1, <3>2
  <2>3. CASE sessions[p] # s
    <3>1. TokensOf(p)' = TokensOf(p)
      BY <2>3 DEF TokensOf, TypeOK
    <3> QED BY <2>1, <3>1
  <2> QED BY <2>2, <2>3
<1> QED BY <1>1, QuietPaid DEF queueVars, TypeOK

LEMMA InitPaid == Init => Paid
<1> SUFFICES ASSUME Init, NEW p \in Project PROVE Cardinality(WatchRuns(p)) + TokensOf(p) <= tree[p]
  BY DEF Paid
<1>1. WatchRuns(p) = {} /\ TokensOf(p) = 0 /\ tree[p] = 0
  BY DEF Init, WatchRuns, TokensOf
<1> QED BY <1>1, FS_EmptySet

LEMMA ChangePaid ==
    ASSUME IInv, Paid, NEW p \in Project, Change(p)
    PROVE  Paid'
<1> TypeOK
  BY DEF IInv
<1>1. /\ tree' = [tree EXCEPT ![p] = @ + 1] /\ Emit(p, "source")
      /\ UNCHANGED <<registered, sessions, started, last, owner, status, by, seen>>
  BY DEF Change, queueVars
<1>2. tree \in [Project -> Nat]
  BY DEF TypeOK
<1>3. \A s \in SessionId :
         /\ session'[s] = [session[s] EXCEPT !.events = session'[s].events]
         /\ session'[s].events = IF sessions[p] = s THEN session[s].events \cup {"source"}
                                 ELSE session[s].events
  BY <1>1, EmitType
<1>4. ASSUME NEW q \in Project PROVE TokensOf(q)' - TokensOf(q) <= tree'[q] - tree[q]
  <2> DEFINE s == sessions[q]
  <2>1. tree[q] \in Nat /\ tree'[q] = IF q = p THEN tree[q] + 1 ELSE tree[q]
    BY <1>1, <1>2
  <2>2. CASE s = None
    <3>1. TokensOf(q)' = 0 /\ TokensOf(q) = 0
      BY <1>1, <2>2 DEF TokensOf
    <3> QED BY <2>1, <3>1
  <2>3. CASE s # None
    <3>1. s \in SessionId /\ TokensOf(q)' = Tokens(session'[s]) /\ TokensOf(q) = Tokens(session[s])
      BY <1>1, <2>3 DEF TokensOf, TypeOK
    <3>2. /\ session'[s].debounce = session[s].debounce /\ session'[s].pending = session[s].pending
      BY <1>3, <3>1, EventsOnlyEach
    <3>3. sessions[p] = s => q = p
      BY <2>3 DEF IInv, Filed
    <3>4. q # p => session'[s].events = session[s].events
      BY <1>3, <3>1, <3>3
    <3>5. /\ Bit("source" \in session[s].events) \in 0 .. 1 /\ Bit("source" \in session'[s].events) \in 0 .. 1
          /\ Bit(session[s].debounce) \in 0 .. 1 /\ Bit(session[s].pending) \in 0 .. 1
      BY BitType
    <3> HIDE DEF s
    <3>6. CASE q = p
      BY <2>1, <3>1, <3>2, <3>5, <3>6 DEF Tokens
    <3>7. CASE q # p
      BY <2>1, <3>1, <3>2, <3>4, <3>5, <3>7 DEF Tokens
    <3> QED BY <3>6, <3>7
  <2> QED BY <2>2, <2>3
<1>5. tree' \in [Project -> Nat]
  BY <1>1, <1>2
<1> QED BY <1>1, <1>4, <1>5, QuietPaid

\* A run that settles tells the watch of its project of files that are ignored.
LEMMA QueuePaid ==
    ASSUME IInv, Paid, NEW r \in Request, StartRun(r) \/ SettleRun(r)
    PROVE  Paid'
<1> TypeOK
  BY DEF IInv
<1>1. UNCHANGED <<last, owner, by, sessions, tree>>
  BY DEF StartRun, SettleRun, Queue!Start, Queue!Settle, watchVars
<1>2. ASSUME NEW s \in SessionId
      PROVE  /\ session'[s].debounce = session[s].debounce /\ session'[s].pending = session[s].pending
             /\ "source" \in session'[s].events <=> "source" \in session[s].events
  <2>1. CASE StartRun(r)
    BY <2>1 DEF StartRun, watchVars
  <2>2. CASE SettleRun(r)
    <3>1. \A t \in SessionId :
             /\ session'[t] = [session[t] EXCEPT !.events = session'[t].events]
             /\ session'[t].events = IF sessions[owner[r]] = t THEN session[t].events \cup {"ignored"}
                                     ELSE session[t].events
      BY <2>2, EmitType DEF SettleRun
    <3>2. session'[s].debounce = session[s].debounce /\ session'[s].pending = session[s].pending
      BY <3>1, EventsOnlyEach
    <3>3. \/ session'[s].events = session[s].events
          \/ session'[s].events = session[s].events \cup {"ignored"}
      BY <3>1
    <3>4. "source" \in session'[s].events <=> "source" \in session[s].events
      BY <3>3
    <3> QED BY <3>2, <3>4
  <2> QED BY <2>1, <2>2
<1>3. ASSUME NEW p \in Project PROVE TokensOf(p)' - TokensOf(p) <= tree'[p] - tree[p]
  <2>1. TokensOf(p)' = TokensOf(p)
    <3>1. CASE sessions[p] = None
      BY <1>1, <3>1 DEF TokensOf
    <3>2. CASE sessions[p] # None
      <4>1. sessions[p] \in SessionId
        BY <3>2 DEF TypeOK
      <4>2. Tokens(session'[sessions[p]]) = Tokens(session[sessions[p]])
        BY <1>2, <4>1 DEF Tokens, Bit
      <4> QED BY <1>1, <4>2 DEF TokensOf
    <3> QED BY <3>1, <3>2
  <2>2. TokensOf(p) \in 0 .. 3
    BY TokensOfType
  <2>3. tree[p] \in Nat
    BY DEF TypeOK
  <2> QED BY <1>1, <2>1, <2>2, <2>3
<1> QED BY <1>1, <1>3, QuietPaid DEF TypeOK

LEMMA SessionStepPaid ==
    ASSUME IInv, Paid, NEW s \in SessionId, SessionStep(s)
    PROVE  Paid'
<1> TypeOK
  BY DEF IInv
<1> DEFINE w == session[s]
<1>0. w \in Session /\ (w.state = "running" <=> w.run # None)
  BY DEF TypeOK
<1>1. ASSUME NEW e \in Event, Notice(s, e) PROVE Paid'
  <2> DEFINE rec == [w EXCEPT !.events = @ \ {e}, !.debounce = @ \/ ~Ignored(e)]
  <2>1. /\ session' = [session EXCEPT ![s] = rec] /\ e \in w.events
        /\ UNCHANGED <<registered, tree, sessions, started, queueVars, by, seen>>
    BY <1>1 DEF Notice
  <2>2. /\ rec.events = w.events \ {e} /\ rec.debounce = (w.debounce \/ ~Ignored(e))
        /\ rec.pending = w.pending
    BY <1>0 DEF Session, Ignored
  <2> HIDE DEF rec
  <2>3. Tokens(rec) <= Tokens(w)
    <3>1. Bit("source" \in rec.events) + Bit(rec.debounce) <= Bit("source" \in w.events) + Bit(w.debounce)
      <4>1. CASE e = "source"
        BY <2>1, <2>2, <4>1 DEF Bit, Ignored
      <4>2. CASE e = "ignored"
        <5>1. "source" \in rec.events <=> "source" \in w.events
          BY <2>2, <4>2
        <5>2. rec.debounce = w.debounce
          BY <1>0, <2>2, <4>2, SessionFields DEF Ignored
        <5>3. Bit("source" \in rec.events) = Bit("source" \in w.events)
          BY <5>1 DEF Bit
        <5>4. Bit(w.debounce) \in Int /\ Bit("source" \in w.events) \in Int
          BY BitType
        <5> QED BY <5>2, <5>3, <5>4
      <4> QED BY <4>1, <4>2
    <3>2. \A b : Bit(b) \in Int
      BY BitType
    <3> QED BY <2>2, <3>1, <3>2 DEF Tokens
  <2> QED BY <2>1, <2>3, SetSessionPaid
<1>2. ASSUME Fire(s) PROVE Paid'
  <2> DEFINE rec == [w EXCEPT !.debounce = FALSE]
             late == [rec EXCEPT !.pending = TRUE]
  <2>1. /\ Live(s) /\ w.debounce /\ Trigger(s, rec)
        /\ UNCHANGED <<registered, tree, sessions, started>>
    BY <1>2 DEF Fire
  <2>2. /\ rec \in Session /\ rec.project = w.project /\ rec.state = w.state
    BY <1>0 DEF Session
  <2>2a. \A b : Bit(b) \in Int
    BY BitType
  <2>3. CASE rec.state = "running"
    <3>1. session' = [session EXCEPT ![s] = late] /\ UNCHANGED <<queueVars, by, seen>>
      BY <2>1, <2>3 DEF Trigger
    <3>2. late.events = w.events /\ late.debounce = FALSE /\ late.pending = TRUE
      BY <1>0 DEF Session
    <3> HIDE DEF late
    <3>3. Tokens(late) <= Tokens(w)
      BY <2>1, <2>2a, <3>2 DEF Tokens, Bit
    <3> QED BY <2>1, <3>1, <3>3, SetSessionPaid
  <2>4. CASE rec.state # "running"
    <3>1. RunOnce(s, rec)
      BY <2>1, <2>4 DEF Trigger
    <3>2. Tokens([rec EXCEPT !.pending = FALSE]) < Tokens(w)
      <4> DEFINE after == [rec EXCEPT !.pending = FALSE]
      <4>1. after.events = w.events /\ after.debounce = FALSE /\ after.pending = FALSE
        BY <1>0 DEF Session
      <4> HIDE DEF after
      <4>2. Tokens(after) < Tokens(w)
        BY <2>1, <2>2a, <4>1 DEF Tokens, Bit
      <4> QED BY <4>2 DEF after
    <3> HIDE DEF rec
    <3> QED BY <2>1, <2>2, <3>1, <3>2, RunOncePaid
  <2> QED BY <2>3, <2>4
<1>3. ASSUME RunSettled(s) PROVE Paid'
  <2>1. PICK outcome \in {"complete", "error"} : Finally(s, [w EXCEPT !.state = outcome])
    BY <1>3 DEF RunSettled
  <2> DEFINE rec == [w EXCEPT !.state = outcome]
             rest == [rec EXCEPT !.run = None]
  <2>2. UNCHANGED <<registered, tree, sessions, started>>
    BY <1>3 DEF RunSettled
  <2>3. rec \in Session /\ rec.project = w.project
    BY <1>0 DEF Session
  <2>3a. \A b : Bit(b) \in Int
    BY BitType
  <2>4. CASE Continues(s)
    <3>1. RunOnce(s, rec) /\ Live(s) /\ w.pending
      BY <2>1, <2>4 DEF Finally, Continues
    <3>2. Tokens([rec EXCEPT !.pending = FALSE]) < Tokens(w)
      <4> DEFINE after == [rec EXCEPT !.pending = FALSE]
      <4>1. after.events = w.events /\ after.debounce = w.debounce /\ after.pending = FALSE
        BY <1>0 DEF Session
      <4> HIDE DEF after
      <4>2. Tokens(after) < Tokens(w)
        BY <2>3a, <3>1, <4>1 DEF Tokens, Bit
      <4> QED BY <4>2 DEF after
    <3> HIDE DEF rec
    <3> QED BY <2>2, <2>3, <3>1, <3>2, RunOncePaid
  <2>5. CASE ~Continues(s)
    <3>1. session' = [session EXCEPT ![s] = rest] /\ UNCHANGED <<queueVars, by, seen>>
      BY <2>1, <2>5 DEF Finally
    <3>2. rest.pending = w.pending /\ rest.debounce = w.debounce /\ rest.events = w.events
      BY <1>0 DEF Session
    <3> HIDE DEF rest
    <3>3. Tokens(rest) = Tokens(w)
      BY <3>2 DEF Tokens
    <3>4. Tokens(rest) <= Tokens(w)
      BY <3>3, TokensType
    <3> QED BY <2>2, <3>1, <3>4, SetSessionPaid
  <2> QED BY <2>4, <2>5
<1> QED BY <1>1, <1>2, <1>3 DEF SessionStep

\* A watch that begins holds no token, and one that stops gives its up.
LEMMA RegistryPaid ==
    ASSUME IInv, Paid, NEW p \in Project,
           Register(p) \/ Unregister(p) \/ StartWatch(p) \/ StopWatch(p) \/ StopAll
    PROVE  Paid'
<1> TypeOK
  BY DEF IInv
<1>1. UNCHANGED <<last, owner, by, tree>>
  BY DEF Register, Unregister, StartWatch, StopWatch, StopAll, queueVars
<1>2. ASSUME NEW q \in Project PROVE TokensOf(q)' = TokensOf(q) \/ TokensOf(q)' = 0
  <2>1. CASE Register(p) \/ Unregister(p)
    BY <2>1 DEF Register, Unregister, watchVars, TokensOf
  <2>2. CASE StartWatch(p)
    <3> DEFINE n == started + 1
               fresh == NewSession(p)
    <3>1. /\ n \in SessionId /\ sessions' = [sessions EXCEPT ![p] = n]
          /\ session' = [session EXCEPT ![n] = fresh]
      BY <2>2, BoundsAssumption DEF StartWatch, TypeOK
    <3>2. Tokens(fresh) = 0
      BY DEF NewSession, Tokens, Bit
    <3>3. sessions[q] # n
      BY BoundsAssumption DEF IInv, ByAccepted, TypeOK
    <3> HIDE DEF fresh, n
    <3>4. CASE q = p
      BY <3>1, <3>2, <3>4 DEF TokensOf, TypeOK
    <3>5. CASE q # p
      BY <3>1, <3>3, <3>5 DEF TokensOf, TypeOK
    <3> QED BY <3>4, <3>5
  <2>3. CASE StopWatch(p)
    <3>1. /\ session' = [session EXCEPT ![sessions[p]] = Stopped(sessions[p])]
          /\ sessions' = [sessions EXCEPT ![p] = None] /\ sessions[p] # None
      BY <2>3 DEF StopWatch
    <3>2. CASE q = p
      BY <3>1, <3>2 DEF TokensOf, TypeOK
    <3>3. CASE q # p
      <4>1. sessions[q] # None => sessions[q] # sessions[p]
        BY <3>1, <3>3 DEF IInv, Filed
      <4> QED BY <3>1, <3>3, <4>1 DEF TokensOf, TypeOK
    <3> QED BY <3>2, <3>3
  <2>4. CASE StopAll
    BY <2>4 DEF StopAll, TokensOf
  <2> QED BY <2>1, <2>2, <2>3, <2>4
<1>3. ASSUME NEW q \in Project PROVE TokensOf(q)' - TokensOf(q) <= tree'[q] - tree[q]
  <2>1. TokensOf(q) \in 0 .. 3 /\ tree[q] \in Int
    BY TokensOfType DEF TypeOK
  <2> QED BY <1>1, <1>2, <2>1
<1> QED BY <1>1, <1>3, QuietPaid DEF TypeOK

\* A run that an agent requests is no run of a watch.
LEMMA RunTestsToolPaid ==
    ASSUME IInv, Paid, NEW p \in Project, RunTestsTool(p)
    PROVE  Paid'
<1> TypeOK
  BY DEF IInv
<1>1. RunTests(p, None) /\ UNCHANGED <<tree, sessions, session>>
  BY DEF RunTestsTool, watchVars
<1>2. /\ last \in Nat /\ last' = last + 1 /\ by'[last + 1] = None
      /\ \A r \in Request \ {last + 1} : by'[r] = by[r] /\ owner'[r] = owner[r]
      /\ last + 1 \in Request
  BY <1>1, RunTestsEffect DEF TypeOK
<1>3. \A r \in 1 .. last : r \in Request /\ r # last + 1
  BY <1>2, BoundsAssumption
<1>4. ASSUME NEW q \in Project
      PROVE  WatchRuns(q)' = WatchRuns(q) /\ TokensOf(q)' = TokensOf(q)
  BY <1>1, <1>2, <1>3 DEF WatchRuns, TokensOf
<1> QED BY <1>1, <1>4 DEF Paid

LEMMA NextPaid == IInv /\ Paid /\ [Next]_vars => Paid'
<1> SUFFICES ASSUME IInv, Paid, [Next]_vars PROVE Paid'
  OBVIOUS
<1>1. ASSUME NEW p \in Project,
             Change(p) \/ Register(p) \/ Unregister(p) \/ StartWatch(p) \/ StopWatch(p) \/ RunTestsTool(p)
      PROVE  Paid'
  BY <1>1, ChangePaid, RegistryPaid, RunTestsToolPaid
<1>2. ASSUME NEW r \in Request, StartRun(r) \/ RunWrites(r) \/ SettleRun(r) PROVE Paid'
  <2>1. CASE StartRun(r) \/ SettleRun(r)
    BY <2>1, QueuePaid
  <2>2. CASE RunWrites(r)
    <3>1. Change(owner[r]) /\ owner[r] \in Project
      BY <2>2 DEF RunWrites, IInv, TypeOK
    <3> QED BY <3>1, ChangePaid
  <2> QED BY <1>2, <2>1, <2>2
<1>3. ASSUME NEW s \in SessionId, SessionStep(s) PROVE Paid'
  BY <1>3, SessionStepPaid
<1>4. CASE StopAll
  <2>1. PICK p \in Project : TRUE
    BY BoundsAssumption
  <2> QED BY <1>4, <2>1, RegistryPaid
<1>5. CASE UNCHANGED vars
  BY <1>5 DEF vars, watchVars, queueVars, Paid, WatchRuns, TokensOf
<1> QED BY <1>1, <1>2, <1>3, <1>4, <1>5 DEF Next

-----------------------------------------------------------------------------
(* Theorems                                                                *)

\* Every variable has its type, and the state of a session says "running" just
\* while its promise has callbacks to run (runOnce of src/watch/index.ts).
THEOREM TypeCorrect == Spec => []TypeOK
BY Invariance, PTL DEF IInv

\* A watch at rest shows the result of a run requested after the latest change:
\* neither a change during a run nor one during the debounce is lost (trigger
\* and runOnce's finally callback).
THEOREM RestIsCurrent == Spec => []RestCurrent
<1>1. IInv => RestCurrent
  <2> SUFFICES ASSUME IInv, NEW s \in SessionId, AtRest(s)
               PROVE  \/ tree[session[s].project] = session[s].base
                      \/ \E r \in Request : CoveredBy(s, r) /\ status[r] = "settled"
    BY DEF RestCurrent
  <2>1. Live(s) /\ session[s].run = None /\ ~Owed(s)
    BY DEF AtRest, Owed, IInv, TypeOK, FlagMeansRunning
  <2> QED BY <2>1 DEF IInv, Covered, Requested
<1> QED BY <1>1, Invariance, PTL

\* A watch has one run unsettled at most, whatever the order of changes, stops
\* and restarts (trigger queues at most one rerun).
THEOREM OneRun == Spec => []OneRunPerWatch
<1>1. IInv => OneRunPerWatch
  <2> SUFFICES ASSUME IInv, NEW q \in Request, NEW r \in Request, by[q] # None, by[r] = by[q],
                      status[q] # "settled", status[r] # "settled"
               PROVE  q = r
    BY DEF OneRunPerWatch
  <2> QED BY DEF IInv, RunKept
<1> QED BY <1>1, Invariance, PTL

\* Only a session that the map holds requests runs: once stopped it is silent,
\* with callbacks still to run and also when its project is watched again (the
\* identity check in runOnce's finally callback).
THEOREM StoppedSilent == Spec => StoppedIsSilent
<1>1. IInv /\ [Next]_vars =>
        [\A s \in SessionId : (\E r \in Request : by[r] # s /\ by'[r] = s) => Live(s)]_vars
  <2> SUFFICES ASSUME IInv, Next, NEW s \in SessionId, NEW r \in Request, by[r] # s, by'[r] = s
               PROVE  Live(s)
    BY DEF vars, watchVars, queueVars
  <2> TypeOK
    BY DEF IInv
  <2>1. ASSUME NEW p \in Project,
               Change(p) \/ Register(p) \/ Unregister(p) \/ StartWatch(p) \/ StopWatch(p)
        PROVE  FALSE
    BY <2>1 DEF Change, Register, Unregister, StartWatch, StopWatch
  <2>2. ASSUME NEW p \in Project, RunTestsTool(p) PROVE FALSE
    <3>1. by' = [by EXCEPT ![last + 1] = None]
      BY <2>2 DEF RunTestsTool, RunTests
    <3> QED BY <3>1 DEF TypeOK
  <2>3. ASSUME NEW q \in Request, StartRun(q) \/ RunWrites(q) \/ SettleRun(q) PROVE FALSE
    BY <2>3 DEF StartRun, RunWrites, Change, SettleRun
  <2>4. ASSUME NEW t \in SessionId, SessionStep(t) PROVE Live(s)
    <3>1. ASSUME NEW rec, RunOnce(t, rec) PROVE t = s
      <4>1. by' = [by EXCEPT ![last + 1] = t]
        BY <3>1 DEF RunOnce, RunTests
      <4> QED BY <4>1 DEF TypeOK
    <3>2. ASSUME NEW e \in Event, Notice(t, e) PROVE FALSE
      BY <3>2 DEF Notice
    <3>3. ASSUME Fire(t) PROVE Live(s)
      BY <3>1, <3>3 DEF Fire, Trigger
    <3>4. ASSUME RunSettled(t) PROVE Live(s)
      BY <3>1, <3>4 DEF RunSettled, Finally, Continues
    <3> QED BY <2>4, <3>2, <3>3, <3>4 DEF SessionStep
  <2>5. CASE StopAll
    BY <2>5 DEF StopAll
  <2> QED BY <2>1, <2>2, <2>3, <2>4, <2>5 DEF Next
<1> QED BY <1>1, Invariance, PTL DEF Spec, StoppedIsSilent

\* Every run of a watch is paid for by a change of a file that is not ignored:
\* whatever the order of edits, of writes of the tests, of stops and restarts, a
\* project has no more runs of watches than such changes, for no change passes
\* through the event, the timer and the flag twice, and what the daemon writes
\* when a run settles enters none of them (isIgnoredWatchPath, trigger, runOnce).
THEOREM RunsArePaid == Spec => []OneRunPerChange
<1>1. IInv /\ Paid => OneRunPerChange
  <2> SUFFICES ASSUME IInv, Paid, NEW p \in Project PROVE Cardinality(WatchRuns(p)) <= tree[p]
    BY DEF OneRunPerChange, WatchRuns
  <2>1. Cardinality(WatchRuns(p)) \in Nat /\ TokensOf(p) \in 0 .. 3 /\ tree[p] \in Int
    BY WatchRunsFinite, TokensOfType DEF IInv, TypeOK
  <2>2. Cardinality(WatchRuns(p)) + TokensOf(p) <= tree[p]
    BY DEF Paid
  <2> QED BY <2>1, <2>2
<1>2. Init => Paid
  BY InitPaid
<1>3. IInv /\ Paid /\ [Next]_vars => Paid'
  BY NextPaid
<1> QED BY <1>1, <1>2, <1>3, Invariance, PTL DEF Spec
===============================================================================
