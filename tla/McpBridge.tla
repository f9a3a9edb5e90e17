------------------------------- MODULE McpBridge -------------------------------
(***************************************************************************)
(* The stdio bridge (src/cli/main.ts, mcp-bridge, with the handlers of     *)
(* src/cli/mcp-bridge-resilience.ts) between one client and the daemon's   *)
(* sessions (src/mcp/server.ts, createMcpRequestListener), while the       *)
(* daemon dies and comes back and its streams are cut.                     *)
(*                                                                         *)
(* The transports are those of the MCP SDK: a send is a POST whose answer  *)
(* comes on a stream of its own; close aborts the POSTs and the streams of *)
(* the transport and calls onclose; a stream that breaks calls onerror.    *)
(* The session a transport got from the daemon has the transport's number. *)
(***************************************************************************)
EXTENDS Integers, FiniteSets

CONSTANTS
    Request,       \* the requests of the client after the handshake
    MaxCrashes,    \* bound on deaths of the daemon
    MaxCuts,       \* bound on streams cut otherwise
    MaxTransports  \* bound on transports built

ASSUME BoundsAssumption == MaxTransports \in Nat \ {0} /\ MaxCrashes \in Nat /\ MaxCuts \in Nat

VARIABLES
    up,         \* does the daemon serve?
    crashes, cuts,
    live,       \* sessions in its transports map
    ready,      \* those that have been told notifications/initialized
    client,     \* "new", "greeting", "working" or "gone"
    post,       \* how far each message of the client is
    executed,   \* how often the daemon has handled each
    built,      \* transports made
    current,    \* clientTransport
    bound,      \* transports whose handlers are attached
    stream,     \* the GET stream of each: "none", "open" or "broken"
    building,   \* recreateSession: the message a fresh transport is replaying,
                \*   "no", or "failed"
    stale,      \* the clientTransport each of them is to replace
    exited      \* has the bridge ended?

daemonVars == <<up, live, ready>>
faultVars  == <<crashes, cuts>>
bridgeVars == <<built, current, bound, stream, building, stale, exited>>
vars == <<daemonVars, faultVars, client, post, executed, bridgeVars>>

Handshake == {"initialize", "initialized"}
Message   == Handshake \cup Request
Transport == 1 .. MaxTransports

ASSUME RequestAssumption == Request \cap Handshake = {}

\* A message is on its way to the daemon, or, of an aborted POST, is still
\* travelling although nobody waits; it was accepted and its answer is due, or
\* the POST fails with status 404 or otherwise and the bridge does not know
\* yet; it waits for a session to be recreated; or it is done with.
Stage == {"unsent", "sent", "aborted", "accepted", "refused", "failed", "waiting", "answered", "lost"}
Post  == [stage : Stage, at : Transport, retried : BOOLEAN]

Init ==
    /\ up = TRUE /\ crashes = 0 /\ cuts = 0
    /\ live = {} /\ ready = {}
    /\ client = "new"
    /\ post = [m \in Message |-> [stage |-> "unsent", at |-> 1, retried |-> FALSE]]
    /\ executed = [m \in Message |-> 0]
    /\ built = 1 /\ current = 1 /\ bound = {1}
    /\ stream = [t \in Transport |-> "none"]
    /\ building = [t \in Transport |-> "no"]
    /\ stale = [t \in Transport |-> 1]
    /\ exited = FALSE

-----------------------------------------------------------------------------
(* The client                                                              *)

\* serverTransport.onmessage: the message is forwarded.
Forward(m) ==
    /\ ~exited /\ post[m].stage = "unsent"
    /\ post' = [post EXCEPT ![m] = [stage |-> "sent", at |-> current, retried |-> FALSE]]
    /\ UNCHANGED <<daemonVars, faultVars, executed, bridgeVars>>

SendInitialize  == client = "new" /\ Forward("initialize") /\ client' = "greeting"

SendInitialized ==
    /\ client = "greeting" /\ post["initialize"].stage = "answered"
    /\ Forward("initialized") /\ client' = "working"

SendRequest(m) == client = "working" /\ Forward(m) /\ UNCHANGED client

\* The client closes its end: closeBoth.
Leave ==
    /\ client # "gone" /\ client' = "gone" /\ exited' = TRUE
    /\ UNCHANGED <<daemonVars, faultVars, post, executed, built, current, bound, stream, building,
                   stale>>

\* hasCachedHandshake
CachedHandshake == post["initialize"].stage # "unsent" /\ post["initialized"].stage # "unsent"

-----------------------------------------------------------------------------
(* The daemon                                                              *)

\* A POST without a session is served only if it is an initialize; one of a
\* session the daemon does not know is answered 404.
Known(m) == m = "initialize" \/ post[m].at \in live

\* Handling initialize makes the session, and initialized has the transport
\* open its GET stream.
Handle(m, t) ==
    /\ live'   = IF m = "initialize" THEN live \cup {t} ELSE live
    /\ ready'  = IF m = "initialized" THEN ready \cup {t} ELSE ready
    /\ stream' = IF m = "initialized" /\ t \in bound THEN [stream EXCEPT ![t] = "open"] ELSE stream

Take(m) ==
    /\ up /\ post[m].stage \in {"sent", "aborted"}
    /\ LET p == post[m]
       IN  IF Known(m)
           THEN /\ executed' = [executed EXCEPT ![m] = @ + 1]
                /\ Handle(m, p.at)
                /\ post' = [post EXCEPT ![m].stage =
                              IF p.stage = "aborted" THEN "lost"
                              ELSE IF m = "initialized" THEN "answered" ELSE "accepted"]
           ELSE /\ post' = [post EXCEPT ![m].stage = IF p.stage = "aborted" THEN "lost" ELSE "refused"]
                /\ UNCHANGED <<executed, live, ready, stream>>
    /\ UNCHANGED <<up, faultVars, client, built, current, bound, building, stale, exited>>

\* The answer comes, and is forwarded.
Answer(m) ==
    /\ post[m].stage = "accepted" /\ post[m].at \in live
    /\ post' = [post EXCEPT ![m].stage = "answered"]
    /\ UNCHANGED <<daemonVars, faultVars, client, executed, bridgeVars>>

\* The connection is refused, or, while the daemon dies, reset.
Unreachable(m) ==
    /\ ~up /\ post[m].stage \in {"sent", "aborted"}
    /\ post' = [post EXCEPT ![m].stage = IF @ = "sent" THEN "failed" ELSE "lost"]
    /\ UNCHANGED <<daemonVars, faultVars, client, executed, bridgeVars>>

\* The daemon dies.  A POST whose answer is due fails, if nothing of the answer
\* has come, or else its stream breaks, as the GET streams do.  The errors of
\* the streams of a transport are one, for the later ones find a recreation in
\* flight.
Crash ==
    /\ up /\ crashes < MaxCrashes
    /\ crashes' = crashes + 1 /\ up' = FALSE
    /\ live' = {} /\ ready' = {}
    /\ \E failing \in SUBSET {m \in Message : post[m].stage = "accepted"} :
          LET broken == {m \in Message \ failing : post[m].stage = "accepted"}
          IN  /\ post' = [m \in Message |->
                            IF m \in failing THEN [post[m] EXCEPT !.stage = "failed"]
                            ELSE IF m \in broken THEN [post[m] EXCEPT !.stage = "lost"]
                            ELSE post[m]]
              /\ stream' = [t \in Transport |->
                              IF stream[t] = "open" \/ \E m \in broken : post[m].at = t
                              THEN "broken" ELSE stream[t]]
    /\ UNCHANGED <<cuts, client, executed, built, current, bound, building, stale, exited>>

Restart ==
    /\ ~up /\ up' = TRUE
    /\ UNCHANGED <<faultVars, live, ready, client, post, executed, bridgeVars>>

\* A GET stream is cut, as one is that is silent for too long; the session is
\* still there.
Cut(t) ==
    /\ cuts < MaxCuts /\ cuts' = cuts + 1
    /\ stream[t] = "open"
    /\ stream' = [stream EXCEPT ![t] = "broken"]
    /\ UNCHANGED <<daemonVars, crashes, client, post, executed, built, current, bound, building,
                   stale, exited>>

-----------------------------------------------------------------------------
(* The bridge                                                              *)

\* Mutant of Recreating: a recreation that failed is never forgotten.
RecreatingForEver == \E t \in Transport : building[t] # "no"

\* The closure-held promise of that name.
Recreating == \E t \in Transport : building[t] \in Handshake

\* Mutant of Recreate: every trigger builds a transport.
RecreateAlways ==
    /\ built < MaxTransports
    /\ built' = built + 1
    /\ bound' = bound \cup {built + 1}
    /\ building' = [building EXCEPT ![built + 1] = "initialize"]
    /\ stale' = [stale EXCEPT ![built + 1] = current]

\* recreateSessionOnce: a recreation in flight is joined.
Recreate ==
    IF Recreating
    THEN UNCHANGED <<built, bound, building, stale>>
    ELSE /\ built < MaxTransports
         /\ built' = built + 1
         /\ bound' = bound \cup {built + 1}
         /\ building' = [building EXCEPT ![built + 1] = "initialize"]
         /\ stale' = [stale EXCEPT ![built + 1] = current]

\* Mutant of Recoverable: every failed send is repeated.
RecoverableAny(m) == CachedHandshake /\ ~post[m].retried

\* The condition of createSendFailureHandler; the failure of the retry is its
\* catch.
Recoverable(m) == post[m].stage = "refused" /\ CachedHandshake /\ ~post[m].retried

\* A send has failed: createSendFailureHandler.
SendFailed(m) ==
    /\ post[m].stage \in {"refused", "failed"}
    /\ IF Recoverable(m)
       THEN Recreate /\ post' = [post EXCEPT ![m].stage = "waiting"]
       ELSE post' = [post EXCEPT ![m].stage = "lost"] /\ UNCHANGED <<built, bound, building, stale>>
    /\ UNCHANGED <<daemonVars, faultVars, client, executed, current, stream, exited>>

\* "SSE stream disconnected": createTransportErrorHandler, if it is attached.
StreamError(t) ==
    /\ stream[t] = "broken"
    /\ stream' = [stream EXCEPT ![t] = "none"]
    /\ IF t \in bound /\ CachedHandshake
       THEN Recreate
       ELSE UNCHANGED <<built, bound, building, stale>>
    /\ UNCHANGED <<daemonVars, faultVars, client, post, executed, current, exited>>

\* Messages wait for whichever recreation is in flight.
Waiting == {m \in Message : post[m].stage = "waiting"}

\* Mutant of Close: the handlers are removed after close has called onclose.
CloseBound(t) ==
    /\ bound' = bound \ {t}
    /\ exited' = (t \in bound)

\* The handlers of the stale transport are removed; its close calls onclose,
\* which would end the bridge, if that is still bound.
Close(t) ==
    /\ bound' = bound \ {t}
    /\ exited' = (t \in bound')

\* The fresh transport is swapped in and the stale one closed, which aborts
\* what is on it: a POST may have left already, and one whose 404 has come
\* still fails with it.  Then the sends that waited are repeated.
Swap(t) ==
    /\ current' = t
    /\ building' = [building EXCEPT ![t] = "no"]
    /\ Close(stale[t])
    /\ \E left \in SUBSET {m \in Message : post[m].stage = "sent" /\ post[m].at = stale[t]} :
          post' = [m \in Message |->
                     IF m \in Waiting THEN [stage |-> "sent", at |-> t, retried |-> TRUE]
                     ELSE IF m \in left THEN [post[m] EXCEPT !.stage = "aborted"]
                     ELSE IF post[m].at = stale[t] /\ post[m].stage \in {"sent", "accepted"}
                     THEN [post[m] EXCEPT !.stage = "lost"]
                     ELSE post[m]]
    /\ UNCHANGED <<built, stale>>

\* Mutant of ReplayInitialize: the transport is swapped in at once.
ReplayInitializeOnly(t) ==
    /\ live' = live \cup {t}
    /\ Swap(t)
    /\ UNCHANGED <<ready, stream>>

\* The daemon makes a session.
ReplayInitialize(t) ==
    /\ live' = live \cup {t}
    /\ building' = [building EXCEPT ![t] = "initialized"]
    /\ UNCHANGED <<ready, post, built, current, bound, stream, stale, exited>>

ReplayInitialized(t) ==
    /\ t \in live
    /\ ready' = ready \cup {t}
    /\ stream' = [stream EXCEPT ![stale[t]] = "none", ![t] = "open"]
    /\ Swap(t)
    /\ UNCHANGED live

\* A replay fails: so do the sends that wait for it, and the transport is left
\* as it is.
ReplayFails(t) ==
    /\ ~up \/ (building[t] = "initialized" /\ t \notin live)
    /\ building' = [building EXCEPT ![t] = "failed"]
    /\ post' = [m \in Message |-> IF m \in Waiting THEN [post[m] EXCEPT !.stage = "lost"]
                                  ELSE post[m]]
    /\ UNCHANGED <<live, ready, built, current, bound, stream, stale, exited>>

Replay(t) ==
    /\ building[t] \in Handshake
    /\ \/ up /\ building[t] = "initialize" /\ ReplayInitialize(t)
       \/ up /\ building[t] = "initialized" /\ ReplayInitialized(t)
       \/ ReplayFails(t)
    /\ UNCHANGED <<up, faultVars, client, executed>>

\* What happens to a message by itself.
Travel(m) == Take(m) \/ Answer(m) \/ Unreachable(m) \/ SendFailed(m)

Next ==
    /\ ~exited
    /\ \/ SendInitialize \/ SendInitialized \/ \E m \in Request : SendRequest(m)
       \/ Leave \/ Crash \/ Restart
       \/ \E m \in Message : Travel(m)
       \/ \E t \in Transport : Cut(t) \/ StreamError(t) \/ Replay(t)

Spec == Init /\ [][Next]_vars

\* Connections answer or fail, and the bridge handles what they do.
FairSpec == /\ Spec
            /\ \A m \in Message : WF_vars(~exited /\ Travel(m))
            /\ \A t \in Transport : WF_vars(~exited /\ (StreamError(t) \/ Replay(t)))

-----------------------------------------------------------------------------
(* Properties                                                              *)

\* Every variable has its type.
TypeOK ==
    /\ up \in BOOLEAN /\ crashes \in 0 .. MaxCrashes /\ cuts \in 0 .. MaxCuts
    /\ live \subseteq Transport /\ ready \subseteq live
    /\ client \in {"new", "greeting", "working", "gone"}
    /\ post \in [Message -> Post]
    /\ executed \in [Message -> Nat]
    /\ built \in Transport /\ current \in Transport
    /\ bound \subseteq 1 .. built
    /\ stream \in [Transport -> {"none", "open", "broken"}]
    /\ building \in [Transport -> Handshake \cup {"no", "failed"}]
    /\ stale \in [Transport -> Transport]
    /\ exited \in BOOLEAN

\* What became of a message, as its client can tell.
Abstract(s) == CASE s = "unsent" -> "unsent"
                 [] s \in {"sent", "accepted", "refused", "failed", "waiting"} -> "pending"
                 [] s = "answered" -> "answered"
                 [] OTHER -> "lost"

Outcome == [m \in Message |-> Abstract(post[m].stage)]

Forwards == INSTANCE Forwarding WITH Notification <- {"initialized"}, outcome <- Outcome

\* The bridge, with its repeated sends, forwards every message as Forwarding
\* says: the daemon executes it at most once, for only a 404 says that it has
\* not seen it, while a connection that fails does not; and no failure, repeat
\* or recreation undoes an answer, or answers what was given up
\* (createSendFailureHandler).
ImplementsForwarding == Forwards!Spec

\* Failed sends and broken streams, however many and in which order, leave no
\* transport behind that still talks to the client beside the current one:
\* those are only the one that is being built and those whose replay failed
\* (recreateSessionOnce).
NoStrayTransport ==
    \A t \in bound : t = current \/ building[t] # "no"

\* A session that recreateSession made handles a request only after the whole
\* handshake.
HandshakeFirst ==
    [][\A m \in Request : executed'[m] # executed[m] => post[m].at \in ready \cup {1}]_vars

\* A recreated session ends no bridge: it ends when the client does
\* (recreateSession's order of neutralizing and closing the stale transport).
BridgeOutlivesSessions == exited => client = "gone"

\* When no fault comes any more, a message that is sent into a session the
\* daemon has lost gets the bridge a session that the daemon knows, if no
\* recreation was already in flight.
Calm == up /\ crashes = MaxCrashes /\ cuts = MaxCuts

Recovers ==
    \A m \in Request :
        (/\ Calm /\ current \notin live
         /\ \A t \in Transport : building[t] \notin Handshake
         /\ post[m] = [stage |-> "sent", at |-> current, retried |-> FALSE])
            ~> (current \in live \/ exited)
===============================================================================
