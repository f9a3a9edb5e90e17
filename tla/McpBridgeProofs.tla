---------------------------- MODULE McpBridgeProofs ----------------------------
(***************************************************************************)
(* Safety of the stdio bridge, for any number of requests, transports,     *)
(* crashes and cuts.                                                       *)
(*                                                                         *)
(* The argument: one transport at most is being built, and it is to replace*)
(* the current one; no message is sent on a transport before its handshake *)
(* is replayed; and only a message that the daemon has not seen waits for  *)
(* another session.                                                        *)
(***************************************************************************)
EXTENDS McpBridge, TLAPS

Untaken == {"unsent", "sent", "aborted", "refused", "waiting"}

\* A message that may still reach the daemon has not been there, and one whose
\* answer is due has.
TakenOnce == \A m \in Message : /\ executed[m] <= 1
                                /\ post[m].stage \in Untaken => executed[m] = 0
                                /\ post[m].stage = "accepted" => executed[m] = 1

\* One recreation at most is in flight, and it replaces the current transport.
OneRecreation == \A t \in Transport : building[t] \in Handshake =>
                    /\ stale[t] = current
                    /\ \A u \in Transport : building[u] \in Handshake => u = t

\* What is sent is sent on a transport that is not being built.
Placed == /\ current <= built /\ building[current] = "no"
          /\ \A t \in Transport : t > built => building[t] = "no"
          /\ \A m \in Message : post[m].at <= built /\ building[post[m].at] = "no"

\* A session without its whole handshake is one that is being built, or was
\* given up; the client makes the handshake of the first one itself.
HalfMade == \A t \in live : t \in ready \cup {1} \/ building[t] \in {"initialized", "failed"}

\* The client's own initialize belongs to the first transport, and is never
\* repeated, for it is never refused.
FirstSession == /\ post["initialize"].at = 1
                /\ post["initialize"].stage \notin {"refused", "waiting"}
                /\ ~CachedHandshake => built = 1

IInv == /\ TypeOK /\ TakenOnce /\ OneRecreation /\ Placed /\ HalfMade /\ FirstSession
        /\ NoStrayTransport /\ BridgeOutlivesSessions

LEMMA Messages == /\ "initialize" \in Message /\ "initialized" \in Message
                  /\ Request \subseteq Message /\ 1 \in Transport
                  /\ \A m \in Request : m # "initialize" /\ m # "initialized"
BY RequestAssumption, BoundsAssumption DEF Message, Handshake, Transport

-----------------------------------------------------------------------------
(* Steps that leave the transports alone                                    *)

LEMMA StageChange ==
    ASSUME NEW w \in Post, NEW s \in Stage
    PROVE  /\ [w EXCEPT !.stage = s] \in Post
           /\ [w EXCEPT !.stage = s].stage = s
           /\ [w EXCEPT !.stage = s].at = w.at
BY DEF Post

LEMMA OneStage ==
    ASSUME TypeOK, NEW m \in Message, NEW s \in Stage, post' = [post EXCEPT ![m].stage = s]
    PROVE  /\ post' \in [Message -> Post]
           /\ post'[m].stage = s
           /\ \A n \in Message : post'[n].at = post[n].at
           /\ \A n \in Message \ {m} : post'[n] = post[n]
<1> DEFINE w == [post[m] EXCEPT !.stage = s]
<1>1. w \in Post /\ w.stage = s /\ w.at = post[m].at
  BY StageChange DEF TypeOK
<1>2. post' = [post EXCEPT ![m] = w]
  OBVIOUS
<1> HIDE DEF w
<1> QED BY <1>1, <1>2 DEF TypeOK

LEMMA StagesInv ==
    ASSUME IInv, TypeOK', TakenOnce', HalfMade',
           UNCHANGED <<built, current, bound, building, stale, exited>>,
           client = "gone" => client' = "gone",
           \A m \in Message :
              /\ post'[m].at = post[m].at \/ (post[m].stage = "unsent" /\ post'[m].at = current)
              /\ post'[m].stage = "unsent" => post[m].stage = "unsent",
           post'["initialize"].stage \notin {"refused", "waiting"}
    PROVE  IInv'
<1>1. OneRecreation' /\ NoStrayTransport'
  BY DEF IInv, OneRecreation, NoStrayTransport
<1>2. Placed'
  BY DEF IInv, Placed
<1>3. FirstSession'
  <2>1. ~CachedHandshake' => ~CachedHandshake
    BY Messages DEF CachedHandshake
  <2>2. post'["initialize"].at = 1
    <3>1. CASE post["initialize"].stage = "unsent"
      <4>1. built = 1 /\ current <= built /\ current \in Transport
        BY <3>1 DEF IInv, FirstSession, CachedHandshake, Placed, TypeOK
      <4> QED BY <4>1, Messages DEF IInv, FirstSession, Transport
    <3>2. CASE post["initialize"].stage # "unsent"
      BY <3>2, Messages DEF IInv, FirstSession
    <3> QED BY <3>1, <3>2
  <2> QED BY <2>1, <2>2 DEF IInv, FirstSession
<1>4. BridgeOutlivesSessions'
  BY DEF IInv, BridgeOutlivesSessions
<1> QED BY <1>1, <1>2, <1>3, <1>4 DEF IInv

LEMMA InitInv == Init => IInv
<1> SUFFICES ASSUME Init PROVE IInv
  OBVIOUS
<1>1. \A m \in Message : post[m] \in Post /\ post[m].stage = "unsent" /\ post[m].at = 1
  BY Messages DEF Init, Post, Stage
<1>2. TypeOK
  <2>1. post \in [Message -> Post]
    BY <1>1 DEF Init
  <2>2. /\ bound \subseteq 1 .. built /\ built \in Transport /\ current \in Transport
        /\ crashes \in 0 .. MaxCrashes /\ cuts \in 0 .. MaxCuts
    BY Messages, BoundsAssumption DEF Init
  <2> QED BY <2>1, <2>2, Messages DEF Init, TypeOK
<1>3. TakenOnce
  BY DEF Init, TakenOnce
<1>4. OneRecreation /\ HalfMade /\ NoStrayTransport /\ BridgeOutlivesSessions
  BY DEF Init, OneRecreation, HalfMade, NoStrayTransport, BridgeOutlivesSessions, Handshake
<1>5. Placed
  BY <1>1, Messages DEF Init, Placed
<1>6. FirstSession
  BY <1>1, Messages DEF Init, FirstSession
<1> QED BY <1>2, <1>3, <1>4, <1>5, <1>6 DEF IInv

LEMMA ForwardInv ==
    ASSUME IInv, NEW m \in Message, Forward(m),
           client' \in {"new", "greeting", "working"}, client # "gone"
    PROVE  IInv'
<1> DEFINE w == [stage |-> "sent", at |-> current, retried |-> FALSE]
<1> TypeOK
  BY DEF IInv
<1>1. w \in Post /\ w.stage = "sent" /\ w.at = current
  BY DEF TypeOK, Post, Stage
<1>2. /\ post[m].stage = "unsent" /\ post' = [post EXCEPT ![m] = w]
      /\ UNCHANGED <<up, live, ready, crashes, cuts, executed, built, current, bound, stream,
                     building, stale, exited>>
  BY DEF Forward, daemonVars, faultVars, bridgeVars
<1> HIDE DEF w
<1>3. post' \in [Message -> Post] /\ post'[m] = w /\ \A n \in Message \ {m} : post'[n] = post[n]
  BY <1>1, <1>2 DEF TypeOK
<1>4. TypeOK'
  BY <1>2, <1>3 DEF TypeOK
<1>5. TakenOnce'
  BY <1>1, <1>2, <1>3 DEF IInv, TakenOnce, Untaken
<1>6. HalfMade'
  BY <1>2 DEF IInv, HalfMade
<1>7. post'["initialize"].stage \notin {"refused", "waiting"}
  BY <1>1, <1>3, Messages DEF IInv, FirstSession
<1>8. \A n \in Message :
         /\ post'[n].at = post[n].at \/ (post[n].stage = "unsent" /\ post'[n].at = current)
         /\ post'[n].stage = "unsent" => post[n].stage = "unsent"
  <2>1. ASSUME NEW n \in Message, n # m PROVE post'[n] = post[n]
    BY <1>3, <2>1
  <2> QED BY <1>1, <1>2, <1>3, <2>1
<1>9. client = "gone" => client' = "gone"
  OBVIOUS
<1> QED BY <1>2, <1>4, <1>5, <1>6, <1>7, <1>8, <1>9, StagesInv

LEMMA ClientInv ==
    ASSUME IInv, \/ SendInitialize \/ SendInitialized \/ Leave
                 \/ \E m \in Request : SendRequest(m)
    PROVE  IInv'
<1> TypeOK
  BY DEF IInv
<1>1. CASE SendInitialize
  BY <1>1, ForwardInv, Messages DEF SendInitialize
<1>2. CASE SendInitialized
  BY <1>2, ForwardInv, Messages DEF SendInitialized
<1>3. ASSUME NEW m \in Request, SendRequest(m) PROVE IInv'
  BY <1>3, ForwardInv, Messages DEF SendRequest
<1>4. CASE Leave
  <2>1. /\ exited' = TRUE /\ client' = "gone"
        /\ UNCHANGED <<up, live, ready, crashes, cuts, post, executed, built, current, bound,
                       stream, building, stale>>
    BY <1>4 DEF Leave, daemonVars, faultVars
  <2>2. TypeOK' /\ BridgeOutlivesSessions'
    BY <2>1 DEF TypeOK, BridgeOutlivesSessions
  <2> QED BY <2>1, <2>2 DEF IInv, TakenOnce, OneRecreation, Placed, HalfMade, FirstSession,
                            NoStrayTransport, CachedHandshake
<1> QED BY <1>1, <1>2, <1>3, <1>4

-----------------------------------------------------------------------------
(* The daemon and the network                                               *)

\* The stage of one message changes, and nothing of the transports.
LEMMA OneStageInv ==
    ASSUME IInv, NEW m \in Message, NEW s \in Stage \ {"unsent"},
           post' = [post EXCEPT ![m].stage = s],
           m = "initialize" => s \notin {"refused", "waiting"},
           UNCHANGED <<up, crashes, cuts, client, built, current, bound, building, stale, exited>>,
           executed' \in [Message -> Nat],
           \A n \in Message \ {m} : executed'[n] = executed[n],
           executed'[m] <= 1, s \in Untaken => executed'[m] = 0,
           s = "accepted" => executed'[m] = 1,
           live' \subseteq Transport, ready' \subseteq live', HalfMade',
           stream' \in [Transport -> {"none", "open", "broken"}]
    PROVE  IInv'
<1>1. /\ post' \in [Message -> Post]
      /\ post'[m].stage = s
      /\ \A n \in Message : post'[n].at = post[n].at
      /\ \A n \in Message \ {m} : post'[n] = post[n]
  BY OneStage DEF IInv
<1>2. TypeOK'
  BY <1>1 DEF IInv, TypeOK
<1>3. TakenOnce'
  BY <1>1 DEF IInv, TakenOnce
<1>4. post'["initialize"].stage \notin {"refused", "waiting"}
  BY <1>1, Messages DEF IInv, FirstSession
<1>5. \A n \in Message :
         /\ post'[n].at = post[n].at \/ (post[n].stage = "unsent" /\ post'[n].at = current)
         /\ post'[n].stage = "unsent" => post[n].stage = "unsent"
  BY <1>1
<1> QED BY <1>2, <1>3, <1>4, <1>5, StagesInv

LEMMA TakeInv ==
    ASSUME IInv, NEW m \in Message, Take(m)
    PROVE  IInv'
<1> TypeOK
  BY DEF IInv
<1> DEFINE p == post[m]
<1>0. /\ UNCHANGED <<up, crashes, cuts, client, built, current, bound, building, stale, exited>>
      /\ p \in Post /\ p.stage \in {"sent", "aborted"} /\ executed[m] = 0
      /\ executed \in [Message -> Nat]
  BY DEF Take, faultVars, TypeOK, IInv, TakenOnce, Untaken
<1>1. CASE Known(m)
  <2>0. PICK s \in {"lost", "answered", "accepted"} : post' = [post EXCEPT ![m].stage = s]
    <3>1. post' = [post EXCEPT ![m].stage = IF p.stage = "aborted" THEN "lost"
                                            ELSE IF m = "initialized" THEN "answered"
                                            ELSE "accepted"]
      BY <1>1 DEF Take
    <3> QED BY <3>1
  <2>1. /\ executed' = [executed EXCEPT ![m] = @ + 1]
        /\ Handle(m, p.at)
    BY <1>1 DEF Take
  <2>2. s \in Stage \ {"unsent"} /\ s \notin Untaken /\ s \notin {"refused", "waiting"}
    BY DEF Stage, Untaken
  <2>3. /\ executed' \in [Message -> Nat] /\ executed'[m] = 1
        /\ \A n \in Message \ {m} : executed'[n] = executed[n]
    BY <1>0, <2>1
  <2>4. p.at \in Transport
    BY <1>0 DEF Post
  <2>5. p.at \in live'
    BY <1>1, <2>1 DEF Handle, Known
  <2>6. /\ live' \subseteq Transport /\ ready' \subseteq live'
        /\ stream' \in [Transport -> {"none", "open", "broken"}]
    BY <2>1, <2>4, <2>5 DEF Handle, TypeOK
  <2>7. HalfMade'
    <3>1. CASE m = "initialize"
      <4>1. live' = live \cup {1} /\ ready \subseteq ready'
        BY <2>1, <3>1 DEF Handle, IInv, FirstSession
      <4> QED BY <1>0, <4>1 DEF IInv, HalfMade
    <3>2. CASE m # "initialize"
      <4>1. live' = live /\ ready \subseteq ready'
        BY <2>1, <3>2 DEF Handle
      <4> QED BY <1>0, <4>1 DEF IInv, HalfMade
    <3> QED BY <3>1, <3>2
  <2>8. /\ executed'[m] <= 1 /\ (s \in Untaken => executed'[m] = 0)
        /\ s = "accepted" => executed'[m] = 1
    BY <2>2, <2>3
  <2> HIDE DEF p
  <2> QED BY <1>0, <2>0, <2>2, <2>3, <2>6, <2>7, <2>8, OneStageInv
<1>2. CASE ~Known(m)
  <2>0. PICK s \in {"lost", "refused"} : post' = [post EXCEPT ![m].stage = s]
    <3>1. post' = [post EXCEPT ![m].stage = IF p.stage = "aborted" THEN "lost" ELSE "refused"]
      BY <1>2 DEF Take
    <3> QED BY <3>1
  <2>1. UNCHANGED <<executed, live, ready, stream>>
    BY <1>2 DEF Take
  <2>2. s \in Stage \ {"unsent"} /\ m # "initialize"
    BY <1>2 DEF Stage, Known
  <2>3. /\ live' \subseteq Transport /\ ready' \subseteq live'
        /\ stream' \in [Transport -> {"none", "open", "broken"}]
        /\ executed' \in [Message -> Nat]
        /\ executed'[m] = 0 /\ \A n \in Message \ {m} : executed'[n] = executed[n]
    BY <1>0, <2>1 DEF TypeOK
  <2>4. HalfMade'
    BY <1>0, <2>1 DEF IInv, HalfMade
  <2>5. /\ executed'[m] <= 1 /\ (s \in Untaken => executed'[m] = 0)
        /\ s # "accepted"
    BY <2>3
  <2> HIDE DEF p
  <2> QED BY <1>0, <2>0, <2>2, <2>3, <2>4, <2>5, OneStageInv
<1> QED BY <1>1, <1>2

LEMMA ArrivalInv ==
    ASSUME IInv, NEW m \in Message, Answer(m) \/ Unreachable(m)
    PROVE  IInv'
<1> TypeOK
  BY DEF IInv
<1>1. /\ UNCHANGED <<up, crashes, cuts, client, built, current, bound, building, stale, exited,
                     executed, live, ready, stream>>
  BY DEF Answer, Unreachable, daemonVars, faultVars, bridgeVars
<1>2. PICK s \in {"answered", "failed", "lost"} : post' = [post EXCEPT ![m].stage = s]
  <2>1. CASE Answer(m)
    BY <2>1 DEF Answer
  <2>2. CASE Unreachable(m)
    <3>1. post' = [post EXCEPT ![m].stage = IF post[m].stage = "sent" THEN "failed" ELSE "lost"]
      BY <2>2 DEF Unreachable
    <3> QED BY <3>1
  <2> QED BY <2>1, <2>2
<1>3. /\ s \in Stage \ {"unsent"} /\ s \notin Untaken
      /\ s \notin {"refused", "waiting", "accepted"}
  BY DEF Stage, Untaken
<1>4. /\ live' \subseteq Transport /\ ready' \subseteq live' /\ executed' \in [Message -> Nat]
      /\ stream' \in [Transport -> {"none", "open", "broken"}]
  BY <1>1 DEF TypeOK
<1>5. HalfMade'
  BY <1>1 DEF IInv, HalfMade
<1>6. executed'[m] <= 1 /\ \A n \in Message \ {m} : executed'[n] = executed[n]
  BY <1>1 DEF IInv, TakenOnce
<1> QED BY <1>1, <1>2, <1>3, <1>4, <1>5, <1>6, OneStageInv

LEMMA FaultInv ==
    ASSUME IInv, Crash \/ Restart \/ \E t \in Transport : Cut(t)
    PROVE  IInv'
<1> TypeOK
  BY DEF IInv
<1>1. CASE Crash
  <2>1. /\ crashes' = crashes + 1 /\ crashes < MaxCrashes /\ up' = FALSE
        /\ live' = {} /\ ready' = {}
        /\ UNCHANGED <<cuts, client, executed, built, current, bound, building, stale, exited>>
    BY <1>1 DEF Crash
  <2>2. PICK failing \in SUBSET {m \in Message : post[m].stage = "accepted"} :
           LET broken == {m \in Message \ failing : post[m].stage = "accepted"}
           IN  /\ post' = [m \in Message |->
                             IF m \in failing THEN [post[m] EXCEPT !.stage = "failed"]
                             ELSE IF m \in broken THEN [post[m] EXCEPT !.stage = "lost"]
                             ELSE post[m]]
               /\ stream' = [t \in Transport |->
                               IF stream[t] = "open" \/ \E m \in broken : post[m].at = t
                               THEN "broken" ELSE stream[t]]
    BY <1>1 DEF Crash
  <2>3. stream' \in [Transport -> {"none", "open", "broken"}]
    BY <2>2 DEF TypeOK
  <2>4. \A m \in Message : /\ post'[m] \in Post /\ post'[m].at = post[m].at
                           /\ post'[m].stage \in {"failed", "lost"} \/ post'[m] = post[m]
    <3>1. ASSUME NEW m \in Message
          PROVE  /\ post'[m] \in Post /\ post'[m].at = post[m].at
                 /\ post'[m].stage \in {"failed", "lost"} \/ post'[m] = post[m]
      <4>1. \A s \in {"failed", "lost"} : /\ [post[m] EXCEPT !.stage = s] \in Post
                                          /\ [post[m] EXCEPT !.stage = s].stage = s
                                          /\ [post[m] EXCEPT !.stage = s].at = post[m].at
        <5>1. post[m] \in Post /\ "failed" \in Stage /\ "lost" \in Stage
          BY DEF TypeOK, Stage
        <5> QED BY <5>1, StageChange
      <4>2. post'[m] \in {[post[m] EXCEPT !.stage = "failed"], [post[m] EXCEPT !.stage = "lost"], post[m]}
        BY <2>2
      <4> QED BY <4>1, <4>2 DEF TypeOK
    <3> QED BY <3>1
  <2>5. post' \in [Message -> Post]
    BY <2>2, <2>4
  <2>6. TypeOK'
    <3>1. crashes' \in 0 .. MaxCrashes
      BY <2>1, BoundsAssumption DEF TypeOK
    <3>2. built' \in Transport /\ bound' \subseteq 1 .. built'
      BY <2>1 DEF TypeOK
    <3> QED BY <2>1, <2>3, <2>5, <3>1, <3>2 DEF TypeOK
  <2>7. TakenOnce'
    BY <2>1, <2>4 DEF IInv, TakenOnce, Untaken
  <2>8. HalfMade'
    BY <2>1 DEF HalfMade
  <2>9. post'["initialize"].stage \notin {"refused", "waiting"}
    BY <2>4, Messages DEF IInv, FirstSession
  <2>10. \A n \in Message :
         /\ post'[n].at = post[n].at \/ (post[n].stage = "unsent" /\ post'[n].at = current)
         /\ post'[n].stage = "unsent" => post[n].stage = "unsent"
    BY <2>4
  <2> QED BY <2>1, <2>6, <2>7, <2>8, <2>9, <2>10, StagesInv
<1>2. CASE Restart \/ \E t \in Transport : Cut(t)
  <2>1. UNCHANGED <<live, ready, client, post, executed, built, current, bound, building, stale,
                    exited>>
    BY <1>2 DEF Restart, Cut, bridgeVars, daemonVars
  <2>2. TypeOK'
    <3>1. up' \in BOOLEAN /\ crashes' = crashes
      BY <1>2 DEF Restart, Cut, TypeOK, faultVars, daemonVars
    <3>2. cuts' \in 0 .. MaxCuts /\ stream' \in [Transport -> {"none", "open", "broken"}]
      BY <1>2, BoundsAssumption DEF Restart, Cut, TypeOK, faultVars, bridgeVars
    <3> QED BY <2>1, <3>1, <3>2 DEF TypeOK
  <2>3. TakenOnce' /\ HalfMade' /\ post'["initialize"].stage \notin {"refused", "waiting"}
    BY <2>1 DEF IInv, TakenOnce, HalfMade, FirstSession
  <2> QED BY <2>1, <2>2, <2>3, StagesInv
<1> QED BY <1>1, <1>2

-----------------------------------------------------------------------------
(* The bridge                                                               *)

LEMMA RecreateType ==
    ASSUME TypeOK, Recreate \/ UNCHANGED <<built, bound, building, stale>>
    PROVE  /\ built' \in Transport /\ bound' \subseteq 1 .. built' /\ built <= built'
           /\ building' \in [Transport -> Handshake \cup {"no", "failed"}]
           /\ stale' \in [Transport -> Transport]
<1>1. CASE UNCHANGED <<built, bound, building, stale>>
  BY <1>1 DEF TypeOK, Transport
<1>2. CASE /\ built < MaxTransports /\ built' = built + 1 /\ bound' = bound \cup {built + 1}
           /\ building' = [building EXCEPT ![built + 1] = "initialize"]
           /\ stale' = [stale EXCEPT ![built + 1] = current]
  <2>1. built \in Nat /\ built + 1 \in Transport /\ built <= built + 1
    BY <1>2, BoundsAssumption DEF TypeOK, Transport
  <2>2. bound' \subseteq 1 .. built'
    BY <1>2, <2>1 DEF TypeOK
  <2> QED BY <1>2, <2>1, <2>2 DEF TypeOK, Handshake
<1> QED BY <1>1, <1>2 DEF Recreate

\* A recreation is begun, or joined, while nothing is sent anew.
LEMMA RecreateInv ==
    ASSUME IInv, TypeOK', TakenOnce', CachedHandshake \/ UNCHANGED <<built, bound, building, stale>>,
           Recreate \/ UNCHANGED <<built, bound, building, stale>>,
           UNCHANGED <<live, ready, client, current, exited>>,
           \A m \in Message : /\ post'[m].at = post[m].at
                              /\ post'[m].stage = "unsent" => post[m].stage = "unsent",
           post'["initialize"].stage \notin {"refused", "waiting"}
    PROVE  IInv'
<1>1. CASE UNCHANGED <<built, bound, building, stale>>
  <2>1. HalfMade'
    BY <1>1 DEF IInv, HalfMade
  <2> QED BY <1>1, <2>1, StagesInv
<1>2. CASE CachedHandshake /\ ~Recreating /\ ~UNCHANGED <<built, bound, building, stale>>
  <2> TypeOK
    BY DEF IInv
  <2> DEFINE n == built + 1
  <2>1. /\ n \in Transport /\ built' = n /\ bound' = bound \cup {n}
        /\ building'[n] = "initialize" /\ stale'[n] = current
        /\ \A t \in Transport \ {n} : building'[t] = building[t] /\ stale'[t] = stale[t]
    <3>1. /\ built < MaxTransports /\ built' = built + 1 /\ bound' = bound \cup {built + 1}
          /\ building' = [building EXCEPT ![built + 1] = "initialize"]
          /\ stale' = [stale EXCEPT ![built + 1] = current]
      BY <1>2 DEF Recreate
    <3>2. built + 1 \in Transport
      BY <3>1, BoundsAssumption DEF TypeOK, Transport
    <3> QED BY <3>1, <3>2 DEF TypeOK
  <2>2. \A t \in Transport : building[t] \notin Handshake
    BY <1>2 DEF Recreating
  <2>3. current # n /\ current <= built /\ built \in Nat /\ current \in Transport
    BY DEF IInv, Placed, TypeOK, Transport
  <2>4. \A m \in Message : post[m].at # n /\ post[m].at <= built /\ post[m].at \in Transport
    BY DEF IInv, Placed, TypeOK, Transport, Post
  <2>5. n \notin bound
    BY <2>3 DEF TypeOK
  <2> HIDE DEF n
  <2>6. OneRecreation'
    BY <2>1, <2>2 DEF OneRecreation
  <2>7. Placed'
    <3>1. \A t \in Transport : /\ t <= built => t <= built'
                               /\ t > built' => t > built /\ t # n
      BY <2>1, <2>3 DEF n, Transport
    <3> QED BY <2>1, <2>3, <2>4, <3>1 DEF IInv, Placed
  <2>8. HalfMade'
    <3>1. ASSUME NEW t \in live, t = n PROVE t \in ready \cup {1}
      <4>1. building[n] \in {"initialized", "failed"} \/ n \in ready \cup {1}
        BY <3>1 DEF IInv, HalfMade
      <4>2. building[n] = "no"
        BY <2>1, <2>3 DEF n, IInv, Placed
      <4> QED BY <3>1, <4>1, <4>2
    <3> QED BY <2>1, <3>1 DEF IInv, HalfMade, TypeOK
  <2>9. FirstSession'
    <3>1. CachedHandshake'
      BY <1>2, Messages DEF CachedHandshake
    <3> QED BY <3>1, Messages DEF IInv, FirstSession
  <2>10. NoStrayTransport'
    <3>1. \A t \in bound : t \in Transport
      BY BoundsAssumption DEF TypeOK, Transport
    <3> QED BY <2>1, <2>5, <3>1 DEF IInv, NoStrayTransport
  <2>11. BridgeOutlivesSessions'
    BY DEF IInv, BridgeOutlivesSessions
  <2> QED BY <2>6, <2>7, <2>8, <2>9, <2>10, <2>11 DEF IInv
<1>3. CASE Recreating
  <2>1. UNCHANGED <<built, bound, building, stale>>
    BY <1>3 DEF Recreate
  <2> QED BY <1>1, <2>1
<1> QED BY <1>1, <1>2, <1>3

LEMMA SendFailedInv ==
    ASSUME IInv, NEW m \in Message, SendFailed(m)
    PROVE  IInv'
<1> TypeOK
  BY DEF IInv
<1>1. /\ UNCHANGED <<up, live, ready, crashes, cuts, client, executed, current, stream, exited>>
      /\ post[m].stage \in {"refused", "failed"}
  BY DEF SendFailed, daemonVars, faultVars
<1>2. /\ CachedHandshake \/ UNCHANGED <<built, bound, building, stale>>
      /\ Recreate \/ UNCHANGED <<built, bound, building, stale>>
  BY DEF SendFailed, Recoverable
<1>3. PICK s \in {"waiting", "lost"} :
         /\ post' = [post EXCEPT ![m].stage = s]
         /\ s = "waiting" => post[m].stage = "refused"
  BY DEF SendFailed, Recoverable
<1>4. s \in Stage /\ s # "unsent"
  BY DEF Stage
<1>5. /\ post' \in [Message -> Post]
      /\ post'[m].stage = s
      /\ \A n \in Message : post'[n].at = post[n].at
      /\ \A n \in Message \ {m} : post'[n] = post[n]
  BY <1>3, <1>4, OneStage
<1>6. TypeOK'
  BY <1>1, <1>2, <1>5, RecreateType DEF TypeOK
<1>7. TakenOnce'
  BY <1>1, <1>3, <1>5 DEF IInv, TakenOnce, Untaken
<1>8. post'["initialize"].stage \notin {"refused", "waiting"}
  BY <1>3, <1>5, Messages DEF IInv, FirstSession
<1>9. \A n \in Message : /\ post'[n].at = post[n].at
                         /\ post'[n].stage = "unsent" => post[n].stage = "unsent"
  BY <1>4, <1>5
<1> QED BY <1>1, <1>2, <1>6, <1>7, <1>8, <1>9, RecreateInv

LEMMA StreamErrorInv ==
    ASSUME IInv, NEW t \in Transport, StreamError(t)
    PROVE  IInv'
<1> TypeOK
  BY DEF IInv
<1>1. /\ UNCHANGED <<up, live, ready, crashes, cuts, client, post, executed, current, exited>>
      /\ stream' \in [Transport -> {"none", "open", "broken"}]
  BY DEF StreamError, daemonVars, faultVars, TypeOK
<1>2. /\ CachedHandshake \/ UNCHANGED <<built, bound, building, stale>>
      /\ Recreate \/ UNCHANGED <<built, bound, building, stale>>
  BY DEF StreamError
<1>3. TypeOK'
  BY <1>1, <1>2, RecreateType DEF TypeOK
<1>4. TakenOnce' /\ post'["initialize"].stage \notin {"refused", "waiting"}
  BY <1>1 DEF IInv, TakenOnce, FirstSession
<1> QED BY <1>1, <1>2, <1>3, <1>4, RecreateInv

\* What a swap does to the messages.
LEMMA SwapEffect ==
    ASSUME IInv, NEW t \in Transport, Swap(t)
    PROVE  /\ post' \in [Message -> Post]
           /\ \A m \in Message :
                 /\ post'[m].at \in {post[m].at, t}
                 /\ \/ post'[m].stage = post[m].stage /\ post[m].stage # "waiting"
                    \/ post[m].stage = "sent" /\ post'[m].stage = "aborted"
                    \/ post[m].stage = "waiting" /\ post'[m].stage = "sent"
                    \/ post[m].stage \in {"sent", "accepted"} /\ post'[m].stage = "lost"
                 /\ post'[m].at = post[m].at \/ post[m].stage = "waiting"
<1>1. PICK left \in SUBSET {m \in Message : post[m].stage = "sent" /\ post[m].at = stale[t]} :
          post' = [m \in Message |->
                     IF m \in Waiting THEN [stage |-> "sent", at |-> t, retried |-> TRUE]
                     ELSE IF m \in left THEN [post[m] EXCEPT !.stage = "aborted"]
                     ELSE IF post[m].at = stale[t] /\ post[m].stage \in {"sent", "accepted"}
                     THEN [post[m] EXCEPT !.stage = "lost"]
                     ELSE post[m]]
  BY DEF Swap
<1>2. ASSUME NEW m \in Message
      PROVE  /\ post'[m] \in Post
             /\ post'[m].at \in {post[m].at, t}
             /\ \/ post'[m].stage = post[m].stage /\ post[m].stage # "waiting"
                \/ post[m].stage = "sent" /\ post'[m].stage = "aborted"
                \/ post[m].stage = "waiting" /\ post'[m].stage = "sent"
                \/ post[m].stage \in {"sent", "accepted"} /\ post'[m].stage = "lost"
             /\ post'[m].at = post[m].at \/ post[m].stage = "waiting"
  <2>1. post[m] \in Post /\ "aborted" \in Stage /\ "lost" \in Stage /\ "sent" \in Stage
    BY DEF IInv, TypeOK, Stage
  <2>2. CASE m \in Waiting
    <3>1. post'[m] = [stage |-> "sent", at |-> t, retried |-> TRUE] /\ post[m].stage = "waiting"
      BY <1>1, <2>2 DEF Waiting
    <3> QED BY <2>1, <3>1 DEF Post
  <2>3. CASE m \notin Waiting /\ m \in left
    <3>1. post'[m] = [post[m] EXCEPT !.stage = "aborted"] /\ post[m].stage = "sent"
      BY <1>1, <2>3
    <3> QED BY <2>1, <3>1, StageChange
  <2>4. CASE /\ m \notin Waiting /\ m \notin left
             /\ post[m].at = stale[t] /\ post[m].stage \in {"sent", "accepted"}
    <3>1. post'[m] = [post[m] EXCEPT !.stage = "lost"] /\ post[m].stage \in {"sent", "accepted"}
      BY <1>1, <2>4
    <3>2. post'[m] \in Post /\ post'[m].stage = "lost" /\ post'[m].at = post[m].at
      BY <2>1, <3>1, StageChange
    <3> QED BY <3>1, <3>2
  <2>5. CASE /\ m \notin Waiting /\ m \notin left
             /\ ~(post[m].at = stale[t] /\ post[m].stage \in {"sent", "accepted"})
    <3>1. post'[m] = post[m] /\ post[m].stage # "waiting"
      BY <1>1, <2>5 DEF Waiting
    <3> QED BY <2>1, <3>1
  <2> QED BY <2>2, <2>3, <2>4, <2>5
<1> QED BY <1>1, <1>2

LEMMA ReplayInitializedInv ==
    ASSUME IInv, NEW t \in Transport, building[t] \in Handshake, ~exited, ReplayInitialized(t),
           UNCHANGED <<up, crashes, cuts, client, executed>>
    PROVE  IInv'
<1> TypeOK
  BY DEF IInv
<1>1. /\ t \in live /\ ready' = ready \cup {t} /\ live' = live
      /\ stream' \in [Transport -> {"none", "open", "broken"}]
  BY DEF ReplayInitialized, TypeOK
<1>2. Swap(t)
  BY DEF ReplayInitialized
<1>3. /\ current' = t /\ building' = [building EXCEPT ![t] = "no"]
      /\ bound' = bound \ {stale[t]} /\ exited' = FALSE
      /\ built' = built /\ stale' = stale
  <2>1. /\ current' = t /\ building' = [building EXCEPT ![t] = "no"] /\ Close(stale[t])
        /\ built' = built /\ stale' = stale
    BY <1>2 DEF Swap
  <2>2. bound' = bound \ {stale[t]} /\ exited' = (stale[t] \in bound')
    BY <2>1 DEF Close
  <2>3. stale[t] \notin bound'
    BY <2>2
  <2>4. (stale[t] \in bound') = FALSE
    BY <2>3
  <2>5. exited' = FALSE
    BY <2>2, <2>4
  <2> QED BY <2>1, <2>2, <2>5
<1>4. stale[t] = current /\ \A u \in Transport : building[u] \in Handshake => u = t
  BY DEF IInv, OneRecreation
<1>5. /\ building'[t] = "no" /\ \A u \in Transport \ {t} : building'[u] = building[u]
      /\ building' \in [Transport -> Handshake \cup {"no", "failed"}]
  BY <1>3 DEF TypeOK
<1>6. TypeOK'
  <2>1. post' \in [Message -> Post]
    BY <1>2, SwapEffect
  <2>2. bound' \subseteq 1 .. built' /\ exited' \in BOOLEAN
    BY <1>3 DEF TypeOK
  <2>3. ready' \subseteq live' /\ live' \subseteq Transport
    BY <1>1 DEF TypeOK
  <2> QED BY <1>1, <1>3, <1>5, <2>1, <2>2, <2>3 DEF TypeOK
<1>7. TakenOnce'
  BY <1>2, SwapEffect DEF IInv, TakenOnce, Untaken
<1>8. OneRecreation'
  BY <1>4, <1>5 DEF OneRecreation, Handshake
<1>9. Placed'
  <2>1. t <= built
    <3>1. building[t] # "no" /\ t \in Nat /\ built \in Nat
      BY DEF Handshake, Transport, TypeOK
    <3> QED BY <3>1 DEF IInv, Placed
  <2>2. \A m \in Message : post[m].at \in Transport /\ post[m].at <= built /\ building[post[m].at] = "no"
    BY DEF IInv, Placed, TypeOK, Post
  <2>3. \A m \in Message : post'[m].at \in {post[m].at, t}
    BY <1>2, SwapEffect
  <2>4. \A u \in Transport : building[u] = "no" => building'[u] = "no"
    BY <1>5
  <2>5. \A m \in Message : post'[m].at <= built /\ building'[post'[m].at] = "no"
    BY <1>5, <2>1, <2>2, <2>3, <2>4
  <2> QED BY <1>3, <1>5, <2>1, <2>4, <2>5 DEF IInv, Placed
<1>10. HalfMade'
  <2>1. ASSUME NEW u \in live
        PROVE  u \in ready' \cup {1} \/ building'[u] \in {"initialized", "failed"}
    <3>1. u \in ready \cup {1} \/ building[u] \in {"initialized", "failed"}
      BY DEF IInv, HalfMade
    <3>2. u \in Transport
      BY DEF TypeOK
    <3> QED BY <1>1, <1>5, <3>1, <3>2
  <2> QED BY <1>1, <2>1 DEF HalfMade
<1>11. FirstSession'
  <2>1. /\ post'["initialize"].at = 1 /\ post'["initialize"].stage \notin {"refused", "waiting"}
    BY <1>2, SwapEffect, Messages DEF IInv, FirstSession
  <2>2. ~CachedHandshake' => ~CachedHandshake
    BY <1>2, SwapEffect, Messages DEF CachedHandshake
  <2> QED BY <1>3, <2>1, <2>2 DEF IInv, FirstSession
<1>12. NoStrayTransport'
  <2>1. \A u \in bound : u \in Transport
    BY BoundsAssumption DEF TypeOK, Transport
  <2>2. ASSUME NEW u \in bound, u # current PROVE u = t \/ building'[u] # "no"
    BY <1>5, <2>1, <2>2 DEF IInv, NoStrayTransport
  <2> QED BY <1>3, <1>4, <2>2 DEF NoStrayTransport
<1>13. BridgeOutlivesSessions'
  BY <1>3 DEF BridgeOutlivesSessions
<1> QED BY <1>6, <1>7, <1>8, <1>9, <1>10, <1>11, <1>12, <1>13 DEF IInv

LEMMA ReplayInv ==
    ASSUME IInv, NEW t \in Transport, ~exited, Replay(t)
    PROVE  IInv'
<1> TypeOK
  BY DEF IInv
<1>0. building[t] \in Handshake /\ UNCHANGED <<up, crashes, cuts, client, executed>>
  BY DEF Replay, faultVars
<1>1. CASE ReplayInitialized(t)
  BY <1>0, <1>1, ReplayInitializedInv
<1>2. CASE ReplayInitialize(t) \/ ReplayFails(t)
  <2>1. PICK b \in {"initialized", "failed"} :
           /\ building' = [building EXCEPT ![t] = b]
           /\ b = "initialized" => live' = live \cup {t}
           /\ b = "failed" => live' = live
    BY <1>2 DEF ReplayInitialize, ReplayFails
  <2>2. UNCHANGED <<ready, built, current, bound, stream, stale, exited>>
    BY <1>2 DEF ReplayInitialize, ReplayFails
  <2>3. \A m \in Message : /\ post'[m] \in Post /\ post'[m].at = post[m].at
                           /\ post'[m] = post[m] \/ post'[m].stage = "lost"
    <3>1. CASE ReplayInitialize(t)
      BY <3>1 DEF ReplayInitialize, TypeOK
    <3>2. ASSUME ReplayFails(t), NEW m \in Message
          PROVE  /\ post'[m] \in Post /\ post'[m].at = post[m].at
                 /\ post'[m] = post[m] \/ post'[m].stage = "lost"
      <4>1. post'[m] \in {[post[m] EXCEPT !.stage = "lost"], post[m]}
        BY <3>2 DEF ReplayFails
      <4>2. post[m] \in Post /\ "lost" \in Stage
        BY DEF TypeOK, Stage
      <4>3. /\ [post[m] EXCEPT !.stage = "lost"] \in Post
            /\ [post[m] EXCEPT !.stage = "lost"].stage = "lost"
            /\ [post[m] EXCEPT !.stage = "lost"].at = post[m].at
        BY <4>2, StageChange
      <4> QED BY <4>1, <4>2, <4>3
    <3> QED BY <1>2, <3>1, <3>2
  <2>4. post' \in [Message -> Post]
    <3>1. CASE ReplayInitialize(t)
      BY <3>1 DEF ReplayInitialize, TypeOK
    <3>2. CASE ReplayFails(t)
      BY <2>3, <3>2 DEF ReplayFails
    <3> QED BY <1>2, <3>1, <3>2
  <2>5. /\ building'[t] = b /\ \A u \in Transport \ {t} : building'[u] = building[u]
        /\ building' \in [Transport -> Handshake \cup {"no", "failed"}]
    <3>1. b \in Handshake \cup {"no", "failed"}
      BY DEF Handshake
    <3>2. building' = [building EXCEPT ![t] = b]
      BY <2>1
    <3> QED BY <3>1, <3>2 DEF TypeOK
  <2>6. live' \subseteq Transport /\ live \subseteq live' /\ live' \subseteq live \cup {t}
    <3>1. live' = live \/ live' = live \cup {t}
      BY <2>1
    <3> QED BY <3>1 DEF TypeOK
  <2>7. TypeOK'
    BY <1>0, <2>2, <2>4, <2>5, <2>6 DEF TypeOK
  <2>8. TakenOnce'
    BY <1>0, <2>3 DEF IInv, TakenOnce, Untaken
  <2>9. OneRecreation'
    BY <1>0, <2>2, <2>5 DEF IInv, OneRecreation, Handshake
  <2>10. \A u \in Transport : building[u] = "no" => u # t /\ building'[u] = "no"
    BY <1>0, <2>5 DEF Handshake
  <2>11. Placed'
    <3>1. \A m \in Message : post[m].at \in Transport
      BY DEF TypeOK, Post
    <3> QED BY <2>2, <2>3, <2>10, <3>1 DEF IInv, Placed, TypeOK
  <2>12. HalfMade'
    <3>1. ASSUME NEW u \in live'
          PROVE  u \in ready \cup {1} \/ building'[u] \in {"initialized", "failed"}
      <4>1. CASE u = t
        BY <2>5, <4>1
      <4>2. CASE u # t
        <5>1. u \in live /\ u \in Transport
          BY <2>6, <4>2 DEF TypeOK
        <5> QED BY <2>5, <4>2, <5>1 DEF IInv, HalfMade
      <4> QED BY <4>1, <4>2
    <3> QED BY <2>2, <3>1 DEF HalfMade
  <2>13. FirstSession'
    <3>1. /\ post'["initialize"].at = 1 /\ post'["initialize"].stage \notin {"refused", "waiting"}
      BY <2>3, Messages DEF IInv, FirstSession
    <3>2. ~CachedHandshake' => ~CachedHandshake
      BY <2>3, Messages DEF CachedHandshake
    <3> QED BY <2>2, <3>1, <3>2 DEF IInv, FirstSession
  <2>14. NoStrayTransport'
    <3>1. \A u \in bound : u \in Transport
      BY BoundsAssumption DEF TypeOK, Transport
    <3>2. ASSUME NEW u \in bound, u # current PROVE building'[u] # "no"
      <4>1. building[u] # "no"
        BY <3>2 DEF IInv, NoStrayTransport
      <4> QED BY <2>5, <3>1, <4>1
    <3> QED BY <2>2, <3>2 DEF NoStrayTransport
  <2>15. BridgeOutlivesSessions'
    BY <2>2 DEF BridgeOutlivesSessions
  <2> QED BY <2>7, <2>8, <2>9, <2>11, <2>12, <2>13, <2>14, <2>15 DEF IInv
<1> QED BY <1>1, <1>2 DEF Replay

LEMMA NextInv == IInv /\ [Next]_vars => IInv'
<1> SUFFICES ASSUME IInv, [Next]_vars PROVE IInv'
  OBVIOUS
<1>1. CASE SendInitialize \/ SendInitialized \/ Leave \/ \E m \in Request : SendRequest(m)
  BY <1>1, ClientInv
<1>2. CASE Crash \/ Restart \/ \E t \in Transport : Cut(t)
  BY <1>2, FaultInv
<1>3. ASSUME NEW m \in Message, Travel(m) PROVE IInv'
  BY <1>3, TakeInv, ArrivalInv, SendFailedInv DEF Travel
<1>4. ASSUME NEW t \in Transport, ~exited, StreamError(t) \/ Replay(t) PROVE IInv'
  BY <1>4, StreamErrorInv, ReplayInv
<1>5. CASE UNCHANGED vars
  BY <1>5 DEF vars, daemonVars, faultVars, bridgeVars, IInv, TypeOK, TakenOnce, OneRecreation,
              Placed, HalfMade, FirstSession, CachedHandshake, NoStrayTransport,
              BridgeOutlivesSessions
<1> QED BY <1>1, <1>2, <1>3, <1>4, <1>5 DEF Next

LEMMA Invariance == Spec => []IInv
<1>1. Init => IInv
  BY InitInv
<1>2. IInv /\ [Next]_vars => IInv'
  BY NextInv
<1> QED BY <1>1, <1>2, PTL DEF Spec

-----------------------------------------------------------------------------
(* Theorems                                                                 *)

\* Every variable has its type.
THEOREM TypeCorrect == Spec => []TypeOK
BY Invariance, PTL DEF IInv

\* A message is executed at most once, for the only send that is repeated is
\* one the daemon answered 404 (createSendFailureHandler).
ExecutedOnce == \A m \in Message : executed[m] <= 1

THEOREM ExecutesOnce == Spec => []ExecutedOnce
<1>1. IInv => ExecutedOnce
  BY DEF IInv, TakenOnce, ExecutedOnce
<1> QED BY <1>1, Invariance, PTL

\* A transport that was superseded has no handlers any more, however triggers
\* of a recreation interleave (recreateSessionOnce, recreateSession).
THEOREM NoneAstray == Spec => []NoStrayTransport
BY Invariance, PTL DEF IInv

\* The bridge ends with its client only, not with a transport that it closes
\* itself (recreateSession).
THEOREM Outlives == Spec => []BridgeOutlivesSessions
BY Invariance, PTL DEF IInv

\* A session the bridge has made handles a request only after the whole
\* handshake (recreateSession's two sends before the swap).
THEOREM HandshakeComplete == Spec => HandshakeFirst
<1>1. IInv /\ [Next]_vars =>
        [\A m \in Request : executed'[m] # executed[m] => post[m].at \in ready \cup {1}]_vars
  <2> SUFFICES ASSUME IInv, Next, NEW m \in Request, executed'[m] # executed[m]
               PROVE  post[m].at \in ready \cup {1}
    BY DEF vars, daemonVars, faultVars, bridgeVars
  <2> TypeOK
    BY DEF IInv
  <2>1. m \in Message /\ m # "initialize"
    BY Messages
  <2>2. ASSUME NEW n \in Message, Take(n) PROVE post[m].at \in ready \cup {1}
    <3>1. executed' = executed \/ (executed' = [executed EXCEPT ![n] = @ + 1] /\ Known(n))
      BY <2>2 DEF Take
    <3>2. n = m /\ Known(m)
      BY <2>1, <3>1 DEF TypeOK
    <3>3. post[m].at \in live /\ building[post[m].at] = "no"
      BY <2>1, <3>2 DEF Known, IInv, Placed
    <3> QED BY <3>3 DEF IInv, HalfMade
  <2>3. ASSUME NEW n \in Message, Answer(n) \/ Unreachable(n) \/ SendFailed(n) PROVE FALSE
    BY <2>3 DEF Answer, Unreachable, SendFailed
  <2>4. CASE SendInitialize \/ SendInitialized \/ Leave \/ \E n \in Request : SendRequest(n)
    BY <2>4 DEF SendInitialize, SendInitialized, Leave, SendRequest, Forward
  <2>5. CASE Crash \/ Restart \/ \E t \in Transport : Cut(t) \/ StreamError(t) \/ Replay(t)
    BY <2>5 DEF Crash, Restart, Cut, StreamError, Replay
  <2> QED BY <2>2, <2>3, <2>4, <2>5 DEF Next, Travel
<1> QED BY <1>1, Invariance, PTL DEF Spec, HandshakeFirst
-----------------------------------------------------------------------------
(* The bridge implements Forwarding: every step sends, executes or answers  *)
(* one message, gives some up, or shows the client nothing.                 *)

LEMMA AbstractStages ==
    /\ Abstract("unsent") = "unsent" /\ Abstract("answered") = "answered"
    /\ \A s \in {"sent", "accepted", "refused", "failed", "waiting"} : Abstract(s) = "pending"
    /\ Abstract("lost") = "lost" /\ Abstract("aborted") = "lost"
BY DEF Abstract

LEMMA OutcomeOf == \A m \in Message : Outcome[m] = Abstract(post[m].stage)
BY DEF Outcome

\* One message changes its stage.
LEMMA OneOutcome ==
    ASSUME TypeOK, NEW m \in Message, NEW s \in Stage, post' = [post EXCEPT ![m].stage = s]
    PROVE  Outcome' = [Outcome EXCEPT ![m] = Abstract(s)]
<1>1. post'[m].stage = s /\ \A n \in Message \ {m} : post'[n] = post[n]
  BY OneStage
<1>2. DOMAIN Outcome = Message /\ Outcome' = [n \in Message |-> Outcome'[n]]
  BY DEF Outcome
<1>3. \A n \in Message : Outcome'[n] = IF n = m THEN Abstract(s) ELSE Outcome[n]
  BY <1>1 DEF Outcome
<1> QED BY <1>2, <1>3

\* A step in which no more happens to a message than that it is given up.
LEMMA GivesUp ==
    ASSUME executed' = executed,
           \A m \in Message : \/ Outcome'[m] = Outcome[m]
                              \/ Outcome[m] = "pending" /\ Outcome'[m] = "lost"
    PROVE  [Forwards!Next]_(Forwards!vars)
<1> DEFINE S == {m \in Message : Outcome'[m] # Outcome[m]}
<1>1. Outcome' = [m \in Message |-> Outcome'[m]]
  BY DEF Outcome
<1>2. \A m \in Message : Outcome'[m] = IF m \in S THEN "lost" ELSE Outcome[m]
  OBVIOUS
<1>3. Outcome' = [m \in Message |-> IF m \in S THEN "lost" ELSE Outcome[m]]
  BY <1>1, <1>2
<1>4. \A m \in S : Outcome[m] = "pending"
  OBVIOUS
<1>5. S \in SUBSET Message
  OBVIOUS
<1> HIDE DEF S
<1>6. Forwards!GiveUp(S)
  BY <1>3, <1>4 DEF Forwards!GiveUp
<1> QED BY <1>5, <1>6 DEF Forwards!Next

LEMMA Stutters ==
    ASSUME executed' = executed, post' = post
    PROVE  [Forwards!Next]_(Forwards!vars)
BY GivesUp DEF Outcome

LEMMA InitForwards == Init => Forwards!Init
<1> SUFFICES ASSUME Init PROVE Forwards!Init
  OBVIOUS
<1>1. Outcome = [m \in Message |-> "unsent"]
  BY AbstractStages DEF Init, Outcome
<1> QED BY <1>1 DEF Init, Forwards!Init

LEMMA ForwardForwards ==
    ASSUME IInv, NEW m \in Message, Forward(m)
    PROVE  [Forwards!Next]_(Forwards!vars)
<1> TypeOK
  BY DEF IInv
<1>1. /\ post[m].stage = "unsent" /\ executed' = executed
      /\ post' = [post EXCEPT ![m] = [stage |-> "sent", at |-> current, retried |-> FALSE]]
  BY DEF Forward
<1>2. post'[m].stage = "sent" /\ \A n \in Message \ {m} : post'[n] = post[n]
  BY <1>1 DEF TypeOK
<1>3. Outcome' = [Outcome EXCEPT ![m] = "pending"] /\ Outcome[m] = "unsent"
  <2>1. Outcome[m] = "unsent"
    BY <1>1, AbstractStages, OutcomeOf
  <2>2. DOMAIN Outcome = Message /\ Outcome' = [n \in Message |-> Outcome'[n]]
    BY DEF Outcome
  <2>3. \A n \in Message : Outcome'[n] = IF n = m THEN "pending" ELSE Outcome[n]
    BY <1>2, AbstractStages DEF Outcome
  <2> QED BY <2>1, <2>2, <2>3
<1>4. Forwards!Send(m)
  BY <1>1, <1>3 DEF Forwards!Send
<1> QED BY <1>4 DEF Forwards!Next

LEMMA TakeForwards ==
    ASSUME IInv, NEW m \in Message, Take(m)
    PROVE  [Forwards!Next]_(Forwards!vars)
<1> TypeOK
  BY DEF IInv
<1>0. /\ post[m].stage \in {"sent", "aborted"} /\ executed[m] = 0
      /\ executed \in [Message -> Nat]
  BY DEF Take, TypeOK, IInv, TakenOnce, Untaken
<1>1. /\ Outcome[m] = IF post[m].stage = "aborted" THEN "lost" ELSE "pending"
  BY <1>0, AbstractStages, OutcomeOf
<1>2. CASE Known(m)
  <2> DEFINE s == IF post[m].stage = "aborted" THEN "lost"
                  ELSE IF m = "initialized" THEN "answered" ELSE "accepted"
  <2>1. post' = [post EXCEPT ![m].stage = s] /\ executed' = [executed EXCEPT ![m] = 1]
    BY <1>0, <1>2 DEF Take
  <2>2. s \in Stage
    BY DEF Stage
  <2>3. Abstract(s) = IF m \in {"initialized"} /\ Outcome[m] = "pending" THEN "answered"
                      ELSE Outcome[m]
    BY <1>1, AbstractStages
  <2> HIDE DEF s
  <2>4. Outcome' = [Outcome EXCEPT ![m] = Abstract(s)]
    BY <2>1, <2>2, OneOutcome
  <2>5. [Outcome EXCEPT ![m] = Outcome[m]] = Outcome
    BY DEF Outcome
  <2>6. Outcome' = IF m \in {"initialized"} /\ Outcome[m] = "pending"
                   THEN [Outcome EXCEPT ![m] = "answered"] ELSE Outcome
    BY <2>3, <2>4, <2>5
  <2>7. Forwards!Execute(m)
    BY <1>0, <1>1, <2>1, <2>6 DEF Forwards!Execute
  <2> QED BY <2>7 DEF Forwards!Next
<1>3. CASE ~Known(m)
  <2> DEFINE s == IF post[m].stage = "aborted" THEN "lost" ELSE "refused"
  <2>1. post' = [post EXCEPT ![m].stage = s] /\ executed' = executed
    BY <1>3 DEF Take
  <2>2. s \in Stage /\ Abstract(s) = Outcome[m]
    BY <1>1, AbstractStages DEF Stage
  <2> HIDE DEF s
  <2>3. Outcome' = [Outcome EXCEPT ![m] = Outcome[m]]
    BY <2>1, <2>2, OneOutcome
  <2>4. \A n \in Message : Outcome'[n] = Outcome[n]
    BY <2>3 DEF Outcome
  <2> QED BY <2>1, <2>4, GivesUp
<1> QED BY <1>2, <1>3

LEMMA TravelForwards ==
    ASSUME IInv, NEW m \in Message, Answer(m) \/ Unreachable(m) \/ SendFailed(m)
    PROVE  [Forwards!Next]_(Forwards!vars)
<1> TypeOK
  BY DEF IInv
<1>0. executed' = executed
  BY DEF Answer, Unreachable, SendFailed
<1>1. CASE Answer(m)
  <2>1. post[m].stage = "accepted" /\ post' = [post EXCEPT ![m].stage = "answered"]
    BY <1>1 DEF Answer
  <2>2. Outcome[m] = "pending" /\ executed[m] = 1
    BY <2>1, AbstractStages, OutcomeOf DEF IInv, TakenOnce
  <2>3. Outcome' = [Outcome EXCEPT ![m] = "answered"]
    BY <2>1, OneOutcome, AbstractStages DEF Stage
  <2>4. Forwards!Answer(m)
    BY <1>0, <2>2, <2>3 DEF Forwards!Answer
  <2> QED BY <2>4 DEF Forwards!Next
<1>2. ASSUME NEW s \in {"failed", "lost", "waiting"}, post' = [post EXCEPT ![m].stage = s],
             Abstract(s) = Outcome[m] \/ (Outcome[m] = "pending" /\ Abstract(s) = "lost")
      PROVE  [Forwards!Next]_(Forwards!vars)
  <2>0. s \in Stage
    BY <1>2 DEF Stage
  <2>1. Outcome' = [Outcome EXCEPT ![m] = Abstract(s)]
    BY <1>2, <2>0, OneOutcome
  <2>2. \A n \in Message : \/ Outcome'[n] = Outcome[n]
                           \/ Outcome[n] = "pending" /\ Outcome'[n] = "lost"
    BY <1>2, <2>1 DEF Outcome
  <2> QED BY <1>0, <2>2, GivesUp
<1>3. CASE Unreachable(m)
  <2>1. /\ post[m].stage \in {"sent", "aborted"}
        /\ post' = [post EXCEPT ![m].stage = IF post[m].stage = "sent" THEN "failed" ELSE "lost"]
    BY <1>3 DEF Unreachable
  <2>2. CASE post[m].stage = "sent"
    BY <1>2, <2>1, <2>2, AbstractStages, OutcomeOf
  <2>3. CASE post[m].stage = "aborted"
    BY <1>2, <2>1, <2>3, AbstractStages, OutcomeOf
  <2> QED BY <2>1, <2>2, <2>3
<1>4. CASE SendFailed(m)
  <2>1. /\ post[m].stage \in {"refused", "failed"}
        /\ \/ post' = [post EXCEPT ![m].stage = "waiting"]
           \/ post' = [post EXCEPT ![m].stage = "lost"]
    BY <1>4 DEF SendFailed
  <2> QED BY <1>2, <2>1, AbstractStages, OutcomeOf
<1> QED BY <1>1, <1>3, <1>4

LEMMA CrashForwards ==
    ASSUME IInv, Crash
    PROVE  [Forwards!Next]_(Forwards!vars)
<1>1. executed' = executed
  BY DEF Crash
<1>2. PICK failing \in SUBSET {m \in Message : post[m].stage = "accepted"} :
         LET broken == {m \in Message \ failing : post[m].stage = "accepted"}
         IN  post' = [m \in Message |->
                         IF m \in failing THEN [post[m] EXCEPT !.stage = "failed"]
                         ELSE IF m \in broken THEN [post[m] EXCEPT !.stage = "lost"]
                         ELSE post[m]]
  BY DEF Crash
<1>3. ASSUME NEW m \in Message
      PROVE  \/ Outcome'[m] = Outcome[m]
             \/ Outcome[m] = "pending" /\ Outcome'[m] = "lost"
  <2>0. post[m] \in Post /\ Outcome[m] = Abstract(post[m].stage) /\ Outcome'[m] = Abstract(post'[m].stage)
    BY DEF IInv, TypeOK, Outcome
  <2>1. CASE post[m].stage # "accepted"
    <3>1. post'[m] = post[m]
      BY <1>2, <2>1
    <3> QED BY <2>0, <3>1
  <2>2. CASE post[m].stage = "accepted"
    <3>1. post'[m] \in {[post[m] EXCEPT !.stage = "failed"], [post[m] EXCEPT !.stage = "lost"]}
      BY <1>2, <2>2
    <3>2. post'[m].stage \in {"failed", "lost"}
      <4>1. "failed" \in Stage /\ "lost" \in Stage
        BY DEF Stage
      <4>2. /\ [post[m] EXCEPT !.stage = "failed"].stage = "failed"
            /\ [post[m] EXCEPT !.stage = "lost"].stage = "lost"
        BY <2>0, <4>1, StageChange
      <4> QED BY <3>1, <4>2
    <3> QED BY <2>0, <2>2, <3>2, AbstractStages
  <2> QED BY <2>1, <2>2
<1> QED BY <1>1, <1>3, GivesUp

LEMMA ReplayForwards ==
    ASSUME IInv, NEW t \in Transport, Replay(t)
    PROVE  [Forwards!Next]_(Forwards!vars)
<1>1. executed' = executed
  BY DEF Replay
<1>2. CASE ReplayInitialize(t)
  <2>1. post' = post
    BY <1>2 DEF ReplayInitialize
  <2> QED BY <1>1, <2>1, Stutters
<1>3. CASE ReplayInitialized(t)
  <2>1. Swap(t)
    BY <1>3 DEF ReplayInitialized
  <2>2. \A m \in Message : \/ post'[m].stage = post[m].stage
                           \/ post[m].stage = "sent" /\ post'[m].stage = "aborted"
                           \/ post[m].stage = "waiting" /\ post'[m].stage = "sent"
                           \/ post[m].stage \in {"sent", "accepted"} /\ post'[m].stage = "lost"
    BY <2>1, SwapEffect
  <2>3. ASSUME NEW m \in Message
        PROVE  \/ Outcome'[m] = Outcome[m]
               \/ Outcome[m] = "pending" /\ Outcome'[m] = "lost"
    BY <2>2, AbstractStages DEF Outcome
  <2> QED BY <1>1, <2>3, GivesUp
<1>4. CASE ReplayFails(t)
  <2>1. ASSUME NEW m \in Message
        PROVE  \/ Outcome'[m] = Outcome[m]
               \/ Outcome[m] = "pending" /\ Outcome'[m] = "lost"
    <3>0. post[m] \in Post /\ Outcome[m] = Abstract(post[m].stage) /\ Outcome'[m] = Abstract(post'[m].stage)
      BY DEF IInv, TypeOK, Outcome
    <3>1. CASE m \in Waiting
      <4>1. post'[m] = [post[m] EXCEPT !.stage = "lost"] /\ post[m].stage = "waiting"
        BY <1>4, <3>1 DEF ReplayFails, Waiting
      <4>2. post'[m].stage = "lost"
        BY <3>0, <4>1, StageChange DEF Stage
      <4> QED BY <3>0, <4>1, <4>2, AbstractStages
    <3>2. CASE m \notin Waiting
      <4>1. post'[m] = post[m]
        BY <1>4, <3>2 DEF ReplayFails
      <4> QED BY <3>0, <4>1
    <3> QED BY <3>1, <3>2
  <2> QED BY <1>1, <2>1, GivesUp
<1> QED BY <1>2, <1>3, <1>4 DEF Replay

LEMMA NextForwards == IInv /\ [Next]_vars => [Forwards!Next]_(Forwards!vars)
<1> SUFFICES ASSUME IInv, [Next]_vars PROVE [Forwards!Next]_(Forwards!vars)
  OBVIOUS
<1>1. CASE SendInitialize \/ SendInitialized \/ \E m \in Request : SendRequest(m)
  BY <1>1, ForwardForwards, Messages DEF SendInitialize, SendInitialized, SendRequest
<1>2. CASE Leave \/ Restart \/ (\E t \in Transport : Cut(t) \/ StreamError(t)) \/ UNCHANGED vars
  <2>1. executed' = executed /\ post' = post
    BY <1>2 DEF Leave, Restart, Cut, StreamError, vars
  <2> QED BY <2>1, Stutters
<1>3. CASE Crash
  BY <1>3, CrashForwards
<1>4. ASSUME NEW m \in Message, Travel(m) PROVE [Forwards!Next]_(Forwards!vars)
  BY <1>4, TakeForwards, TravelForwards DEF Travel
<1>5. ASSUME NEW t \in Transport, Replay(t) PROVE [Forwards!Next]_(Forwards!vars)
  BY <1>5, ReplayForwards
<1> QED BY <1>1, <1>2, <1>3, <1>4, <1>5 DEF Next

\* The bridge forwards as Forwarding says, with any number of repeated sends,
\* recreated sessions, cuts and deaths of the daemon: nothing is executed twice,
\* nothing is answered that was not executed, an answer is not undone, and what
\* was given up stays so (createSendFailureHandler, recreateSession).
THEOREM Forwarded == Spec => ImplementsForwarding
<1>1. Init => Forwards!Init
  BY InitForwards
<1>2. IInv /\ [Next]_vars => [Forwards!Next]_(Forwards!vars)
  BY NextForwards
<1> QED BY <1>1, <1>2, Invariance, PTL DEF Spec, ImplementsForwarding, Forwards!Spec
===============================================================================
