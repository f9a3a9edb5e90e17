------------------------------ MODULE Forwarding ------------------------------
(***************************************************************************)
(* What the bridge promises its client (src/cli/main.ts, mcp-bridge): each *)
(* message is executed by the daemon at most once, also when it is sent    *)
(* again; an answer is that of an execution; and a message that was given  *)
(* up, which the daemon may execute even so, is never answered afterwards. *)
(* The copies of the handshake that recreateSession sends for a new        *)
(* session are the bridge's messages, not the client's: neither they nor   *)
(* their answers are counted here.                                         *)
(***************************************************************************)
EXTENDS Naturals

CONSTANTS
    Message,
    Notification   \* the messages that have no answer

VARIABLES
    outcome,   \* "unsent", "pending", "answered" or "lost"
    executed   \* how often the daemon has executed each message

vars == <<outcome, executed>>

Init ==
    /\ outcome = [m \in Message |-> "unsent"]
    /\ executed = [m \in Message |-> 0]

Send(m) ==
    /\ outcome[m] = "unsent"
    /\ outcome' = [outcome EXCEPT ![m] = "pending"]
    /\ UNCHANGED executed

\* A notification is done with when it is executed.
Execute(m) ==
    /\ outcome[m] \in {"pending", "lost"} /\ executed[m] = 0
    /\ executed' = [executed EXCEPT ![m] = 1]
    /\ outcome' = IF m \in Notification /\ outcome[m] = "pending"
                  THEN [outcome EXCEPT ![m] = "answered"] ELSE outcome

Answer(m) ==
    /\ outcome[m] = "pending" /\ executed[m] = 1
    /\ outcome' = [outcome EXCEPT ![m] = "answered"]
    /\ UNCHANGED executed

\* A fault takes several messages at once.
GiveUp(S) ==
    /\ \A m \in S : outcome[m] = "pending"
    /\ outcome' = [m \in Message |-> IF m \in S THEN "lost" ELSE outcome[m]]
    /\ UNCHANGED executed

Next == \/ \E m \in Message : Send(m) \/ Execute(m) \/ Answer(m)
        \/ \E S \in SUBSET Message : GiveUp(S)

Spec == Init /\ [][Next]_vars
===============================================================================
