------------------------------- MODULE RunQueue -------------------------------
(***************************************************************************)
(* What the orchestrator promises its callers (docs/architecture.md,       *)
(* "Per-project serialization" and the worker cap): requests are numbered  *)
(* as they arrive; a project executes one request at a time, in the order  *)
(* they arrived; at most Cap requests execute at once in all projects; and *)
(* a request whose selection is empty settles in its turn without          *)
(* executing.                                                              *)
(***************************************************************************)
EXTENDS Integers, FiniteSets

CONSTANTS Project, MaxRuns, Cap

VARIABLES
    last,    \* number of the last request accepted
    owner,   \* the project of each request
    status   \* "none", "pending", "executing" or "settled"

vars == <<last, owner, status>>

Request == 1 .. MaxRuns
Executing == {r \in Request : status[r] = "executing"}

Init ==
    /\ last = 0
    /\ owner \in [Request -> Project]
    /\ status = [r \in Request |-> "none"]

Accept(p) ==
    /\ last < MaxRuns
    /\ last' = last + 1
    /\ owner' = [owner EXCEPT ![last + 1] = p]
    /\ status' = [status EXCEPT ![last + 1] = "pending"]

\* Every earlier request of the same project has settled.
Turn(r) == \A q \in Request : (q < r /\ owner[q] = owner[r]) => status[q] = "settled"

Start(r) ==
    /\ status[r] = "pending" /\ Turn(r)
    /\ Cardinality(Executing) < Cap
    /\ status' = [status EXCEPT ![r] = "executing"]
    /\ UNCHANGED <<last, owner>>

Settle(r) ==
    /\ status[r] = "executing" \/ (status[r] = "pending" /\ Turn(r))
    /\ status' = [status EXCEPT ![r] = "settled"]
    /\ UNCHANGED <<last, owner>>

Next == \/ \E p \in Project : Accept(p)
        \/ \E r \in Request : Start(r) \/ Settle(r)

Spec == Init /\ [][Next]_vars
===============================================================================
