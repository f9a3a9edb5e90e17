------------------------ MODULE OrchestratorRefinement ------------------------
(* The orchestrator implements RunQueue.  A run executes, in the abstract   *)
(* sense, from the fork of its worker until its slot is given back.         *)
EXTENDS Orchestrator

Abstract(state) == CASE state = "unused" -> "none"
                     [] state \in {"queued", "waiting", "granted"} -> "pending"
                     [] state \in {"running", "settled"} -> "executing"
                     [] OTHER -> "settled"

AbstractStatus == [r \in Run |-> Abstract(pc[r])]

Queue == INSTANCE RunQueue WITH Cap <- MaxWorkers, last <- nextRun, owner <- proj,
                                status <- AbstractStatus

\* Requests are executed one at a time per project in arrival order, within
\* the global cap: every step of the orchestrator is a step of the abstract
\* queue or leaves it unchanged.
ImplementsRunQueue == Queue!Spec
===============================================================================
