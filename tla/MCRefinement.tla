----------------------------- MODULE MCRefinement -----------------------------
(* Constants for checking that the orchestrator implements RunQueue, with runs *)
(* that are requested directly and runs that come from a plan.                 *)
EXTENDS OrchestratorRefinement, TLC

\* Two projects contend for one slot.
Projects == {"p", "q"}

\* Runs that fork a worker and runs that settle without one.
WorkingOrEmpty == {FullSuite, DeltaEmpty}
===============================================================================
