---------------------------- MODULE MCOrchestrator ----------------------------
(* Constants for model-checking Orchestrator.                              *)
EXTENDS Orchestrator, TLC

\* Two projects are enough for the semaphore to be contended across projects
\* while the queue of one of them is not empty.
Projects == {"p", "q"}

\* A run that reaches a worker, and one that settles without a worker.
Mixed   == {DeltaDegraded, DeltaEmpty}
===============================================================================
