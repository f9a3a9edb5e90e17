--------------------------- MODULE MCDaemonLifecycle ---------------------------
(* Constants for model-checking DaemonLifecycle. *)
EXTENDS DaemonLifecycle, TLC

CONSTANTS p1, p2, p3, p4, e1

FourProcs == {p1, p2, p3, p4}
TwoProcs  == {p1, p2}
NoEnv     == {}
OneEnv    == {e1}

\* Processes differ in nothing but their identity.
Symmetric == Permutations(Procs)
===============================================================================
