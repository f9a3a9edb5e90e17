---------------------------- MODULE MCWatchManager ----------------------------
(* Constants for model-checking WatchManager.                              *)
EXTENDS WatchManager

\* One project, as the sessions of two only meet in the orchestrator's slots.
\* Three changes, edits or writes of a run: one is being run, one waits for that
\* run, and one comes while it waits.
Projects == {"p"}
Three == [p \in Projects |-> 3]
===============================================================================
