---------------------------- MODULE MCStallWatchdog ----------------------------
(* Constants for model-checking StallWatchdog: seconds for the intervals, the  *)
(* retries and the grace, shorter heartbeat windows.  A pool start may outlast *)
(* every threshold, and a second more elsewhere can kill a healthy worker.     *)
EXTENDS StallWatchdog, TLC

\* The constants leave the margins.
ASSUME MarginsAssumption == Margins

\* Below, within and above the sane range; each leaves a threshold of 8 or 9.
Configured == {0, 4, 30}
===============================================================================
