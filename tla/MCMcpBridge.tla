------------------------------ MODULE MCMcpBridge ------------------------------
(* Constants for model-checking McpBridge.                                 *)
EXTENDS McpBridge

\* Two requests, so that one may fail late, when the other has already had the
\* session recreated.
Requests == {"a", "b"}
===============================================================================
