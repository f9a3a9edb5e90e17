---------------------------- MODULE MCRunTestsTool ----------------------------
(* Constants for model-checking RunTestsTool.                               *)
EXTENDS RunTestsTool, TLC

Calls      == {"c1", "c2"}
Projects   == {"p", "q"}
OneProject == {"p"}
Working    == {DeltaRelated}
===============================================================================
