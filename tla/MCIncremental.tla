----------------------------- MODULE MCIncremental -----------------------------
(* Constants for model-checking Incremental: two sources and two tests, where  *)
(* t exercises x alone and u exercises x and y.                                *)
EXTENDS Incremental, TLC

Sources  == {"x", "y"}
Tests    == {"t", "u"}
Contents == {"good", "bad"}
Nothing  == {}

\* A third source lies outside the project; no test depends on it.
OutsideOne  == {"z"}
WithOutside == Sources \cup OutsideOne

\* The graph is static in one project; in the other u reaches y in a way the
\* static graph does not show.
StaticGraph  == [f \in Tests |-> IF f = "t" THEN {"x"} ELSE {"x", "y"}]
PartialGraph == [f \in Tests |-> {"x"}]
NoneHidden   == [f \in Tests |-> {}]
HidesSource  == [f \in Tests |-> IF f = "t" THEN {} ELSE {"y"}]

\* A test passes when everything it depends on is there and good.
GoodEverywhere(t, c) == \A f \in Deps(t) : c[f] = "good"

BothBaselines == {"last-run", "head"}
LastRunOnly   == {"last-run"}
================================================================================
