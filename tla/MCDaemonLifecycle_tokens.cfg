SPECIFICATION Spec
CONSTANTS
    p1 = p1
    p2 = p2
    p3 = p3
    p4 = p4
    e1 = e1
    Procs <- TwoProcs
    Env <- NoEnv
    Unset = Unset
    Nobody = Nobody
    Torn = Torn
    Crashes = FALSE
    Overlap = TRUE
INVARIANTS
    TokenInSync
CHECK_DEADLOCK FALSE
