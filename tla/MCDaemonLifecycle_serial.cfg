SPECIFICATION Spec
CONSTANTS
    p1 = p1
    p2 = p2
    p3 = p3
    p4 = p4
    e1 = e1
    Procs <- FourProcs
    Env <- OneEnv
    Unset = Unset
    Nobody = Nobody
    Torn = Torn
    Crashes = TRUE
    Overlap = FALSE
INVARIANTS
    TypeOK
    LiveDaemonHasLock
    TokenInSync
    StopTruthful
    StartNeverCollides
PROPERTIES
    TokenPersists
    NoFalseAbsence
SYMMETRY Symmetric
CHECK_DEADLOCK FALSE
