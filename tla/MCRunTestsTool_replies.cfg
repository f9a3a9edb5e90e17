SPECIFICATION FairToolSpec
CONSTANTS
    Project <- Projects
    Requests <- Working
    Call <- Calls
    MaxRuns = 2
    MaxPlans = 1
    MaxSignals = 0
    MaxWorkers = 1
    MaxHistory = 1
INVARIANTS
    VerdictIsOwn
PROPERTIES
    EveryCallAnswered
    EveryRunSettles
CHECK_DEADLOCK FALSE
