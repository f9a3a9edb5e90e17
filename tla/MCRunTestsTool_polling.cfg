SPECIFICATION FairToolSpec
CONSTANTS
    Project <- OneProject
    Requests <- Working
    Call <- Calls
    MaxRuns = 2
    MaxPlans = 0
    MaxSignals = 0
    MaxWorkers = 1
    MaxHistory = 1
PROPERTIES
    PollingEnds
CHECK_DEADLOCK FALSE
