SPECIFICATION Spec
CONSTANTS
    Project <- Projects
    Requests <- WorkingOrEmpty
    MaxRuns = 3
    MaxPlans = 1
    MaxSignals = 0
    MaxWorkers = 1
    MaxHistory = 1
PROPERTIES
    ImplementsRunQueue
    PlanHonoured
CHECK_DEADLOCK FALSE
