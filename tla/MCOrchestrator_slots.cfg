SPECIFICATION Spec
CONSTANTS
    Project <- Projects
    Requests <- Mixed
    MaxRuns = 3
    MaxPlans = 0
    MaxSignals = 1
    MaxWorkers = 1
    MaxHistory = 2
INVARIANTS
    TypeOK
    NoDeadlock
    ProjectSerialized
    SlotsAccounted
    NoLostWaiter
    RunStateCurrent
    NoOrphanWorker
    HistoryFaithful
    FailuresCurrent
    LabelTruthful
PROPERTIES
    SettlesOnce
    SnapshotNeverRegresses
CHECK_DEADLOCK FALSE
