SPECIFICATION Spec
CONSTANTS
    Grace = 5
    DefaultTimeout = 3
    MinTimeout = 3
    MaxTimeout = 4
    Timeouts <- Configured
    Unknown = Unknown
    Attempts = 3
    Delay = 1
    Interval = 4
    PoolMax = 12
    CoverageMax = 24
    Latency = 1
    BootMax = 3
    StartMax = 12
    Gap = 4
    CloseMax = 2
INVARIANTS
    HealthyNeverStalled
    StallBounded
CHECK_DEADLOCK FALSE
