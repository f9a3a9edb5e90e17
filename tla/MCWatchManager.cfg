SPECIFICATION FairSpec
CONSTANTS
    Project <- Projects
    Cap = 1
    MaxRuns = 4
    Changes <- Three
    MaxManual = 1
    MaxSessions = 2
INVARIANTS
    TypeOK
    RestCurrent
    OneRunPerChange
PROPERTIES
    StoppedIsSilent
    ChangeCovered
CHECK_DEADLOCK FALSE
