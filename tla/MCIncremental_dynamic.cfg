SPECIFICATION Spec
CONSTANTS
    Source <- Sources
    Test <- Tests
    Outside <- Nothing
    Content <- Contents
    Absent = "absent"
    NoSnapshot = NoSnapshot
    Static <- PartialGraph
    Hidden <- HidesSource
    Passes <- GoodEverywhere
    DynamicSyntax = TRUE
    Sinces <- BothBaselines
    TrustHead = TRUE
    MidRunEdits = FALSE
    MaxEdits = 2
    MaxJobs = 2
INVARIANTS
    HighConfidenceSound
    NoHiddenRegression
