SPECIFICATION Spec
CONSTANTS
    Source <- Sources
    Test <- Tests
    Outside <- Nothing
    Content <- Contents
    Absent = "absent"
    NoSnapshot = NoSnapshot
    Static <- StaticGraph
    Hidden <- NoneHidden
    Passes <- GoodEverywhere
    DynamicSyntax = FALSE
    Sinces <- LastRunOnly
    TrustHead = TRUE
    MidRunEdits = TRUE
    MaxEdits = 4
    MaxJobs = 1
INVARIANTS
    NoHiddenRegression
