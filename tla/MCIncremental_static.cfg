SPECIFICATION Spec
CONSTANTS
    Source <- WithOutside
    Test <- Tests
    Outside <- OutsideOne
    Content <- Contents
    Absent = "absent"
    NoSnapshot = NoSnapshot
    Static <- StaticGraph
    Hidden <- NoneHidden
    Passes <- GoodEverywhere
    DynamicSyntax = FALSE
    Sinces <- BothBaselines
    TrustHead = TRUE
    MidRunEdits = FALSE
    MaxEdits = 3
    MaxJobs = 1
INVARIANTS
    TypeOK
    NoHiddenRegression
