CONSTANTS
    NumStreams = 2
    PipeCap = 1
    MaxRuns = 2
    MaxTroubles = 1
SPECIFICATION FairSpec
INVARIANTS
    SuccessIsAccounted
    SyncedMeansCompared
    BadgeTellsTruth
    FailureIsSeen
PROPERTY RunReturns
CHECK_DEADLOCK FALSE
