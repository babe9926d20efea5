CONSTANTS
    Ids <- MCIds
    Slices <- MCSlices
    Formats = {"ndjson", "parquet"}
    SecondTicks = 2
    SampleThreshold = 1
    SampleCap = 1
    MaxWrites = 2
    MaxTicks = 3
    MaxRuns = 2
    MaxStops = 1
SPECIFICATION Spec
INVARIANTS
    VerdictHolds
    DrillDownExact
    BackfillReconciles
    NewestWins
CHECK_DEADLOCK FALSE
