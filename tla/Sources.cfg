CONSTANTS
    Connectors <- MCConnectors
    Keys <- MCKeys
    MaxInt = 7
    ChunkRows = 3
    TargetRows = 2
    Estimates <- MCEstimates
    Pages <- MCPages
    PageSize = 2
    MaxWrites = 2
    MaxPasses = 2
    Partitions <- MCPartitions
    MaxAppends = 2
    MaxReads = 3
    MaxFaults = 1
    Formats <- MCFormats
SPECIFICATION SpecSources
INVARIANTS
    PlanPartitions
    StableRowsReadOnce
    NothingSkippedAnywhere
    QuietPassCatchesUp
    CellsComeBack
    OneRowPerKey
PROPERTY PlanEnds
CHECK_DEADLOCK FALSE
