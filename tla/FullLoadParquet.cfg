SPECIFICATION FairSpec
CONSTANTS
  r1 = r1
  r2 = r2
  r3 = r3
  Rows <- TwoRows
  NumChunks = 2
  Format = "parquet"
  Relocates = FALSE
  MaxWrites = 2
  MaxStops = 2
INVARIANTS
  CompletedChunksDurable
  LoadIsComplete
  NothingOldSurvives
PROPERTIES
  ImplementsWriteAhead
  EventuallyLoaded
