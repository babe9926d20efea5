SPECIFICATION FairSpec
CONSTANTS
  r1 = r1
  r2 = r2
  r3 = r3
  Rows <- ThreeRows
  MaxCursor = 3
  MaxWrites = 2
  MaxStops = 2
  Format = "ndjson"
  CommitOrder = "strict"
INVARIANTS
  NoGap
PROPERTIES
  ImplementsWriteAhead
  EventuallyLoaded
