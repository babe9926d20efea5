SPECIFICATION Spec
CONSTANTS
  r1 = r1
  r2 = r2
  r3 = r3
  Rows <- ThreeRows
  NumChunks = 2
  Format = "ndjson"
  Relocates = TRUE
  MaxWrites = 1
  MaxStops = 2
SYMMETRY RowSymmetry
INVARIANTS
  TornLossIsBounded
