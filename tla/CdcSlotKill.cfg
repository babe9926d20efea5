SPECIFICATION Spec
CONSTANTS
  orders = orders
  users = users
  o = o
  p = p
  u = u
  absent = absent
  red = red
  blue = blue
  nothing = nothing
  unavailable = unavailable
  None = absent
  Nothing = nothing
  Unavailable = unavailable
  Rows <- OwnRows
  Streams <- Tables
  StreamOf <- TableOf
  Values <- TwoValues
  Initial <- Tables
  Partial <- AllTold
  SourceKind = "slot"
  Format = "parquet"
  MayJoin = FALSE
  MayLeave = FALSE
  MayKill = TRUE
  MaxWidth = 1
  MaxLog = 3
  MaxEdits = 0
  MaxStops = 1
INVARIANTS
  NoLostChange
