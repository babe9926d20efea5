SPECIFICATION FairSpec
CONSTANTS
  orders = orders
  users = users
  o = o
  p = p
  u = u
  absent = absent
  red = red
  blue = blue
  nothing = nothing
  unavailable = unavailable
  None = absent
  Nothing = nothing
  Unavailable = unavailable
  Rows <- OwnRows
  Streams <- Tables
  StreamOf <- TableOf
  Values <- TwoValues
  Initial <- Tables
  Partial <- Untold
  SourceKind = "slot"
  Format = "parquet"
  MayJoin = FALSE
  MayLeave = TRUE
  MayKill = FALSE
  MaxWidth = 1
  MaxLog = 2
  MaxEdits = 1
  MaxStops = 1
INVARIANTS
  NoLostChange
PROPERTIES
  EventuallyInSync
