SPECIFICATION FairSpec
CONSTANTS
  p1 = p1
  p2 = p2
  s1 = s1
  s2 = s2
  s3 = s3
  Pipelines <- TwoPipelines
  Slots <- TwoSlots
  ManualRuns = TRUE
  MaxFails = 1
  MaxRestarts = 1
INVARIANTS
  ScheduledNeverOverlap
  MarksMatchRuns
PROPERTIES
  KeepsSyncing
