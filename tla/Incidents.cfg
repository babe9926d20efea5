SPECIFICATION Spec
CONSTANTS
  r1 = r1
  r2 = r2
  c1 = c1
  c2 = c2
  mild = mild
  grave = grave
  breach = breach
  Rules = {r1, r2}
  InitialRules = {r1}
  Channels = {c1, c2}
  InitialChannels = {c2}
  Events = {mild, grave, breach}
  Evaluators = {v1, v2}
  KindOf <- MCKindOf
  Matches <- MCMatches
  ChannelsOf <- MCChannelsOf
  QuietRules = {r2}
  PolicySteps <- MCPolicySteps
  BrokenRules = {}
  WorkerEvents = {breach}
  MaxEvents = 2
  MaxRequests = 1
  MaxFaults = 1
  NoPolicy = NoPolicy
  NoEvent = NoEvent
INVARIANTS
  OneOpenThread
  NobodySkipped
  OnePageAfterAck
  FirstAlertReachesAll
PROPERTY UnackedClimbs
CHECK_DEADLOCK FALSE
