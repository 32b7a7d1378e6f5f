SPECIFICATION FairSpec
CONSTANTS
  c1 = c1
  c2 = c2
  Callers <- MCCallers
  MaxCalls = 3
  PipeSize = 1
  MaxStray = 2
INVARIANTS
  WaitersAreWoken
PROPERTIES
  RefinesRpcCalls
  ServeEndsAfterShutdown
CHECK_DEADLOCK FALSE
