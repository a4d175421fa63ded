CONSTANTS
  q1 = q1
  Queries = {q1}
  Width <- MCWidth
  h1 = h1
  Hosts = {h1}
  Origins <- MCOrigins
  MaxFanout = 2
  MaxIdlePerHost = 1
  MaxIdleTotal = 1
  MaxPoolHosts = 1
  Ttl = 1
  Budget = 2
  Fallback = 2
SPECIFICATION FairSpec
CHECK_DEADLOCK FALSE
INVARIANTS
  DeadlineInherited
  AnsweredOrRaised
PROPERTIES
  StopHitsOwnCall
  FanOutReturns
