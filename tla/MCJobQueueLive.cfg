SPECIFICATION LiveSpec
CONSTANTS
  c1 = c1
  q1 = q1
  Nobody = Nobody
  Clients = {c1}
  Queues = {q1}
  MaxJobs = 2
  Options <- MCOptions
  Overrides = {0}
  Batches = {1}
  LegacyRows <- MCLegacyRows
  BackoffCap = 1
PROPERTIES
  EveryJobSettles
CHECK_DEADLOCK FALSE
