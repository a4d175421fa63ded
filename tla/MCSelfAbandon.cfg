CONSTANTS
  c1 = c1
  c2 = c2
  Calls = {c1}
  Threads = 2
  N = 2
  MaxFanout = 1
  Cap = 1
  Workloads <- OneRow
SPECIFICATION Spec
CHECK_DEADLOCK FALSE
INVARIANTS
  NothingStartsAfterAbandon
