CONSTANTS
  c1 = c1
  c2 = c2
  Calls = {c1, c2}
  Threads = 2
  N = 2
  MaxFanout = 2
  Cap = 2
  Workloads <- MCWorkloads
SPECIFICATION FairSpec
CHECK_DEADLOCK FALSE
INVARIANTS
  EachRowOnce
  TimeoutIsTrue
  ReservationsBalanced
PROPERTIES
  CallReturns
