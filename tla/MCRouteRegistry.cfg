SPECIFICATION Spec
CONSTANTS
  Requests = {q1, q2}
  Clients = {c1}
  Names = {"a", "b"}
  Paths = {p1, p2}
  Limits <- MCLimits
  Batches <- MCBatches
  Capacity = 1
  MaxVersions = 2
  MaxTime = 3
  MaxStall = 2
SYMMETRY MCSymmetry
INVARIANTS
  PathsUnique
  RateHolds
PROPERTIES
  LiveWindowsKept
