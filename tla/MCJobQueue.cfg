SPECIFICATION Spec
CONSTANTS
  c1 = c1
  c2 = c2
  q1 = q1
  Nobody = Nobody
  Clients = {c1, c2}
  Queues = {q1}
  MaxJobs = 2
  Options <- MCOptions
  Overrides = {0}
  Batches = {1, 2}
  LegacyRows <- MCLegacyRows
  BackoffCap = 1
SYMMETRY MCSymmetry
INVARIANTS
  UniqueDelivery
  DeliveriesBounded
  AckedOnce
PROPERTIES
  LeaseRespected
  ImplementsLifecycle
