SPECIFICATION LiveSpec
CONSTANTS
  w1 = w1
  w2 = w2
  w3 = w3
  Workers = {w1, w2, w3}
  MaxQueued = 2
  MaxConnections = 4
INVARIANTS
  SlotsCounted
  OneRowPerSession
PROPERTIES
  ConnectionsServed
  StopJoins
CHECK_DEADLOCK FALSE
