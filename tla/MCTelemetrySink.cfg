CONSTANTS
  Handlers = {h1, h2}
  Flushers = {f1}
  Worker = w
  Nobody = nobody
  MaxRecords = 3
  Capacity = 2
  BatchSize = 2
  MaxDelay = 1
SPECIFICATION FairSpec
INVARIANTS
  ExactlyOnce
  NothingLostAtStop
PROPERTIES
  FlushIsComplete
  FlushReturns
  EveryRecordWritten
  StopCompletes
