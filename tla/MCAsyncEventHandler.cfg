SPECIFICATION Spec
CONSTANTS
  Threads = {t1, t2}
  BufferSize = 5
  MaxEventSize = 2
  MaxEvents = 3
  MaxRuns = 1
INVARIANT TypeOK
INVARIANT EventsApart
INVARIANT HandledInOrder
CHECK_DEADLOCK FALSE
PROPERTY NobodyWaitsForEver
