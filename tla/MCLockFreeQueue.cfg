SPECIFICATION Spec
CONSTANTS
  t1 = t1
  t2 = t2
  Producers = {t1, t2}
  Consumers = {t1, t2}
  NodeCount = 3
  MaxCalls = 3
  Reads <- MCReads
INVARIANTS TypeOK NodesAccounted
PROPERTIES ImplementsFifo LockFreedom
CHECK_DEADLOCK FALSE
