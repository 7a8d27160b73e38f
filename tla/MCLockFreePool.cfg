SPECIFICATION Spec
CONSTANTS
  Threads = {t1, t2}
  NodeCount = 3
  MaxCalls = 3
INVARIANT PoolInv
PROPERTY ImplementsPool
PROPERTY LockFreedom
CHECK_DEADLOCK FALSE
