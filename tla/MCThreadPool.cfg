SPECIFICATION Spec
CONSTANTS
  Workers = {w1, w2}
  Tasks = {a, b, c}
  MaxTasks = 2
  MaxPauses = 1
  MaxStarts = 2
INVARIANT TypeOK
INVARIANT NoLostWakeup
INVARIANT EveryWorkerTold
INVARIANT StopAccounts
PROPERTY EveryoneServed
CHECK_DEADLOCK FALSE
