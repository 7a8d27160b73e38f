SPECIFICATION Spec
CONSTANTS
  Workers = {w1, w2}
  Graph <- MCGraph
  Tasks <- MCTasks
  MaxTasks = 1
  MaxVoices = 1
INVARIANT TypeOK
INVARIANT DependenciesRespected
INVARIANT StageIsOver
INVARIANT NoTaskRefused
INVARIANT ShutdownIsQuiet
PROPERTY EveryCallReturns
CHECK_DEADLOCK FALSE
