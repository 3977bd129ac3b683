SPECIFICATION EngineSpec
CONSTANTS
  e1 = e1
  e2 = e2
  t1 = t1
  t2 = t2
  Execs = {e1, e2}
  Tests = {t1, t2}
  PoolSize = 2
  Widths = {1, 2}
  MaxTests = 3
  MaxCancels = 1
INVARIANTS
  OneLoopPerWorker
  WorkersComeBack
  ResolvedIsComplete
PROPERTIES
  FailureSticks
  EveryStartAnswered
\* Every id is used up in the end: the model may stop.
CHECK_DEADLOCK FALSE
