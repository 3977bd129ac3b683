SPECIFICATION FairSpec
CONSTANTS
  e1 = e1
  j1 = j1
  j2 = j2
  c1 = c1
  c2 = c2
  p1 = p1
  a1 = a1
  Execs = {e1}
  Jobs = {j1, j2}
  Calls = {c1, c2}
  Processors = {p1}
  TestWorkers = {a1}
  WorkerEnabled = TRUE
  MaxTests = 2
  Attempts = 2
  MaxStalls = 0
  MaxFaults = 0
  MaxCrashes = 0
INVARIANTS
  PassedIsEarned
  FailedIsExplained
  CountsAddUp
  ReportedIsRun
PROPERTIES
  EveryStartServed
\* Every id is used up in the end: the model may stop.
CHECK_DEADLOCK FALSE
