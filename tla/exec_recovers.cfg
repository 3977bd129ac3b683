SPECIFICATION RecoverySpec
CONSTANTS
  e1 = e1
  j1 = j1
  c1 = c1
  p1 = p1
  p2 = p2
  a1 = a1
  Execs = {e1}
  Jobs = {j1}
  Calls = {c1}
  Processors = {p1, p2}
  TestWorkers = {a1}
  WorkerEnabled = TRUE
  MaxTests = 2
  Attempts = 3
  MaxStalls = 1
  MaxFaults = 1
  MaxCrashes = 1
INVARIANTS
  LockedUnlessStalled
  NoRunAbandoned
  BugsFollowReports
PROPERTIES
  ResultsAreFinal
  NeverStuckRunning
\* Every id is used up in the end: the model may stop.
CHECK_DEADLOCK FALSE
