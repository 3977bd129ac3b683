SPECIFICATION Spec
CONSTANTS
  e1 = e1
  j1 = j1
  c1 = c1
  p1 = p1
  a1 = a1
  Execs = {e1}
  Jobs = {j1}
  Calls = {c1}
  Processors = {p1}
  TestWorkers = {a1}
  WorkerEnabled = TRUE
  MaxTests = 1
  Attempts = 2
  MaxStalls = 0
  MaxFaults = 0
  MaxCrashes = 0
PROPERTIES
  CancelledStaysCancelled
\* Every id is used up in the end: the model may stop.
CHECK_DEADLOCK FALSE
