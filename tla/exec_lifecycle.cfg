SPECIFICATION Spec
CONSTANTS
  e1 = e1
  e2 = e2
  j1 = j1
  j2 = j2
  c1 = c1
  p1 = p1
  a1 = a1
  Execs = {e1, e2}
  Jobs = {j1, j2}
  Calls = {c1}
  Processors = {p1}
  TestWorkers = {a1}
  WorkerEnabled = TRUE
  MaxTests = 1
  Attempts = 1
  MaxStalls = 0
  MaxFaults = 0
  MaxCrashes = 1
SYMMETRY Symmetry
PROPERTIES
  ImplementsLifecycle
\* Every id is used up in the end: the model may stop.
CHECK_DEADLOCK FALSE
