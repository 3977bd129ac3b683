SPECIFICATION FairSpec
CONSTANTS
  l1 = l1
  l2 = l2
  k1 = k1
  j1 = j1
  j2 = j2
  s1 = s1
  x1 = x1
  x2 = x2
  a1 = a1
  q1 = q1
  q2 = q2
  n1 = n1
  n2 = n2
  LoadRuns = {l1, l2}
  LoadCancels = {k1}
  MaxLoadFaults = 1
  MaxLoadCrashes = 1
  ScanJobs = {j1, j2}
  ScanCancels = {s1}
  ScanProvided = {TRUE, FALSE}
  MaxVulns = 2
  MaxScanFaults = 1
  MaxScanCrashes = 2
  AxeRuns = {x1, x2}
  AxeCancels = {a1}
  AxePasses = {3, 199}
  MaxIssues = 2
  MaxAxeFaults = 1
  QueueJobs = {q1, q2}
  AdminCalls = {n1, n2}
  QueueAttempts = {2, 3}
  MaxQueueFaults = 2
INVARIANTS
  ScansTypeOK
  ScansSettle
  LoadSound
  ResultsOfOneTry
  RetriesBounded
PROPERTIES
  ScansEnd
\* The calls are used up in the end: the model may stop.
CHECK_DEADLOCK FALSE
