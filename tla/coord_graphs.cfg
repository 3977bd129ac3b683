SPECIFICATION GraphsSpec
CONSTANTS
  c1 = c1
  c2 = c2
  Coords = {c1, c2}
  Jobs <- TypeJobs
  Requests <- AllRequests
  Reported = {"completed", "failed", "cancelled"}
INVARIANTS
  OrderRespectsDeps
  DependenciesFirst
PROPERTIES
  EveryCoordinationEnds
\* A coordination is over once: the model may stop.
CHECK_DEADLOCK FALSE
