SPECIFICATION RecordsSpec
CONSTANTS
  b1 = b1
  b2 = b2
  r1 = r1
  r2 = r2
  r3 = r3
  screenshots = screenshots
  Bugs = {b1, b2}
  Requests = {r1, r2, r3}
  Columns = {screenshots}
  u1 = u1
  u2 = u2
  LibUsers = {u1, u2}
  MaxLibTests = 4
  MaxCases = 2
  MaxLibSteps = 3
  MaxLibFaults = 1
  t1 = t1
  t2 = t2
  w1 = w1
  w2 = w2
  x1 = x1
  x2 = x2
  Nobody = Nobody
  Tabs = {t1, t2}
  SessUsers = {w1, w2}
  SessRequests = {x1, x2}
  MaxLogins = 2
  MaxExchanges = 1
  MaxSessFaults = 1
  q1 = q1
  q2 = q2
  p1 = p1
  p2 = p2
  n1 = n1
  n2 = n2
  n3 = n3
  NoSchedule = NoSchedule
  SchedRows = {q1, q2}
  p3 = p3
  Patterns = {p1, p2, p3}
  Malformed = {p3}
  SchedCalls = {n1, n2, n3}
  MaxSchedFaults = 1
INVARIANTS
  RecordsTypeOK
  StatusInLog
  LostInOverlapOnly
  LibrarySound
  ActsAsShown
  SchedulesHaveJobs
PROPERTIES
  EndsExplained
\* Calls, clicks and logins are used up in the end: the model may stop.
CHECK_DEADLOCK FALSE
