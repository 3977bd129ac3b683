SPECIFICATION FairSpec
CONSTANTS
  d1 = d1
  u1 = u1
  u2 = u2
  b1 = b1
  b2 = b2
  m1 = m1
  i1 = i1
  i2 = i2
  c1 = c1
  c2 = c2
  c3 = c3
  Devices = {d1}
  FarmUsers = {u1, u2}
  Bookings = {b1, b2}
  FarmExecs = {m1}
  MaxDevices = 2
  MaxFarmSets = 1
  MaxRefreshes = 1
  MaxFarmFaults = 1
  ImportCalls = {i1, i2}
  MaxRows = 2
  MaxFields = 2
  MaxImportFaults = 1
  AuthCalls = {c1, c2, c3}
  LastSecond = 2
  MaxAuthFaults = 1
  x1 = x1
  x2 = x2
  PageExecs = {x1, x2}
  MaxLists = 1
  MaxPolls = 1
  MaxUserSteps = 2
  MaxPageFaults = 1
INVARIANTS
  ServicesTypeOK
  ReservationsHold
  FarmRunsSound
  ImportSound
  TokensAccounted
  SweepLeavesNone
  DialogSound
PROPERTIES
  ServicesEnd
\* Calls and ids are used up in the end: the model may stop.
CHECK_DEADLOCK FALSE
