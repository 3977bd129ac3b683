SPECIFICATION Spec
CONSTANTS
  b1 = b1
  r1 = r1
  r2 = r2
  screenshots = screenshots
  Bugs = {b1}
  Requests = {r1, r2}
  Columns = {screenshots}
SYMMETRY Symmetry
PROPERTIES
  StatusMovesByFlow
\* Every call is made once: the model may stop.
CHECK_DEADLOCK FALSE
