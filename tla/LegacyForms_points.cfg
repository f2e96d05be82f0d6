SPECIFICATION Spec
CONSTANTS
  r1 = r1
  r2 = r2
  j1 = j1
  j2 = j2
  s1 = s1
  Requests = {r1}
  Runs = {j1}
  Mails = {}
  Batch = 1
  Places = {{r1, j1}}
  Students = {s1}
  MaxRetries = 2
  MaxPoints = 2
INVARIANTS PointsOnce
CHECK_DEADLOCK FALSE
