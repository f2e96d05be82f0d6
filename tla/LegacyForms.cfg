SPECIFICATION FairSpec
CONSTANTS
  r1 = r1
  r2 = r2
  j1 = j1
  j2 = j2
  s1 = s1
  Requests = {r1, r2}
  Runs = {j1, j2}
  Mails = {1, 2}
  Batch = 2
  Places = {{r1, r2, j1, 1}, {r1, j1, j2, 1}, {r1, j1, 1, 2}}
  Students = {s1}
  MaxRetries = 2
  MaxPoints = 1
INVARIANTS TypeOK StatusJustified
PROPERTIES ResubmitOverwritesNothing JobsFinish
CHECK_DEADLOCK FALSE
