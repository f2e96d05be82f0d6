SPECIFICATION FairSpec
CONSTANTS
  a1 = a1
  n1 = n1
  j1 = j1
  None = None
  Keys = {n1, j1}
  Apps = {a1}
  Advisors = {u1, u2}
  Requests = {q1, q2}
  MaxAttempts = 2
  MaxFaults = 1
  NoticesOf <- MCNotices
  RejectionOf <- MCRejections
INVARIANTS TypeOK DecisionConsistent FilesMatchRows
PROPERTIES ImplementsDecision RequestsEnd
CHECK_DEADLOCK FALSE
