SPECIFICATION Spec
CONSTANTS
  a1 = a1
  n1 = n1
  j1 = j1
  None = None
  Keys = {n1, j1}
  Apps = {a1}
  Advisors = {u1}
  Requests = {q1}
  MaxAttempts = 2
  MaxFaults = 0
  NoticesOf <- MCNotices
  RejectionOf <- MCRejections
INVARIANTS UnsentNoticesCancelled
CHECK_DEADLOCK FALSE
