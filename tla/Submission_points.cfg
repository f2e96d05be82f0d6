SPECIFICATION Spec
CONSTANTS
  q1 = q1
  q2 = q2
  v1 = v1
  None = None
  Requests = {q1}
  Advisors = {v1}
  MaxAttachments = 1
  Forms <- MCTwoOnCertificate
  Ttls = {24}
  FaultKinds = {}
  MaxFaults = 0
INVARIANTS TotalIsSum
CHECK_DEADLOCK FALSE
