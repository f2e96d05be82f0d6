SPECIFICATION FairSpec
CONSTANTS
  q1 = q1
  q2 = q2
  v1 = v1
  None = None
  Requests = {q1, q2}
  Advisors = {v1}
  MaxAttachments = 2
  Forms <- MCForms
  Ttls = {24}
  FaultKinds = {"answer lost", "stat fails", "removal fails", "crash"}
  MaxFaults = 2
INVARIANTS TypeOK AllOrNothing NothingForgotten PointsAddUp
PROPERTIES RequestsEnd ImplementsSubmit
CHECK_DEADLOCK FALSE
