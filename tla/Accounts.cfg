SPECIFICATION FairSpec
CONSTANTS
  x1 = x1
  x2 = x2
  x3 = x3
  s1 = s1
  r1 = r1
  r2 = r2
  None = None
  Users = {1, 2}
  Tokens = {x1, x2, x3}
  Sessions = {s1}
  Ops = {r1, r2}
INVARIANTS TypeOK AccessConsistent
PROPERTIES ImplementsAccounts OperationsEnd
CHECK_DEADLOCK FALSE
