SPECIFICATION Spec
CONSTANTS
  k1 = k1
  k2 = k2
  t1 = t1
  t2 = t2
  w1 = w1
  w2 = w2
  c1 = c1
  c2 = c2
  None = None
  Keys = {k1, k2}
  Contents = {c1, c2}
  Workers = {w1, w2}
  Txns = {t1, t2}
  MaxAttempts = 2
  MaxTasks = 1
  Schedules = {0, 1}
  Horizon = 1
  MaxCrashes = 1
  Groups <- MCGroups
  RetryDelay <- MCRetryDelay
SYMMETRY MCSymmetry
INVARIANTS TypeOK ClaimIsExclusive DeliveryBudget RowsAreHeld
PROPERTIES ContentIsImmutable ImplementsLifecycle
