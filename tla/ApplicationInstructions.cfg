SPECIFICATION FairSpec
CONSTANTS
  c1 = c1
  c2 = c2
  u1 = u1
  u2 = u2
  t1 = t1
  t2 = t2
  Seed = Seed
  None = None
  Creates = {c1}
  Updates = {u1, u2}
  Texts = {t1, t2}
  MaxDay = 1
INVARIANTS TypeOK
PROPERTIES ImplementsVersions ListedStays CallsEnd
CHECK_DEADLOCK FALSE
