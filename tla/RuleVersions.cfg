SPECIFICATION FairSpec
CONSTANTS
  c1 = c1
  c2 = c2
  d1 = d1
  s1 = s1
  Seed = Seed
  None = None
  Creates = {c1, c2}
  Deactivations = {d1}
  Submissions = {s1}
  MaxDay = 2
INVARIANTS TypeOK RuleHeld
PROPERTIES ImplementsVersions CoverLostOnlyAsAsked CallsEnd
CHECK_DEADLOCK FALSE
