SPECIFICATION FairSpec
CONSTANTS
  v1 = v1
  v2 = v2
  v3 = v3
  r1 = r1
  r2 = r2
  r3 = r3
  None = None
  Advisors = {v1, v2, v3}
  Ops = {r1, r2, r3}
INVARIANTS TypeOK DirectorDecided TrailTruthful
PROPERTIES DirectorStays HandOversEnd
CHECK_DEADLOCK FALSE
