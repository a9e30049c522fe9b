SPECIFICATION Spec
CONSTANTS
  p1 = p1
  p2 = p2
  r1 = r1
  r2 = r2
  r3 = r3
  Profiles = {p1, p2}
  Requests = {r1, r2, r3}
  Old = Old
  Mixes <- Mixed
  None = None
INVARIANTS
  RootKeyUnchanged
CHECK_DEADLOCK FALSE
