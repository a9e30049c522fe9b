SPECIFICATION Each
CONSTANTS
  None = None
  u1 = u1
  o1 = o1
  o2 = o2
  k1 = k1
  k2 = k2
  r1 = r1
  r2 = r2
  a1 = a1
  a2 = a2
  s1 = s1
  s2 = s2
  l1 = l1
  l2 = l2
  Users = {u1}
  Orgs = {o1, o2}
  Requests = {r1, r2}
  Keys = {k1, k2}
  Asked <- AskedOf
  OldKeys = {k1}
  Expiries = {0, 2}
  CacheAge = 1
  Throttle = 0
  MaxTime = 3
  Addresses = {a1, a2}
  Accounts = {"c1"}
  Surfaces = {"/trpc", "sign-in"}
  AddressLimit = 1
  AddressWindow = 3
  AccountLimit = 1
  AccountWindow = 4
  Second = 2
  AuditWindow = 2
  AuditCap = 2
  LastTick = 6
  MaxCount = 2
  Tabs = {a1, a2}
  Slugs = {s1, s2}
  Ids = {o1, o2}
  Lookups = {l1, l2}
CONSTRAINT Scenario
SYMMETRY Alike
INVARIANTS
  ServedWasEntitled
  
  ActiveIsOwn

  
CHECK_DEADLOCK FALSE
