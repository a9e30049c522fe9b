SPECIFICATION Either
CONSTANTS
  p1 = p1
  p2 = p2
  q1 = q1
  o1 = o1
  o2 = o2
  n1 = n1
  n2 = n2
  Profiles = {p1, p2, q1}
  Orgs = {o1, o2}
  OrgOf <- Belongs
  Requests = {r1, r2, r3}
  Rounds = {n1, n2}
  ListOrgs = {n1, n2}
  MaxChanges = 1
  Followed = {"items", "item", "profiles", "organization", "apiKeys", "audit"}
  None = None
VIEW View
SYMMETRY Alike
INVARIANTS
  HeldKeyIsOwn
  ForeignKeysAreLate
  OwnWritesShown
  ForeignRowsAreLate
CHECK_DEADLOCK FALSE
