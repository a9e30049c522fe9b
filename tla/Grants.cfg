SPECIFICATION Each
CONSTANTS
  None = None
  a1 = a1
  a2 = a2
  i1 = i1
  i2 = i2
  p1 = p1
  r1 = r1
  r2 = r2
  r3 = r3
  a = a
  b = b
  w1 = w1
  cli = cli
  mcp = mcp
  Agents = {a1}
  Remote = {}
  Items = {i1}
  ZeroKnowledge = {i1}
  Profiles = {p1}
  ProfileOf <- InProfile
  Managed = {a1}
  Requests = {r1, r2, r3}
  Batches <- Batchings
SYMMETRY Alike
CONSTRAINT Scenario
ACTION_CONSTRAINT OneAtATime
INVARIANTS
  
  AllOrNothing
  ReadIsConfirmed
  WalkComplete
  InstalledIsReleased
CHECK_DEADLOCK FALSE
