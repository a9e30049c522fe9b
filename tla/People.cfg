SPECIFICATION Either
CONSTANTS
  u1 = u1
  u2 = u2
  u3 = u3
  r1 = r1
  r2 = r2
  r3 = r3
  Users = {u1, u2, u3}
  Requests = {r1, r2, r3}
  InitialRoles <- Staffing
  InitialGrants <- Granted
  Mixes <- Mixed
  MaxAgents = 4
  Nobody = Nobody
  t1 = t1
  t2 = t2
  Tokens = {t1, t2}
  Offer <- Offers
  None = None
SYMMETRY Alike
CONSTRAINT Setting
INVARIANTS
  NoRoleAboveGiver
  RemovalSweeps
PROPERTIES
  InviteWorksOnce
  LastOwnerOnlyLostToRace
  InvitedArrives
CHECK_DEADLOCK FALSE
