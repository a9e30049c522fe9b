SPECIFICATION Spec
CONSTANTS
  i1 = i1
  i2 = i2
  i3 = i3
  r1 = r1
  r2 = r2
  r3 = r3
  Agents = {a1}
  Items = {i1, i2, i3}
  Requests = {r1, r2, r3}
  Profile = Profile
  ZeroKnowledge = {i3}
  Endpoints <- EndpointsOf
  BulkLimit = 2
  Actions = {"read", "use"}
  MaxGrants = 2
  NoItem = NoItem
  NoHandle = NoHandle
  NoRequest = NoRequest
CONSTRAINT Scenario
SYMMETRY Redeemers
INVARIANTS
  DeliveryWasAllowed
  DeliveryIsAudited
  
PROPERTIES
  HandleWorksOnce
CHECK_DEADLOCK FALSE
