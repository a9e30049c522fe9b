SPECIFICATION Either
CONSTANTS
  c1 = c1
  c2 = c2
  Clients = {c1, c2}
  Items = {i1}
  NoClient = NoClient
  NoItem = NoItem
  MaxKeyVersion = 2
  MaxContent = 2
  MaxSalt = 2
  p1 = p1
  i1 = i1
  r1 = r1
  r2 = r2
  r3 = r3
  r4 = r4
  Calls = {r1, r2, r3, r4}
  OldProfiles = {p1}
  OldItems = {i1}
  OldGrants = {c1, c2}
  Mixes <- Mixed
  MaxVersion = 2
  None = None
  Master = Master
SYMMETRY Alike
INVARIANTS
  LiveItemsAtKeyVersion
  ActiveItemOpens
PROPERTIES
  NoLostUpdate
  RotationRewrapsLiveItems
  
CHECK_DEADLOCK FALSE
