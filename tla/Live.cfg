SPECIFICATION MCSpec
CONSTANTS
  c1 = c1
  c2 = c2
  u1 = u1
  u2 = u2
  o1 = o1
  o2 = o2
  o3 = o3
  Calls = {c1, c2}
  Ttl = 30
  Margin = 4
  Delays <- Schedule
  MountTtl = 1
  OrphanAge = 2
  MaxFlights = 1
  MaxCrashes = 1
  None = None
PROPERTIES
  Recovers
  GateSettles
CHECK_DEADLOCK FALSE
