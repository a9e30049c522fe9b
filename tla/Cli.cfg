SPECIFICATION Either
CONSTANTS
  q1 = q1
  q2 = q2
  o1 = o1
  o2 = o2
  p1 = p1
  a1 = a1
  a2 = a2
  Procs = {q1, q2}
  Orgs = {o1, o2}
  CliProfiles = {p1}
  OrgOf <- OrgOfProfile
  Agents = {a1, a2}
  i1 = i1
  i2 = i2
  r1 = r1
  A = A
  B = B
  C = C
  la = la
  lb = lb
  lc = lc
  MaxCommands = 3
  Absent = Absent
  RunItems = {i1, i2}
  Sealed = {i1}
  Labels = {la, lb, lc}
  EnvKey <- VarOf
  Keys = {A, B, C}
  Blocked = {C}
  FieldSets = {{B}, {A, B}}
  Standard = {A}
  BulkMax = 2
  StreamCap = 2
  Chunks = {1, 2}
  Runs = {r1}
  Nothing = Absent
  MaxVersion = 1
  MaxOutput = 3
CONSTRAINT Bounds
VIEW View
INVARIANTS
  ContextAgrees
  RecoveryOpensRoot
  RunsWithAll
CHECK_DEADLOCK FALSE
