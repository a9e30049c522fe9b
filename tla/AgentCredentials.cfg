SPECIFICATION Either
CONSTANTS
  Agents = {a1}
  Keys = {k1, k2}
  Tokens = {t1, t2}
  Challenges = {c1, c2}
  Enrolls = {e1, e2}
  Exchanges = {x1, x2}
  ChallengeLimit = 1
  NoAgent = NoAgent
  NoKey = NoKey
  Nobody = Nobody
  Calls = {x1, x2}
  Ttl = 30
  Margin = 4
  Delays <- Schedule
  MountTtl = 1
  OrphanAge = 2
  MaxFlights = 1
  MaxCrashes = 1
  None = None
  Accounts = {k1, k2}
  Sends = {t1, t2}
  Completes = {e1, e2}
  Emails = {c1, c2}
  MaxAttempts = 1
  NoEmail = NoEmail
  NoCode = NoCode
CONSTRAINT Scenario
VIEW View
SYMMETRY Interchangeable
INVARIANTS
  SessionIsEarned
  ExpiryNeedsFailures
  OwnerProved
  NoSilentMerge
PROPERTIES
  BootstrapWorksOnce
CHECK_DEADLOCK FALSE
