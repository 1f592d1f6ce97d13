CONSTANTS
  None = None
  Idle = Idle
  Stranger = Stranger
  u1 = u1
  u2 = u2
  p1 = p1
  p2 = p2
  a1 = a1
  r1 = r1
  r2 = r2
  r3 = r3
  Users = {u1, u2}
  Players = {p1, p2}
  Addresses = {a1}
  Requests = {r1, r2, r3}
  Window = 2
  MaxAttempts = 2
  CleanupEvery = 1
  Lifetime = 3
  Inactivity = 2
  AccessLifetime = 1
  Workloads <- MCWorkloads
  FirstRow <- MCFirstRow
  FirstProfile <- MCFirstProfile
SYMMETRY Interchangeable
SPECIFICATION Spec
INVARIANT TypeOK
INVARIANT TokensTracked
INVARIANT LimitHolds
PROPERTY KeepsTokenFamilies
PROPERTY ReplayEndsSession
PROPERTY OnlyReactivationActivates
CHECK_DEADLOCK FALSE
