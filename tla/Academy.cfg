CONSTANTS
  None = None
  Idle = Idle
  t1 = t1
  t2 = t2
  k1 = k1
  k2 = k2
  k3 = k3
  m1 = m1
  m2 = m2
  r1 = r1
  r2 = r2
  J = J
  alpha = alpha
  Alpha = Alpha
  beta = beta
  Teams = {t1, t2}
  Coaches = {k1, k2, k3}
  Players = {1, 2, 3, 4}
  Names = {alpha, Alpha, beta}
  AgeGroups = {J}
  Normal <- MCNormal
  MinRoster = 1
  MaxRoster = 3
  Lists <- MCLists
  Requests = {r1, r2}
  FirstTeams <- MCTeams
  FirstRosters <- MCRosters
  FirstPlayers <- MCPlayers
  FirstCoaches <- MCCoaches
  FirstAssigned <- MCAssigned
  Matches = {m1, m2}
  Formats = {"T20", "test"}
  Batches <- MCBatches
  Derived <- MCDerived
  Over = 6
  Workloads <- MCWorkloads
SYMMETRY Interchangeable
SPECIFICATION Spec
INVARIANT TypeOK
INVARIANT RosterNeverShort
INVARIANT OfferedRepairsWork
INVARIANT StatsMatchPerformances
CHECK_DEADLOCK FALSE
