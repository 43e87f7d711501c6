SPECIFICATION Spec
CONSTANTS
  a1 = a1  a2 = a2  b1 = b1  j1 = j1  j2 = j2  k1 = k1  n1 = n1  n2 = n2  t1 = t1
  Agents = {a1, a2}
  Jobs = {j1, j2}
  NodeOfAgent <- MCNodeOfAgent
  TenantOfAgent <- MCTenantOfAgent
  NodeOfJob <- MCNodeOfJob
  TenantOfJob <- MCTenantOfJob
  NoJob = NoJob
  NoAgent = NoAgent
  MaxJobs = 2
  TTLs = {0, 1}
  MaxTime = 2
  MaxCrashes = 2
  MaxCentralRestarts = 1
SYMMETRY Interchangeable
CONSTRAINT OneJobOrOneAgent
INVARIANTS TypeOK AtMostOnce ExclusiveHold StatusIsReal
PROPERTIES ExpiredUnclaimedNeverRuns ImplementsJobOnce
