SPECIFICATION Spec
CONSTANTS
  a1 = a1  a2 = a2  b1 = b1  j1 = j1  j2 = j2  k1 = k1  n1 = n1  n2 = n2  t1 = t1
  Agents = {a1}
  Jobs = {j1}
  NodeOfAgent <- MCNodeOfAgent
  TenantOfAgent <- MCTenantOfAgent
  NodeOfJob <- MCNodeOfJob
  TenantOfJob <- MCTenantOfJob
  NoJob = NoJob
  NoAgent = NoAgent
  MaxJobs = 1
  TTLs = {0, 1}
  MaxTime = 2
  MaxCrashes = 0
  MaxCentralRestarts = 0
PROPERTY SucceededIsFinal
