SPECIFICATION Spec
CONSTANTS
  w1 = w1  w2 = w2  s1 = s1  r1 = r1  u1 = u1  u2 = u2  p1 = p1  p2 = p2
  Resources = {r1}
  Jobs = {w1, w2}
  Approvals = {p1, p2}
  Users = {u1, u2}
  ResourceOf <- MCResourceOf
  LockTypeOf <- MCLockTypeOf
  ApprovalTTL = 1
  LockTTL = 1
  LockTTLs = {}
  NoUser = NoUser
  NoJob = NoJob
  MaxTime = 2
  MaxDispatches = 1
  MaxEpochs = 0
  MaxDeaths = 0
INVARIANT ExclusiveJobsDoNotOverlap
