SPECIFICATION Spec
CONSTANTS
  d1 = d1  e1 = e1  e2 = e2  o1 = o1  o2 = o2
  Devices = {d1}
  Links = {1, 2}
  DeviceOf <- MCDeviceOf
  Policies = {1}
  PolicyDevice <- MCPolicyDevice
  Trigger <- ByLatency
  Operators = {o1}
  Evaluators = {e1}
  Actions = {"set_primary_wan", "set_wan_failover", "set_wan_balance", "enable_wan", "disable_wan", "rollback_wan_change"}
  PostcheckResults = {TRUE, FALSE}
  MaxSnapshots = 1
  Cooldown = 1
  MaxPerHour = 1
  Reports <- SlowOrDown
  NoLink = NoLink
  NoPolicy = NoPolicy
  NoDevice = NoDevice
SYMMETRY Interchangeable
INVARIANTS TypeOK
CHECK_DEADLOCK FALSE
