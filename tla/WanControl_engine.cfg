SPECIFICATION Spec
CONSTANTS
  d1 = d1  e1 = e1  e2 = e2  o1 = o1  o2 = o2
  Devices = {d1}
  Links = {1, 2}
  DeviceOf <- MCDeviceOf
  Policies = {1}
  PolicyDevice <- MCPolicyDevice
  Trigger <- ByLoss
  Operators = {o1}
  Evaluators = {e1, e2}
  Actions = {"set_primary_wan", "rollback_wan_change"}
  PostcheckResults = {TRUE}
  MaxSnapshots = 1
  Cooldown = 1
  MaxPerHour = 1
  Reports <- AnyHealth
  NoLink = NoLink
  NoPolicy = NoPolicy
  NoDevice = NoDevice
SYMMETRY Interchangeable
INVARIANTS OnePrimary BreakerHolds
PROPERTIES HealsOnlySick
CHECK_DEADLOCK FALSE
