SPECIFICATION FairSpec
CONSTANTS
  d1 = d1  e1 = e1  e2 = e2  o1 = o1  o2 = o2
  Devices = {d1}
  Links = {1, 2}
  DeviceOf <- MCDeviceOf
  Policies = {1, 2}
  PolicyDevice <- MCPolicyDevice
  Trigger <- ByLoss
  Operators = {o1}
  Evaluators = {e1}
  Actions = {"set_primary_wan"}
  PostcheckResults = {TRUE}
  MaxSnapshots = 1
  Cooldown = 1
  MaxPerHour = 1
  Reports <- UpOrDown
  NoLink = NoLink
  NoPolicy = NoPolicy
  NoDevice = NoDevice
PROPERTIES FailsOver
CHECK_DEADLOCK FALSE
