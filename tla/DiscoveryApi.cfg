CONSTANTS
  ip1 = ip1
  ip2 = ip2
  mac1 = mac1
  host1 = host1
  host2 = host2
  None = None
  Garbled = Garbled
  Request = {r1, r2, r3}
  Ip = {ip1, ip2}
  Mac = {mac1}
  Host = {host1, host2}
  ServiceType = {}
  Event <- MCEvent
  MaxCrashes = 1
SPECIFICATION FairSpec
INVARIANTS
  SuccessIsDurable
  RefusalLeavesNothing
PROPERTIES
  Serial
  Answered
CHECK_DEADLOCK FALSE
