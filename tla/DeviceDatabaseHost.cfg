CONSTANTS
  ip1 = ip1
  ip2 = ip2
  mac1 = mac1
  mac2 = mac2
  host1 = host1
  host2 = host2
  type1 = type1
  None = None
  Garbled = Garbled
  Request = {r1, r2, r3}
  Ip = {ip1, ip2}
  Mac = {mac1, mac2}
  Host = {host1, host2}
  ServiceType = {type1}
  Event <- MCEvent
SPECIFICATION Spec
PROPERTIES
  HostPreference
