CONSTANTS
  Services = {s1}
  Instances = {i1}
  MaxPending = 2
  MaxProbesPerTick = 1
  Cooldown = 4
  Interval = 1
  MaxRecords = 2
SPECIFICATION FairSpec
INVARIANTS
  PendingKeysExact
PROPERTIES
  RefusedNotRemembered
  SpacingUpToBacklog
  ProbesLeaveTheQueue
