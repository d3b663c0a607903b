CONSTANTS
  Services = {s1}
  Instances = {i1, i2}
  MaxPending = 3
  MaxProbesPerTick = 1
  Cooldown = 2
  Interval = 1
  MaxRecords = 2
SPECIFICATION FairSpec
PROPERTIES
  CooldownBetweenProbes
