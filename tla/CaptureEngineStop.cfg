CONSTANTS
  MaxQueueSize = 2
  MaxPackets = 1
  MaxRuns = 1
SPECIFICATION FairSpec
PROPERTIES
  StopEndsWorker
