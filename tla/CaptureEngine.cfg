CONSTANTS
  MaxQueueSize = 2
  MaxPackets = 3
  MaxRuns = 2
SPECIFICATION FairSpec
INVARIANTS
  TypeOK
  PacketsAccountedFor
  BlockedOnlyWhenEmpty
  NeverPopsEmpty
  NoThreadOutlivesRun
PROPERTIES
  ErrorsStick
  QueuePromise
  PacketsServed
  HelpersStop
