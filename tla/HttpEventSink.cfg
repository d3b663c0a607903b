CONSTANTS
  MaxQueueSize = 2
  Refused = {}
  MaxEvents = 4
  MaxUnanswered = 2
SPECIFICATION FairSpec
CHECK_DEADLOCK FALSE
INVARIANTS
  NothingLost
  FirstsInOrder
  DrainedAtExit
PROPERTIES
  QueuePromise
  DestructorReturns
  EventsArrive
