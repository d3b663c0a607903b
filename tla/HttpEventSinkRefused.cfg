CONSTANTS
  MaxQueueSize = 2
  Refused = {1}
  MaxEvents = 2
  MaxUnanswered = 0
SPECIFICATION FairSpec
CHECK_DEADLOCK FALSE
PROPERTIES
  EventsArrive
