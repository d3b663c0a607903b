SPECIFICATION Spec
CONSTANTS
  Token <- MCToken
  Packets <- MCPackets
  None = None
  Capacity = 1
  MaxPackets = 3
  MaxUnanswered = 1
  MaxRestarts = 1
\* All responses have been heard, and nothing is left to post.
CHECK_DEADLOCK FALSE
INVARIANTS
  SentOnce
  RegistryKnowsHeard
  ApiMirrorsRegistry
  StaleOnlyAfterReturn
PROPERTIES
  ServicesArrive
