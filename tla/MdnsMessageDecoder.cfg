SPECIFICATION TextSpec
CONSTANTS
  Datagrams <- MCDatagrams
  Queries <- MCQueries
\* The records of one datagram have their texts, and the run of it is over.
CHECK_DEADLOCK FALSE
INVARIANTS
  TypeOK
  ReadsInBounds
  MessageIsWire
  LoopVerdict
  RoundTrip
  TextsAreWire
PROPERTIES
  EveryRecordGetsText
