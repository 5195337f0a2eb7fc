SPECIFICATION FairSpec
CONSTANTS
  Payloads <- MCPayloads
  MaxPayload = 2
  MaxMessages = 3
  MinMessages = 1
  TopicLimit = 1
INVARIANTS
  TypeOK
  FileAsCounted
  DeliveredInOrder
  StatsAddUp
PROPERTIES
  EndsForAReason
  BothStop
  ImplementsRecordStream
CHECK_DEADLOCK FALSE
