SPECIFICATION Spec
CONSTANTS
  Payloads <- MCPayloads
  MaxPayload = 2
  MaxMessages = 2
  MinMessages = 1
  TopicLimit = 1
INVARIANTS
  MetadataOfFirstUnwrapped
CHECK_DEADLOCK FALSE
