SPECIFICATION Spec
CONSTANTS
  p1 = p1
  p2 = p2
  NoPeer = NoPeer
  NoTs = NoTs
  Peers <- MCPeers
  Capture <- MCCapture
  FindingsArgs = {0, 3}
  EventsArg = 3
  MaxItems = 4
  KeyOrder <- MCKeyOrder
  MaxPeersArg = 1
INVARIANTS
  TypeOK
  PeerLifecycle
  FindingsSound
  CompleteUpToCap
  LintVerdict
  CountersMatchHistory
  InspectIsTrue
CHECK_DEADLOCK FALSE
