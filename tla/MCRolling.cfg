SPECIFICATION Spec
CONSTANTS
  p1 = p1
  p2 = p2
  NoPeer = NoPeer
  NoLine = NoLine
  Peers <- MCPeers
  Capture <- MCCapture
  WindowArgs = {0, 1, 2, 3}
  MaxItems = 7
INVARIANTS
  TypeOK
  CountsOfWindow
PROPERTIES
  ImplementsSlidingWindow
CHECK_DEADLOCK FALSE
