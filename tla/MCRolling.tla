------------------------------ MODULE MCRolling ------------------------------
(* Rolling on a small instance: two peers, of whom one also sends frames   *)
(* with findings, and windows of no, one, two and three messages.          *)
EXTENDS Rolling

CONSTANTS p1, p2

MCPeers == {p1, p2}

Frame(type, version, peer) == [type |-> type, version |-> version, peer |-> peer]

MCCapture ==
  { Frame("RouteMonitoring", TRUE,  p1),
    Frame("RouteMonitoring", FALSE, p2),
    Frame("PeerUp",          TRUE,  p2),
    Frame("Initiation",      TRUE,  NoPeer),
    Frame("Unknown",         FALSE, NoPeer) }
=============================================================================
