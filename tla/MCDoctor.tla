------------------------------ MODULE MCDoctor ------------------------------
(* Doctor and Report on a small instance: two peers, one of them shown by every kind  *)
(* of frame, and frames without a peer.                                    *)
EXTENDS Report

CONSTANTS p1, p2

Frame(type, version, peer, ts, body) ==
  [type |-> type, version |-> version, peer |-> peer, ts |-> ts,
   body |-> body, elems |-> IF body /\ type \in RouteTypes THEN 2 ELSE 0]

MCPeers == {p1, p2}

MCKeyOrder == <<p1, p2>>

MCCapture ==
  { Frame("RouteMonitoring",  TRUE,  p1, 1, TRUE),
    Frame("RouteMonitoring",  FALSE, p1, 0, FALSE),
    Frame("RouteMirroring",   TRUE,  NoPeer, 0, FALSE),
    Frame("PeerUp",           TRUE,  p1, 1, TRUE),
    Frame("PeerDown",         TRUE,  p1, 0, FALSE),
    Frame("PeerDown",         TRUE,  p1, 1, TRUE),
    Frame("StatisticsReport", TRUE,  p1, 2, TRUE),
    Frame("RouteMonitoring",  TRUE,  p2, 0, FALSE),
    Frame("PeerUp",           FALSE, p2, 1, TRUE),
    Frame("Initiation",       TRUE,  NoPeer, 0, TRUE),
    Frame("Termination",      FALSE, NoPeer, 0, TRUE),
    Frame("Unknown",          FALSE, NoPeer, 0, FALSE) }
=============================================================================
