------------------------------- MODULE Report -------------------------------
(***************************************************************************)
(* What inspect prints of the analysis once the capture is exhausted       *)
(* (src/src/report.rs), as text or as JSON: both are computed from the     *)
(* kept findings, the counters and the peers, never from the items.        *)
(***************************************************************************)
EXTENDS Doctor, FiniteSetsExt

CONSTANTS
  KeyOrder,    \* the peers in the order of their keys
  MaxPeersArg  \* --max-peers

ASSUME KeyOrderAssumption ==
  /\ KeyOrder \in Seq(Peers)
  /\ Peers = {KeyOrder[i] : i \in DOMAIN KeyOrder}
  /\ \A i, j \in DOMAIN KeyOrder : KeyOrder[i] = KeyOrder[j] => i = j
ASSUME MaxPeersAssumption == MaxPeersArg \in Nat

ParseRules == {"invalid_bmp_version", "truncated_frame", "unknown_bmp_type",
               "parse_error"}
OrderRules == {"route_monitoring_before_peer_up", "duplicate_peer_up",
               "peer_down_without_peer_up", "timestamp_regression"}

Kept(rules) == Cardinality({i \in DOMAIN findings : findings[i].rule \in rules})

(* compute_buckets: a rule of neither list counts as other.                *)
Buckets == [parse |-> Kept(ParseRules), order |-> Kept(OrderRules),
            other |-> Kept(Rules \ (ParseRules \cup OrderRules))]

(* Findings by severity; no rule is of severity Info.                      *)
Severities == [error |-> Kept(ErrorRules), warn |-> Kept(Rules \ ErrorRules)]

(* The keys of DoctorState.peers.                                          *)
Observed == {p \in Peers : lastTs[p] # NoTs}

Lifecycle ==
  [observed |-> Cardinality(Observed), active |-> Cardinality(active),
   routes |-> byType["RouteMonitoring"], ups |-> byType["PeerUp"],
   downs |-> byType["PeerDown"],
   early |-> Kept({"route_monitoring_before_peer_up"})]

(* Variant: warnings are looked at first.                                  *)
WarningsFirst ==
  IF Buckets.order > 0                       THEN "OK_WITH_STREAM_WARNINGS"
  ELSE IF malformed > 0 \/ Buckets.parse > 0 THEN "ISSUES"
  ELSE "OK"

Health ==
  IF malformed > 0 \/ Buckets.parse > 0 THEN "ISSUES"
  ELSE IF Buckets.order > 0             THEN "OK_WITH_STREAM_WARNINGS"
  ELSE "OK"

(* The sentence under the session lifecycle.                               *)
Interpretation ==
  IF malformed > 0 \/ Buckets.parse > 0 THEN "parse issues"
  ELSE IF Lifecycle.early > 0           THEN "mid-stream capture"
  ELSE ""

(* Most route frames first, then by key.                                   *)
Ahead(p, q) ==
  \/ count[p]["rm"] > count[q]["rm"]
  \/ /\ count[p]["rm"] = count[q]["rm"]
     /\ \E i, j \in DOMAIN KeyOrder : KeyOrder[i] = p /\ KeyOrder[j] = q /\ i < j

PeersShown ==
  {p \in Observed : Cardinality({q \in Observed : Ahead(q, p)}) < MaxPeersArg}

PeerRow(p) == [active |-> p \in active, rm |-> count[p]["rm"],
               up |-> count[p]["up"], down |-> count[p]["down"]]

(* render_inspect and render_inspect_json                                  *)
Inspect ==
  [health |-> Health, messages |-> total, malformed |-> malformed,
   elems |-> elemCount, byType |-> byType,
   buckets |-> Buckets, severities |-> Severities, lifecycle |-> Lifecycle,
   interpretation |-> Interpretation,
   peers |-> [p \in PeersShown |-> PeerRow(p)],
   more |-> Cardinality(Observed \ PeersShown),
   initiation |-> initInfo, termination |-> termInfo, stats |-> statsInfo,
   truncated |-> findingsDropped > 0, dropped |-> findingsDropped]
-----------------------------------------------------------------------------
(* The first item of the type whose payload could be read, 0 for none.     *)
FirstOf(type) ==
  LET readable == {i \in Positions : log[i].type = type /\ log[i].body}
  IN  IF readable = {} THEN 0 ELSE Min(readable)

(* What inspect tells is true of the capture.  Under any cap: ISSUES means *)
(* there are some, an unreadable frame is always one, findings and drops   *)
(* add up, and the peers and sessions are those of the items; the peers    *)
(* shown are as busy as any left out.  A clean bill of health is only to   *)
(* be trusted when no finding was dropped: then OK means no rule is broken *)
(* but the reason byte of a Peer Down (report.rs:45-141, 514-619).         *)
InspectIsTrue ==
  LET broken(rules) == \E x \in Broken : x[1] \in rules
      r == Inspect
  IN  phase = "done" /\ command = "inspect" =>
        /\ r.health = "ISSUES" => broken(ParseRules)
        /\ broken({"truncated_frame"}) => r.health = "ISSUES"
        /\ r.interpretation = "mid-stream capture" =>
             broken({"route_monitoring_before_peer_up"})
        /\ ~r.truncated =>
             /\ r.health = "ISSUES" <=> broken(ParseRules)
             /\ r.health = "OK" <=> ~broken(ParseRules \cup OrderRules)
        /\ r.buckets.parse + r.buckets.order + r.buckets.other + r.dropped
             = Cardinality(Broken)
        /\ r.severities.error + r.severities.warn + r.dropped = Cardinality(Broken)
        /\ r.lifecycle.active = Cardinality({p \in Peers : OpenAfter(p, Len(log))})
        /\ r.lifecycle.observed
             = Cardinality({log[i].peer : i \in Positions} \ {NoPeer})
        /\ Cardinality(DOMAIN r.peers) = Min({r.lifecycle.observed, MaxPeersArg})
        /\ \A p \in DOMAIN r.peers, q \in Observed \ DOMAIN r.peers :
             count[q]["rm"] <= r.peers[p].rm
        /\ r.initiation = FirstOf("Initiation")
        /\ r.termination = FirstOf("Termination")
        /\ r.stats = FirstOf("StatisticsReport")
=============================================================================
