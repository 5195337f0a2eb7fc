------------------------------- MODULE Doctor -------------------------------
(***************************************************************************)
(* The analysis pass of bmpwatch (src/src/doctor.rs) as the inspect, lint  *)
(* and dump commands run it (src/src/cli.rs): a capture is opened, every   *)
(* item the frame source yields is counted, checked against the state of   *)
(* its BGP peer and turned into findings, findings and JSONL events are    *)
(* kept up to a cap, and the command ends with an exit code.               *)
(*                                                                         *)
(* A frame is abstracted to what the code branches on.  Its byte offset is *)
(* its position in log, the history of the items the source has yielded;   *)
(* log is read by no action and only serves to state the properties.       *)
(***************************************************************************)
EXTENDS Integers, Sequences, FiniteSets

CONSTANTS
  Peers,        \* the PeerKeys of the capture's per-peer headers
  NoPeer,       \* a frame without a (complete) per-peer header
  NoTs,         \* a timestamp that was never set
  Capture,      \* the frames the capture may hold
  FindingsArgs, \* values of --max-findings
  EventsArg,    \* value of --max-events
  MaxItems      \* bound on the items a capture yields

RouteTypes == {"RouteMonitoring", "RouteMirroring"}
PeerTypes  == RouteTypes \cup {"StatisticsReport", "PeerDown", "PeerUp"}
MsgTypes   == PeerTypes \cup {"Initiation", "Termination"}
RawTypes   == MsgTypes \cup {"Unknown"}

(* version: the version byte is 3.  body: what the type's own part of the  *)
(* payload decodes to: bgpkit accepts the frame (route types), the reason  *)
(* byte is there (Peer Down), at least one TLV or statistic was read       *)
(* (Initiation, Termination, Statistics).  elems: announced and withdrawn  *)
(* prefixes.                                                               *)
Frames == [type: RawTypes, version: BOOLEAN, peer: Peers \cup {NoPeer},
           ts: Nat, body: BOOLEAN, elems: Nat]

Malformed == [type |-> "Malformed", version |-> TRUE, peer |-> NoPeer,
              ts |-> 0, body |-> FALSE, elems |-> 0]

ASSUME NoPeerAssumption == NoPeer \notin Peers
ASSUME NoTsAssumption   == NoTs \notin Nat
ASSUME ArgsAssumption   == FindingsArgs \subseteq Nat /\ EventsArg \in Nat
(* Only five types carry a per-peer header, and what follows the header    *)
(* cannot be decoded from a frame that is too short to hold one.           *)
ASSUME CaptureAssumption ==
  /\ Capture \subseteq Frames
  /\ \A f \in Capture : /\ f.type \notin PeerTypes => f.peer = NoPeer
                        /\ f.type \in PeerTypes /\ f.peer = NoPeer => ~f.body

VARIABLES
  phase,       \* "opening", "reading", "done" or "failed"
  command,     \* the subcommand: "inspect", "lint" or "dump"
  maxFindings, \* the cap the subcommand hands to the Doctor
  log,         \* history: the items yielded so far
  total, malformed, byType, elemCount,            \* DoctorState counters
  upSeen, active, lastTs, firstTs, reason, count, \* PeerState, by field
  initInfo, termInfo, statsInfo,                  \* position of the kept one
  findings, findingsDropped,
  events, eventsDropped,
  exit         \* the process's exit code

state == <<total, malformed, byType, elemCount>>
peers == <<upSeen, active, lastTs, firstTs, reason, count>>
infos == <<initInfo, termInfo, statsInfo>>
found == <<findings, findingsDropped>>
jsonl == <<events, eventsDropped>>
vars  == <<phase, command, maxFindings, log, state, peers, infos, found, jsonl,
           exit>>

Rules == {"invalid_bmp_version", "truncated_frame", "unknown_bmp_type",
          "parse_error", "route_monitoring_before_peer_up",
          "duplicate_peer_up", "peer_down_without_peer_up",
          "timestamp_regression", "truncated_peer_down_reason"}
ErrorRules == {"invalid_bmp_version", "truncated_frame", "parse_error",
               "truncated_peer_down_reason"}
Finding  == [rule: Rules, at: Nat]
Counters == {"up", "down", "rm", "other", "early", "regression"}

-----------------------------------------------------------------------------
(* Findings, in the order process_frame pushes them.                       *)

When(cond, rule, at) == IF cond THEN <<[rule |-> rule, at |-> at]>> ELSE <<>>

(* bgpkit only sees route frames without a framing finding.                *)
ParseAttempted(f) == f.version /\ f.type \in RouteTypes

FramingFindings(f, at) ==
     When(~f.version, "invalid_bmp_version", at)
  \o When(f.type = "Unknown", "unknown_bmp_type", at)
  \o When(ParseAttempted(f) /\ ~f.body, "parse_error", at)

(* Variant: a repeated timestamp counts as a regression.                   *)
RegressesOrRepeats(f) == lastTs[f.peer] # NoTs /\ f.ts <= lastTs[f.peer]

(* last_timestamp follows the latest frame, even a regressing one.         *)
Regresses(f) == lastTs[f.peer] # NoTs /\ f.ts < lastTs[f.peer]

(* peer_up_seen is never reset: a route frame after a Peer Down is silent. *)
BeforePeerUp(f) == f.type \in RouteTypes /\ f.peer \notin upSeen

PeerFindings(f, at) ==
     When(Regresses(f), "timestamp_regression", at)
  \o When(BeforePeerUp(f), "route_monitoring_before_peer_up", at)
  \o When(f.type = "PeerUp" /\ f.peer \in active, "duplicate_peer_up", at)
  \o When(f.type = "PeerDown" /\ ~f.body, "truncated_peer_down_reason", at)
  \o When(f.type = "PeerDown" /\ f.peer \notin active,
          "peer_down_without_peer_up", at)

FrameFindings(f, at) ==
  FramingFindings(f, at)
    \o (IF f.peer = NoPeer THEN <<>> ELSE PeerFindings(f, at))

(* Variant: the oldest findings make room for the new ones.                *)
PushLatest(fs) ==
  LET all  == findings \o fs
      over == IF Len(all) <= maxFindings THEN 0 ELSE Len(all) - maxFindings
  IN  /\ findings' = SubSeq(all, over + 1, Len(all))
      /\ findingsDropped' = findingsDropped + over

(* push_finding, for each finding of fs in turn: what does not fit under   *)
(* the cap is only counted.                                                *)
PushFindings(fs) ==
  LET all  == findings \o fs
      kept == IF Len(all) <= maxFindings THEN all
                                         ELSE SubSeq(all, 1, maxFindings)
  IN  /\ findings' = kept
      /\ findingsDropped' = findingsDropped + (Len(all) - Len(kept))

(* Variant: the command line value is taken as it is.                      *)
AsGiven(n) == n

(* max_findings.max(1), max_events.max(1)                                  *)
AtLeastOne(n) == IF n = 0 THEN 1 ELSE n

(* Variant: an event lists the findings that still fit under the cap.      *)
KeptRules(fs) ==
  {fs[i].rule : i \in DOMAIN fs \cap 1..(maxFindings - Len(findings))}

(* from_frame gets all findings of the frame, kept or not.                 *)
EventRules(fs) == {fs[i].rule : i \in DOMAIN fs}

(* Only dump collects events.                                              *)
PushEvent(status, fs) ==
  LET event == [status |-> status, rules |-> EventRules(fs)]
  IN  IF command # "dump" THEN UNCHANGED jsonl
      ELSE IF Len(events) >= AtLeastOne(EventsArg)
      THEN /\ eventsDropped' = eventsDropped + 1
           /\ UNCHANGED events
      ELSE /\ events' = Append(events, event)
           /\ UNCHANGED eventsDropped
-----------------------------------------------------------------------------
(* PeerState and DoctorState updates of one frame.                         *)

Bumped(f) ==
  {c \in Counters :
     \/ c = "up"         /\ f.type = "PeerUp"
     \/ c = "down"       /\ f.type = "PeerDown"
     \/ c = "rm"         /\ f.type \in RouteTypes
     \/ c = "other"      /\ f.type = "StatisticsReport"
     \/ c = "early"      /\ BeforePeerUp(f)
     \/ c = "regression" /\ Regresses(f)}

(* Variant: a Peer Down leaves the session open.                           *)
NeverClosed(f) == IF f.type = "PeerUp" THEN active \cup {f.peer} ELSE active

ActiveAfter(f) ==
  CASE f.type = "PeerUp"   -> active \cup {f.peer}
    [] f.type = "PeerDown" -> active \ {f.peer}
    [] OTHER               -> active

UpdatePeer(f) ==
  /\ upSeen' = IF f.type = "PeerUp" /\ f.peer \notin active
               THEN upSeen \cup {f.peer} ELSE upSeen
  /\ active' = ActiveAfter(f)
  /\ lastTs'  = [lastTs  EXCEPT ![f.peer] = f.ts]
  /\ firstTs' = [firstTs EXCEPT ![f.peer] = IF @ = NoTs THEN f.ts ELSE @]
  /\ reason'  = IF f.type = "PeerDown"
                THEN [reason EXCEPT ![f.peer] = IF f.body THEN "code" ELSE "zero"]
                ELSE reason
  /\ count'   = [count EXCEPT ![f.peer] =
                   [c \in Counters |-> @[c] + IF c \in Bumped(f) THEN 1 ELSE 0]]

KeepFirst(kept, type, f, at) ==
  IF kept = 0 /\ f.type = type /\ f.body THEN at ELSE kept

CollectInfo(f, at) ==
  /\ initInfo'  = KeepFirst(initInfo, "Initiation", f, at)
  /\ termInfo'  = KeepFirst(termInfo, "Termination", f, at)
  /\ statsInfo' = KeepFirst(statsInfo, "StatisticsReport", f, at)
-----------------------------------------------------------------------------
Init ==
  /\ phase = "opening"
  /\ command \in {"inspect", "lint", "dump"}
  /\ maxFindings \in {AtLeastOne(n) : n \in FindingsArgs}
  /\ log = <<>>
  /\ total = 0 /\ malformed = 0 /\ elemCount = 0
  /\ byType = [t \in RawTypes |-> 0]
  /\ upSeen = {} /\ active = {}
  /\ lastTs = [p \in Peers |-> NoTs] /\ firstTs = [p \in Peers |-> NoTs]
  /\ reason = [p \in Peers |-> "none"]
  /\ count = [p \in Peers |-> [c \in Counters |-> 0]]
  /\ initInfo = 0 /\ termInfo = 0 /\ statsInfo = 0
  /\ findings = <<>> /\ findingsDropped = 0
  /\ events = <<>> /\ eventsDropped = 0
  /\ exit = 0

(* The file cannot be opened, or is a container with a bad magic.          *)
OpenFails ==
  /\ phase = "opening"
  /\ phase' = "failed" /\ exit' = 1
  /\ UNCHANGED <<command, maxFindings, log, state, peers, infos, found, jsonl>>

Open ==
  /\ phase = "opening"
  /\ phase' = "reading"
  /\ UNCHANGED <<command, maxFindings, log, state, peers, infos, found, jsonl,
                 exit>>

Reading == phase = "reading" /\ Len(log) < MaxItems

(* process_frame: the source yielded frame f.                              *)
ProcessFrame(f) ==
  LET at == Len(log) + 1
      fs == FrameFindings(f, at)
  IN  /\ Reading
      /\ log' = Append(log, f)
      /\ total' = total + 1
      /\ byType' = [byType EXCEPT ![f.type] = @ + 1]
      /\ elemCount' = elemCount
           + IF f.type = "RouteMonitoring" /\ ParseAttempted(f) /\ f.body
             THEN f.elems ELSE 0
      /\ IF f.peer = NoPeer THEN UNCHANGED peers ELSE UpdatePeer(f)
      /\ CollectInfo(f, at)
      /\ PushFindings(fs)
      /\ PushEvent(IF ParseAttempted(f) /\ ~f.body THEN "error" ELSE "ok", fs)
      /\ UNCHANGED <<phase, command, maxFindings, malformed, exit>>

(* The source yielded a frame-level error.                                 *)
ProcessMalformed ==
  LET fs == When(TRUE, "truncated_frame", Len(log) + 1)
  IN  /\ Reading
      /\ log' = Append(log, Malformed)
      /\ malformed' = malformed + 1
      /\ PushFindings(fs)
      /\ PushEvent("malformed", fs)
      /\ UNCHANGED <<phase, command, maxFindings, total, byType, elemCount,
                     peers, infos, exit>>

(* max_exit_code, of the findings that were kept.                          *)
ExitCode(rule) == IF rule \in ErrorRules THEN 2 ELSE 1

MaxExitCode(fs) ==
  LET codes == {0} \cup {ExitCode(fs[i].rule) : i \in DOMAIN fs}
  IN  CHOOSE c \in codes : \A d \in codes : d <= c

(* The source is exhausted; only lint turns findings into an exit code.    *)
Finish ==
  /\ phase = "reading"
  /\ phase' = "done"
  /\ exit' = IF command = "lint" THEN MaxExitCode(findings) ELSE 0
  /\ UNCHANGED <<command, maxFindings, log, state, peers, infos, found, jsonl>>

(* An I/O error ends the command; nothing gathered so far is reported.     *)
IoError ==
  /\ phase = "reading"
  /\ phase' = "failed" /\ exit' = 1
  /\ UNCHANGED <<command, maxFindings, log, state, peers, infos, found, jsonl>>

Next ==
  \/ OpenFails
  \/ Open
  \/ \E f \in Capture : ProcessFrame(f)
  \/ ProcessMalformed
  \/ Finish
  \/ IoError

Spec == Init /\ [][Next]_vars
-----------------------------------------------------------------------------
(***************************************************************************)
(* What the findings should be, from the history alone.                    *)
(***************************************************************************)
Of(p, type, i) == log[i].type = type /\ log[i].peer = p

(* A Peer Up of p is among the first n items.                              *)
UpAmong(p, n) == \E j \in 1..n : Of(p, "PeerUp", j)

(* ... and no Peer Down of p follows it there: the session of p is open.   *)
OpenAfter(p, n) ==
  \E j \in 1..n : /\ Of(p, "PeerUp", j)
                  /\ \A k \in (j+1)..n : ~Of(p, "PeerDown", k)

(* Item i is older than the latest item of its peer before it.             *)
Older(i) ==
  \E j \in 1..(i-1) : /\ log[j].peer = log[i].peer
                      /\ log[i].ts < log[j].ts
                      /\ \A k \in (j+1)..(i-1) : log[k].peer # log[i].peer

(* Item i breaks the rule, as lint.rs words the rules.                     *)
Breaks(rule, i) ==
  LET f == log[i] IN
  \/ rule = "truncated_frame"      /\ f.type = "Malformed"
  \/ rule = "invalid_bmp_version"  /\ ~f.version
  \/ rule = "unknown_bmp_type"     /\ f.type = "Unknown"
  \/ rule = "parse_error"          /\ f.type \in RouteTypes /\ f.version /\ ~f.body
  \/ /\ f.peer # NoPeer
     /\ \/ rule = "timestamp_regression" /\ Older(i)
        \/ /\ rule = "route_monitoring_before_peer_up"
           /\ f.type \in RouteTypes /\ ~UpAmong(f.peer, i - 1)
        \/ /\ rule = "duplicate_peer_up"
           /\ f.type = "PeerUp" /\ OpenAfter(f.peer, i - 1)
        \/ /\ rule = "peer_down_without_peer_up"
           /\ f.type = "PeerDown" /\ ~OpenAfter(f.peer, i - 1)
        \/ /\ rule = "truncated_peer_down_reason"
           /\ f.type = "PeerDown" /\ ~f.body

Positions == 1..Len(log)
Broken    == {x \in Rules \X Positions : Breaks(x[1], x[2])}
-----------------------------------------------------------------------------
PeerTs == Nat \cup {NoTs}

(* Every variable has its type.                                            *)
TypeOK ==
  /\ phase \in {"opening", "reading", "done", "failed"}
  /\ command \in {"inspect", "lint", "dump"}
  /\ maxFindings \in Nat \ {0}
  /\ log \in Seq(Capture \cup {Malformed})
  /\ total \in Nat /\ malformed \in Nat /\ elemCount \in Nat
  /\ byType \in [RawTypes -> Nat]
  /\ upSeen \subseteq Peers /\ active \subseteq Peers
  /\ lastTs \in [Peers -> PeerTs] /\ firstTs \in [Peers -> PeerTs]
  /\ reason \in [Peers -> {"none", "zero", "code"}]
  /\ count \in [Peers -> [Counters -> Nat]]
  /\ initInfo \in Nat /\ termInfo \in Nat /\ statsInfo \in Nat
  /\ findings \in Seq(Finding) /\ findingsDropped \in Nat
  /\ events \in Seq([status: {"ok", "error", "malformed"}, rules: SUBSET Rules])
  /\ eventsDropped \in Nat
  /\ exit \in 0..2

(* A peer is active exactly while its last Peer Up is not followed by a    *)
(* Peer Down, across any number of sessions; peer_up_seen remembers that   *)
(* there ever was one, and last_timestamp is that of the peer's last frame *)
(* (doctor.rs:228-309).                                                    *)
PeerLifecycle ==
  \A p \in Peers :
    /\ p \in active <=> OpenAfter(p, Len(log))
    /\ p \in upSeen <=> UpAmong(p, Len(log))
    /\ \/ lastTs[p] = NoTs /\ \A i \in Positions : log[i].peer # p
       \/ \E i \in Positions : /\ log[i].peer = p /\ lastTs[p] = log[i].ts
                               /\ \A k \in (i+1)..Len(log) : log[k].peer # p

(* No false finding, at any cap: whatever is reported, the item it points  *)
(* at breaks that rule given all items before it (doctor.rs:184-336).      *)
FindingsSound ==
  \A k \in DOMAIN findings :
    findings[k].at \in Positions /\ Breaks(findings[k].rule, findings[k].at)

(* No finding missed or told twice: kept and dropped findings together are *)
(* as many as there are broken rules, and with none dropped each is there. *)
FindingsComplete ==
  /\ Len(findings) + findingsDropped = Cardinality(Broken)
  /\ findingsDropped = 0 =>
       \A x \in Broken : \E k \in DOMAIN findings :
         findings[k] = [rule |-> x[1], at |-> x[2]]

(* Findings are only dropped once the cap is reached, and it is reached    *)
(* but never exceeded.                                                     *)
CapRespected ==
  /\ Len(findings) <= maxFindings
  /\ findingsDropped > 0 => Len(findings) = maxFindings

(* What the cap keeps are the earliest findings: none that was dropped     *)
(* comes before a kept one (doctor.rs:121-128).                            *)
CapKeepsEarliest ==
  /\ CapRespected
  /\ \A i, j \in DOMAIN findings : i < j => findings[i].at <= findings[j].at
  /\ \A x \in Broken : findingsDropped > 0 =>
       \/ x[2] >= findings[maxFindings].at
       \/ \E k \in DOMAIN findings : findings[k] = [rule |-> x[1], at |-> x[2]]

(* Nothing is missed, and under a cap it is the latest that are dropped.   *)
CompleteUpToCap == FindingsComplete /\ CapKeepsEarliest

(* lint exits with 0 exactly for a capture without a broken rule, whatever *)
(* --max-findings is: the cap is at least one (cli.rs:250, event.rs:87-96).*)
LintVerdict ==
  phase = "done" /\ command = "lint" =>
    /\ exit = 0 <=> Broken = {}
    /\ exit = 2 => \E x \in Broken : x[1] \in ErrorRules
    /\ findingsDropped = 0 /\ (\E x \in Broken : x[1] \in ErrorRules) => exit = 2

(* No cap shortens what is counted: the Peer Ups, route monitorings before *)
(* a Peer Up and timestamp regressions of a peer are counted even where    *)
(* the matching findings were dropped, its frames in four counters that    *)
(* add up to all of them; and dump has one event per item, for the first   *)
(* items up to its own cap, that lists every rule the item breaks          *)
(* (doctor.rs:112-119, 153-170, 228-359).                                  *)
CountersMatchHistory ==
  /\ \A p \in Peers :
       LET Number(P(_)) == Cardinality({i \in Positions : log[i].peer = p /\ P(i)})
       IN  /\ count[p]["up"] = Number(LAMBDA i : log[i].type = "PeerUp")
           /\ count[p]["early"] =
                Number(LAMBDA i : Breaks("route_monitoring_before_peer_up", i))
           /\ count[p]["regression"] =
                Number(LAMBDA i : Breaks("timestamp_regression", i))
           /\ count[p]["up"] + count[p]["down"] + count[p]["rm"] + count[p]["other"] =
                Number(LAMBDA i : TRUE)
  /\ command = "dump" =>
       /\ Len(events) + eventsDropped = Len(log)
       /\ \A i \in DOMAIN events :
            events[i].rules = {r \in Rules : Breaks(r, i)}
=============================================================================
