------------------------------- MODULE Rolling -------------------------------
(***************************************************************************)
(* The rolling summary of replay mode: the ring of src/src/rolling.rs and  *)
(* the loop of watch (src/src/doctor.rs) that pushes every item of a       *)
(* capture into it and prints a line every interval and at the end.        *)
(*                                                                         *)
(* Counts are integers, so that a decrement below zero (u64 arithmetic in  *)
(* the code) is a type violation instead of wrapping around.               *)
(***************************************************************************)
EXTENDS Integers, Sequences, FiniteSets

CONSTANTS
  Peers,       \* the PeerKeys of the capture
  NoPeer,      \* no per-peer header
  Capture,     \* the frames the capture may hold
  WindowArgs,  \* values of --window-messages
  NoLine,      \* no line printed yet
  MaxItems     \* bound on the items the capture yields

Types == {"RouteMonitoring", "StatisticsReport", "PeerDown", "PeerUp",
          "Initiation", "Termination", "RouteMirroring", "Unknown"}
Rules == {"invalid_bmp_version", "unknown_bmp_type"}

Frames == [type: Types, version: BOOLEAN, peer: Peers \cup {NoPeer}]
Slots  == [type: Types, malformed: BOOLEAN, peer: Peers \cup {NoPeer},
           findings: SUBSET Rules]

ASSUME NoPeerAssumption  == NoPeer \notin Peers
ASSUME CaptureAssumption == Capture \subseteq Frames
ASSUME WindowAssumption  == WindowArgs \subseteq Nat

VARIABLES
  phase,      \* "reading", "done" or "failed"
  size,       \* window_messages
  total,      \* total_seen
  windowSeen, \* window_seen: the slots in use, at most size
  slots,      \* the ring buffer, <<>> until the first push
  next,       \* next_slot: the slot written next, the oldest one once full
  byType, malformed,
  peerCounts, \* messages per peer; a peer without one is not in its domain
  hasMeta,    \* the container's statistics hold OpenBMP metadata
  metadata,   \* metadata: handed over by watch at the end
  shown       \* the line printed last

window == <<windowSeen, slots, next, byType, malformed, peerCounts>>
vars   == <<phase, size, total, window, hasMeta, metadata, shown>>

(* The filler of the slots not written yet.                                *)
EmptySlot == [type |-> "RouteMonitoring", malformed |-> FALSE,
              peer |-> NoPeer, findings |-> {}]

One(cond) == IF cond THEN 1 ELSE 0

Increment(counts, p) ==
  IF p = NoPeer THEN counts
  ELSE [q \in DOMAIN counts \cup {p} |->
          (IF q \in DOMAIN counts THEN counts[q] ELSE 0) + One(q = p)]

(* Variant: a peer whose last message leaves stays in the map.             *)
DecrementOnly(counts, p) ==
  IF p \in DOMAIN counts THEN [counts EXCEPT ![p] = @ - 1] ELSE counts

Decrement(counts, p) ==
  IF p \notin DOMAIN counts THEN counts
  ELSE IF counts[p] = 1 THEN [q \in DOMAIN counts \ {p} |-> counts[q]]
  ELSE [counts EXCEPT ![p] = @ - 1]
-----------------------------------------------------------------------------
(* Variant: the slot due next is evicted before the window is full.        *)
FullEarly == windowSeen + 1 >= size

(* The window is full: the push evicts the oldest message.                 *)
Full == windowSeen >= size

(* Variant: the next slot does not wrap around at the end of the ring.     *)
StuckSlot == IF next + 1 < size THEN next + 1 ELSE next

NextSlot == (next + 1) % size

Slide(m) ==
  LET ring == IF slots = <<>> THEN [i \in 0..(size-1) |-> EmptySlot] ELSE slots
      old  == ring[next]
  IN  /\ windowSeen' = IF Full THEN windowSeen ELSE windowSeen + 1
      /\ slots' = [ring EXCEPT ![next] = m]
      /\ next' = NextSlot
      /\ byType' = [t \in Types |->
           byType[t] - One(Full /\ old.type = t) + One(m.type = t)]
      /\ malformed' =
           malformed - One(Full /\ old.malformed) + One(m.malformed)
      /\ peerCounts' =
           Increment(IF Full THEN Decrement(peerCounts, old.peer)
                             ELSE peerCounts, m.peer)

Push(m) ==
  /\ total' = total + 1
  /\ IF size = 0 THEN UNCHANGED window ELSE Slide(m)

(* findings_buckets.  Both rules of Rules count as parse errors; replay    *)
(* raises no other, so the other two buckets stay zero.                    *)
FindingsBuckets ==
  LET count == IF windowSeen <= size THEN windowSeen ELSE size
      start == IF windowSeen <= size THEN 0 ELSE next
      used  == {(start + i) % size : i \in 0..(count-1)}
  IN  IF size = 0 \/ windowSeen = 0 THEN 0
      ELSE Cardinality({x \in used \X Rules : x[2] \in slots[x[1]].findings})

(* The line emit_json prints.                                              *)
Line ==
  [total |-> total, byType |-> byType, malformed |-> malformed,
   peers |-> Cardinality(DOMAIN peerCounts), parseErrors |-> FindingsBuckets,
   metadata |-> metadata]
-----------------------------------------------------------------------------
Init ==
  /\ phase = "reading"
  /\ size \in WindowArgs
  /\ total = 0 /\ windowSeen = 0 /\ slots = <<>> /\ next = 0
  /\ byType = [t \in Types |-> 0] /\ malformed = 0
  /\ peerCounts = [p \in {} |-> 0]
  /\ hasMeta \in BOOLEAN /\ metadata = FALSE
  /\ shown = NoLine

(* One turn of watch's loop: push, and a line when the interval is over.   *)
Observe(m) ==
  /\ phase = "reading" /\ total < MaxItems
  /\ Push(m)
  /\ UNCHANGED <<phase, size, hasMeta, metadata>>
  /\ shown' \in {shown, Line'}

FrameSlot(f) ==
  [type |-> f.type, malformed |-> FALSE, peer |-> f.peer,
   findings |-> {r \in Rules : \/ r = "invalid_bmp_version" /\ ~f.version
                               \/ r = "unknown_bmp_type" /\ f.type = "Unknown"}]

WatchFrame(f) == Observe(FrameSlot(f))

(* A frame-level error is pushed with message type 0, Route Monitoring.    *)
MalformedSlot == [EmptySlot EXCEPT !.malformed = TRUE]

WatchMalformed == Observe(MalformedSlot)

(* The source is exhausted: metadata is copied and, if there was anything, *)
(* a last line is printed.                                                 *)
Finish ==
  /\ phase = "reading"
  /\ phase' = "done"
  /\ metadata' = hasMeta
  /\ UNCHANGED <<size, total, window, hasMeta>>
  /\ shown' = IF total > 0 THEN Line' ELSE shown

(* An I/O error of the source ends the loop without a last line.           *)
IoError ==
  /\ phase = "reading"
  /\ phase' = "failed"
  /\ UNCHANGED <<size, total, window, hasMeta, metadata, shown>>

Next ==
  \/ \E f \in Capture : WatchFrame(f)
  \/ WatchMalformed
  \/ Finish
  \/ IoError

Spec == Init /\ [][Next]_vars
-----------------------------------------------------------------------------
InUse == 0..(windowSeen-1)

Lines == [total: Nat, byType: [Types -> Nat], malformed: Nat, peers: Nat,
          parseErrors: Nat, metadata: BOOLEAN]

ASSUME NoLineAssumption == NoLine \notin Lines

(* Every variable has its type; above all no counter falls below zero, so  *)
(* that no unsigned decrement of the code underflows.                      *)
TypeOK ==
  /\ phase \in {"reading", "done", "failed"}
  /\ size \in WindowArgs
  /\ total \in Nat
  /\ windowSeen \in 0..size
  /\ slots \in {<<>>} \cup [0..(size-1) -> Slots]
  /\ next \in 0..size
  /\ byType \in [Types -> Nat] /\ malformed \in Nat
  /\ DOMAIN peerCounts \subseteq Peers
  /\ peerCounts \in [DOMAIN peerCounts -> Nat \ {0}]
  /\ hasMeta \in BOOLEAN /\ metadata \in BOOLEAN
  /\ shown \in {NoLine} \cup Lines

(* The slots in use are the first ones until the ring is full, and the     *)
(* slot written next is in range: before that it is the first unused one.  *)
RingShape ==
  /\ slots = <<>> <=> windowSeen = 0
  /\ size = 0 => windowSeen = 0
  /\ size > 0 => next < size
  /\ windowSeen < size => next = windowSeen

(* What is counted incrementally, over any number of evictions, is what a  *)
(* recount of the slots in use would give, and a peer is known exactly     *)
(* while one of its messages is in the window (rolling.rs:131-166).        *)
CountsOfWindow ==
  /\ \A t \in Types : byType[t] = Cardinality({i \in InUse : slots[i].type = t})
  /\ malformed = Cardinality({i \in InUse : slots[i].malformed})
  /\ \A p \in Peers :
       LET his == {i \in InUse : slots[i].peer = p}
       IN  IF p \in DOMAIN peerCounts THEN peerCounts[p] = Cardinality(his)
                                      ELSE his = {}

(* The ring implements the sliding window: the slots in use, read from the *)
(* oldest on, are the last messages pushed, and every line printed         *)
(* summarises exactly these (rolling.rs:79-210, doctor.rs:432-473).        *)
OldestFirst ==
  [k \in 1..windowSeen |->
     slots[IF windowSeen < size THEN k - 1 ELSE (next + k - 1) % size]]

Plain(line) ==
  IF line = NoLine THEN NoLine
  ELSE [total |-> line.total, byType |-> line.byType, malformed |-> line.malformed,
        peers |-> line.peers, parseErrors |-> line.parseErrors]

SW == INSTANCE SlidingWindow
        WITH Messages <- {FrameSlot(f) : f \in Capture} \cup {MalformedSlot},
             window <- OldestFirst, shown <- Plain(shown)

ImplementsSlidingWindow == SW!Spec
=============================================================================
