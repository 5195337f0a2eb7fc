---------------------------- MODULE DoctorProofs ----------------------------
(* Proofs that nothing is miscounted, for every set of peers, every        *)
(* capture and every cap: what doctor's analysis keeps, drops and counts   *)
(* against the history of the items, and what inspect makes of it.         *)
EXTENDS Report, OrderLemmas, SequenceTheorems, TLAPS

(* The findings frame f can raise at position at.                          *)
Raised(f, at) ==
  {x \in Finding :
    /\ x.at = at
    /\ \/ x.rule = "invalid_bmp_version" /\ ~f.version
       \/ x.rule = "unknown_bmp_type"    /\ f.type = "Unknown"
       \/ x.rule = "parse_error"         /\ ParseAttempted(f) /\ ~f.body
       \/ /\ f.peer # NoPeer
          /\ \/ x.rule = "timestamp_regression" /\ Regresses(f)
             \/ x.rule = "route_monitoring_before_peer_up" /\ BeforePeerUp(f)
             \/ /\ x.rule = "duplicate_peer_up"
                /\ f.type = "PeerUp" /\ f.peer \in active
             \/ /\ x.rule = "truncated_peer_down_reason"
                /\ f.type = "PeerDown" /\ ~f.body
             \/ /\ x.rule = "peer_down_without_peer_up"
                /\ f.type = "PeerDown" /\ f.peer \notin active}

-----------------------------------------------------------------------------
LEMMA WhenIn ==
  ASSUME NEW S, NEW cond, NEW rule, NEW at, cond => [rule |-> rule, at |-> at] \in S
  PROVE  When(cond, rule, at) \in Seq(S)
<1>1. CASE cond
  BY <1>1 DEF When
<1>2. CASE ~cond
  BY <1>2 DEF When
<1> QED BY <1>1, <1>2

(* Every finding pushed for a frame is one the frame raises.               *)
LEMMA FrameFindingsRaised ==
  ASSUME NEW f \in Frames, NEW at \in Nat
  PROVE  FrameFindings(f, at) \in Seq(Raised(f, at))
<1> DEFINE S == Raised(f, at)
           Is(rule) == [rule |-> rule, at |-> at]
<1>1. /\ ~f.version => Is("invalid_bmp_version") \in S
      /\ f.type = "Unknown" => Is("unknown_bmp_type") \in S
      /\ ParseAttempted(f) /\ ~f.body => Is("parse_error") \in S
  BY DEF Raised, Finding, Rules
<1>2. f.peer # NoPeer =>
        /\ Regresses(f) => Is("timestamp_regression") \in S
        /\ BeforePeerUp(f) => Is("route_monitoring_before_peer_up") \in S
        /\ f.type = "PeerUp" /\ f.peer \in active => Is("duplicate_peer_up") \in S
        /\ f.type = "PeerDown" /\ ~f.body => Is("truncated_peer_down_reason") \in S
        /\ f.type = "PeerDown" /\ f.peer \notin active
             => Is("peer_down_without_peer_up") \in S
  BY DEF Raised, Finding, Rules
<1> HIDE DEF S
<1>3. FramingFindings(f, at) \in Seq(S)
  <2>1. When(~f.version, "invalid_bmp_version", at) \in Seq(S)
    BY <1>1, WhenIn
  <2>2. When(f.type = "Unknown", "unknown_bmp_type", at) \in Seq(S)
    BY <1>1, WhenIn
  <2>3. When(ParseAttempted(f) /\ ~f.body, "parse_error", at) \in Seq(S)
    BY <1>1, WhenIn
  <2> QED BY <2>1, <2>2, <2>3, ConcatProperties DEF FramingFindings
<1>4. f.peer # NoPeer => PeerFindings(f, at) \in Seq(S)
  <2> HAVE f.peer # NoPeer
  <2>1. When(Regresses(f), "timestamp_regression", at) \in Seq(S)
    BY <1>2, WhenIn
  <2>2. When(BeforePeerUp(f), "route_monitoring_before_peer_up", at) \in Seq(S)
    BY <1>2, WhenIn
  <2>3. When(f.type = "PeerUp" /\ f.peer \in active, "duplicate_peer_up", at)
          \in Seq(S)
    BY <1>2, WhenIn
  <2>4. When(f.type = "PeerDown" /\ ~f.body, "truncated_peer_down_reason", at)
          \in Seq(S)
    BY <1>2, WhenIn
  <2>5. When(f.type = "PeerDown" /\ f.peer \notin active,
             "peer_down_without_peer_up", at) \in Seq(S)
    BY <1>2, WhenIn
  <2> QED BY <2>1, <2>2, <2>3, <2>4, <2>5, ConcatProperties DEF PeerFindings
<1>5. (IF f.peer = NoPeer THEN <<>> ELSE PeerFindings(f, at)) \in Seq(S)
  BY <1>4, EmptySeq
<1>6. FrameFindings(f, at) \in Seq(S)
  BY <1>3, <1>5, ConcatProperties DEF FrameFindings
<1> QED BY <1>6 DEF S

(* What pushing findings does to the kept ones and to the counter.         *)
LEMMA PushFindingsKeeps ==
  ASSUME NEW S, findings \in Seq(S), NEW fs \in Seq(S),
         maxFindings \in Nat, findingsDropped \in Nat,
         Len(findings) <= maxFindings, PushFindings(fs)
  PROVE  /\ findings' \in Seq(S)
         /\ Len(findings') <= maxFindings
         /\ findingsDropped' \in Nat
         /\ Len(findings') + findingsDropped'
              = Len(findings) + findingsDropped + Len(fs)
         /\ findingsDropped' > findingsDropped => Len(findings') = maxFindings
         /\ Len(findings) <= Len(findings')
         /\ \A k \in 1..Len(findings) : findings'[k] = findings[k]
         /\ \A k \in (Len(findings)+1)..Len(findings') :
              findings'[k] = fs[k - Len(findings)]
<1> DEFINE all == findings \o fs
<1>1. /\ all \in Seq(S) /\ Len(all) = Len(findings) + Len(fs)
      /\ \A k \in 1..Len(findings) : all[k] = findings[k]
      /\ \A k \in (Len(findings)+1)..Len(all) : all[k] = fs[k - Len(findings)]
  BY ConcatProperties
<1>2. Len(findings) \in Nat /\ Len(fs) \in Nat
  BY LenProperties
<1>3. CASE Len(all) <= maxFindings
  <2>1. findings' = all /\ findingsDropped' = findingsDropped + (Len(all) - Len(all))
    BY <1>3 DEF PushFindings
  <2> QED BY <2>1, <1>1, <1>2, <1>3
<1>4. CASE ~(Len(all) <= maxFindings)
  <2>1. /\ findings' = SubSeq(all, 1, maxFindings)
        /\ findingsDropped' = findingsDropped + (Len(all) - Len(findings'))
    BY <1>4 DEF PushFindings
  <2>2. /\ findings' \in Seq(S) /\ Len(findings') = maxFindings
        /\ \A k \in 1..maxFindings : findings'[k] = all[k]
    <3> HIDE DEF all
    <3>1. maxFindings \in 1 .. Len(all) + 1 \/ maxFindings = 0
      BY <1>1, <1>2, <1>4
    <3> QED BY <2>1, <3>1, <1>1, <1>2, <1>4, SubSeqProperties
  <2> HIDE DEF all
  <2>3. /\ findingsDropped' \in Nat
        /\ Len(findings') + findingsDropped'
             = Len(findings) + findingsDropped + Len(fs)
    BY <2>1, <2>2, <1>1, <1>2, <1>4
  <2>4. \A k \in 1..Len(findings) : findings'[k] = findings[k]
    BY <2>2, <1>1, <1>2
  <2>5. \A k \in (Len(findings)+1)..Len(findings') :
          findings'[k] = fs[k - Len(findings)]
    BY <2>2, <1>1, <1>2, <1>4
  <2> QED BY <2>2, <2>3, <2>4, <2>5
<1> QED BY <1>3, <1>4

-----------------------------------------------------------------------------
(* Type correctness.  That the cap is respected is needed to see that the  *)
(* number of dropped findings is a natural number.                         *)
TypeInv == TypeOK /\ CapRespected

LEMMA MaxExitCodeType ==
  ASSUME NEW fs \in Seq(Finding)
  PROVE  /\ MaxExitCode(fs) \in 0..2
         /\ \A i \in DOMAIN fs : ExitCode(fs[i].rule) <= MaxExitCode(fs)
<1> DEFINE codes == {0} \cup {ExitCode(fs[i].rule) : i \in DOMAIN fs}
<1>1. codes \subseteq 0..2 /\ 0 \in codes
  BY DEF ExitCode
<1>2. \A i \in DOMAIN fs : ExitCode(fs[i].rule) \in codes
  OBVIOUS
<1>3. MaxExitCode(fs) = CHOOSE c \in codes : \A d \in codes : d <= c
  BY DEF MaxExitCode
<1> HIDE DEF codes
<1>4. \E c \in codes : \A d \in codes : d <= c
  BY <1>1
<1> QED BY <1>1, <1>2, <1>3, <1>4

LEMMA ItemTypes ==
  /\ \A f \in Capture : f \in Frames /\ (f.peer # NoPeer => f.peer \in Peers)
  /\ Malformed.type = "Malformed" /\ Malformed.peer = NoPeer /\ Malformed.version
BY CaptureAssumption DEF Frames, Malformed

(* The findings pushed with a frame or with a framing error.               *)
LEMMA PushType ==
  ASSUME TypeInv, NEW fs \in Seq(Finding), PushFindings(fs),
         UNCHANGED maxFindings
  PROVE  /\ findings' \in Seq(Finding) /\ findingsDropped' \in Nat
         /\ CapRespected'
<1>1. /\ findings \in Seq(Finding) /\ maxFindings \in Nat
      /\ findingsDropped \in Nat /\ Len(findings) <= maxFindings
      /\ findingsDropped > 0 => Len(findings) = maxFindings
  BY DEF TypeInv, TypeOK, CapRespected
<1>2. /\ findings' \in Seq(Finding) /\ findingsDropped' \in Nat
      /\ Len(findings') <= maxFindings
      /\ findingsDropped' > findingsDropped => Len(findings') = maxFindings
      /\ Len(findings) <= Len(findings')
  BY <1>1, PushFindingsKeeps
<1>3. findingsDropped' > 0 => Len(findings') = maxFindings
  BY <1>1, <1>2, LenProperties
<1> QED BY <1>2, <1>3 DEF CapRespected

LEMMA EventType ==
  ASSUME TypeInv, NEW fs \in Seq(Finding),
         NEW status \in {"ok", "error", "malformed"}, PushEvent(status, fs)
  PROVE  /\ events' \in Seq([status: {"ok", "error", "malformed"},
                             rules: SUBSET Rules])
         /\ eventsDropped' \in Nat
<1> DEFINE Event == [status: {"ok", "error", "malformed"}, rules: SUBSET Rules]
           event == [status |-> status, rules |-> EventRules(fs)]
<1>1. \A i \in DOMAIN fs : fs[i].rule \in Rules
  <2>1. \A i \in DOMAIN fs : fs[i] \in Finding
    BY ElementOfSeq, LenProperties
  <2> QED BY <2>1 DEF Finding
<1>2. event \in Event
  BY <1>1 DEF EventRules
<1>3. events \in Seq(Event) /\ eventsDropped \in Nat
  BY DEF TypeInv, TypeOK
<1>4. /\ events' = events \/ events' = Append(events, event)
      /\ eventsDropped' = eventsDropped \/ eventsDropped' = eventsDropped + 1
  BY DEF PushEvent, jsonl
<1>5. eventsDropped' \in Nat
  BY <1>3, <1>4
<1>6. Append(events, event) \in Seq(Event)
  <2> HIDE DEF Event, event
  <2> QED BY <1>2, <1>3
<1> QED BY <1>3, <1>4, <1>5, <1>6

LEMMA InitType == Init => TypeInv
<1> SUFFICES ASSUME Init PROVE TypeInv
  OBVIOUS
<1>1. maxFindings \in Nat \ {0}
  BY ArgsAssumption DEF Init, AtLeastOne
<1>2. findings \in Seq(Finding) /\ Len(findings) = 0
  BY DEF Init
<1> QED BY <1>1, <1>2 DEF Init, TypeInv, TypeOK, CapRespected, PeerTs

LEMMA ProcessFrameType ==
  ASSUME TypeInv, NEW f \in Capture, ProcessFrame(f)
  PROVE  TypeInv'
<1> DEFINE at == Len(log) + 1
           fs == FrameFindings(f, at)
<1>1. f \in Frames /\ (f.peer # NoPeer => f.peer \in Peers)
  BY ItemTypes
<1>2. at \in Nat
  BY LenProperties DEF TypeInv, TypeOK
<1>3. fs \in Seq(Finding)
  <2>1. fs \in Seq(Raised(f, at))
    BY <1>1, <1>2, FrameFindingsRaised
  <2>2. Raised(f, at) \subseteq Finding
    BY DEF Raised
  <2> QED BY <2>1, <2>2, SeqMonotonic
<1>4. /\ log' = Append(log, f) /\ total' = total + 1
      /\ byType' = [byType EXCEPT ![f.type] = @ + 1]
      /\ CollectInfo(f, at) /\ PushFindings(fs)
      /\ IF f.peer = NoPeer THEN UNCHANGED peers ELSE UpdatePeer(f)
      /\ UNCHANGED <<phase, command, maxFindings, malformed, exit>>
      /\ \E status \in {"ok", "error"} : PushEvent(status, fs)
  BY DEF ProcessFrame
<1>5. elemCount' \in Nat
  BY <1>1 DEF ProcessFrame, TypeInv, TypeOK, Frames
<1>6. /\ upSeen' \subseteq Peers /\ active' \subseteq Peers
      /\ lastTs' \in [Peers -> PeerTs] /\ firstTs' \in [Peers -> PeerTs]
      /\ reason' \in [Peers -> {"none", "zero", "code"}]
      /\ count' \in [Peers -> [Counters -> Nat]]
  <2>1. CASE f.peer = NoPeer
    BY <2>1, <1>4 DEF peers, TypeInv, TypeOK
  <2>2. CASE f.peer # NoPeer
    <3>1. UpdatePeer(f) /\ f.peer \in Peers /\ f.ts \in Nat
      BY <2>2, <1>4, <1>1 DEF Frames
    <3>2. upSeen' \subseteq Peers /\ active' \subseteq Peers
      BY <3>1 DEF UpdatePeer, ActiveAfter, TypeInv, TypeOK
    <3>3. lastTs' \in [Peers -> PeerTs] /\ firstTs' \in [Peers -> PeerTs]
      BY <3>1 DEF UpdatePeer, TypeInv, TypeOK, PeerTs
    <3>4. reason' \in [Peers -> {"none", "zero", "code"}]
      BY <3>1 DEF UpdatePeer, TypeInv, TypeOK
    <3>5. count' \in [Peers -> [Counters -> Nat]]
      BY <3>1 DEF UpdatePeer, TypeInv, TypeOK
    <3> QED BY <3>2, <3>3, <3>4, <3>5
  <2> QED BY <2>1, <2>2
<1>7. initInfo' \in Nat /\ termInfo' \in Nat /\ statsInfo' \in Nat
  BY <1>2, <1>4 DEF CollectInfo, KeepFirst, TypeInv, TypeOK
<1>8. findings' \in Seq(Finding) /\ findingsDropped' \in Nat /\ CapRespected'
  BY <1>3, <1>4, PushType
<1>9. /\ events' \in Seq([status: {"ok", "error", "malformed"},
                          rules: SUBSET Rules])
      /\ eventsDropped' \in Nat
  BY <1>3, <1>4, EventType
<1>10. log' \in Seq(Capture \cup {Malformed}) /\ total' \in Nat
  BY <1>4 DEF TypeInv, TypeOK
<1>11. byType' \in [RawTypes -> Nat]
  BY <1>1, <1>4 DEF TypeInv, TypeOK, Frames
<1>12. /\ phase' = phase /\ command' = command /\ maxFindings' = maxFindings
       /\ malformed' = malformed /\ exit' = exit
  BY <1>4
<1> QED BY <1>5, <1>6, <1>7, <1>8, <1>9, <1>10, <1>11, <1>12
        DEF TypeInv, TypeOK

LEMMA ProcessMalformedType ==
  ASSUME TypeInv, ProcessMalformed
  PROVE  TypeInv'
<1> DEFINE fs == When(TRUE, "truncated_frame", Len(log) + 1)
<1>1. fs \in Seq(Finding)
  <2>1. [rule |-> "truncated_frame", at |-> Len(log) + 1] \in Finding
    BY LenProperties DEF TypeInv, TypeOK, Finding, Rules
  <2> QED BY <2>1, WhenIn
<1>2. /\ log' = Append(log, Malformed) /\ malformed' = malformed + 1
      /\ PushFindings(fs) /\ PushEvent("malformed", fs)
      /\ UNCHANGED <<phase, command, maxFindings, total, byType, elemCount,
                     peers, infos, exit>>
  BY DEF ProcessMalformed
<1>3. findings' \in Seq(Finding) /\ findingsDropped' \in Nat /\ CapRespected'
  BY <1>1, <1>2, PushType
<1>4. /\ events' \in Seq([status: {"ok", "error", "malformed"},
                          rules: SUBSET Rules])
      /\ eventsDropped' \in Nat
  BY <1>1, <1>2, EventType
<1>5. log' \in Seq(Capture \cup {Malformed}) /\ malformed' \in Nat
  BY <1>2 DEF TypeInv, TypeOK
<1> QED BY <1>2, <1>3, <1>4, <1>5 DEF TypeInv, TypeOK, peers, infos

LEMMA NextType == TypeInv /\ [Next]_vars => TypeInv'
<1> SUFFICES ASSUME TypeInv, [Next]_vars PROVE TypeInv'
  OBVIOUS
<1>1. CASE OpenFails
  BY <1>1 DEF OpenFails, TypeInv, TypeOK, CapRespected, state, peers, infos,
              found, jsonl
<1>2. CASE Open
  BY <1>2 DEF Open, TypeInv, TypeOK, CapRespected, state, peers, infos,
              found, jsonl
<1>3. CASE \E f \in Capture : ProcessFrame(f)
  BY <1>3, ProcessFrameType
<1>4. CASE ProcessMalformed
  BY <1>4, ProcessMalformedType
<1>5. CASE Finish
  <2>1. exit' \in 0..2
    BY <1>5, MaxExitCodeType DEF Finish, TypeInv, TypeOK
  <2> QED BY <1>5, <2>1 DEF Finish, TypeInv, TypeOK, CapRespected, state,
                            peers, infos, found, jsonl
<1>6. CASE IoError
  BY <1>6 DEF IoError, TypeInv, TypeOK, CapRespected, state, peers, infos,
              found, jsonl
<1>7. CASE UNCHANGED vars
  BY <1>7 DEF vars, TypeInv, TypeOK, CapRespected, state, peers, infos,
              found, jsonl
<1> QED BY <1>1, <1>2, <1>3, <1>4, <1>5, <1>6, <1>7 DEF Next

(* Every variable has its type in every reachable state, and no sequence   *)
(* of frames makes the kept findings exceed the cap (doctor.rs:121-128).   *)
THEOREM TypeCorrect == Spec => [](TypeOK /\ CapRespected)
<1>1. Init => TypeInv
  BY InitType
<1>2. TypeInv /\ [Next]_vars => TypeInv'
  BY NextType
<1>3. TypeInv => TypeOK /\ CapRespected
  BY DEF TypeInv
<1> QED BY <1>1, <1>2, <1>3, PTL DEF Spec

-----------------------------------------------------------------------------
(* What one more item does to the history.                                 *)
LEMMA LogStep ==
  ASSUME NEW S, log \in Seq(S), NEW g \in S, log' = Append(log, g)
  PROVE  /\ Len(log) \in Nat /\ Len(log') = Len(log) + 1
         /\ log'[Len(log) + 1] = g
         /\ \A j \in 1..Len(log) : log'[j] = log[j]
BY LenProperties

LEMMA PastUnchanged ==
  ASSUME NEW S, log \in Seq(S), NEW g \in S, log' = Append(log, g),
         NEW p, NEW n \in 0..Len(log)
  PROVE  /\ OpenAfter(p, n)' <=> OpenAfter(p, n)
         /\ UpAmong(p, n)' <=> UpAmong(p, n)
<1>1. /\ Len(log) \in Nat
      /\ \A j \in 1..Len(log) : log'[j] = log[j]
  BY LogStep
<1>2. \A j \in 1..n : j \in 1..Len(log)
  BY <1>1
<1>3. UpAmong(p, n)' <=> UpAmong(p, n)
  BY <1>1, <1>2 DEF UpAmong, Of
<1>4. \A j \in 1..n : \A k \in (j+1)..n : k \in 1..Len(log)
  BY <1>1
<1>5. OpenAfter(p, n)' <=> OpenAfter(p, n)
  BY <1>1, <1>2, <1>4 DEF OpenAfter, Of
<1> QED BY <1>3, <1>5

LEMMA SessionStep ==
  ASSUME NEW S, log \in Seq(S), NEW g \in S, log' = Append(log, g), NEW p
  PROVE  /\ UpAmong(p, Len(log))' <=>
              UpAmong(p, Len(log)) \/ (g.type = "PeerUp" /\ g.peer = p)
         /\ OpenAfter(p, Len(log))' <=>
              \/ g.type = "PeerUp" /\ g.peer = p
              \/ OpenAfter(p, Len(log)) /\ ~(g.type = "PeerDown" /\ g.peer = p)
<1> DEFINE UpThen   == UpAmong(p, Len(log))'
           OpenThen == OpenAfter(p, Len(log))'
<1>0. PICK n \in Nat : n = Len(log)
  BY LogStep
<1>1. /\ n \in Nat /\ Len(log') = n + 1 /\ log'[n + 1] = g
      /\ \A j \in 1..n : log'[j] = log[j]
  BY <1>0, LogStep
<1>2. UpThen <=> \E j \in 1..(n+1) : Of(p, "PeerUp", j)'
  BY <1>1 DEF UpAmong
<1>3. OpenThen <=>
        \E j \in 1..(n+1) : /\ Of(p, "PeerUp", j)'
                            /\ \A k \in (j+1)..(n+1) : ~Of(p, "PeerDown", k)'
  BY <1>1 DEF OpenAfter
<1>4. /\ \A type : \A j \in 1..n : Of(p, type, j)' <=> Of(p, type, j)
      /\ \A type : Of(p, type, n + 1)' <=> g.type = type /\ g.peer = p
  BY <1>1 DEF Of
<1> HIDE DEF UpThen, OpenThen
<1>5. UpThen <=> UpAmong(p, n) \/ (g.type = "PeerUp" /\ g.peer = p)
  BY <1>1, <1>2, <1>4 DEF UpAmong
<1>6. ASSUME g.type = "PeerUp", g.peer = p PROVE OpenThen
  <2>1. Of(p, "PeerUp", n + 1)'
    BY <1>4, <1>6
  <2>2. \A k \in (n+1+1)..(n+1) : FALSE
    BY <1>1
  <2> QED BY <1>1, <1>3, <2>1, <2>2
<1>7. ASSUME OpenAfter(p, n), ~(g.type = "PeerDown" /\ g.peer = p)
      PROVE  OpenThen
  <2>1. PICK j \in 1..n : /\ Of(p, "PeerUp", j)
                          /\ \A k \in (j+1)..n : ~Of(p, "PeerDown", k)
    BY <1>7 DEF OpenAfter
  <2>2. \A k \in (j+1)..(n+1) : ~Of(p, "PeerDown", k)'
    <3> TAKE k \in (j+1)..(n+1)
    <3>1. CASE k = n + 1
      BY <3>1, <1>4, <1>7
    <3>2. CASE k # n + 1
      <4>1. k \in 1..n /\ k \in (j+1)..n
        BY <3>2, <1>1
      <4> QED BY <4>1, <2>1, <1>4
    <3> QED BY <3>1, <3>2
  <2>3. j \in 1..(n+1) /\ Of(p, "PeerUp", j)'
    BY <1>1, <1>4, <2>1
  <2> QED BY <1>3, <2>2, <2>3
<1>8. ASSUME OpenThen, ~(g.type = "PeerUp" /\ g.peer = p)
      PROVE  OpenAfter(p, n) /\ ~(g.type = "PeerDown" /\ g.peer = p)
  <2>1. PICK j \in 1..(n+1) : /\ Of(p, "PeerUp", j)'
                              /\ \A k \in (j+1)..(n+1) : ~Of(p, "PeerDown", k)'
    BY <1>3, <1>8
  <2>2. j # n + 1
    BY <2>1, <1>4, <1>8
  <2>3. j \in 1..n /\ n + 1 \in (j+1)..(n+1)
    BY <2>2, <1>1
  <2>4. \A k \in (j+1)..n : k \in 1..n /\ k \in (j+1)..(n+1)
    BY <1>1
  <2>5. OpenAfter(p, n)
    BY <2>1, <2>3, <2>4, <1>4 DEF OpenAfter
  <2> QED BY <2>1, <2>3, <2>5, <1>4
<1>9. OpenThen <=>
        \/ g.type = "PeerUp" /\ g.peer = p
        \/ OpenAfter(p, n) /\ ~(g.type = "PeerDown" /\ g.peer = p)
  BY <1>6, <1>7, <1>8
<1> QED BY <1>0, <1>5, <1>9 DEF UpThen, OpenThen

(* The timestamp a peer's next frame is compared with: its last frame's.   *)
LatestTs(p) ==
  \/ lastTs[p] = NoTs /\ \A i \in Positions : log[i].peer # p
  \/ \E i \in Positions : /\ log[i].peer = p /\ lastTs[p] = log[i].ts
                          /\ \A k \in (i+1)..Len(log) : log[k].peer # p

LEMMA LatestStep ==
  ASSUME NEW S, log \in Seq(S), NEW g \in S, log' = Append(log, g), NEW p,
         LatestTs(p),
         lastTs'[p] = IF g.peer = p THEN g.ts ELSE lastTs[p]
  PROVE  LatestTs(p)'
<1>0. PICK n \in Nat : n = Len(log)
  BY LogStep
<1>1. /\ Len(log') = n + 1 /\ log'[n + 1] = g
      /\ \A j \in 1..n : log'[j] = log[j]
  BY <1>0, LogStep
<1>2. CASE g.peer = p
  <2>1. log'[n + 1].peer = p /\ lastTs'[p] = log'[n + 1].ts
    BY <1>1, <1>2
  <2>2. \A k \in (n+1+1)..(n+1) : FALSE
    BY <1>1
  <2> QED BY <1>1, <2>1, <2>2 DEF LatestTs, Positions
<1>3. CASE g.peer # p /\ \A i \in 1..n : log[i].peer # p
  <2>1. lastTs[p] = NoTs
    BY <1>0, <1>3 DEF LatestTs, Positions
  <2>2. \A i \in 1..(n+1) : log'[i].peer # p
    BY <1>1, <1>3
  <2> QED BY <1>1, <1>3, <2>1, <2>2 DEF LatestTs, Positions
<1>4. CASE g.peer # p /\ \E i \in 1..n : log[i].peer = p
  <2>1. PICK i \in 1..n : /\ log[i].peer = p /\ lastTs[p] = log[i].ts
                          /\ \A k \in (i+1)..n : log[k].peer # p
    BY <1>0, <1>4 DEF LatestTs, Positions
  <2>2. i \in 1..(n+1) /\ log'[i].peer = p /\ lastTs'[p] = log'[i].ts
    BY <1>1, <1>4, <2>1
  <2>3. \A k \in (i+1)..(n+1) : log'[k].peer # p
    <3> TAKE k \in (i+1)..(n+1)
    <3>1. CASE k = n + 1
      BY <3>1, <1>1, <1>4
    <3>2. CASE k # n + 1
      <4>1. k \in 1..n /\ k \in (i+1)..n
        BY <3>2
      <4> QED BY <4>1, <2>1, <1>1
    <3> QED BY <3>1, <3>2
  <2> QED BY <1>1, <2>2, <2>3 DEF LatestTs, Positions
<1> QED BY <1>2, <1>3, <1>4

LEMMA OpenWasUp ==
  ASSUME NEW p, NEW n, OpenAfter(p, n)
  PROVE  UpAmong(p, n)
BY DEF OpenAfter, UpAmong

LEMMA LifecycleParts ==
  PeerLifecycle <=> \A p \in Peers : /\ p \in active <=> OpenAfter(p, Len(log))
                                     /\ p \in upSeen <=> UpAmong(p, Len(log))
                                     /\ LatestTs(p)
BY DEF PeerLifecycle, LatestTs

(* The state of every peer follows an item as its history does.            *)
LEMMA LifecycleStep ==
  ASSUME TypeOK, PeerLifecycle, NEW g \in Capture \cup {Malformed},
         log' = Append(log, g),
         IF g.peer = NoPeer THEN UNCHANGED peers ELSE UpdatePeer(g)
  PROVE  PeerLifecycle'
<1>1. log \in Seq(Capture \cup {Malformed})
  BY DEF TypeOK
<1>2. SUFFICES ASSUME NEW p \in Peers
               PROVE  /\ p \in active' <=> OpenAfter(p, Len(log))'
                      /\ p \in upSeen' <=> UpAmong(p, Len(log))'
                      /\ LatestTs(p)'
  BY DEF PeerLifecycle, LatestTs
<1>3. /\ p \in active <=> OpenAfter(p, Len(log))
      /\ p \in upSeen <=> UpAmong(p, Len(log))
      /\ LatestTs(p)
  BY LifecycleParts
<1>4. /\ UpAmong(p, Len(log))' <=>
           UpAmong(p, Len(log)) \/ (g.type = "PeerUp" /\ g.peer = p)
      /\ OpenAfter(p, Len(log))' <=>
           \/ g.type = "PeerUp" /\ g.peer = p
           \/ OpenAfter(p, Len(log)) /\ ~(g.type = "PeerDown" /\ g.peer = p)
  BY <1>1, SessionStep
<1>5. p \in active => p \in upSeen
  BY <1>3, OpenWasUp
<1>6. CASE g.peer = NoPeer
  <2>1. active' = active /\ upSeen' = upSeen /\ lastTs' = lastTs /\ g.peer # p
    BY <1>6, NoPeerAssumption DEF peers
  <2>2. LatestTs(p)'
    BY <1>1, <1>3, <2>1, LatestStep
  <2> QED BY <1>3, <1>4, <2>1, <2>2
<1>7. CASE g.peer # NoPeer
  <2>1. /\ upSeen' = IF g.type = "PeerUp" /\ g.peer \notin active
                     THEN upSeen \cup {g.peer} ELSE upSeen
        /\ active' = ActiveAfter(g)
        /\ lastTs' = [lastTs EXCEPT ![g.peer] = g.ts]
    BY <1>7 DEF UpdatePeer
  <2>2. p \in active' <=> \/ g.type = "PeerUp" /\ g.peer = p
                          \/ p \in active /\ ~(g.type = "PeerDown" /\ g.peer = p)
    BY <2>1 DEF ActiveAfter
  <2>3. p \in upSeen' <=> p \in upSeen \/ (g.type = "PeerUp" /\ g.peer = p)
    BY <2>1, <1>5
  <2>4. lastTs'[p] = IF g.peer = p THEN g.ts ELSE lastTs[p]
    BY <2>1 DEF TypeOK
  <2>5. LatestTs(p)'
    BY <1>1, <1>3, <2>4, LatestStep
  <2> QED BY <1>3, <1>4, <2>2, <2>3, <2>5
<1> QED BY <1>6, <1>7

LEMMA NextLifecycle ==
  TypeOK /\ PeerLifecycle /\ [Next]_vars => PeerLifecycle'
<1> SUFFICES ASSUME TypeOK, PeerLifecycle, [Next]_vars PROVE PeerLifecycle'
  OBVIOUS
<1>1. ASSUME NEW f \in Capture, ProcessFrame(f) PROVE PeerLifecycle'
  BY <1>1, LifecycleStep DEF ProcessFrame
<1>2. CASE ProcessMalformed
  <2>1. log' = Append(log, Malformed) /\ UNCHANGED peers
    BY <1>2 DEF ProcessMalformed
  <2> QED BY <2>1, ItemTypes, LifecycleStep
<1>3. ASSUME UNCHANGED <<log, peers>> PROVE PeerLifecycle'
  BY <1>3 DEF PeerLifecycle, OpenAfter, UpAmong, Of, Positions, peers
<1>4. CASE OpenFails \/ Open \/ Finish \/ IoError \/ UNCHANGED vars
  BY <1>3, <1>4 DEF OpenFails, Open, Finish, IoError, vars, peers
<1> QED BY <1>1, <1>2, <1>4 DEF Next

LEMMA InitLifecycle == Init => PeerLifecycle
<1> SUFFICES ASSUME Init PROVE PeerLifecycle
  OBVIOUS
<1>1. /\ log = <<>> /\ Len(log) = 0 /\ active = {} /\ upSeen = {}
      /\ lastTs = [p \in Peers |-> NoTs]
  BY DEF Init
<1> QED BY <1>1 DEF PeerLifecycle, OpenAfter, UpAmong, Positions

(* A session is open, and a peer has been up, exactly when the history of  *)
(* its frames says so, and the timestamp kept for the regression rule is   *)
(* that of the peer's last frame: for any number of peers and sessions.    *)
THEOREM LifecycleCorrect == Spec => []PeerLifecycle
<1>1. TypeOK /\ PeerLifecycle /\ [Next]_vars => PeerLifecycle'
  BY NextLifecycle
<1>2. Spec => []TypeOK
  BY TypeCorrect, PTL
<1> QED BY <1>1, <1>2, InitLifecycle, PTL DEF Spec

-----------------------------------------------------------------------------
(* A later item does not change what an earlier one breaks.                *)
LEMMA PastBreaks ==
  ASSUME NEW S, log \in Seq(S), NEW g \in S, log' = Append(log, g),
         NEW rule, NEW i \in 1..Len(log)
  PROVE  Breaks(rule, i)' <=> Breaks(rule, i)
<1>1. /\ Len(log) \in Nat
      /\ \A j \in 1..Len(log) : log'[j] = log[j]
  BY LogStep
<1>2. log'[i] = log[i] /\ i - 1 \in 0..Len(log)
  BY <1>1
<1>3. Older(i)' <=> Older(i)
  <2>1. \A j \in 1..(i-1) : log'[j] = log[j]
    BY <1>1
  <2>2. \A j \in 1..(i-1) : \A k \in (j+1)..(i-1) : log'[k] = log[k]
    BY <1>1
  <2> QED BY <2>1, <2>2, <1>2 DEF Older
<1>4. /\ OpenAfter(log[i].peer, i - 1)' <=> OpenAfter(log[i].peer, i - 1)
      /\ UpAmong(log[i].peer, i - 1)' <=> UpAmong(log[i].peer, i - 1)
  <2>1. PICK p : p = log[i].peer
    OBVIOUS
  <2>2. p = log'[i].peer
    BY <2>1, <1>2
  <2>3. /\ OpenAfter(p, i - 1)' <=> OpenAfter(p, i - 1)
        /\ UpAmong(p, i - 1)' <=> UpAmong(p, i - 1)
    BY <1>2, PastUnchanged
  <2> QED BY <2>1, <2>2, <2>3, Zenon
<1> QED BY <1>2, <1>3, <1>4, Zenon DEF Breaks

(* What a frame raises against the state of its peer, it breaks against    *)
(* the history.                                                            *)
LEMMA RaisedBreaks ==
  ASSUME TypeOK, PeerLifecycle, NEW f \in Capture, log' = Append(log, f),
         NEW x \in Raised(f, Len(log) + 1)
  PROVE  Breaks(x.rule, Len(log))'
<1>0. log \in Seq(Capture \cup {Malformed})
  BY DEF TypeOK
<1>1. PICK n \in Nat : n = Len(log)
  BY <1>0, LogStep
<1>2. /\ Len(log') = n + 1 /\ log'[n + 1] = f
      /\ \A j \in 1..n : log'[j] = log[j]
  BY <1>0, <1>1, LogStep
<1>3. f.peer # NoPeer => f.peer \in Peers
  BY ItemTypes
<1>4. n = (n + 1) - 1 /\ n \in 0..Len(log)
  BY <1>1
<1>5. ASSUME f.peer # NoPeer
      PROVE  /\ f.peer \in active <=> OpenAfter(f.peer, n)'
             /\ f.peer \in upSeen <=> UpAmong(f.peer, n)'
             /\ Regresses(f) => Older(n + 1)'
  <2>1. /\ f.peer \in active <=> OpenAfter(f.peer, n)
        /\ f.peer \in upSeen <=> UpAmong(f.peer, n)
        /\ LatestTs(f.peer)
    BY <1>1, <1>3, <1>5, LifecycleParts
  <2>2. /\ OpenAfter(f.peer, n)' <=> OpenAfter(f.peer, n)
        /\ UpAmong(f.peer, n)' <=> UpAmong(f.peer, n)
    BY <1>0, <1>4, PastUnchanged
  <2>3. ASSUME Regresses(f) PROVE Older(n + 1)'
    <3>1. PICK j \in 1..n : /\ log[j].peer = f.peer /\ lastTs[f.peer] = log[j].ts
                            /\ \A k \in (j+1)..n : log[k].peer # f.peer
      BY <1>1, <2>1, <2>3 DEF LatestTs, Regresses, Positions
    <3>2. /\ log'[j].peer = log'[n + 1].peer /\ log'[n + 1].ts < log'[j].ts
          /\ j \in 1..((n+1)-1)
      BY <3>1, <1>2, <2>3 DEF Regresses
    <3>3. \A k \in (j+1)..((n+1)-1) : log'[k].peer # log'[n + 1].peer
      <4> TAKE k \in (j+1)..((n+1)-1)
      <4>1. k \in (j+1)..n /\ k \in 1..n
        OBVIOUS
      <4> QED BY <4>1, <3>1, <1>2
    <3> QED BY <3>2, <3>3 DEF Older
  <2> QED BY <2>1, <2>2, <2>3
<1>6. x.rule \in Rules
  BY DEF Raised, Finding
<1>7. Breaks(x.rule, n + 1)'
  <2>1. CASE x.rule = "invalid_bmp_version" /\ ~f.version
    BY <2>1, <1>2 DEF Breaks
  <2>2. CASE x.rule = "unknown_bmp_type" /\ f.type = "Unknown"
    BY <2>2, <1>2 DEF Breaks
  <2>3. CASE x.rule = "parse_error" /\ ParseAttempted(f) /\ ~f.body
    BY <2>3, <1>2 DEF Breaks, ParseAttempted
  <2>4. CASE f.peer # NoPeer /\ x.rule = "timestamp_regression" /\ Regresses(f)
    BY <2>4, <1>2, <1>5 DEF Breaks
  <2>5. CASE /\ f.peer # NoPeer /\ x.rule = "route_monitoring_before_peer_up"
             /\ BeforePeerUp(f)
    <3>1. ~UpAmong(f.peer, n)'
      BY <2>5, <1>5 DEF BeforePeerUp
    <3> QED BY <3>1, <2>5, <1>2, <1>4 DEF Breaks, BeforePeerUp
  <2>6. CASE /\ f.peer # NoPeer /\ x.rule = "duplicate_peer_up"
             /\ f.type = "PeerUp" /\ f.peer \in active
    <3>1. OpenAfter(f.peer, n)'
      BY <2>6, <1>5
    <3> QED BY <3>1, <2>6, <1>2, <1>4 DEF Breaks
  <2>7. CASE /\ f.peer # NoPeer /\ x.rule = "truncated_peer_down_reason"
             /\ f.type = "PeerDown" /\ ~f.body
    BY <2>7, <1>2 DEF Breaks
  <2>8. CASE /\ f.peer # NoPeer /\ x.rule = "peer_down_without_peer_up"
             /\ f.type = "PeerDown" /\ f.peer \notin active
    <3>1. ~OpenAfter(f.peer, n)'
      BY <2>8, <1>5
    <3> QED BY <3>1, <2>8, <1>2, <1>4 DEF Breaks
  <2> QED BY <2>1, <2>2, <2>3, <2>4, <2>5, <2>6, <2>7, <2>8 DEF Raised
<1> QED BY <1>2, <1>7

(* The findings of one more item are sound when each of them breaks its    *)
(* rule there, whether or not the cap drops some.                          *)
LEMMA SoundStep ==
  ASSUME TypeInv, FindingsSound, NEW g \in Capture \cup {Malformed},
         log' = Append(log, g), NEW fs \in Seq(Finding), PushFindings(fs),
         \A k \in DOMAIN fs : /\ fs[k].at = Len(log) + 1
                              /\ \A r : r = fs[k].rule => Breaks(r, Len(log))'
  PROVE  FindingsSound'
<1>0. log \in Seq(Capture \cup {Malformed})
  BY DEF TypeInv, TypeOK
<1>1. /\ findings' \in Seq(Finding) /\ Len(findings) <= Len(findings')
      /\ \A k \in 1..Len(findings) : findings'[k] = findings[k]
      /\ \A k \in (Len(findings)+1)..Len(findings') :
           findings'[k] = fs[k - Len(findings)]
      /\ Len(findings') + findingsDropped'
           = Len(findings) + findingsDropped + Len(fs)
  BY PushFindingsKeeps DEF TypeInv, TypeOK, CapRespected
<1>2. /\ Len(log) \in Nat /\ Len(log') = Len(log) + 1
  BY <1>0, LogStep
<1>3. Len(findings') <= Len(findings) + Len(fs)
  <2>1. Len(findings) \in Nat /\ Len(fs) \in Nat
    BY LenProperties DEF TypeInv, TypeOK
  <2>2. Len(findings \o fs) = Len(findings) + Len(fs)
    BY ConcatProperties DEF TypeInv, TypeOK
  <2>3. CASE Len(findings \o fs) <= maxFindings
    BY <2>2, <2>3, <2>1 DEF PushFindings
  <2>4. CASE ~(Len(findings \o fs) <= maxFindings)
    <3>1. Len(findings') <= maxFindings /\ maxFindings \in Nat
      BY PushFindingsKeeps DEF TypeInv, TypeOK, CapRespected
    <3>2. Len(findings') \in Nat
      BY <1>1, LenProperties
    <3> QED BY <3>1, <3>2, <2>1, <2>2, <2>4
  <2> QED BY <2>3, <2>4
<1>4. SUFFICES ASSUME NEW k \in 1..Len(findings'), NEW r, NEW i,
                      r = findings'[k].rule, i = findings'[k].at
               PROVE  i \in 1..Len(log') /\ Breaks(r, i)'
  BY <1>1, LenProperties DEF FindingsSound, Positions
<1>5. CASE k <= Len(findings)
  <2>1. k \in DOMAIN findings /\ findings'[k] = findings[k]
    <3>1. Len(findings) \in Nat /\ DOMAIN findings = 1..Len(findings)
      BY LenProperties DEF TypeInv, TypeOK
    <3> QED BY <3>1, <1>1, <1>5
  <2>2. i \in 1..Len(log) /\ Breaks(r, i)
    BY <1>4, <2>1 DEF FindingsSound, Positions
  <2>3. Breaks(r, i)'
    BY <1>0, <2>2, PastBreaks
  <2> QED BY <2>2, <2>3, <1>2
<1>6. CASE ~(k <= Len(findings))
  <2>1. Len(findings) \in Nat /\ Len(fs) \in Nat /\ Len(findings') \in Nat
    BY <1>1, LenProperties DEF TypeInv, TypeOK
  <2>2. k - Len(findings) \in DOMAIN fs /\ k \in (Len(findings)+1)..Len(findings')
    <3>1. k - Len(findings) \in 1..Len(fs)
      BY <1>3, <1>6, <2>1
    <3> QED BY <3>1, <2>1, <1>6, LenProperties
  <2>3. findings'[k] = fs[k - Len(findings)]
    BY <1>1, <2>2
  <2>4. i = Len(log) + 1 /\ Breaks(r, Len(log))'
    BY <1>4, <2>2, <2>3
  <2>5. i = Len(log')
    BY <2>4, <1>2
  <2> QED BY <2>4, <2>5, <1>2
<1> QED BY <1>5, <1>6

LEMMA NextSound ==
  TypeInv /\ PeerLifecycle /\ FindingsSound /\ [Next]_vars => FindingsSound'
<1> SUFFICES ASSUME TypeInv, PeerLifecycle, FindingsSound, [Next]_vars
             PROVE  FindingsSound'
  OBVIOUS
<1>0. TypeOK /\ log \in Seq(Capture \cup {Malformed}) /\ Len(log) \in Nat
  BY LenProperties DEF TypeInv, TypeOK
<1>1. ASSUME NEW f \in Capture, ProcessFrame(f) PROVE FindingsSound'
  <2> DEFINE fs == FrameFindings(f, Len(log) + 1)
  <2>1. log' = Append(log, f) /\ PushFindings(fs)
    BY <1>1 DEF ProcessFrame
  <2>2. fs \in Seq(Raised(f, Len(log) + 1))
    BY <1>0, ItemTypes, FrameFindingsRaised
  <2>3. fs \in Seq(Finding)
    BY <2>2, SeqMonotonic DEF Raised
  <2>4. \A k \in DOMAIN fs : fs[k] \in Raised(f, Len(log) + 1)
    BY <2>2, ElementOfSeq, LenProperties
  <2>5. \A k \in DOMAIN fs : /\ fs[k].at = Len(log) + 1
                             /\ \A r : r = fs[k].rule => Breaks(r, Len(log))'
    <3> SUFFICES ASSUME NEW k \in DOMAIN fs, NEW r, r = fs[k].rule
                 PROVE  fs[k].at = Len(log) + 1 /\ Breaks(r, Len(log))'
      OBVIOUS
    <3>1. PICK x \in Raised(f, Len(log) + 1) : x = fs[k]
      BY <2>4
    <3>2. Breaks(x.rule, Len(log))'
      BY <1>0, <2>1, RaisedBreaks
    <3> QED BY <3>1, <3>2 DEF Raised
  <2> HIDE DEF fs
  <2> QED BY <2>1, <2>3, <2>5, SoundStep
<1>2. CASE ProcessMalformed
  <2> DEFINE x  == [rule |-> "truncated_frame", at |-> Len(log) + 1]
             fs == When(TRUE, "truncated_frame", Len(log) + 1)
  <2>1. log' = Append(log, Malformed) /\ PushFindings(fs)
    BY <1>2 DEF ProcessMalformed
  <2>2. fs = <<x>> /\ x \in Finding
    BY <1>0 DEF When, Finding, Rules
  <2>3. \A r : r = "truncated_frame" => Breaks(r, Len(log))'
    <3>1. log'[Len(log')] = Malformed
      BY <1>0, <2>1, LogStep
    <3> QED BY <3>1, ItemTypes DEF Breaks
  <2> HIDE DEF fs
  <2>4. /\ fs \in Seq(Finding) /\ DOMAIN fs = {1}
        /\ fs[1].rule = "truncated_frame" /\ fs[1].at = Len(log) + 1
    <3>1. x.rule = "truncated_frame" /\ x.at = Len(log) + 1
      OBVIOUS
    <3> HIDE DEF x
    <3>2. <<x>> \in Seq(Finding) /\ DOMAIN <<x>> = {1} /\ <<x>>[1] = x
      BY <2>2
    <3> QED BY <2>2, <3>1, <3>2
  <2>5. \A k \in DOMAIN fs : /\ fs[k].at = Len(log) + 1
                             /\ \A r : r = fs[k].rule => Breaks(r, Len(log))'
    BY <2>3, <2>4
  <2> QED BY <2>1, <2>4, <2>5, SoundStep
<1>3. CASE OpenFails \/ Open \/ Finish \/ IoError \/ UNCHANGED vars
  <2>1. log' = log /\ findings' = findings
    BY <1>3 DEF OpenFails, Open, Finish, IoError, vars, found
  <2>2. SUFFICES ASSUME NEW k \in DOMAIN findings', NEW r, NEW i,
                        r = findings'[k].rule, i = findings'[k].at
                 PROVE  i \in Positions' /\ Breaks(r, i)'
    BY DEF FindingsSound
  <2>3. i \in Positions /\ Breaks(r, i)
    BY <2>1, <2>2 DEF FindingsSound
  <2>4. Breaks(r, i)'
    BY <2>1, <2>3 DEF Breaks, Older, OpenAfter, UpAmong, Of
  <2> QED BY <2>1, <2>3, <2>4 DEF Positions
<1> QED BY <1>1, <1>2, <1>3 DEF Next

(* No false finding: whatever the caps, the peers and the frames, the item *)
(* a reported finding points at breaks the finding's rule given the items  *)
(* before it (doctor.rs:184-336).                                          *)
THEOREM SoundFindings == Spec => []FindingsSound
<1>1. TypeInv /\ PeerLifecycle /\ FindingsSound /\ [Next]_vars => FindingsSound'
  BY NextSound
<1>2. Init => FindingsSound
  BY DEF Init, FindingsSound
<1>3. Spec => []TypeInv
  BY TypeCorrect, PTL DEF TypeInv
<1>4. Spec => []PeerLifecycle
  BY LifecycleCorrect
<1> QED BY <1>1, <1>2, <1>3, <1>4, PTL DEF Spec
-----------------------------------------------------------------------------
(* No finding is missed: the converse, which lint's exit code rests on.    *)
In(x, s) == \E k \in DOMAIN s : s[k] = x

LEMMA WhenHas ==
  ASSUME NEW cond, NEW rule, NEW at, cond
  PROVE  In([rule |-> rule, at |-> at], When(cond, rule, at))
<1> DEFINE x == [rule |-> rule, at |-> at]
<1>1. When(cond, rule, at) = <<x>>
  BY DEF When
<1> HIDE DEF x
<1>2. 1 \in DOMAIN <<x>> /\ <<x>>[1] = x
  OBVIOUS
<1> QED BY <1>1, <1>2 DEF In, x

LEMMA ConcatHas ==
  ASSUME NEW S, NEW s \in Seq(S), NEW t \in Seq(S), NEW x, In(x, s) \/ In(x, t)
  PROVE  In(x, s \o t)
<1>1. /\ Len(s) \in Nat /\ Len(t) \in Nat /\ s \o t \in Seq(S)
      /\ DOMAIN s = 1..Len(s) /\ DOMAIN t = 1..Len(t)
      /\ DOMAIN (s \o t) = 1..(Len(s) + Len(t))
  BY ConcatProperties, LenProperties
<1>2. CASE In(x, s)
  <2>1. PICK k \in 1..Len(s) : s[k] = x
    BY <1>1, <1>2 DEF In
  <2>2. k \in 1..(Len(s) + Len(t)) /\ (s \o t)[k] = x
    BY <1>1, <2>1, ConcatProperties
  <2> QED BY <1>1, <2>2 DEF In
<1>3. CASE In(x, t)
  <2>1. PICK k \in 1..Len(t) : t[k] = x
    BY <1>1, <1>3 DEF In
  <2>2. /\ k + Len(s) \in 1..(Len(s) + Len(t))
        /\ k + Len(s) \in (Len(s) + 1)..(Len(s) + Len(t))
        /\ (k + Len(s)) - Len(s) = k
    BY <1>1, <2>1
  <2>3. (s \o t)[k + Len(s)] = x
    BY <2>1, <2>2, ConcatProperties
  <2> QED BY <1>1, <2>2, <2>3 DEF In
<1> QED BY <1>2, <1>3

(* Every finding a frame raises is among those pushed for it.              *)
LEMMA FrameFindingsAll ==
  ASSUME NEW f \in Frames, NEW at \in Nat, NEW x \in Raised(f, at)
  PROVE  In(x, FrameFindings(f, at))
<1> DEFINE S == Raised(f, at)
           w1 == When(~f.version, "invalid_bmp_version", at)
           w2 == When(f.type = "Unknown", "unknown_bmp_type", at)
           w3 == When(ParseAttempted(f) /\ ~f.body, "parse_error", at)
           v1 == When(Regresses(f), "timestamp_regression", at)
           v2 == When(BeforePeerUp(f), "route_monitoring_before_peer_up", at)
           v3 == When(f.type = "PeerUp" /\ f.peer \in active, "duplicate_peer_up", at)
           v4 == When(f.type = "PeerDown" /\ ~f.body,
                      "truncated_peer_down_reason", at)
           v5 == When(f.type = "PeerDown" /\ f.peer \notin active,
                      "peer_down_without_peer_up", at)
           A  == Finding
           Is(rule) == [rule |-> rule, at |-> at]
<1>1. /\ w1 \in Seq(A) /\ w2 \in Seq(A) /\ w3 \in Seq(A)
      /\ v1 \in Seq(A) /\ v2 \in Seq(A) /\ v3 \in Seq(A) /\ v4 \in Seq(A)
      /\ v5 \in Seq(A)
  <2>1. /\ Is("invalid_bmp_version") \in A /\ Is("unknown_bmp_type") \in A
        /\ Is("parse_error") \in A /\ Is("timestamp_regression") \in A
        /\ Is("route_monitoring_before_peer_up") \in A
        /\ Is("duplicate_peer_up") \in A /\ Is("truncated_peer_down_reason") \in A
        /\ Is("peer_down_without_peer_up") \in A
    BY DEF Finding, Rules
  <2> HIDE DEF A
  <2>2. w1 \in Seq(A)
    BY <2>1, WhenIn
  <2>3. w2 \in Seq(A)
    BY <2>1, WhenIn
  <2>4. w3 \in Seq(A)
    BY <2>1, WhenIn
  <2>5. v1 \in Seq(A)
    BY <2>1, WhenIn
  <2>6. v2 \in Seq(A)
    BY <2>1, WhenIn
  <2>7. v3 \in Seq(A)
    BY <2>1, WhenIn
  <2>8. v4 \in Seq(A)
    BY <2>1, WhenIn
  <2>9. v5 \in Seq(A)
    BY <2>1, WhenIn
  <2> QED BY <2>2, <2>3, <2>4, <2>5, <2>6, <2>7, <2>8, <2>9
<1>2. x = [rule |-> x.rule, at |-> at]
  BY DEF Raised, Finding
<1>3. \/ x.rule = "invalid_bmp_version" /\ ~f.version
      \/ x.rule = "unknown_bmp_type"    /\ f.type = "Unknown"
      \/ x.rule = "parse_error"         /\ ParseAttempted(f) /\ ~f.body
      \/ /\ f.peer # NoPeer
         /\ \/ x.rule = "timestamp_regression" /\ Regresses(f)
            \/ x.rule = "route_monitoring_before_peer_up" /\ BeforePeerUp(f)
            \/ /\ x.rule = "duplicate_peer_up"
               /\ f.type = "PeerUp" /\ f.peer \in active
            \/ /\ x.rule = "truncated_peer_down_reason"
               /\ f.type = "PeerDown" /\ ~f.body
            \/ /\ x.rule = "peer_down_without_peer_up"
               /\ f.type = "PeerDown" /\ f.peer \notin active
  BY DEF Raised
<1>4. \/ In(x, w1) \/ In(x, w2) \/ In(x, w3)
      \/ /\ f.peer # NoPeer
         /\ In(x, v1) \/ In(x, v2) \/ In(x, v3) \/ In(x, v4) \/ In(x, v5)
  <2>1. ASSUME x.rule = "invalid_bmp_version", ~f.version PROVE In(x, w1)
    BY <1>2, <2>1, WhenHas
  <2>2. ASSUME x.rule = "unknown_bmp_type", f.type = "Unknown" PROVE In(x, w2)
    BY <1>2, <2>2, WhenHas
  <2>3. ASSUME x.rule = "parse_error", ParseAttempted(f) /\ ~f.body PROVE In(x, w3)
    BY <1>2, <2>3, WhenHas
  <2>4. ASSUME x.rule = "timestamp_regression", Regresses(f) PROVE In(x, v1)
    BY <1>2, <2>4, WhenHas
  <2>5. ASSUME x.rule = "route_monitoring_before_peer_up", BeforePeerUp(f) PROVE In(x, v2)
    BY <1>2, <2>5, WhenHas
  <2>6. ASSUME x.rule = "duplicate_peer_up", f.type = "PeerUp" /\ f.peer \in active PROVE In(x, v3)
    BY <1>2, <2>6, WhenHas
  <2>7. ASSUME x.rule = "truncated_peer_down_reason", f.type = "PeerDown" /\ ~f.body PROVE In(x, v4)
    BY <1>2, <2>7, WhenHas
  <2>8. ASSUME x.rule = "peer_down_without_peer_up", f.type = "PeerDown" /\ f.peer \notin active PROVE In(x, v5)
    BY <1>2, <2>8, WhenHas
  <2> HIDE DEF w1, w2, w3, v1, v2, v3, v4, v5
  <2> QED BY <1>3, <2>1, <2>2, <2>3, <2>4, <2>5, <2>6, <2>7, <2>8
<1> HIDE DEF A, w1, w2, w3, v1, v2, v3, v4, v5
<1>5. /\ (w1 \o w2) \in Seq(A) /\ (w1 \o w2) \o w3 \in Seq(A)
      /\ (v1 \o v2) \in Seq(A) /\ (v1 \o v2) \o v3 \in Seq(A)
      /\ ((v1 \o v2) \o v3) \o v4 \in Seq(A)
      /\ (((v1 \o v2) \o v3) \o v4) \o v5 \in Seq(A)
  BY <1>1, ConcatProperties
<1>6. In(x, w1) \/ In(x, w2) \/ In(x, w3) => In(x, (w1 \o w2) \o w3)
  BY <1>1, <1>5, ConcatHas
<1>7. In(x, v1) \/ In(x, v2) \/ In(x, v3) \/ In(x, v4) \/ In(x, v5)
        => In(x, (((v1 \o v2) \o v3) \o v4) \o v5)
  <2>1. In(x, v1) \/ In(x, v2) \/ In(x, v3) => In(x, (v1 \o v2) \o v3)
    BY <1>1, <1>5, ConcatHas
  <2>2. In(x, (v1 \o v2) \o v3) \/ In(x, v4) => In(x, ((v1 \o v2) \o v3) \o v4)
    BY <1>1, <1>5, ConcatHas
  <2>3. In(x, ((v1 \o v2) \o v3) \o v4) \/ In(x, v5)
          => In(x, (((v1 \o v2) \o v3) \o v4) \o v5)
    BY <1>1, <1>5, ConcatHas
  <2> QED BY <2>1, <2>2, <2>3
<1>8. FramingFindings(f, at) = (w1 \o w2) \o w3
  BY DEF FramingFindings, w1, w2, w3
<1>9. PeerFindings(f, at) = (((v1 \o v2) \o v3) \o v4) \o v5
  BY DEF PeerFindings, v1, v2, v3, v4, v5
<1>10. FrameFindings(f, at) = FramingFindings(f, at)
         \o (IF f.peer = NoPeer THEN <<>> ELSE PeerFindings(f, at))
  BY DEF FrameFindings
<1>11. (IF f.peer = NoPeer THEN <<>> ELSE PeerFindings(f, at)) \in Seq(A)
  BY <1>5, <1>9, EmptySeq
<1>12. \/ In(x, FramingFindings(f, at))
       \/ In(x, IF f.peer = NoPeer THEN <<>> ELSE PeerFindings(f, at))
  BY <1>4, <1>6, <1>7, <1>8, <1>9
<1> QED BY <1>5, <1>8, <1>10, <1>11, <1>12, ConcatHas
(* Against the history, a frame breaks no rule that it does not raise      *)
(* against the state of its peer.                                          *)
LEMMA BreaksRaised ==
  ASSUME TypeOK, PeerLifecycle, NEW f \in Capture, log' = Append(log, f),
         NEW rule \in Rules, Breaks(rule, Len(log))'
  PROVE  [rule |-> rule, at |-> Len(log) + 1] \in Raised(f, Len(log) + 1)
<1>0. log \in Seq(Capture \cup {Malformed})
  BY DEF TypeOK
<1>1. PICK n \in Nat : n = Len(log)
  BY <1>0, LogStep
<1>2. /\ Len(log') = n + 1 /\ log'[n + 1] = f
      /\ \A j \in 1..n : log'[j] = log[j]
  BY <1>0, <1>1, LogStep
<1>3. f.peer # NoPeer => f.peer \in Peers
  BY ItemTypes
<1>4. n = (n + 1) - 1 /\ n \in 0..Len(log)
  BY <1>1
<1>5. ASSUME f.peer # NoPeer
      PROVE  /\ f.peer \in active <=> OpenAfter(f.peer, n)'
             /\ f.peer \in upSeen <=> UpAmong(f.peer, n)'
             /\ Older(n + 1)' => Regresses(f)
  <2>1. /\ f.peer \in active <=> OpenAfter(f.peer, n)
        /\ f.peer \in upSeen <=> UpAmong(f.peer, n)
        /\ LatestTs(f.peer)
    BY <1>1, <1>3, <1>5, LifecycleParts
  <2>2. /\ OpenAfter(f.peer, n)' <=> OpenAfter(f.peer, n)
        /\ UpAmong(f.peer, n)' <=> UpAmong(f.peer, n)
    BY <1>0, <1>4, PastUnchanged
  <2>3. ASSUME Older(n + 1)' PROVE Regresses(f)
    <3>1. PICK j \in 1..n : /\ log'[j].peer = f.peer /\ f.ts < log'[j].ts
                            /\ \A k \in (j+1)..n : log'[k].peer # f.peer
      BY <1>2, <1>4, <2>3 DEF Older
    <3>2. /\ log[j].peer = f.peer /\ f.ts < log[j].ts
          /\ \A k \in (j+1)..n : log[k].peer # f.peer
      <4>1. \A k \in (j+1)..n : k \in 1..n
        OBVIOUS
      <4> QED BY <4>1, <3>1, <1>2
    <3>3. PICK i \in 1..n : /\ log[i].peer = f.peer /\ lastTs[f.peer] = log[i].ts
                            /\ \A k \in (i+1)..n : log[k].peer # f.peer
      BY <1>1, <2>1, <3>2 DEF LatestTs, Positions
    <3>4. i = j
      BY <3>2, <3>3
    <3>5. log[j].ts \in Nat
      <4>1. log[j] \in Capture \cup {Malformed}
        BY <1>0, <1>1, ElementOfSeq
      <4>2. log[j] \in Frames
        BY <4>1, <3>2, <1>5, ItemTypes
      <4> QED BY <4>2 DEF Frames
    <3> QED BY <3>2, <3>3, <3>4, <3>5, NoTsAssumption DEF Regresses
  <2> QED BY <2>1, <2>2, <2>3
<1>6. Breaks(rule, n + 1)' /\ f.type # "Malformed"
  <2>1. f.type # "Malformed"
    BY ItemTypes DEF Frames, RawTypes, MsgTypes, PeerTypes, RouteTypes
  <2>2. Breaks(rule, n + 1)'
    BY <1>2
  <2> QED BY <2>1, <2>2
<1> DEFINE x == [rule |-> rule, at |-> Len(log) + 1]
<1>7. x \in Finding /\ x.at = Len(log) + 1 /\ x.rule = rule
  BY <1>1 DEF Finding
<1>8. \/ rule = "invalid_bmp_version" /\ ~f.version
      \/ rule = "unknown_bmp_type" /\ f.type = "Unknown"
      \/ rule = "parse_error" /\ ParseAttempted(f) /\ ~f.body
      \/ /\ f.peer # NoPeer
         /\ \/ rule = "timestamp_regression" /\ Older(n + 1)'
            \/ /\ rule = "route_monitoring_before_peer_up"
               /\ f.type \in RouteTypes /\ ~UpAmong(f.peer, n)'
            \/ /\ rule = "duplicate_peer_up"
               /\ f.type = "PeerUp" /\ OpenAfter(f.peer, n)'
            \/ /\ rule = "peer_down_without_peer_up"
               /\ f.type = "PeerDown" /\ ~OpenAfter(f.peer, n)'
            \/ /\ rule = "truncated_peer_down_reason"
               /\ f.type = "PeerDown" /\ ~f.body
  BY <1>2, <1>4, <1>6 DEF Breaks, ParseAttempted
<1> HIDE DEF x
<1> QED BY <1>5, <1>7, <1>8 DEF Raised, BeforePeerUp, x

(* Every broken rule is told, unless some finding was dropped.             *)
NoneMissed ==
  findingsDropped = 0 =>
    \A rule \in Rules : \A i \in Positions :
      Breaks(rule, i) => In([rule |-> rule, at |-> i], findings)

LEMMA MissedStep ==
  ASSUME TypeInv, NoneMissed, NEW g \in Capture \cup {Malformed},
         log' = Append(log, g), NEW fs \in Seq(Finding), PushFindings(fs),
         \A rule \in Rules : Breaks(rule, Len(log))' =>
           In([rule |-> rule, at |-> Len(log) + 1], fs)
  PROVE  NoneMissed'
<1>0. log \in Seq(Capture \cup {Malformed}) /\ findings \in Seq(Finding)
  BY DEF TypeInv, TypeOK
<1>1. Len(log) \in Nat /\ Len(log') = Len(log) + 1
  BY <1>0, LogStep
<1>2. SUFFICES ASSUME findingsDropped' = 0, NEW rule \in Rules,
                      NEW i \in 1..Len(log'), Breaks(rule, i)'
               PROVE  In([rule |-> rule, at |-> i], findings')
  <2>1. \A x : In(x, findings)' <=> In(x, findings')
    BY DEF In
  <2> QED BY <2>1 DEF NoneMissed, Positions
<1>3. /\ findings' = findings \o fs /\ findingsDropped = 0
  <2>1. /\ Len(findings) \in Nat /\ Len(fs) \in Nat /\ maxFindings \in Nat
        /\ Len(findings \o fs) = Len(findings) + Len(fs)
        /\ findingsDropped \in Nat
    BY <1>0, ConcatProperties, LenProperties DEF TypeInv, TypeOK
  <2>2. /\ Len(findings') + findingsDropped'
             = Len(findings) + findingsDropped + Len(fs)
        /\ Len(findings') <= maxFindings /\ findings' \in Seq(Finding)
        /\ findingsDropped' > findingsDropped => Len(findings') = maxFindings
    BY <1>0, PushFindingsKeeps DEF TypeInv, TypeOK, CapRespected
  <2>3. Len(findings') \in Nat
    BY <2>2, LenProperties
  <2>4. CASE Len(findings \o fs) <= maxFindings
    BY <1>2, <2>1, <2>4 DEF PushFindings
  <2>5. CASE ~(Len(findings \o fs) <= maxFindings)
    <3>1. findingsDropped' = findingsDropped + (Len(findings \o fs) - Len(findings'))
      BY <2>5 DEF PushFindings
    <3> QED BY <1>2, <2>1, <2>2, <2>3, <2>5, <3>1
  <2> QED BY <2>4, <2>5
<1> DEFINE x == [rule |-> rule, at |-> i]
<1>4. In(x, findings) \/ In(x, fs)
  <2>1. CASE i = Len(log) + 1
    BY <1>1, <1>2, <2>1
  <2>2. CASE i # Len(log) + 1
    <3>1. i \in 1..Len(log)
      BY <1>1, <2>2
    <3>2. Breaks(rule, i)
      BY <1>0, <1>2, <3>1, PastBreaks
    <3> QED BY <1>3, <3>1, <3>2 DEF NoneMissed, Positions
  <2> QED BY <2>1, <2>2
<1> HIDE DEF x
<1> QED BY <1>0, <1>3, <1>4, ConcatHas DEF x

LEMMA NextMissed ==
  TypeInv /\ PeerLifecycle /\ NoneMissed /\ [Next]_vars => NoneMissed'
<1> SUFFICES ASSUME TypeInv, PeerLifecycle, NoneMissed, [Next]_vars
             PROVE  NoneMissed'
  OBVIOUS
<1>0. TypeOK /\ log \in Seq(Capture \cup {Malformed}) /\ Len(log) \in Nat
  BY LenProperties DEF TypeInv, TypeOK
<1>1. ASSUME NEW f \in Capture, ProcessFrame(f) PROVE NoneMissed'
  <2> DEFINE at == Len(log) + 1
             fs == FrameFindings(f, at)
  <2>1. log' = Append(log, f) /\ PushFindings(fs)
    BY <1>1 DEF ProcessFrame
  <2>2. f \in Frames /\ at \in Nat
    BY <1>0, ItemTypes
  <2>3. fs \in Seq(Finding)
    <3>1. fs \in Seq(Raised(f, at))
      BY <2>2, FrameFindingsRaised
    <3> QED BY <3>1, SeqMonotonic DEF Raised
  <2>4. ASSUME NEW rule \in Rules, Breaks(rule, Len(log))'
        PROVE  In([rule |-> rule, at |-> at], fs)
    <3>1. [rule |-> rule, at |-> at] \in Raised(f, at)
      BY <1>0, <2>1, <2>4, BreaksRaised
    <3> QED BY <2>2, <3>1, FrameFindingsAll
  <2> HIDE DEF fs
  <2> QED BY <2>1, <2>3, <2>4, MissedStep
<1>2. CASE ProcessMalformed
  <2> DEFINE at == Len(log) + 1
             fs == When(TRUE, "truncated_frame", at)
  <2>1. log' = Append(log, Malformed) /\ PushFindings(fs)
    BY <1>2 DEF ProcessMalformed
  <2>2. fs \in Seq(Finding)
    <3>1. [rule |-> "truncated_frame", at |-> at] \in Finding
      BY <1>0 DEF Finding, Rules
    <3> QED BY <3>1, WhenIn
  <2>3. ASSUME NEW rule \in Rules, Breaks(rule, Len(log))'
        PROVE  In([rule |-> rule, at |-> at], fs)
    <3>1. log'[Len(log')] = Malformed
      BY <1>0, <2>1, LogStep
    <3>2. rule = "truncated_frame"
      BY <2>3, <3>1 DEF Breaks, Malformed, RouteTypes
    <3>3. In([rule |-> "truncated_frame", at |-> at], fs)
      BY WhenHas
    <3> QED BY <3>2, <3>3
  <2> HIDE DEF fs
  <2> QED BY <2>1, <2>2, <2>3, MissedStep
<1>3. CASE OpenFails \/ Open \/ Finish \/ IoError \/ UNCHANGED vars
  <2>1. UNCHANGED <<log, findings, findingsDropped>>
    BY <1>3 DEF OpenFails, Open, Finish, IoError, vars, found
  <2>2. \A rule, i : Breaks(rule, i)' <=> Breaks(rule, i)
    BY <2>1 DEF Breaks, Older, OpenAfter, UpAmong, Of
  <2> QED BY <2>1, <2>2 DEF NoneMissed, Positions, In
<1> QED BY <1>1, <1>2, <1>3 DEF Next

-----------------------------------------------------------------------------
(* The exit code of lint is that of the findings it kept.                  *)
ExitOfKept ==
  phase = "done" /\ command = "lint" => exit = MaxExitCode(findings)

LEMMA NextExit == TypeInv /\ ExitOfKept /\ [Next]_vars => ExitOfKept'
<1> SUFFICES ASSUME TypeInv, ExitOfKept, [Next]_vars PROVE ExitOfKept'
  OBVIOUS
<1>1. CASE OpenFails \/ Open \/ IoError
  BY <1>1 DEF OpenFails, Open, IoError, ExitOfKept
<1>2. CASE (\E f \in Capture : ProcessFrame(f)) \/ ProcessMalformed
  BY <1>2 DEF ProcessFrame, ProcessMalformed, Reading, ExitOfKept
<1>3. CASE Finish
  BY <1>3 DEF Finish, ExitOfKept, found, MaxExitCode
<1>4. CASE UNCHANGED vars
  BY <1>4 DEF vars, ExitOfKept, found, MaxExitCode
<1> QED BY <1>1, <1>2, <1>3, <1>4 DEF Next

LEMMA MaxExitCodeIs ==
  ASSUME NEW fs \in Seq(Finding)
  PROVE  \/ MaxExitCode(fs) = 0
         \/ \E i \in DOMAIN fs : MaxExitCode(fs) = ExitCode(fs[i].rule)
<1> DEFINE codes == {0} \cup {ExitCode(fs[i].rule) : i \in DOMAIN fs}
<1>1. codes \subseteq 0..2 /\ 0 \in codes
  BY DEF ExitCode
<1>2. MaxExitCode(fs) = CHOOSE c \in codes : \A d \in codes : d <= c
  BY DEF MaxExitCode
<1> HIDE DEF codes
<1>3. \E c \in codes : \A d \in codes : d <= c
  BY <1>1
<1>4. MaxExitCode(fs) \in codes
  BY <1>2, <1>3
<1> QED BY <1>4 DEF codes

LEMMA VerdictFollows ==
  TypeInv /\ FindingsSound /\ NoneMissed /\ ExitOfKept => LintVerdict
<1> SUFFICES ASSUME TypeInv, FindingsSound, NoneMissed, ExitOfKept,
                    phase = "done", command = "lint"
             PROVE  /\ exit = 0 <=> Broken = {}
                    /\ exit = 2 => \E x \in Broken : x[1] \in ErrorRules
                    /\ findingsDropped = 0 /\ (\E x \in Broken : x[1] \in ErrorRules)
                         => exit = 2
  BY DEF LintVerdict
<1>1. /\ findings \in Seq(Finding) /\ Len(findings) \in Nat
      /\ DOMAIN findings = 1..Len(findings)
      /\ findingsDropped \in Nat /\ maxFindings \in Nat \ {0}
      /\ findingsDropped > 0 => Len(findings) = maxFindings
  BY LenProperties DEF TypeInv, TypeOK, CapRespected
<1>2. /\ exit = MaxExitCode(findings) /\ exit \in 0..2
      /\ \A k \in DOMAIN findings : ExitCode(findings[k].rule) <= exit
      /\ exit = 0 \/ \E k \in DOMAIN findings : exit = ExitCode(findings[k].rule)
  BY <1>1, MaxExitCodeType, MaxExitCodeIs DEF ExitOfKept
<1>3. ASSUME NEW k \in DOMAIN findings
      PROVE  <<findings[k].rule, findings[k].at>> \in Broken
  <2>1. findings[k] \in Finding
    BY <1>1, ElementOfSeq
  <2>2. findings[k].rule \in Rules
    BY <2>1 DEF Finding
  <2> QED BY <2>2 DEF FindingsSound, Broken
<1>4. ASSUME NEW x \in Broken, findingsDropped = 0
      PROVE  \E k \in DOMAIN findings : findings[k].rule = x[1]
  <2>1. x[1] \in Rules /\ x[2] \in Positions /\ Breaks(x[1], x[2])
    BY DEF Broken
  <2>2. PICK k \in DOMAIN findings : findings[k] = [rule |-> x[1], at |-> x[2]]
    BY <1>4, <2>1 DEF NoneMissed, In
  <2> QED BY <2>2
<1>5. exit = 0 => Broken = {}
  <2> HAVE exit = 0
  <2>1. DOMAIN findings = {}
    <3> SUFFICES ASSUME NEW k \in DOMAIN findings PROVE FALSE
      OBVIOUS
    <3>1. ExitCode(findings[k].rule) \in {1, 2}
      BY DEF ExitCode
    <3>2. ExitCode(findings[k].rule) <= 0
      BY <1>2
    <3> QED BY <3>1, <3>2
  <2>2. findingsDropped = 0
    BY <1>1, <2>1
  <2> QED BY <1>4, <2>1, <2>2
<1>6. Broken = {} => exit = 0
  BY <1>2, <1>3
<1>7. exit = 2 => \E x \in Broken : x[1] \in ErrorRules
  <2> HAVE exit = 2
  <2>1. PICK k \in DOMAIN findings : 2 = ExitCode(findings[k].rule)
    BY <1>2
  <2>2. findings[k].rule \in ErrorRules
    BY <2>1 DEF ExitCode
  <2> QED BY <1>3, <2>2
<1>8. ASSUME findingsDropped = 0, NEW x \in Broken, x[1] \in ErrorRules
      PROVE  exit = 2
  <2>1. PICK k \in DOMAIN findings : findings[k].rule = x[1]
    BY <1>4, <1>8
  <2>2. ExitCode(findings[k].rule) = 2
    BY <1>8, <2>1 DEF ExitCode
  <2>3. 2 <= exit
    BY <1>2, <2>2
  <2> QED BY <1>2, <2>3
<1> QED BY <1>5, <1>6, <1>7, <1>8

(* Whatever the cap on findings, the peers and the frames: lint exits with *)
(* 0 exactly when no item breaks a rule, and with 2 only when one breaks a *)
(* rule of error severity (cli.rs:250, event.rs:87-96).                    *)
THEOREM LintCorrect == Spec => []LintVerdict
<1>1. Init => NoneMissed /\ ExitOfKept
  BY DEF Init, NoneMissed, ExitOfKept, Positions
<1>2. Spec => []TypeInv
  BY TypeCorrect, PTL DEF TypeInv
<1>3. Spec => []PeerLifecycle
  BY LifecycleCorrect
<1>4. Spec => []FindingsSound
  BY SoundFindings
<1> QED BY <1>1, <1>2, <1>3, <1>4, NextMissed, NextExit, VerdictFollows,
           PTL DEF Spec
-----------------------------------------------------------------------------
(* Each finding of an item is pushed once: a sequence of findings is as    *)
(* long as the set of what it tells.                                       *)
Told(fs) == {<<fs[k].rule, fs[k].at>> : k \in DOMAIN fs}

TellsOnce(fs, rules) ==
  /\ fs \in Seq(Finding)
  /\ \A k \in DOMAIN fs : fs[k].rule \in rules
  /\ IsFiniteSet(Told(fs)) /\ Cardinality(Told(fs)) = Len(fs)

LEMMA EmptyTells == TellsOnce(<<>>, {})
<1>1. <<>> \in Seq(Finding) /\ DOMAIN <<>> = {} /\ Len(<<>>) = 0
  BY EmptySeq
<1>2. Told(<<>>) = {}
  BY <1>1 DEF Told
<1> QED BY <1>1, <1>2, FS_EmptySet DEF TellsOnce

LEMMA WhenTells ==
  ASSUME NEW cond, NEW rule \in Rules, NEW at \in Nat
  PROVE  TellsOnce(When(cond, rule, at), {rule})
<1>1. CASE cond
  <2> DEFINE x == [rule |-> rule, at |-> at]
  <2>1. x \in Finding /\ x.rule = rule /\ x.at = at
    BY DEF Finding
  <2>2. When(cond, rule, at) = <<x>>
    BY <1>1 DEF When
  <2> HIDE DEF x
  <2>3. /\ <<x>> \in Seq(Finding) /\ DOMAIN <<x>> = {1} /\ <<x>>[1] = x
        /\ Len(<<x>>) = 1
    BY <2>1
  <2>4. Told(<<x>>) = {<<rule, at>>}
    BY <2>1, <2>3 DEF Told
  <2>5. \A k \in DOMAIN <<x>> : <<x>>[k].rule \in {rule}
    BY <2>1, <2>3
  <2>6. IsFiniteSet(Told(<<x>>)) /\ Cardinality(Told(<<x>>)) = 1
    BY <2>4, FS_Singleton
  <2> QED BY <2>2, <2>3, <2>5, <2>6 DEF TellsOnce
<1>2. CASE ~cond
  <2>1. When(cond, rule, at) = <<>>
    BY <1>2 DEF When
  <2> QED BY <2>1, EmptyTells DEF TellsOnce
<1> QED BY <1>1, <1>2

LEMMA ToldConcat ==
  ASSUME NEW s \in Seq(Finding), NEW t \in Seq(Finding)
  PROVE  Told(s \o t) = Told(s) \cup Told(t)
<1>1. /\ Len(s) \in Nat /\ Len(t) \in Nat
      /\ DOMAIN s = 1..Len(s) /\ DOMAIN t = 1..Len(t)
      /\ DOMAIN (s \o t) = 1..(Len(s) + Len(t))
      /\ \A i \in 1..(Len(s) + Len(t)) :
           (s \o t)[i] = IF i <= Len(s) THEN s[i] ELSE t[i - Len(s)]
  BY ConcatProperties, LenProperties
<1> DEFINE m == Len(s)
           n == Len(t)
           u == s \o t
<1> HIDE DEF m, n, u
<1>2. /\ m \in Nat /\ n \in Nat /\ DOMAIN s = 1..m /\ DOMAIN t = 1..n
      /\ DOMAIN u = 1..(m + n)
      /\ \A i \in 1..m : u[i] = s[i]
      /\ \A i \in 1..n : u[m + i] = t[i]
  <2>1. \A i \in 1..Len(t) : ~(Len(s) + i <= Len(s)) /\ (Len(s) + i) - Len(s) = i
    BY <1>1
  <2> QED BY <1>1, <2>1 DEF m, n, u
<1>3. ASSUME NEW k \in 1..(m + n)
      PROVE  <<u[k].rule, u[k].at>> \in Told(s) \cup Told(t)
  <2>1. CASE k <= m
    <3>1. k \in 1..m
      BY <1>2, <2>1
    <3> QED BY <1>2, <3>1 DEF Told
  <2>2. CASE ~(k <= m)
    <3>1. k - m \in 1..n /\ m + (k - m) = k
      BY <1>2, <2>2
    <3> QED BY <1>2, <3>1 DEF Told
  <2> QED BY <2>1, <2>2
<1>4. ASSUME NEW k \in 1..m PROVE <<s[k].rule, s[k].at>> \in Told(u)
  <2>1. k \in 1..(m + n)
    BY <1>2
  <2> QED BY <1>2, <2>1 DEF Told
<1>5. ASSUME NEW k \in 1..n PROVE <<t[k].rule, t[k].at>> \in Told(u)
  <2>1. m + k \in 1..(m + n)
    BY <1>2
  <2> QED BY <1>2, <2>1 DEF Told
<1>6. Told(u) = Told(s) \cup Told(t)
  <2>1. Told(u) = {<<u[k].rule, u[k].at>> : k \in 1..(m + n)}
    BY <1>2 DEF Told
  <2>2. Told(s) = {<<s[k].rule, s[k].at>> : k \in 1..m}
    BY <1>2 DEF Told
  <2>3. Told(t) = {<<t[k].rule, t[k].at>> : k \in 1..n}
    BY <1>2 DEF Told
  <2>4. Told(u) \subseteq Told(s) \cup Told(t)
    BY <1>3, <2>1
  <2>5. Told(s) \subseteq Told(u)
    BY <1>4, <2>2
  <2>6. Told(t) \subseteq Told(u)
    BY <1>5, <2>3
  <2> QED BY <2>4, <2>5, <2>6
<1> QED BY <1>6 DEF u

LEMMA ConcatTells ==
  ASSUME NEW Q, NEW R, Q \cap R = {}, NEW s, NEW t,
         TellsOnce(s, Q), TellsOnce(t, R)
  PROVE  TellsOnce(s \o t, Q \cup R)
<1>1. s \in Seq(Finding) /\ t \in Seq(Finding)
  BY DEF TellsOnce
<1>2. /\ Told(s \o t) = Told(s) \cup Told(t)
      /\ s \o t \in Seq(Finding) /\ Len(s \o t) = Len(s) + Len(t)
      /\ Len(s) \in Nat /\ Len(t) \in Nat
  BY <1>1, ToldConcat, ConcatProperties, LenProperties
<1>3. \A x \in Told(s) : x[1] \in Q
  BY DEF TellsOnce, Told
<1>4. \A x \in Told(t) : x[1] \in R
  BY DEF TellsOnce, Told
<1>5. Told(s) \cap Told(t) = {}
  BY <1>3, <1>4
<1>6. \A k \in DOMAIN (s \o t) : (s \o t)[k].rule \in Q \cup R
  <2>1. \A x \in Told(s \o t) : x[1] \in Q \cup R
    BY <1>2, <1>3, <1>4
  <2> DEFINE u == s \o t
  <2>2. ASSUME NEW k \in DOMAIN u PROVE u[k].rule \in Q \cup R
    <3> HIDE DEF u
    <3>1. <<u[k].rule, u[k].at>> \in Told(u)
      BY DEF Told
    <3> QED BY <2>1, <3>1 DEF u
  <2> QED BY <2>2
<1>7. /\ IsFiniteSet(Told(s) \cup Told(t))
      /\ Cardinality(Told(s) \cup Told(t)) = Len(s) + Len(t)
  <2>1. /\ IsFiniteSet(Told(s)) /\ IsFiniteSet(Told(t))
        /\ Cardinality(Told(s)) = Len(s) /\ Cardinality(Told(t)) = Len(t)
    BY DEF TellsOnce
  <2>2. /\ IsFiniteSet(Told(s) \cup Told(t))
        /\ Cardinality(Told(s) \cup Told(t))
             = Cardinality(Told(s)) + Cardinality(Told(t))
                 - Cardinality(Told(s) \cap Told(t))
    BY <2>1, FS_Union
  <2>3. Cardinality(Told(s) \cap Told(t)) = 0
    BY <1>5, FS_EmptySet
  <2> QED BY <1>2, <2>1, <2>2, <2>3
<1> QED BY <1>2, <1>6, <1>7 DEF TellsOnce

LEMMA TellsMore ==
  ASSUME NEW Q, NEW R, Q \subseteq R, NEW s, TellsOnce(s, Q)
  PROVE  TellsOnce(s, R)
BY DEF TellsOnce

LEMMA FrameFindingsTell ==
  ASSUME NEW f, NEW at \in Nat
  PROVE  TellsOnce(FrameFindings(f, at), Rules)
<1> DEFINE w1 == When(~f.version, "invalid_bmp_version", at)
           w2 == When(f.type = "Unknown", "unknown_bmp_type", at)
           w3 == When(ParseAttempted(f) /\ ~f.body, "parse_error", at)
           v1 == When(Regresses(f), "timestamp_regression", at)
           v2 == When(BeforePeerUp(f), "route_monitoring_before_peer_up", at)
           v3 == When(f.type = "PeerUp" /\ f.peer \in active, "duplicate_peer_up", at)
           v4 == When(f.type = "PeerDown" /\ ~f.body,
                      "truncated_peer_down_reason", at)
           v5 == When(f.type = "PeerDown" /\ f.peer \notin active,
                      "peer_down_without_peer_up", at)
           Q  == {"invalid_bmp_version", "unknown_bmp_type", "parse_error"}
           R  == {"timestamp_regression", "route_monitoring_before_peer_up",
                  "duplicate_peer_up", "truncated_peer_down_reason",
                  "peer_down_without_peer_up"}
<1>1. /\ "invalid_bmp_version" \in Rules /\ "unknown_bmp_type" \in Rules
      /\ "parse_error" \in Rules /\ "timestamp_regression" \in Rules
      /\ "route_monitoring_before_peer_up" \in Rules
      /\ "duplicate_peer_up" \in Rules /\ "truncated_peer_down_reason" \in Rules
      /\ "peer_down_without_peer_up" \in Rules
  BY DEF Rules
<1>2. /\ TellsOnce(w1, {"invalid_bmp_version"})
      /\ TellsOnce(w2, {"unknown_bmp_type"})
      /\ TellsOnce(w3, {"parse_error"})
  BY <1>1, WhenTells
<1>3. /\ TellsOnce(v1, {"timestamp_regression"})
      /\ TellsOnce(v2, {"route_monitoring_before_peer_up"})
      /\ TellsOnce(v3, {"duplicate_peer_up"})
  BY <1>1, WhenTells
<1>4. /\ TellsOnce(v4, {"truncated_peer_down_reason"})
      /\ TellsOnce(v5, {"peer_down_without_peer_up"})
  BY <1>1, WhenTells
<1>5. /\ FramingFindings(f, at) = (w1 \o w2) \o w3
      /\ PeerFindings(f, at) = (((v1 \o v2) \o v3) \o v4) \o v5
  BY DEF FramingFindings, PeerFindings
<1> HIDE DEF w1, w2, w3, v1, v2, v3, v4, v5
<1>6. TellsOnce((w1 \o w2) \o w3, Q)
  <2>1. TellsOnce(w1 \o w2, {"invalid_bmp_version"} \cup {"unknown_bmp_type"})
    BY <1>2, ConcatTells
  <2>2. TellsOnce((w1 \o w2) \o w3,
          ({"invalid_bmp_version"} \cup {"unknown_bmp_type"}) \cup {"parse_error"})
    BY <1>2, <2>1, ConcatTells
  <2> QED BY <2>2, TellsMore
<1>7. TellsOnce((((v1 \o v2) \o v3) \o v4) \o v5, R)
  <2> DEFINE R2 == {"timestamp_regression"} \cup {"route_monitoring_before_peer_up"}
             R3 == R2 \cup {"duplicate_peer_up"}
             R4 == R3 \cup {"truncated_peer_down_reason"}
  <2>1. TellsOnce(v1 \o v2, R2)
    BY <1>3, ConcatTells
  <2>2. TellsOnce((v1 \o v2) \o v3, R3)
    BY <1>3, <2>1, ConcatTells
  <2>3. TellsOnce(((v1 \o v2) \o v3) \o v4, R4)
    BY <1>4, <2>2, ConcatTells
  <2>4. TellsOnce((((v1 \o v2) \o v3) \o v4) \o v5,
                  R4 \cup {"peer_down_without_peer_up"})
    BY <1>4, <2>3, ConcatTells
  <2> QED BY <2>4, TellsMore
<1>8. TellsOnce(IF f.peer = NoPeer THEN <<>> ELSE PeerFindings(f, at), R)
  <2>1. TellsOnce(<<>>, R)
    BY EmptyTells, TellsMore
  <2> QED BY <1>5, <1>7, <2>1
<1>9. Q \cap R = {} /\ Q \cup R \subseteq Rules
  BY DEF Rules
<1> HIDE DEF Q, R
<1>10. TellsOnce(FrameFindings(f, at), Q \cup R)
  BY <1>5, <1>6, <1>8, <1>9, ConcatTells DEF FrameFindings
<1> QED BY <1>9, <1>10, TellsMore

(* What the item at position i breaks.                                     *)
BrokenAt(i) == {x \in Rules \X {i} : Breaks(x[1], i)}

LEMMA InTold ==
  ASSUME NEW fs, NEW rule, NEW at, In([rule |-> rule, at |-> at], fs)
  PROVE  <<rule, at>> \in Told(fs)
<1>1. PICK k \in DOMAIN fs : fs[k] = [rule |-> rule, at |-> at]
  BY DEF In
<1>2. fs[k].rule = rule /\ fs[k].at = at
  BY <1>1
<1> QED BY <1>2 DEF Told

(* The findings pushed for a frame are what it breaks, each once.          *)
LEMMA FrameTold ==
  ASSUME TypeOK, PeerLifecycle, NEW f \in Capture, log' = Append(log, f)
  PROVE  LET fs == FrameFindings(f, Len(log) + 1)
         IN  /\ TellsOnce(fs, Rules)
             /\ \A x : x \in Told(fs) <=>
                         x \in Rules \X {Len(log) + 1} /\ Breaks(x[1], Len(log))'
<1> DEFINE at == Len(log) + 1
           fs == FrameFindings(f, at)
<1>1. f \in Frames /\ at \in Nat
  BY ItemTypes, LenProperties DEF TypeOK
<1>2. TellsOnce(fs, Rules)
  BY <1>1, FrameFindingsTell
<1>3. fs \in Seq(Raised(f, at))
  BY <1>1, FrameFindingsRaised
<1>4. ASSUME NEW x \in Told(fs) PROVE x \in Rules \X {at} /\ Breaks(x[1], Len(log))'
  <2>1. PICK k \in DOMAIN fs : x = <<fs[k].rule, fs[k].at>>
    BY DEF Told
  <2>2. PICK y \in Raised(f, at) : y = fs[k]
    BY <1>3, ElementOfSeq, LenProperties
  <2>3. Breaks(y.rule, Len(log))'
    BY <2>2, RaisedBreaks
  <2>4. y.rule \in Rules /\ y.at = at
    BY <2>2 DEF Raised, Finding
  <2> HIDE DEF fs, at
  <2>5. x[1] = y.rule /\ x[2] = y.at /\ x = <<y.rule, y.at>>
    BY <2>1, <2>2
  <2> QED BY <2>3, <2>4, <2>5
<1>5. ASSUME NEW x \in Rules \X {at}, Breaks(x[1], Len(log))' PROVE x \in Told(fs)
  <2>1. PICK rule \in Rules : rule = x[1] /\ x = <<rule, at>>
    OBVIOUS
  <2>2. [rule |-> rule, at |-> at] \in Raised(f, at)
    BY <1>5, <2>1, BreaksRaised
  <2>3. In([rule |-> rule, at |-> at], fs)
    BY <1>1, <2>2, FrameFindingsAll
  <2> QED BY <2>1, <2>3, InTold
<1> QED BY <1>2, <1>4, <1>5

LEMMA MalformedTold ==
  ASSUME TypeOK, log' = Append(log, Malformed)
  PROVE  LET fs == When(TRUE, "truncated_frame", Len(log) + 1)
         IN  /\ TellsOnce(fs, Rules)
             /\ \A x : x \in Told(fs) <=>
                         x \in Rules \X {Len(log) + 1} /\ Breaks(x[1], Len(log))'
<1> DEFINE at == Len(log) + 1
           fs == When(TRUE, "truncated_frame", at)
<1>1. at \in Nat /\ "truncated_frame" \in Rules
  BY LenProperties DEF TypeOK, Rules
<1>2. TellsOnce(fs, Rules)
  <2>1. TellsOnce(fs, {"truncated_frame"})
    BY <1>1, WhenTells
  <2> QED BY <1>1, <2>1, TellsMore
<1>3. Told(fs) = {<<"truncated_frame", at>>}
  <2> DEFINE x == [rule |-> "truncated_frame", at |-> at]
  <2>1. fs = <<x>> /\ x.rule = "truncated_frame" /\ x.at = at
    BY DEF When
  <2> HIDE DEF x, fs
  <2>2. DOMAIN <<x>> = {1} /\ <<x>>[1] = x
    OBVIOUS
  <2> QED BY <2>1, <2>2 DEF Told
<1>4. log'[Len(log')] = Malformed
  BY LogStep DEF TypeOK
<1>5. \A rule \in Rules : Breaks(rule, Len(log))' <=> rule = "truncated_frame"
  BY <1>4 DEF Breaks, Malformed, RouteTypes
<1> HIDE DEF fs, at
<1>6. \A x : x \in Told(fs) <=> x \in Rules \X {at} /\ Breaks(x[1], Len(log))'
  BY <1>1, <1>3, <1>5
<1> QED BY <1>2, <1>6 DEF fs, at

(* One more item breaks what is told of it, and nothing else changes.      *)
LEMMA BrokenStep ==
  ASSUME NEW S, log \in Seq(S), NEW g \in S, log' = Append(log, g), NEW N,
         \A x : x \in N <=> x \in Rules \X {Len(log) + 1} /\ Breaks(x[1], Len(log))'
  PROVE  /\ Broken' = Broken \cup N
         /\ Broken \cap N = {}
<1>1. Len(log) \in Nat /\ Len(log') = Len(log) + 1
  BY LogStep
<1>2. PICK n \in Nat : n = Len(log)
  BY <1>1
<1>3. Broken = {x \in Rules \X (1..n) : Breaks(x[1], x[2])}
  BY <1>2 DEF Broken, Positions
<1>4. \A x : x \in Broken' <=> x \in Rules \X (1..(n+1)) /\ Breaks(x[1], x[2])'
  BY <1>1, <1>2 DEF Broken, Positions
<1>5. \A x : x \in N <=> x \in Rules \X {n + 1} /\ Breaks(x[1], n + 1)'
  BY <1>1, <1>2
<1>6. \A r : \A i \in 1..n : Breaks(r, i)' <=> Breaks(r, i)
  BY <1>2, PastBreaks
<1>7. ASSUME NEW x \in Broken' PROVE x \in Broken \cup N
  <2>1. PICK r \in Rules, i \in 1..(n+1) : x = <<r, i>>
    BY <1>4
  <2>2. x[1] = r /\ x[2] = i
    BY <2>1
  <2>3. Breaks(r, i)'
    BY <1>4, <2>2
  <2>4. CASE i = n + 1
    BY <1>5, <2>1, <2>2, <2>3, <2>4
  <2>5. CASE i # n + 1
    <3>1. i \in 1..n
      BY <2>5
    <3> QED BY <1>3, <1>6, <2>1, <2>2, <2>3, <3>1
  <2> QED BY <2>4, <2>5
<1>8. ASSUME NEW x \in Broken PROVE x \in Broken' /\ x \notin N
  <2>1. PICK r \in Rules, i \in 1..n : x = <<r, i>>
    BY <1>3
  <2>2. x[1] = r /\ x[2] = i /\ i # n + 1 /\ i \in 1..(n+1)
    BY <2>1
  <2>3. Breaks(r, i)'
    BY <1>3, <1>6, <2>1, <2>2
  <2> QED BY <1>4, <1>5, <2>1, <2>2, <2>3
<1>9. ASSUME NEW x \in N PROVE x \in Broken'
  <2>1. PICK r \in Rules : x = <<r, n + 1>>
    BY <1>5
  <2>2. x[1] = r /\ x[2] = n + 1 /\ Breaks(r, n + 1)'
    BY <1>5, <2>1
  <2> QED BY <1>4, <2>1, <2>2
<1> QED BY <1>7, <1>8, <1>9

-----------------------------------------------------------------------------
(* Kept and dropped findings are as many as there are broken rules, and    *)
(* the kept ones are the earliest.                                         *)
Counted ==
  /\ IsFiniteSet(Broken)
  /\ Len(findings) + findingsDropped = Cardinality(Broken)

Earliest ==
  /\ \A i, j \in DOMAIN findings : i < j => findings[i].at <= findings[j].at
  /\ \A x \in Broken : findingsDropped > 0 =>
       x[2] >= findings[maxFindings].at \/ <<x[1], x[2]>> \in Told(findings)

LEMMA CountedStep ==
  ASSUME TypeInv, Counted, NEW g \in Capture \cup {Malformed},
         log' = Append(log, g), NEW fs, TellsOnce(fs, Rules), PushFindings(fs),
         \A x : x \in Told(fs) <=>
                  x \in Rules \X {Len(log) + 1} /\ Breaks(x[1], Len(log))'
  PROVE  Counted'
<1>1. /\ log \in Seq(Capture \cup {Malformed}) /\ findings \in Seq(Finding)
      /\ Len(findings) \in Nat /\ findingsDropped \in Nat
      /\ fs \in Seq(Finding) /\ Len(fs) \in Nat
  BY LenProperties DEF TypeInv, TypeOK, TellsOnce
<1>2. Broken' = Broken \cup Told(fs) /\ Broken \cap Told(fs) = {}
  BY <1>1, BrokenStep
<1>3. Len(findings') + findingsDropped' = Len(findings) + findingsDropped + Len(fs)
  BY <1>1, PushFindingsKeeps DEF TypeInv, TypeOK, CapRespected
<1>4. /\ IsFiniteSet(Broken) /\ IsFiniteSet(Told(fs))
      /\ Cardinality(Told(fs)) = Len(fs)
      /\ Cardinality(Broken) = Len(findings) + findingsDropped
  BY DEF Counted, TellsOnce
<1>5. /\ IsFiniteSet(Broken \cup Told(fs))
      /\ Cardinality(Broken \cup Told(fs)) = Cardinality(Broken) + Len(fs)
  <2>1. /\ IsFiniteSet(Broken \cup Told(fs))
        /\ Cardinality(Broken \cup Told(fs))
             = Cardinality(Broken) + Cardinality(Told(fs))
                 - Cardinality(Broken \cap Told(fs))
    BY <1>4, FS_Union
  <2>2. Cardinality(Broken \cap Told(fs)) = 0
    BY <1>2, FS_EmptySet
  <2> QED BY <1>1, <1>4, <2>1, <2>2
<1>6. Counted' <=> /\ IsFiniteSet(Broken')
                   /\ Len(findings') + findingsDropped' = Cardinality(Broken')
  BY DEF Counted, Cardinality, IsFiniteSet
<1> QED BY <1>2, <1>3, <1>4, <1>5, <1>6

LEMMA NoFewerDropped ==
  ASSUME findings \in Seq(Finding), NEW fs \in Seq(Finding),
         maxFindings \in Nat, findingsDropped \in Nat, PushFindings(fs)
  PROVE  findingsDropped' >= findingsDropped
<1> DEFINE all == findings \o fs
<1>1. all \in Seq(Finding) /\ Len(all) \in Nat
  <2>1. all \in Seq(Finding)
    BY ConcatProperties
  <2> QED BY <2>1, LenProperties
<1>2. CASE Len(all) <= maxFindings
  <2>1. findingsDropped' = findingsDropped + (Len(all) - Len(all))
    BY <1>2 DEF PushFindings
  <2> HIDE DEF all
  <2> QED BY <1>1, <2>1
<1>3. CASE ~(Len(all) <= maxFindings)
  <2>1. findingsDropped' = findingsDropped
                             + (Len(all) - Len(SubSeq(all, 1, maxFindings)))
    BY <1>3 DEF PushFindings
  <2> HIDE DEF all
  <2>2. \A i \in 1..maxFindings : all[i] \in Finding
    BY <1>1, <1>3, ElementOfSeq
  <2>3. Len(SubSeq(all, 1, maxFindings)) = IF 1 <= maxFindings
                                           THEN maxFindings - 1 + 1 ELSE 0
    BY <2>2, SubSeqProperties
  <2> QED BY <1>1, <1>3, <2>1, <2>3
<1> QED BY <1>2, <1>3

LEMMA EarliestStep ==
  ASSUME TypeInv, FindingsSound, NoneMissed, Earliest,
         NEW g \in Capture \cup {Malformed},
         log' = Append(log, g), UNCHANGED maxFindings,
         NEW fs, TellsOnce(fs, Rules), PushFindings(fs),
         \A x : x \in Told(fs) <=>
                  x \in Rules \X {Len(log) + 1} /\ Breaks(x[1], Len(log))'
  PROVE  Earliest'
<1> DEFINE m == Len(findings)
           l == Len(log)
<1>1. /\ log \in Seq(Capture \cup {Malformed}) /\ l \in Nat
      /\ findings \in Seq(Finding) /\ m \in Nat /\ findingsDropped \in Nat
      /\ fs \in Seq(Finding) /\ Len(fs) \in Nat /\ maxFindings \in Nat \ {0}
      /\ DOMAIN findings = 1..m /\ m <= maxFindings
      /\ findingsDropped > 0 => m = maxFindings
      /\ DOMAIN fs = 1..Len(fs)
  BY LenProperties DEF TypeInv, TypeOK, TellsOnce, CapRespected
<1>2. Broken' = Broken \cup Told(fs)
  BY <1>1, BrokenStep
<1> DEFINE next == findings'
           n    == Len(next)
<1>3. /\ next \in Seq(Finding) /\ n <= maxFindings /\ m <= n
      /\ \A k \in 1..m : next[k] = findings[k]
      /\ \A k \in (m+1)..n : next[k] = fs[k - m]
      /\ findingsDropped' \in Nat
      /\ n + findingsDropped' = m + findingsDropped + Len(fs)
      /\ findingsDropped' > findingsDropped => n = maxFindings
  BY <1>1, PushFindingsKeeps
<1>4. n \in Nat /\ DOMAIN next = 1..n
  BY <1>3, LenProperties
<1>5. \A k \in 1..m : findings[k].at \in 1..l
  BY <1>1 DEF FindingsSound, Positions
<1>6. \A k \in 1..Len(fs) : fs[k].at = l + 1
  <2> SUFFICES ASSUME NEW k \in 1..Len(fs) PROVE fs[k].at = l + 1
    OBVIOUS
  <2>1. <<fs[k].rule, fs[k].at>> \in Told(fs)
    BY <1>1 DEF Told
  <2>2. <<fs[k].rule, fs[k].at>> \in Rules \X {l + 1}
    BY <2>1
  <2> QED BY <2>2
<1>7. n - m <= Len(fs)
  <2>1. findingsDropped' >= findingsDropped
    BY <1>1, NoFewerDropped
  <2> HIDE DEF n, m
  <2> QED BY <1>1, <1>3, <1>4, <2>1
<1> HIDE DEF m, l, next, n
<1>8. /\ \A k \in 1..m : next[k].at \in 1..l
      /\ \A k \in (m+1)..n : next[k].at = l + 1
  <2>1. \A k \in (m+1)..n : k - m \in 1..Len(fs)
    BY <1>1, <1>4, <1>7
  <2> QED BY <1>3, <1>5, <1>6, <2>1
<1>9. ASSUME NEW i \in 1..n, NEW j \in 1..n, i < j PROVE next[i].at <= next[j].at
  <2>1. CASE j <= m
    <3>1. i \in 1..m /\ j \in 1..m
      BY <1>1, <1>4, <1>9, <2>1
    <3>2. findings[i].at <= findings[j].at
      BY <1>1, <1>9, <3>1 DEF Earliest
    <3> QED BY <1>3, <3>1, <3>2
  <2>2. CASE ~(j <= m)
    <3>1. j \in (m+1)..n
      BY <1>1, <1>4, <2>2
    <3>2. next[j].at = l + 1
      BY <1>8, <3>1
    <3>3. next[i].at \in 1..(l+1)
      <4>1. CASE i <= m
        BY <1>1, <1>8, <4>1
      <4>2. CASE ~(i <= m)
        <5>1. i \in (m+1)..n
          BY <1>1, <1>4, <4>2
        <5> QED BY <1>1, <1>8, <5>1
      <4> QED BY <4>1, <4>2
    <3> QED BY <1>1, <3>2, <3>3
  <2> QED BY <2>1, <2>2
<1>10. Told(findings) \subseteq Told(next)
  <2>1. \A k \in 1..m : k \in 1..n
    BY <1>1, <1>3, <1>4
  <2>2. \A k \in 1..m : <<findings[k].rule, findings[k].at>> = <<next[k].rule, next[k].at>>
    BY <1>3
  <2>3. \A k \in 1..m : <<next[k].rule, next[k].at>> \in Told(next)
    BY <1>4, <2>1 DEF Told
  <2>4. Told(findings) = {<<findings[k].rule, findings[k].at>> : k \in 1..m}
    BY <1>1 DEF Told
  <2> QED BY <2>2, <2>3, <2>4
<1>11. ASSUME NEW x \in Broken', findingsDropped' > 0
       PROVE  x[2] >= next[maxFindings].at \/ <<x[1], x[2]>> \in Told(next)
  <2>0. /\ n = maxFindings /\ n \in 1..n
    <3>1. CASE findingsDropped > 0
      <4>1. m = maxFindings
        BY <1>1, <3>1
      <4> QED BY <1>1, <1>3, <1>4, <4>1
    <3>2. CASE ~(findingsDropped > 0)
      BY <1>1, <1>3, <1>4, <1>11, <3>2
    <3> QED BY <3>1, <3>2
  <2>1. next[n].at \in 1..(l+1)
    <3>1. CASE n <= m
      BY <1>1, <1>4, <1>8, <2>0, <3>1
    <3>2. CASE ~(n <= m)
      <4>1. n \in (m+1)..n
        BY <1>1, <1>4, <3>2
      <4> QED BY <1>1, <1>8, <4>1
    <3> QED BY <3>1, <3>2
  <2>2. CASE x \in Told(fs)
    <3>1. x[2] = l + 1
      BY <2>2 DEF l
    <3> QED BY <1>1, <2>0, <2>1, <3>1
  <2>3. CASE x \in Broken /\ findingsDropped > 0
    <3>1. m = maxFindings
      BY <1>1, <2>3
    <3>2. next[maxFindings] = findings[maxFindings]
      BY <1>1, <1>3, <3>1
    <3>3. x[2] >= findings[maxFindings].at \/ <<x[1], x[2]>> \in Told(findings)
      BY <2>3 DEF Earliest
    <3> QED BY <1>10, <3>2, <3>3
  <2>4. CASE x \in Broken /\ ~(findingsDropped > 0)
    <3>1. findingsDropped = 0
      BY <1>1, <2>4
    <3>2. x[1] \in Rules /\ x[2] \in Positions /\ Breaks(x[1], x[2])
      BY <2>4 DEF Broken
    <3>3. In([rule |-> x[1], at |-> x[2]], findings)
      BY <3>1, <3>2 DEF NoneMissed
    <3>4. <<x[1], x[2]>> \in Told(findings)
      BY <3>3, InTold
    <3> QED BY <1>10, <3>4
  <2> QED BY <1>2, <2>2, <2>3, <2>4
<1>12. /\ \A i, j \in DOMAIN next : i < j => next[i].at <= next[j].at
       /\ \A x \in Broken' : findingsDropped' > 0 =>
            x[2] >= next[maxFindings].at \/ <<x[1], x[2]>> \in Told(next)
  BY <1>4, <1>9, <1>11
<1> QED BY <1>12 DEF Earliest, next, Told

(* The invariant the counting rests on.                                    *)
Sound == TypeInv /\ PeerLifecycle /\ FindingsSound /\ NoneMissed

LEMMA SoundAlways == Spec => []Sound
<1>1. Init => NoneMissed
  BY DEF Init, NoneMissed, Positions
<1>2. Spec => []TypeInv
  BY TypeCorrect, PTL DEF TypeInv
<1>3. Spec => []NoneMissed
  BY <1>1, <1>2, LifecycleCorrect, NextMissed, PTL DEF Spec
<1> QED BY <1>2, <1>3, LifecycleCorrect, SoundFindings, PTL DEF Sound

LEMMA InitCounted == Init => Counted /\ Earliest
<1> SUFFICES ASSUME Init PROVE Counted /\ Earliest
  OBVIOUS
<1>1. /\ log = <<>> /\ findings = <<>> /\ findingsDropped = 0
      /\ Len(log) = 0 /\ Len(findings) = 0
  BY DEF Init
<1>2. Broken = {}
  BY <1>1 DEF Broken, Positions
<1> QED BY <1>1, <1>2, FS_EmptySet DEF Counted, Earliest

LEMMA NextCounted ==
  Sound /\ Counted /\ Earliest /\ [Next]_vars => Counted' /\ Earliest'
<1> SUFFICES ASSUME Sound, Counted, Earliest, [Next]_vars
             PROVE  Counted' /\ Earliest'
  OBVIOUS
<1>0. TypeInv /\ TypeOK /\ PeerLifecycle /\ FindingsSound /\ NoneMissed
  BY DEF Sound, TypeInv
<1>1. ASSUME NEW f \in Capture, ProcessFrame(f) PROVE Counted' /\ Earliest'
  <2> DEFINE fs == FrameFindings(f, Len(log) + 1)
  <2>1. log' = Append(log, f) /\ PushFindings(fs) /\ UNCHANGED maxFindings
    BY <1>1 DEF ProcessFrame
  <2>2. /\ TellsOnce(fs, Rules)
        /\ \A x : x \in Told(fs) <=>
                    x \in Rules \X {Len(log) + 1} /\ Breaks(x[1], Len(log))'
    BY <1>0, <2>1, FrameTold
  <2> HIDE DEF fs
  <2> QED BY <1>0, <2>1, <2>2, CountedStep, EarliestStep
<1>2. CASE ProcessMalformed
  <2> DEFINE fs == When(TRUE, "truncated_frame", Len(log) + 1)
  <2>1. log' = Append(log, Malformed) /\ PushFindings(fs) /\ UNCHANGED maxFindings
    BY <1>2 DEF ProcessMalformed
  <2>2. /\ TellsOnce(fs, Rules)
        /\ \A x : x \in Told(fs) <=>
                    x \in Rules \X {Len(log) + 1} /\ Breaks(x[1], Len(log))'
    BY <1>0, <2>1, MalformedTold
  <2> HIDE DEF fs
  <2> QED BY <1>0, <2>1, <2>2, CountedStep, EarliestStep
<1>3. CASE OpenFails \/ Open \/ Finish \/ IoError \/ UNCHANGED vars
  <2>1. UNCHANGED <<log, findings, findingsDropped, maxFindings>>
    BY <1>3 DEF OpenFails, Open, Finish, IoError, vars, found
  <2>2. Broken' = Broken
    BY <2>1 DEF Broken, Positions, Breaks, Older, OpenAfter, UpAmong, Of
  <2>3. Counted' <=> /\ IsFiniteSet(Broken')
                     /\ Len(findings') + findingsDropped' = Cardinality(Broken')
    BY DEF Counted, Cardinality, IsFiniteSet
  <2>4. Counted'
    BY <2>1, <2>2, <2>3 DEF Counted
  <2>5. Earliest'
    BY <2>1, <2>2 DEF Earliest, Told
  <2> QED BY <2>4, <2>5
<1> QED BY <1>1, <1>2, <1>3 DEF Next

LEMMA CountedAlways == Spec => [](Counted /\ Earliest)
<1>1. Init => Counted /\ Earliest
  BY InitCounted
<1>2. Sound /\ (Counted /\ Earliest) /\ [Next]_vars => (Counted /\ Earliest)'
  BY NextCounted
<1> QED BY <1>1, <1>2, SoundAlways, PTL DEF Spec

LEMMA CompleteFollows == Sound /\ Counted /\ Earliest => CompleteUpToCap
<1> SUFFICES ASSUME Sound, Counted, Earliest PROVE CompleteUpToCap
  OBVIOUS
<1>1. TypeInv /\ NoneMissed /\ findings \in Seq(Finding)
  BY DEF Sound, TypeInv, TypeOK
<1>2. \A x \in Broken : x[1] \in Rules /\ x[2] \in Positions /\ Breaks(x[1], x[2])
  BY DEF Broken
<1>3. FindingsComplete
  <2>1. ASSUME findingsDropped = 0, NEW x \in Broken
        PROVE  \E k \in DOMAIN findings : findings[k] = [rule |-> x[1], at |-> x[2]]
    <3>1. In([rule |-> x[1], at |-> x[2]], findings)
      BY <1>1, <1>2, <2>1 DEF NoneMissed
    <3> QED BY <3>1 DEF In
  <2> QED BY <2>1 DEF FindingsComplete, Counted
<1>4. ASSUME NEW x, <<x[1], x[2]>> \in Told(findings)
      PROVE  \E k \in DOMAIN findings : findings[k] = [rule |-> x[1], at |-> x[2]]
  <2>1. PICK k \in DOMAIN findings :
          <<x[1], x[2]>> = <<findings[k].rule, findings[k].at>>
    BY <1>4 DEF Told
  <2>2. findings[k] \in Finding
    BY <1>1, ElementOfSeq, LenProperties
  <2>3. findings[k].rule = x[1] /\ findings[k].at = x[2]
    BY <2>1
  <2>4. findings[k] = [rule |-> findings[k].rule, at |-> findings[k].at]
    BY <2>2 DEF Finding
  <2> QED BY <2>3, <2>4
<1>5. CapKeepsEarliest
  BY <1>1, <1>4 DEF CapKeepsEarliest, Earliest, TypeInv
<1> QED BY <1>3, <1>5 DEF CompleteUpToCap

(* Whatever the cap, the capture and the interleaving of its peers: kept   *)
(* and dropped findings are as many as there are broken rules, none is     *)
(* missed or told twice, and those dropped are the latest                  *)
(* (doctor.rs:121-128).                                                    *)
THEOREM CompletenessCorrect == Spec => []CompleteUpToCap
BY SoundAlways, CountedAlways, CompleteFollows, PTL

-----------------------------------------------------------------------------
(* What is counted of a peer, and what an event lists, against the history.*)
Ups(p)    == {i \in Positions : log[i].peer = p /\ log[i].type = "PeerUp"}
Earlies(p) ==
  {i \in Positions : log[i].peer = p /\ Breaks("route_monitoring_before_peer_up", i)}
Regressions(p) ==
  {i \in Positions : log[i].peer = p /\ Breaks("timestamp_regression", i)}
ItemsOf(p) == {i \in Positions : log[i].peer = p}

PeerCounted(p) ==
  /\ count[p]["up"] = Cardinality(Ups(p))
  /\ count[p]["early"] = Cardinality(Earlies(p))
  /\ count[p]["regression"] = Cardinality(Regressions(p))
  /\ count[p]["up"] + count[p]["down"] + count[p]["rm"] + count[p]["other"]
       = Cardinality(ItemsOf(p))

PeersCounted == \A p \in Peers : PeerCounted(p)

EventsListed ==
  command = "dump" =>
    /\ Len(events) + eventsDropped = Len(log)
    /\ eventsDropped > 0 => Len(events) >= AtLeastOne(EventsArg)
    /\ \A i \in DOMAIN events : events[i].rules = {r \in Rules : Breaks(r, i)}

(* Two sets of positions that differ in the last one at most.              *)
Grown(S, T, n) ==
  /\ S \subseteq 1..n /\ T \subseteq 1..(n+1)
  /\ \A i \in 1..n : i \in T <=> i \in S

LEMMA OneMore ==
  ASSUME NEW n \in Nat, NEW S, NEW T, Grown(S, T, n)
  PROVE  /\ Cardinality(S) \in Nat
         /\ n + 1 \in T => Cardinality(T) = Cardinality(S) + 1
         /\ n + 1 \notin T => Cardinality(T) = Cardinality(S)
<1>0. /\ S \subseteq 1..n /\ T \subseteq 1..(n+1)
      /\ \A i \in 1..n : i \in T <=> i \in S
  BY DEF Grown
<1>1. IsFiniteSet(S) /\ Cardinality(S) \in Nat
  <2>1. IsFiniteSet(1..n)
    BY FS_Interval
  <2> QED BY <1>0, <2>1, FS_Subset, FS_CardinalityType
<1>2. CASE n + 1 \in T
  <2>1. T = S \cup {n + 1} /\ n + 1 \notin S
    <3>1. \A i \in 1..(n+1) : i = n + 1 \/ i \in 1..n
      OBVIOUS
    <3>2. n + 1 \notin 1..n
      OBVIOUS
    <3> QED BY <1>0, <1>2, <3>1, <3>2
  <2>2. Cardinality(S \cup {n + 1}) = Cardinality(S) + 1
    BY <1>1, <2>1, FS_AddElement
  <2> QED BY <1>1, <1>2, <2>1, <2>2
<1>3. CASE n + 1 \notin T
  <2>1. T = S
    <3>1. \A i \in 1..(n+1) : i = n + 1 \/ i \in 1..n
      OBVIOUS
    <3> QED BY <1>0, <1>3, <3>1
  <2> QED BY <1>1, <1>3, <2>1
<1> QED BY <1>2, <1>3

LEMMA PrimedCounts ==
  PeersCounted' <=> \A p \in Peers :
    /\ count'[p]["up"] = Cardinality(Ups(p)')
    /\ count'[p]["early"] = Cardinality(Earlies(p)')
    /\ count'[p]["regression"] = Cardinality(Regressions(p)')
    /\ count'[p]["up"] + count'[p]["down"] + count'[p]["rm"] + count'[p]["other"]
         = Cardinality(ItemsOf(p)')
BY DEF PeersCounted, PeerCounted, Cardinality, IsFiniteSet

(* The positions of one more item.                                         *)
LEMMA PositionsStep ==
  ASSUME NEW S, log \in Seq(S), NEW g \in S, log' = Append(log, g), NEW p,
         NEW n \in Nat, n = Len(log)
  PROVE  /\ Grown(Ups(p), Ups(p)', n) /\ Grown(Earlies(p), Earlies(p)', n)
         /\ Grown(Regressions(p), Regressions(p)', n)
         /\ Grown(ItemsOf(p), ItemsOf(p)', n)
         /\ n + 1 \in Ups(p)' <=> g.peer = p /\ g.type = "PeerUp"
         /\ n + 1 \in Earlies(p)' <=>
              g.peer = p /\ Breaks("route_monitoring_before_peer_up", Len(log))'
         /\ n + 1 \in Regressions(p)' <=>
              g.peer = p /\ Breaks("timestamp_regression", Len(log))'
         /\ n + 1 \in ItemsOf(p)' <=> g.peer = p
<1>1. /\ Len(log') = n + 1 /\ log'[n + 1] = g
      /\ \A j \in 1..n : log'[j] = log[j]
  BY LogStep
<1>2. \A r : \A i \in 1..n : Breaks(r, i)' <=> Breaks(r, i)
  BY PastBreaks
<1>3. Positions = 1..n /\ Positions' = 1..(n+1)
  BY <1>1 DEF Positions
<1>4. n + 1 \in 1..(n+1) /\ \A i \in 1..n : i \in 1..(n+1)
  OBVIOUS
<1>5. /\ Grown(Ups(p), Ups(p)', n)
      /\ n + 1 \in Ups(p)' <=> g.peer = p /\ g.type = "PeerUp"
  BY <1>1, <1>3, <1>4 DEF Ups, Grown
<1>6. /\ Grown(ItemsOf(p), ItemsOf(p)', n)
      /\ n + 1 \in ItemsOf(p)' <=> g.peer = p
  BY <1>1, <1>3, <1>4 DEF ItemsOf, Grown
<1>7. /\ Grown(Earlies(p), Earlies(p)', n)
      /\ n + 1 \in Earlies(p)' <=>
           g.peer = p /\ Breaks("route_monitoring_before_peer_up", Len(log))'
  BY <1>1, <1>2, <1>3, <1>4 DEF Earlies, Grown
<1>8. /\ Grown(Regressions(p), Regressions(p)', n)
      /\ n + 1 \in Regressions(p)' <=>
           g.peer = p /\ Breaks("timestamp_regression", Len(log))'
  BY <1>1, <1>2, <1>3, <1>4 DEF Regressions, Grown
<1> QED BY <1>5, <1>6, <1>7, <1>8

(* A frame that counts for no finding of its peer breaks none.             *)
LEMMA BumpedBreaks ==
  ASSUME TypeOK, PeerLifecycle, NEW f \in Capture, log' = Append(log, f),
         f.peer # NoPeer
  PROVE  /\ BeforePeerUp(f) <=> Breaks("route_monitoring_before_peer_up", Len(log))'
         /\ Regresses(f) <=> Breaks("timestamp_regression", Len(log))'
<1> DEFINE at == Len(log) + 1
           Is(rule) == [rule |-> rule, at |-> at]
<1>1. at \in Nat
  BY LenProperties DEF TypeOK
<1>2. ASSUME NEW rule \in Rules
      PROVE  Is(rule) \in Raised(f, at) <=> Breaks(rule, Len(log))'
  <2>1. Breaks(rule, Len(log))' => Is(rule) \in Raised(f, at)
    BY BreaksRaised
  <2>2. ASSUME Is(rule) \in Raised(f, at) PROVE Breaks(rule, Len(log))'
    <3>1. PICK x \in Raised(f, at) : x = Is(rule)
      BY <2>2
    <3>2. Breaks(x.rule, Len(log))'
      BY RaisedBreaks
    <3>3. x.rule = rule
      BY <3>1
    <3> QED BY <3>2, <3>3
  <2> QED BY <2>1, <2>2
<1>3. /\ "route_monitoring_before_peer_up" \in Rules
      /\ "timestamp_regression" \in Rules
  BY DEF Rules
<1>4. ASSUME NEW rule \in Rules
      PROVE  Is(rule) \in Finding /\ Is(rule).at = at /\ Is(rule).rule = rule
  BY <1>1 DEF Finding
<1>5. /\ Is("route_monitoring_before_peer_up") \in Raised(f, at) <=> BeforePeerUp(f)
      /\ Is("timestamp_regression") \in Raised(f, at) <=> Regresses(f)
  <2> DEFINE a == Is("route_monitoring_before_peer_up")
             b == Is("timestamp_regression")
  <2>1. /\ a \in Finding /\ a.at = at /\ a.rule = "route_monitoring_before_peer_up"
        /\ b \in Finding /\ b.at = at /\ b.rule = "timestamp_regression"
    BY <1>3, <1>4
  <2> HIDE DEF a, b, at
  <2>2. a \in Raised(f, at) <=> BeforePeerUp(f)
    BY <2>1 DEF Raised
  <2>3. b \in Raised(f, at) <=> Regresses(f)
    BY <2>1 DEF Raised
  <2> QED BY <2>2, <2>3 DEF a, b
<1> QED BY <1>2, <1>3, <1>5

LEMMA BumpedKinds ==
  ASSUME NEW f \in Capture, f.peer # NoPeer
  PROVE  /\ "up" \in Bumped(f) <=> f.type = "PeerUp"
         /\ "early" \in Bumped(f) <=> BeforePeerUp(f)
         /\ "regression" \in Bumped(f) <=> Regresses(f)
         /\ \/ /\ "up" \in Bumped(f) /\ "down" \notin Bumped(f)
               /\ "rm" \notin Bumped(f) /\ "other" \notin Bumped(f)
            \/ /\ "up" \notin Bumped(f) /\ "down" \in Bumped(f)
               /\ "rm" \notin Bumped(f) /\ "other" \notin Bumped(f)
            \/ /\ "up" \notin Bumped(f) /\ "down" \notin Bumped(f)
               /\ "rm" \in Bumped(f) /\ "other" \notin Bumped(f)
            \/ /\ "up" \notin Bumped(f) /\ "down" \notin Bumped(f)
               /\ "rm" \notin Bumped(f) /\ "other" \in Bumped(f)
<1>1. f.type \in PeerTypes
  BY CaptureAssumption
<1>2. /\ "up" \in Bumped(f) <=> f.type = "PeerUp"
      /\ "down" \in Bumped(f) <=> f.type = "PeerDown"
      /\ "rm" \in Bumped(f) <=> f.type \in RouteTypes
      /\ "other" \in Bumped(f) <=> f.type = "StatisticsReport"
  BY DEF Bumped, Counters
<1>3. /\ "early" \in Bumped(f) <=> BeforePeerUp(f)
      /\ "regression" \in Bumped(f) <=> Regresses(f)
  BY DEF Bumped, Counters
<1>4. \/ f.type = "PeerUp" /\ f.type \notin RouteTypes
      \/ f.type = "PeerDown" /\ f.type \notin RouteTypes
      \/ /\ f.type \in RouteTypes
         /\ f.type # "PeerUp" /\ f.type # "PeerDown" /\ f.type # "StatisticsReport"
      \/ f.type = "StatisticsReport" /\ f.type \notin RouteTypes
  BY <1>1 DEF PeerTypes, RouteTypes
<1> QED BY <1>2, <1>3, <1>4

LEMMA OneBumped ==
  ASSUME NEW a \in Nat, NEW b \in Nat, NEW c \in Nat, NEW d \in Nat,
         NEW x, NEW y, NEW z, NEW w,
         \/ x = a + 1 /\ y = b /\ z = c /\ w = d
         \/ x = a /\ y = b + 1 /\ z = c /\ w = d
         \/ x = a /\ y = b /\ z = c + 1 /\ w = d
         \/ x = a /\ y = b /\ z = c /\ w = d + 1
  PROVE  x + y + z + w = a + b + c + d + 1
OBVIOUS

LEMMA PeersCountedStep ==
  ASSUME TypeOK, PeerLifecycle, PeersCounted, NEW f \in Capture \cup {Malformed},
         log' = Append(log, f),
         IF f.peer = NoPeer THEN UNCHANGED peers ELSE UpdatePeer(f)
  PROVE  PeersCounted'
<1>1. log \in Seq(Capture \cup {Malformed}) /\ Len(log) \in Nat
  BY LenProperties DEF TypeOK
<1>2. PICK n \in Nat : n = Len(log)
  BY <1>1
<1>3. count \in [Peers -> [Counters -> Nat]]
  BY DEF TypeOK
<1>4. /\ "up" \in Counters /\ "down" \in Counters /\ "rm" \in Counters
      /\ "other" \in Counters /\ "early" \in Counters /\ "regression" \in Counters
  BY DEF Counters
<1> SUFFICES ASSUME NEW p \in Peers
             PROVE  /\ count'[p]["up"] = Cardinality(Ups(p)')
                    /\ count'[p]["early"] = Cardinality(Earlies(p)')
                    /\ count'[p]["regression"] = Cardinality(Regressions(p)')
                    /\ count'[p]["up"] + count'[p]["down"] + count'[p]["rm"]
                         + count'[p]["other"] = Cardinality(ItemsOf(p)')
  BY PrimedCounts
<1> DEFINE c == count[p]
           d == count'[p]
<1>5. /\ c["up"] = Cardinality(Ups(p))
      /\ c["early"] = Cardinality(Earlies(p))
      /\ c["regression"] = Cardinality(Regressions(p))
      /\ c["up"] + c["down"] + c["rm"] + c["other"] = Cardinality(ItemsOf(p))
  BY DEF PeersCounted, PeerCounted
<1>6. /\ c["up"] \in Nat /\ c["down"] \in Nat /\ c["rm"] \in Nat /\ c["other"] \in Nat
      /\ c["early"] \in Nat /\ c["regression"] \in Nat
  BY <1>3, <1>4
<1>7. /\ Grown(Ups(p), Ups(p)', n) /\ Grown(Earlies(p), Earlies(p)', n)
      /\ Grown(Regressions(p), Regressions(p)', n)
      /\ Grown(ItemsOf(p), ItemsOf(p)', n)
      /\ n + 1 \in Ups(p)' <=> f.peer = p /\ f.type = "PeerUp"
      /\ n + 1 \in Earlies(p)' <=>
           f.peer = p /\ Breaks("route_monitoring_before_peer_up", Len(log))'
      /\ n + 1 \in Regressions(p)' <=>
           f.peer = p /\ Breaks("timestamp_regression", Len(log))'
      /\ n + 1 \in ItemsOf(p)' <=> f.peer = p
  <2> DEFINE Items == Capture \cup {Malformed}
  <2>1. log \in Seq(Items) /\ f \in Items
    BY <1>1
  <2> HIDE DEF Items
  <2> QED BY <1>2, <2>1, PositionsStep
<1>8. /\ Cardinality(Ups(p)') = c["up"] + IF n + 1 \in Ups(p)' THEN 1 ELSE 0
      /\ Cardinality(Earlies(p)') = c["early"] + IF n + 1 \in Earlies(p)' THEN 1 ELSE 0
      /\ Cardinality(Regressions(p)')
           = c["regression"] + IF n + 1 \in Regressions(p)' THEN 1 ELSE 0
      /\ Cardinality(ItemsOf(p)')
           = Cardinality(ItemsOf(p)) + IF n + 1 \in ItemsOf(p)' THEN 1 ELSE 0
      /\ Cardinality(ItemsOf(p)) \in Nat
  <2>1. /\ n + 1 \in Ups(p)' => Cardinality(Ups(p)') = Cardinality(Ups(p)) + 1
        /\ n + 1 \notin Ups(p)' => Cardinality(Ups(p)') = Cardinality(Ups(p))
    BY <1>7, OneMore
  <2>2. /\ n + 1 \in Earlies(p)' => Cardinality(Earlies(p)') = Cardinality(Earlies(p)) + 1
        /\ n + 1 \notin Earlies(p)' => Cardinality(Earlies(p)') = Cardinality(Earlies(p))
    BY <1>7, OneMore
  <2>3. /\ n + 1 \in Regressions(p)'
             => Cardinality(Regressions(p)') = Cardinality(Regressions(p)) + 1
        /\ n + 1 \notin Regressions(p)'
             => Cardinality(Regressions(p)') = Cardinality(Regressions(p))
    BY <1>7, OneMore
  <2>4. /\ Cardinality(ItemsOf(p)) \in Nat
        /\ n + 1 \in ItemsOf(p)' => Cardinality(ItemsOf(p)') = Cardinality(ItemsOf(p)) + 1
        /\ n + 1 \notin ItemsOf(p)' => Cardinality(ItemsOf(p)') = Cardinality(ItemsOf(p))
    BY <1>7, OneMore
  <2> QED BY <1>5, <1>6, <2>1, <2>2, <2>3, <2>4
<1>9. CASE f.peer # p
  <2>1. d = c
    <3>1. CASE f.peer = NoPeer
      BY <3>1 DEF peers
    <3>2. CASE f.peer # NoPeer
      <4>1. count' = [count EXCEPT ![f.peer] =
               [k \in Counters |-> @[k] + IF k \in Bumped(f) THEN 1 ELSE 0]]
        BY <3>2 DEF UpdatePeer
      <4> QED BY <4>1, <1>3, <1>9
    <3> QED BY <3>1, <3>2
  <2> HIDE DEF c, d
  <2>2. /\ n + 1 \notin Ups(p)' /\ n + 1 \notin Earlies(p)'
        /\ n + 1 \notin Regressions(p)' /\ n + 1 \notin ItemsOf(p)'
    BY <1>7, <1>9
  <2>3. /\ d["up"] = Cardinality(Ups(p)') /\ d["early"] = Cardinality(Earlies(p)')
        /\ d["regression"] = Cardinality(Regressions(p)')
    BY <1>6, <1>8, <2>1, <2>2
  <2>4. d["up"] + d["down"] + d["rm"] + d["other"] = Cardinality(ItemsOf(p)')
    BY <1>5, <1>8, <2>1, <2>2
  <2> QED BY <2>3, <2>4 DEF d
<1>10. CASE f.peer = p
  <2>0. f.peer # NoPeer /\ f \in Capture
    BY <1>10, NoPeerAssumption, ItemTypes
  <2>1. \A k \in Counters : d[k] = c[k] + IF k \in Bumped(f) THEN 1 ELSE 0
    <3>1. count' = [count EXCEPT ![f.peer] =
             [k \in Counters |-> @[k] + IF k \in Bumped(f) THEN 1 ELSE 0]]
      BY <2>0 DEF UpdatePeer
    <3>2. d = [k \in Counters |-> c[k] + IF k \in Bumped(f) THEN 1 ELSE 0]
      BY <3>1, <1>3, <1>10
    <3> QED BY <3>2
  <2> HIDE DEF c, d
  <2>2. \A k \in Counters : /\ k \in Bumped(f) => d[k] = c[k] + 1
                            /\ k \notin Bumped(f) /\ c[k] \in Nat => d[k] = c[k]
    BY <2>1
  <2>3. /\ n + 1 \in Ups(p)' <=> "up" \in Bumped(f)
        /\ n + 1 \in Earlies(p)' <=> "early" \in Bumped(f)
        /\ n + 1 \in Regressions(p)' <=> "regression" \in Bumped(f)
        /\ n + 1 \in ItemsOf(p)'
    BY <1>7, <1>10, <2>0, BumpedBreaks, BumpedKinds
  <2>4. /\ d["up"] = Cardinality(Ups(p)') /\ d["early"] = Cardinality(Earlies(p)')
        /\ d["regression"] = Cardinality(Regressions(p)')
    BY <1>4, <1>8, <2>1, <2>3
  <2>5. d["up"] + d["down"] + d["rm"] + d["other"]
          = c["up"] + c["down"] + c["rm"] + c["other"] + 1
    <3>1. \/ /\ "up" \in Bumped(f) /\ "down" \notin Bumped(f)
             /\ "rm" \notin Bumped(f) /\ "other" \notin Bumped(f)
          \/ /\ "up" \notin Bumped(f) /\ "down" \in Bumped(f)
             /\ "rm" \notin Bumped(f) /\ "other" \notin Bumped(f)
          \/ /\ "up" \notin Bumped(f) /\ "down" \notin Bumped(f)
             /\ "rm" \in Bumped(f) /\ "other" \notin Bumped(f)
          \/ /\ "up" \notin Bumped(f) /\ "down" \notin Bumped(f)
             /\ "rm" \notin Bumped(f) /\ "other" \in Bumped(f)
      BY <2>0, BumpedKinds
    <3>2. \/ d["up"] = c["up"] + 1 /\ d["down"] = c["down"] /\ d["rm"] = c["rm"]
             /\ d["other"] = c["other"]
          \/ d["up"] = c["up"] /\ d["down"] = c["down"] + 1 /\ d["rm"] = c["rm"]
             /\ d["other"] = c["other"]
          \/ d["up"] = c["up"] /\ d["down"] = c["down"] /\ d["rm"] = c["rm"] + 1
             /\ d["other"] = c["other"]
          \/ d["up"] = c["up"] /\ d["down"] = c["down"] /\ d["rm"] = c["rm"]
             /\ d["other"] = c["other"] + 1
      BY <3>1, <1>4, <1>6, <2>2
    <3> DEFINE x == d["up"]
               y == d["down"]
               z == d["rm"]
               w == d["other"]
               a == c["up"]
               b == c["down"]
               r == c["rm"]
               o == c["other"]
    <3>3. /\ a \in Nat /\ b \in Nat /\ r \in Nat /\ o \in Nat
          /\ \/ x = a + 1 /\ y = b /\ z = r /\ w = o
             \/ x = a /\ y = b + 1 /\ z = r /\ w = o
             \/ x = a /\ y = b /\ z = r + 1 /\ w = o
             \/ x = a /\ y = b /\ z = r /\ w = o + 1
      BY <1>6, <3>2
    <3> HIDE DEF x, y, z, w, a, b, r, o
    <3>4. x + y + z + w = a + b + r + o + 1
      BY <3>3, OneBumped
    <3> QED BY <3>4 DEF x, y, z, w, a, b, r, o
  <2>6. d["up"] + d["down"] + d["rm"] + d["other"] = Cardinality(ItemsOf(p)')
    BY <1>5, <1>8, <2>3, <2>5
  <2> QED BY <2>4, <2>6 DEF d
<1> QED BY <1>9, <1>10

(* An event lists every rule its item breaks, kept or not.                 *)
LEMMA EventsStep ==
  ASSUME TypeInv, EventsListed, NEW g \in Capture \cup {Malformed},
         log' = Append(log, g), UNCHANGED command, NEW status \in {"ok", "error", "malformed"}, NEW fs,
         PushEvent(status, fs),
         \A x : x \in Told(fs) <=>
                  x \in Rules \X {Len(log) + 1} /\ Breaks(x[1], Len(log))'
  PROVE  EventsListed'
<1>1. /\ log \in Seq(Capture \cup {Malformed}) /\ Len(log) \in Nat
      /\ Len(log') = Len(log) + 1 /\ Len(events) \in Nat /\ eventsDropped \in Nat
      /\ DOMAIN events = 1..Len(events) /\ AtLeastOne(EventsArg) \in Nat
  BY LogStep, LenProperties, ArgsAssumption DEF TypeInv, TypeOK, AtLeastOne
<1>2. \A r : \A i \in 1..Len(log) : Breaks(r, i)' <=> Breaks(r, i)
  BY <1>1, PastBreaks
<1> SUFFICES ASSUME command = "dump"
             PROVE  /\ Len(events') + eventsDropped' = Len(log')
                    /\ eventsDropped' > 0 => Len(events') >= AtLeastOne(EventsArg)
                    /\ \A i \in DOMAIN events' :
                         events'[i].rules = {r \in Rules : Breaks(r, i)'}
  BY DEF EventsListed
<1>3. /\ Len(events) + eventsDropped = Len(log)
      /\ eventsDropped > 0 => Len(events) >= AtLeastOne(EventsArg)
      /\ \A i \in 1..Len(events) : events[i].rules = {r \in Rules : Breaks(r, i)}
  BY <1>1 DEF EventsListed
<1>4. \A i \in 1..Len(events) : events[i].rules = {r \in Rules : Breaks(r, i)'}
  <2>1. \A i \in 1..Len(events) : i \in 1..Len(log)
    BY <1>1, <1>3
  <2> QED BY <1>2, <1>3, <2>1
<1>5. CASE Len(events) >= AtLeastOne(EventsArg)
  <2>1. eventsDropped' = eventsDropped + 1 /\ events' = events
    BY <1>5 DEF PushEvent
  <2>2. Len(events') + eventsDropped' = Len(log')
    BY <1>1, <1>3, <2>1
  <2> QED BY <1>1, <1>4, <1>5, <2>1, <2>2
<1>6. CASE ~(Len(events) >= AtLeastOne(EventsArg))
  <2>0. PICK n \in Nat : n = Len(events)
    BY <1>1
  <2> DEFINE event == [status |-> status, rules |-> EventRules(fs)]
  <2>1. eventsDropped' = eventsDropped /\ events' = Append(events, event)
    BY <1>6 DEF PushEvent
  <2>2. eventsDropped = 0 /\ Len(log) = n
    <3> DEFINE most == AtLeastOne(EventsArg)
    <3>1. /\ n \in Nat /\ most \in Nat /\ ~(n >= most)
          /\ eventsDropped > 0 => n >= most
          /\ n + eventsDropped = Len(log)
      BY <1>1, <1>3, <1>6, <2>0
    <3> HIDE DEF most
    <3> QED BY <1>1, <3>1
  <2>3. event.rules = {r \in Rules : Breaks(r, Len(log))'}
    <3>1. event.rules = EventRules(fs)
      OBVIOUS
    <3>2. ASSUME NEW r \in EventRules(fs) PROVE r \in Rules /\ Breaks(r, Len(log))'
      <4>1. PICK k \in DOMAIN fs : r = fs[k].rule
        BY DEF EventRules
      <4>2. <<fs[k].rule, fs[k].at>> \in Told(fs)
        BY DEF Told
      <4> DEFINE x == <<fs[k].rule, fs[k].at>>
      <4>3. x[1] = r /\ x \in Rules \X {Len(log) + 1} /\ Breaks(x[1], Len(log))'
        BY <4>1, <4>2
      <4> HIDE DEF x
      <4> QED BY <4>3
    <3>3. ASSUME NEW r \in Rules, Breaks(r, Len(log))' PROVE r \in EventRules(fs)
      <4> DEFINE x == <<r, Len(log) + 1>>
      <4>1. x \in Rules \X {Len(log) + 1} /\ x[1] = r
        OBVIOUS
      <4>2. x \in Told(fs)
        BY <3>3, <4>1
      <4>3. PICK k \in DOMAIN fs : x = <<fs[k].rule, fs[k].at>>
        BY <4>2 DEF Told
      <4>4. r = fs[k].rule
        BY <4>3
      <4> QED BY <4>4 DEF EventRules
    <3> HIDE DEF event
    <3> QED BY <3>1, <3>2, <3>3
  <2> HIDE DEF event
  <2>4. /\ Len(events') = n + 1 /\ DOMAIN events' = 1..(n+1)
        /\ events'[n+1] = event /\ \A i \in 1..n : events'[i] = events[i]
    <3> DEFINE E == [status: {"ok", "error", "malformed"}, rules: SUBSET Rules]
    <3>1. events \in Seq(E)
      BY DEF TypeInv, TypeOK
    <3>2. event \in E
      BY <2>3 DEF event
    <3> HIDE DEF E
    <3>3. Append(events, event) \in Seq(E)
      BY <3>1, <3>2, AppendProperties
    <3> QED BY <2>1, <3>1, <3>2, <3>3, <2>0, AppendProperties, LenProperties
  <2>5. n \in Nat /\ Len(log') = n + 1
    BY <1>1, <2>2
  <2>6. \A r : r \in event.rules <=> r \in Rules /\ Breaks(r, n + 1)'
    <3>1. ASSUME NEW r, Breaks(r, Len(log))' PROVE Breaks(r, n + 1)'
      BY <2>5, <3>1
    <3>2. ASSUME NEW r, Breaks(r, n + 1)' PROVE Breaks(r, Len(log))'
      BY <2>5, <3>2
    <3> QED BY <2>3, <3>1, <3>2
  <2>7. \A i \in 1..(n+1) : events'[i].rules = {r \in Rules : Breaks(r, i)'}
    <3>1. ASSUME NEW i \in 1..(n+1), NEW r
          PROVE  r \in events'[i].rules <=> r \in Rules /\ Breaks(r, i)'
      <4>1. CASE i = n + 1
        <5>1. events'[i] = event
          BY <2>4, <4>1
        <5>2. ASSUME Breaks(r, n + 1)' PROVE Breaks(r, i)'
          BY <4>1, <5>2
        <5>3. ASSUME Breaks(r, i)' PROVE Breaks(r, n + 1)'
          BY <4>1, <5>3
        <5> QED BY <2>6, <5>1, <5>2, <5>3
      <4>2. CASE i # n + 1
        <5>1. i \in 1..n
          BY <2>5, <4>2
        <5>2. events'[i] = events[i]
          BY <2>4, <5>1
        <5>3. events[i].rules = {z \in Rules : Breaks(z, i)'}
          BY <1>4, <2>0, <5>1
        <5> QED BY <5>2, <5>3
      <4> QED BY <4>1, <4>2
    <3> QED BY <3>1
  <2>8. Len(events') + eventsDropped' = Len(log') /\ ~(eventsDropped' > 0)
    BY <2>1, <2>2, <2>4, <2>5
  <2> QED BY <2>4, <2>7, <2>8
<1> QED BY <1>5, <1>6

History == PeersCounted /\ EventsListed

LEMMA InitHistory == Init => History
<1> SUFFICES ASSUME Init PROVE History
  OBVIOUS
<1>1. /\ log = <<>> /\ Len(log) = 0 /\ events = <<>> /\ eventsDropped = 0
      /\ Len(events) = 0 /\ DOMAIN events = {}
      /\ count = [p \in Peers |-> [c \in Counters |-> 0]]
  BY DEF Init
<1>2. EventsListed
  BY <1>1 DEF EventsListed
<1>3. ASSUME NEW p \in Peers PROVE PeerCounted(p)
  <2>1. /\ Ups(p) = {} /\ Earlies(p) = {} /\ Regressions(p) = {} /\ ItemsOf(p) = {}
    BY <1>1 DEF Ups, Earlies, Regressions, ItemsOf, Positions
  <2>2. \A c \in Counters : count[p][c] = 0
    BY <1>1
  <2>3. /\ count[p]["up"] = 0 /\ count[p]["down"] = 0 /\ count[p]["rm"] = 0
        /\ count[p]["other"] = 0 /\ count[p]["early"] = 0
        /\ count[p]["regression"] = 0
    BY <2>2 DEF Counters
  <2> QED BY <2>1, <2>3, FS_EmptySet DEF PeerCounted
<1> QED BY <1>2, <1>3 DEF History, PeersCounted

LEMMA NextHistory == Sound /\ History /\ [Next]_vars => History'
<1> SUFFICES ASSUME Sound, History, [Next]_vars PROVE History'
  OBVIOUS
<1>0. TypeInv /\ TypeOK /\ PeerLifecycle /\ PeersCounted /\ EventsListed
  BY DEF Sound, TypeInv, History
<1>1. ASSUME NEW f \in Capture, ProcessFrame(f) PROVE History'
  <2> DEFINE fs == FrameFindings(f, Len(log) + 1)
  <2>1. /\ log' = Append(log, f) /\ UNCHANGED command
        /\ IF f.peer = NoPeer THEN UNCHANGED peers ELSE UpdatePeer(f)
        /\ \E status \in {"ok", "error", "malformed"} : PushEvent(status, fs)
    BY <1>1 DEF ProcessFrame
  <2>2. \A x : x \in Told(fs) <=>
                 x \in Rules \X {Len(log) + 1} /\ Breaks(x[1], Len(log))'
    BY <1>0, <2>1, FrameTold
  <2> HIDE DEF fs
  <2>3. PeersCounted'
    BY <1>0, <2>1, PeersCountedStep
  <2>4. EventsListed'
    BY <1>0, <2>1, <2>2, EventsStep
  <2> QED BY <2>3, <2>4 DEF History
<1>2. CASE ProcessMalformed
  <2> DEFINE fs == When(TRUE, "truncated_frame", Len(log) + 1)
  <2>1. /\ log' = Append(log, Malformed) /\ UNCHANGED command
        /\ UNCHANGED peers /\ PushEvent("malformed", fs)
    BY <1>2 DEF ProcessMalformed
  <2>2. \A x : x \in Told(fs) <=>
                 x \in Rules \X {Len(log) + 1} /\ Breaks(x[1], Len(log))'
    BY <1>0, <2>1, MalformedTold
  <2> HIDE DEF fs
  <2>3. PeersCounted'
    <3>1. Malformed.peer = NoPeer
      BY ItemTypes
    <3> QED BY <1>0, <2>1, <3>1, PeersCountedStep
  <2>4. EventsListed'
    BY <1>0, <2>1, <2>2, EventsStep
  <2> QED BY <2>3, <2>4 DEF History
<1>3. CASE OpenFails \/ Open \/ Finish \/ IoError \/ UNCHANGED vars
  <2>1. UNCHANGED <<log, count, command, events, eventsDropped>>
    BY <1>3 DEF OpenFails, Open, Finish, IoError, vars, peers, jsonl
  <2>2. \A r, i : Breaks(r, i)' <=> Breaks(r, i)
    BY <2>1 DEF Breaks, Older, OpenAfter, UpAmong, Of
  <2>3. \A p : /\ Ups(p)' = Ups(p) /\ Earlies(p)' = Earlies(p)
               /\ Regressions(p)' = Regressions(p) /\ ItemsOf(p)' = ItemsOf(p)
    BY <2>1, <2>2 DEF Ups, Earlies, Regressions, ItemsOf, Positions
  <2>4. PeersCounted'
    BY <1>0, <2>1, <2>3, PrimedCounts DEF PeersCounted, PeerCounted
  <2>5. EventsListed'
    BY <1>0, <2>1, <2>2 DEF EventsListed
  <2> QED BY <2>4, <2>5 DEF History
<1> QED BY <1>1, <1>2, <1>3 DEF Next

LEMMA HistoryAlways == Spec => []History
BY InitHistory, NextHistory, SoundAlways, PTL DEF Spec

LEMMA CountersFollow == History => CountersMatchHistory
<1> SUFFICES ASSUME History PROVE CountersMatchHistory
  OBVIOUS
<1>1. ASSUME NEW p \in Peers
      PROVE  /\ count[p]["up"]
                  = Cardinality({i \in Positions : log[i].peer = p /\ log[i].type = "PeerUp"})
             /\ count[p]["early"]
                  = Cardinality({i \in Positions :
                      log[i].peer = p /\ Breaks("route_monitoring_before_peer_up", i)})
             /\ count[p]["regression"]
                  = Cardinality({i \in Positions :
                      log[i].peer = p /\ Breaks("timestamp_regression", i)})
             /\ count[p]["up"] + count[p]["down"] + count[p]["rm"] + count[p]["other"]
                  = Cardinality({i \in Positions : log[i].peer = p /\ TRUE})
  <2>1. ItemsOf(p) = {i \in Positions : log[i].peer = p /\ TRUE}
    BY DEF ItemsOf
  <2> QED BY <2>1 DEF History, PeersCounted, PeerCounted, Ups, Earlies, Regressions
<1>2. command = "dump" =>
        /\ Len(events) + eventsDropped = Len(log)
        /\ \A i \in DOMAIN events : events[i].rules = {r \in Rules : Breaks(r, i)}
  BY DEF History, EventsListed
<1> QED BY <1>1, <1>2 DEF CountersMatchHistory

(* No cap shortens what is counted: for any number of peers and items the  *)
(* counters of Peer Ups, of route monitorings before a Peer Up and of      *)
(* timestamp regressions of a peer are the numbers of its frames that are  *)
(* such, its four counters of frames add up to all its frames, and dump    *)
(* lists for the first items, up to its own cap, every rule the item       *)
(* breaks (doctor.rs:112-119, 153-170, 228-359).                           *)
THEOREM CountersCorrect == Spec => []CountersMatchHistory
BY HistoryAlways, CountersFollow, PTL

-----------------------------------------------------------------------------
(* What the report takes from the state besides the findings: the kept     *)
(* messages and whether any frame could not be read.                       *)
FirstKept(kept, type) ==
  \/ /\ kept = 0
     /\ \A i \in Positions : ~(log[i].type = type /\ log[i].body)
  \/ /\ kept \in Positions /\ log[kept].type = type /\ log[kept].body
     /\ \A i \in Positions : log[i].type = type /\ log[i].body => kept <= i

MalformedSeen == malformed > 0 <=> \E i \in Positions : log[i].type = "Malformed"

InfosKept ==
  /\ FirstKept(initInfo, "Initiation")
  /\ FirstKept(termInfo, "Termination")
  /\ FirstKept(statsInfo, "StatisticsReport")

LEMMA FirstKeptStep ==
  ASSUME NEW S, log \in Seq(S), NEW g \in S, log' = Append(log, g), NEW type,
         NEW kept, NEW next, FirstKept(kept, type),
         next = KeepFirst(kept, type, g, Len(log) + 1)
  PROVE  FirstKept(next, type)'
<1>1. PICK n \in Nat : n = Len(log)
  BY LogStep
<1>2. /\ Len(log') = n + 1 /\ log'[n + 1] = g
      /\ \A j \in 1..n : log'[j] = log[j]
  BY <1>1, LogStep
<1>3. Positions = 1..n /\ Positions' = 1..(n+1)
  BY <1>1, <1>2 DEF Positions
<1>4. CASE kept = 0 /\ \A i \in 1..n : ~(log[i].type = type /\ log[i].body)
  <2>1. CASE g.type = type /\ g.body
    <3>1. next = n + 1
      BY <1>1, <1>4, <2>1 DEF KeepFirst
    <3>2. \A i \in 1..(n+1) : log'[i].type = type /\ log'[i].body => n + 1 <= i
      BY <1>2, <1>4
    <3>3. n + 1 \in 1..(n+1)
      OBVIOUS
    <3> QED BY <1>2, <1>3, <2>1, <3>1, <3>2, <3>3 DEF FirstKept
  <2>2. CASE ~(g.type = type /\ g.body)
    <3>1. next = 0
      BY <1>4, <2>2 DEF KeepFirst
    <3>2. \A i \in 1..(n+1) : ~(log'[i].type = type /\ log'[i].body)
      BY <1>2, <1>4, <2>2
    <3> QED BY <1>3, <3>1, <3>2 DEF FirstKept
  <2> QED BY <2>1, <2>2
<1>5. CASE /\ kept \in 1..n /\ log[kept].type = type /\ log[kept].body
           /\ \A i \in 1..n : log[i].type = type /\ log[i].body => kept <= i
  <2>1. next = kept
    BY <1>5 DEF KeepFirst
  <2>2. /\ kept \in 1..(n+1) /\ log'[kept].type = type /\ log'[kept].body
        /\ \A i \in 1..(n+1) : log'[i].type = type /\ log'[i].body => kept <= i
    BY <1>2, <1>5
  <2> QED BY <1>3, <2>1, <2>2 DEF FirstKept
<1> QED BY <1>3, <1>4, <1>5 DEF FirstKept

LEMMA InfosStep ==
  ASSUME InfosKept, NEW S, log \in Seq(S), NEW g \in S, log' = Append(log, g),
         CollectInfo(g, Len(log) + 1)
  PROVE  InfosKept'
<1>1. PICK i, t, s : i = initInfo' /\ t = termInfo' /\ s = statsInfo'
  OBVIOUS
<1>2. /\ i = KeepFirst(initInfo, "Initiation", g, Len(log) + 1)
      /\ t = KeepFirst(termInfo, "Termination", g, Len(log) + 1)
      /\ s = KeepFirst(statsInfo, "StatisticsReport", g, Len(log) + 1)
  BY <1>1 DEF CollectInfo
<1>3. FirstKept(i, "Initiation")'
  BY <1>2, FirstKeptStep DEF InfosKept
<1>4. FirstKept(t, "Termination")'
  BY <1>2, FirstKeptStep DEF InfosKept
<1>5. FirstKept(s, "StatisticsReport")'
  BY <1>2, FirstKeptStep DEF InfosKept
<1>6. FirstKept(initInfo, "Initiation")'
  BY <1>1, <1>3 DEF FirstKept
<1>7. FirstKept(termInfo, "Termination")'
  BY <1>1, <1>4 DEF FirstKept
<1>8. FirstKept(statsInfo, "StatisticsReport")'
  BY <1>1, <1>5 DEF FirstKept
<1> QED BY <1>6, <1>7, <1>8 DEF InfosKept

LEMMA InitReported == Init => InfosKept /\ MalformedSeen
<1> SUFFICES ASSUME Init PROVE InfosKept /\ MalformedSeen
  OBVIOUS
<1>1. /\ Positions = {} /\ initInfo = 0 /\ termInfo = 0 /\ statsInfo = 0
      /\ malformed = 0
  BY DEF Init, Positions
<1> QED BY <1>1 DEF InfosKept, FirstKept, MalformedSeen

LEMMA NextReported ==
  TypeOK /\ InfosKept /\ MalformedSeen /\ [Next]_vars => InfosKept' /\ MalformedSeen'
<1> SUFFICES ASSUME TypeOK, InfosKept, MalformedSeen, [Next]_vars
             PROVE  InfosKept' /\ MalformedSeen'
  OBVIOUS
<1>0. /\ log \in Seq(Capture \cup {Malformed}) /\ malformed \in Nat
  BY DEF TypeOK
<1>1. ASSUME NEW g \in Capture \cup {Malformed}, log' = Append(log, g)
      PROVE  (\E i \in Positions' : log'[i].type = "Malformed") <=>
                \/ g.type = "Malformed"
                \/ \E i \in Positions : log[i].type = "Malformed"
  <2>1. PICK n \in Nat : n = Len(log)
    BY <1>0, <1>1, LogStep
  <2>2. /\ Len(log') = n + 1 /\ log'[n + 1] = g
        /\ \A j \in 1..n : log'[j] = log[j]
    BY <1>0, <1>1, <2>1, LogStep
  <2>3. /\ Positions = 1..n /\ Positions' = 1..(n+1)
        /\ \A i \in 1..(n+1) : i \in 1..n \/ i = n + 1
        /\ n + 1 \in 1..(n+1) /\ \A i \in 1..n : i \in 1..(n+1)
    BY <2>1, <2>2 DEF Positions
  <2> QED BY <2>2, <2>3
<1>2. ASSUME NEW f \in Capture, ProcessFrame(f) PROVE InfosKept' /\ MalformedSeen'
  <2>1. /\ log' = Append(log, f) /\ malformed' = malformed
        /\ CollectInfo(f, Len(log) + 1)
    BY <1>2 DEF ProcessFrame
  <2>2. InfosKept'
    <3> DEFINE Items == Capture \cup {Malformed}
    <3>1. log \in Seq(Items) /\ f \in Items
      BY <1>0
    <3> HIDE DEF Items
    <3> QED BY <2>1, <3>1, InfosStep
  <2>3. f.type # "Malformed"
    BY ItemTypes DEF Frames, RawTypes, MsgTypes, PeerTypes, RouteTypes
  <2> QED BY <1>1, <2>1, <2>2, <2>3 DEF MalformedSeen
<1>3. CASE ProcessMalformed
  <2>1. /\ log' = Append(log, Malformed) /\ malformed' = malformed + 1
        /\ UNCHANGED infos
    BY <1>3 DEF ProcessMalformed
  <2>2. CollectInfo(Malformed, Len(log) + 1)
    BY <2>1 DEF CollectInfo, KeepFirst, Malformed, infos
  <2>3. InfosKept'
    <3> DEFINE Items == Capture \cup {Malformed}
    <3>1. log \in Seq(Items) /\ Malformed \in Items
      BY <1>0
    <3> HIDE DEF Items
    <3> QED BY <2>1, <2>2, <3>1, InfosStep
  <2>4. Malformed.type = "Malformed" /\ malformed' > 0
    BY <1>0, <2>1, ItemTypes
  <2>5. \E i \in Positions' : log'[i].type = "Malformed"
    BY <1>1, <2>1, <2>4
  <2> QED BY <2>3, <2>4, <2>5 DEF MalformedSeen
<1>4. CASE OpenFails \/ Open \/ Finish \/ IoError \/ UNCHANGED vars
  <2>1. UNCHANGED <<log, malformed, initInfo, termInfo, statsInfo>>
    BY <1>4 DEF OpenFails, Open, Finish, IoError, vars, state, infos
  <2> QED BY <2>1 DEF InfosKept, FirstKept, MalformedSeen, Positions
<1> QED BY <1>2, <1>3, <1>4 DEF Next

-----------------------------------------------------------------------------
(* The findings of some rules, counted.                                    *)
KeptAt(rules) == {i \in DOMAIN findings : findings[i].rule \in rules}

LEMMA KeptFacts ==
  ASSUME TypeOK, NEW rules
  PROVE  /\ Kept(rules) = Cardinality(KeptAt(rules))
         /\ IsFiniteSet(KeptAt(rules)) /\ Kept(rules) \in Nat
         /\ Kept(rules) > 0 <=> \E i \in DOMAIN findings : findings[i].rule \in rules
<1>1. findings \in Seq(Finding)
  BY DEF TypeOK
<1>2. DOMAIN findings = 1..Len(findings) /\ Len(findings) \in Nat
  BY <1>1, LenProperties
<1>3. IsFiniteSet(KeptAt(rules))
  <2>1. IsFiniteSet(1..Len(findings))
    BY <1>2, FS_Interval
  <2> QED BY <1>2, <2>1, FS_Subset DEF KeptAt
<1>4. Kept(rules) = Cardinality(KeptAt(rules))
  BY DEF Kept, KeptAt
<1>5. Cardinality(KeptAt(rules)) \in Nat
  BY <1>3, FS_CardinalityType
<1>6. Cardinality(KeptAt(rules)) = 0 <=> KeptAt(rules) = {}
  BY <1>3, FS_EmptySet
<1>7. KeptAt(rules) = {} <=> ~\E i \in DOMAIN findings : findings[i].rule \in rules
  BY DEF KeptAt
<1> QED BY <1>3, <1>4, <1>5, <1>6, <1>7

LEMMA KeptSplit ==
  ASSUME TypeOK, NEW A, NEW B, A \cap B = {}
  PROVE  Kept(A \cup B) = Kept(A) + Kept(B)
<1>1. /\ Kept(A) = Cardinality(KeptAt(A)) /\ IsFiniteSet(KeptAt(A)) /\ Kept(A) \in Nat
      /\ Kept(B) = Cardinality(KeptAt(B)) /\ IsFiniteSet(KeptAt(B)) /\ Kept(B) \in Nat
      /\ Kept(A \cup B) = Cardinality(KeptAt(A \cup B))
  BY KeptFacts
<1>2. KeptAt(A \cup B) = KeptAt(A) \cup KeptAt(B) /\ KeptAt(A) \cap KeptAt(B) = {}
  BY DEF KeptAt
<1>3. Cardinality(KeptAt(A) \cup KeptAt(B))
        = Cardinality(KeptAt(A)) + Cardinality(KeptAt(B))
            - Cardinality(KeptAt(A) \cap KeptAt(B))
  BY <1>1, FS_Union
<1>4. Cardinality(KeptAt(A) \cap KeptAt(B)) = 0
  BY <1>2, FS_EmptySet
<1>5. Kept(A \cup B) = Cardinality(KeptAt(A) \cup KeptAt(B))
  BY <1>1, <1>2
<1> DEFINE a == Cardinality(KeptAt(A))
           b == Cardinality(KeptAt(B))
           k == Cardinality(KeptAt(A) \cup KeptAt(B))
           i == Cardinality(KeptAt(A) \cap KeptAt(B))
<1>6. a \in Nat /\ b \in Nat /\ k = a + b - i /\ i = 0
  BY <1>1, <1>3, <1>4
<1> HIDE DEF a, b, k, i
<1>7. k = a + b
  BY <1>6
<1> QED BY <1>1, <1>5, <1>7 DEF a, b, k

LEMMA KeptAll ==
  ASSUME TypeOK
  PROVE  Kept(Rules) = Len(findings)
<1>1. findings \in Seq(Finding)
  BY DEF TypeOK
<1>2. DOMAIN findings = 1..Len(findings) /\ Len(findings) \in Nat
  BY <1>1, LenProperties
<1>3. \A i \in 1..Len(findings) : findings[i].rule \in Rules
  <2>1. \A i \in 1..Len(findings) : findings[i] \in Finding
    BY <1>1, ElementOfSeq
  <2> QED BY <2>1 DEF Finding
<1>4. KeptAt(Rules) = 1..Len(findings)
  BY <1>2, <1>3 DEF KeptAt
<1>5. Cardinality(1..Len(findings)) = Len(findings)
  <2>1. \A n \in Nat : Cardinality(1..n) = IF 1 > n THEN 0 ELSE n - 1 + 1
    BY FS_Interval
  <2>2. \A n \in Nat : (IF 1 > n THEN 0 ELSE n - 1 + 1) = n
    OBVIOUS
  <2> QED BY <1>2, <2>1, <2>2
<1> QED BY <1>4, <1>5, KeptFacts

LEMMA SumsAddUp ==
  ASSUME TypeOK
  PROVE  /\ Buckets.parse + Buckets.order + Buckets.other = Len(findings)
         /\ Severities.error + Severities.warn = Len(findings)
<1>1. /\ Buckets.parse = Kept(ParseRules) /\ Buckets.order = Kept(OrderRules)
      /\ Buckets.other = Kept(Rules \ (ParseRules \cup OrderRules))
      /\ Severities.error = Kept(ErrorRules) /\ Severities.warn = Kept(Rules \ ErrorRules)
  BY DEF Buckets, Severities
<1>2. /\ ParseRules \cap OrderRules = {}
      /\ ParseRules \cup OrderRules \subseteq Rules /\ ErrorRules \subseteq Rules
  BY DEF ParseRules, OrderRules, ErrorRules, Rules
<1> DEFINE listed == ParseRules \cup OrderRules
<1>3. Kept(listed) = Kept(ParseRules) + Kept(OrderRules)
  BY <1>2, KeptSplit
<1>4. Kept(listed \cup (Rules \ listed)) = Kept(listed) + Kept(Rules \ listed)
  <2> HIDE DEF listed
  <2>1. listed \cap (Rules \ listed) = {}
    OBVIOUS
  <2> QED BY <2>1, KeptSplit
<1>5. Kept(ErrorRules \cup (Rules \ ErrorRules))
        = Kept(ErrorRules) + Kept(Rules \ ErrorRules)
  <2>1. ErrorRules \cap (Rules \ ErrorRules) = {}
    OBVIOUS
  <2> QED BY <2>1, KeptSplit
<1>6. listed \cup (Rules \ listed) = Rules /\ ErrorRules \cup (Rules \ ErrorRules) = Rules
  BY <1>2
<1>7. /\ Kept(ParseRules) \in Nat /\ Kept(OrderRules) \in Nat
      /\ Kept(Rules \ listed) \in Nat
  BY KeptFacts
<1> QED BY <1>1, <1>3, <1>4, <1>5, <1>6, <1>7, KeptAll

(* What a kept finding stands for, and when one is kept.                   *)
LEMMA KeptBroken ==
  ASSUME Sound, NEW rules
  PROVE  /\ Kept(rules) > 0 => \E x \in Broken : x[1] \in rules
         /\ findingsDropped = 0 /\ (\E x \in Broken : x[1] \in rules) => Kept(rules) > 0
<1>1. TypeOK /\ FindingsSound /\ NoneMissed /\ findings \in Seq(Finding)
  BY DEF Sound, TypeInv, TypeOK
<1>2. ASSUME Kept(rules) > 0 PROVE \E x \in Broken : x[1] \in rules
  <2>1. PICK i \in DOMAIN findings : findings[i].rule \in rules
    BY <1>1, <1>2, KeptFacts
  <2>2. findings[i] \in Finding
    BY <1>1, ElementOfSeq, LenProperties
  <2>3. findings[i].rule \in Rules
    BY <2>2 DEF Finding
  <2>4. findings[i].at \in Positions /\ Breaks(findings[i].rule, findings[i].at)
    BY <1>1 DEF FindingsSound
  <2>5. <<findings[i].rule, findings[i].at>> \in Broken
    BY <2>3, <2>4 DEF Broken
  <2> QED BY <2>1, <2>5
<1>3. ASSUME findingsDropped = 0, NEW x \in Broken, x[1] \in rules
      PROVE  Kept(rules) > 0
  <2>1. x[1] \in Rules /\ x[2] \in Positions /\ Breaks(x[1], x[2])
    BY DEF Broken
  <2>2. PICK k \in DOMAIN findings : findings[k] = [rule |-> x[1], at |-> x[2]]
    BY <1>1, <1>3, <2>1 DEF NoneMissed, In
  <2>3. findings[k].rule \in rules
    BY <1>3, <2>2
  <2> QED BY <1>1, <2>3, KeptFacts
<1> QED BY <1>2, <1>3

(* The peers the report orders: those of the items, and by whom each is    *)
(* preceded.                                                               *)
LEMMA ObservedPeers ==
  ASSUME TypeOK, PeerLifecycle
  PROVE  /\ Observed = {log[i].peer : i \in Positions} \ {NoPeer}
         /\ IsFiniteSet(Observed)
<1>1. log \in Seq(Capture \cup {Malformed}) /\ Len(log) \in Nat
  BY LenProperties DEF TypeOK
<1>2. ASSUME NEW i \in Positions, log[i].peer # NoPeer
      PROVE  log[i].peer \in Peers /\ log[i].ts \in Nat
  <2>1. log[i] \in Capture \cup {Malformed}
    BY <1>1, ElementOfSeq DEF Positions
  <2> QED BY <1>2, <2>1, ItemTypes DEF Frames
<1>3. ASSUME NEW p \in Peers
      PROVE  lastTs[p] # NoTs <=> \E i \in Positions : log[i].peer = p
  <2>1. p # NoPeer
    BY NoPeerAssumption
  <2>2. \/ lastTs[p] = NoTs /\ \A i \in Positions : log[i].peer # p
        \/ \E i \in Positions : log[i].peer = p /\ lastTs[p] = log[i].ts
    BY DEF PeerLifecycle
  <2> QED BY <1>2, <2>1, <2>2, NoTsAssumption
<1>4. Observed = {log[i].peer : i \in Positions} \ {NoPeer}
  BY <1>2, <1>3, NoPeerAssumption DEF Observed
<1>5. IsFiniteSet(Observed)
  <2> DEFINE f == [i \in Positions |-> log[i].peer]
             T == {log[i].peer : i \in Positions}
  <2>1. IsFiniteSet(Positions)
    BY <1>1, FS_Interval DEF Positions
  <2>2. f \in Surjection(Positions, T)
    BY DEF Surjection
  <2> HIDE DEF f, T
  <2>3. IsFiniteSet(T)
    BY <2>1, <2>2, FS_Surjection
  <2>4. Observed \subseteq T
    BY <1>4 DEF T
  <2> QED BY <2>3, <2>4, FS_Subset
<1> QED BY <1>4, <1>5

AheadOf(p) == {q \in Observed : Ahead(q, p)}

LEMMA AheadOrders ==
  ASSUME TypeOK
  PROVE  Orders([p \in Observed |-> AheadOf(p)], Observed)
<1>1. /\ KeyOrder \in Seq(Peers) /\ DOMAIN KeyOrder = 1..Len(KeyOrder)
      /\ Len(KeyOrder) \in Nat
  BY KeyOrderAssumption, LenProperties
<1> DEFINE N == Len(KeyOrder)
<1>2. \A p \in Observed : count[p]["rm"] \in Nat
  BY DEF TypeOK, Observed, Counters
<1>3. \A p \in Observed : \E i \in 1..N : KeyOrder[i] = p
  <2>1. Observed \subseteq Peers
    BY DEF Observed
  <2> QED BY <1>1, <2>1, KeyOrderAssumption
<1>4. \A i, j \in 1..N : KeyOrder[i] = KeyOrder[j] => i = j
  BY <1>1, KeyOrderAssumption
<1>5. \A p, q : Ahead(p, q) <=>
        \/ count[p]["rm"] > count[q]["rm"]
        \/ /\ count[p]["rm"] = count[q]["rm"]
           /\ \E i, j \in 1..N : KeyOrder[i] = p /\ KeyOrder[j] = q /\ i < j
  BY <1>1 DEF Ahead
<1>6. \A i, j, k \in 1..N : (i < j /\ j < k => i < k) /\ ~(i < i)
                              /\ (i < j \/ i = j \/ j < i)
  BY <1>1
<1> HIDE DEF N
<1> DEFINE Before(p, q) == \E i, j \in 1..N : KeyOrder[i] = p /\ KeyOrder[j] = q /\ i < j
<1>7. ASSUME NEW p \in Observed, NEW q \in Observed, NEW r \in Observed
      PROVE  /\ ~Before(p, p)
             /\ Before(p, q) /\ Before(q, r) => Before(p, r)
             /\ p # q => Before(p, q) \/ Before(q, p)
  <2>1. PICK i \in 1..N, j \in 1..N, k \in 1..N :
          KeyOrder[i] = p /\ KeyOrder[j] = q /\ KeyOrder[k] = r
    BY <1>3
  <2>2. /\ \A x \in 1..N : KeyOrder[x] = p => x = i
        /\ \A x \in 1..N : KeyOrder[x] = q => x = j
        /\ \A x \in 1..N : KeyOrder[x] = r => x = k
    BY <1>4, <2>1
  <2>3. /\ Before(p, p) <=> i < i
        /\ Before(p, q) <=> i < j
        /\ Before(q, p) <=> j < i
        /\ Before(q, r) <=> j < k
        /\ Before(p, r) <=> i < k
    BY <2>1, <2>2
  <2>4. p # q => i # j
    BY <2>1
  <2> HIDE DEF Before
  <2> QED BY <1>6, <2>3, <2>4
<1>8. \A p, q : Ahead(p, q) <=> \/ count[p]["rm"] > count[q]["rm"]
                                \/ count[p]["rm"] = count[q]["rm"] /\ Before(p, q)
  BY <1>5
<1> HIDE DEF Before
<1>9. ASSUME NEW p \in Observed, NEW q \in Observed, NEW r \in Observed
      PROVE  /\ ~Ahead(p, p)
             /\ Ahead(p, q) /\ Ahead(q, r) => Ahead(p, r)
             /\ p # q => Ahead(p, q) \/ Ahead(q, p)
  <2> DEFINE a == count[p]["rm"]
             b == count[q]["rm"]
             c == count[r]["rm"]
  <2>1. a \in Nat /\ b \in Nat /\ c \in Nat
    BY <1>2
  <2>2. /\ Ahead(p, p) <=> a > a \/ (a = a /\ Before(p, p))
        /\ Ahead(p, q) <=> a > b \/ (a = b /\ Before(p, q))
        /\ Ahead(q, p) <=> b > a \/ (b = a /\ Before(q, p))
        /\ Ahead(q, r) <=> b > c \/ (b = c /\ Before(q, r))
        /\ Ahead(p, r) <=> a > c \/ (a = c /\ Before(p, r))
    BY <1>8
  <2>3. /\ ~Before(p, p)
        /\ Before(p, q) /\ Before(q, r) => Before(p, r)
        /\ p # q => Before(p, q) \/ Before(q, p)
    BY <1>7
  <2> HIDE DEF a, b, c
  <2>4. ~Ahead(p, p)
    BY <2>1, <2>2, <2>3
  <2>5. p # q => Ahead(p, q) \/ Ahead(q, p)
    BY <2>1, <2>2, <2>3
  <2>6. Ahead(p, q) /\ Ahead(q, r) => Ahead(p, r)
    BY <2>1, <2>2, <2>3
  <2> QED BY <2>4, <2>5, <2>6
<1> QED BY <1>9 DEF Orders, AheadOf

LEMMA ShownPeers ==
  ASSUME TypeOK, PeerLifecycle
  PROVE  /\ Cardinality(Observed) \in Nat
         /\ Cardinality(PeersShown)
              = IF Cardinality(Observed) <= MaxPeersArg
                THEN Cardinality(Observed) ELSE MaxPeersArg
         /\ \A p \in PeersShown, q \in Observed \ PeersShown :
              count[q]["rm"] <= count[p]["rm"]
<1> DEFINE before == [p \in Observed |-> AheadOf(p)]
<1>1. IsFiniteSet(Observed) /\ Orders(before, Observed)
  BY ObservedPeers, AheadOrders
<1>2. PeersShown = {p \in Observed : Cardinality(before[p]) < MaxPeersArg}
  BY DEF PeersShown, AheadOf
<1>3. \A p, q \in Observed : q \in before[p] <=> Ahead(q, p)
  BY DEF AheadOf
<1> HIDE DEF before
<1>4. Cardinality(Observed) \in Nat
  BY <1>1, FS_CardinalityType
<1>5. Cardinality(PeersShown) = IF Cardinality(Observed) <= MaxPeersArg
                                THEN Cardinality(Observed) ELSE MaxPeersArg
  BY <1>1, <1>2, FirstRanked, MaxPeersAssumption
<1>6. ASSUME NEW p \in PeersShown, NEW q \in Observed \ PeersShown
      PROVE  count[q]["rm"] <= count[p]["rm"]
  <2>1. p \in Observed /\ Cardinality(before[p]) < MaxPeersArg
    BY <1>2
  <2>2. ~(Cardinality(before[q]) < MaxPeersArg)
    BY <1>2
  <2>3. /\ Cardinality(before[p]) \in Nat /\ Cardinality(before[q]) \in Nat
        /\ q \in before[p] => Cardinality(before[q]) < Cardinality(before[p])
    BY <1>1, <2>1, RankGrows
  <2>4. q \notin before[p]
    BY <2>1, <2>2, <2>3, MaxPeersAssumption
  <2>5. ~Ahead(q, p)
    BY <1>3, <2>1, <2>4
  <2>6. count[p]["rm"] \in Nat /\ count[q]["rm"] \in Nat
    BY <2>1 DEF TypeOK, Observed, Counters
  <2> QED BY <2>5, <2>6 DEF Ahead
<1> QED BY <1>4, <1>5, <1>6

LEMMA MinIs ==
  ASSUME NEW S, S \subseteq Nat, NEW m \in S, \A y \in S : m <= y
  PROVE  Min(S) = m
<1>1. \A x \in S : (\A y \in S : x <= y) => x = m
  OBVIOUS
<1> QED BY <1>1 DEF Min

LEMMA KeptIsFirst ==
  ASSUME NEW kept, NEW type, FirstKept(kept, type)
  PROVE  kept = FirstOf(type)
<1> DEFINE readable == {i \in Positions : log[i].type = type /\ log[i].body}
<1>1. readable \subseteq Nat /\ \A i \in readable : i # 0
  BY DEF Positions
<1>2. FirstOf(type) = IF readable = {} THEN 0 ELSE Min(readable)
  BY DEF FirstOf
<1>3. CASE kept = 0 /\ readable = {}
  BY <1>2, <1>3
<1>4. CASE kept \in readable /\ \A i \in readable : kept <= i
  <2> HIDE DEF readable
  <2> QED BY <1>1, <1>2, <1>4, MinIs
<1> QED BY <1>3, <1>4 DEF FirstKept

(* Each part of what inspect prints.                                       *)
LEMMA HealthTold ==
  ASSUME Sound, MalformedSeen
  PROVE  LET broken(rules) == \E x \in Broken : x[1] \in rules
         IN  /\ Health = "ISSUES" => broken(ParseRules)
             /\ broken({"truncated_frame"}) => Health = "ISSUES"
             /\ Interpretation = "mid-stream capture" =>
                  broken({"route_monitoring_before_peer_up"})
             /\ ~(findingsDropped > 0) =>
                  /\ Health = "ISSUES" <=> broken(ParseRules)
                  /\ Health = "OK" <=> ~broken(ParseRules \cup OrderRules)
<1> DEFINE broken(rules) == \E x \in Broken : x[1] \in rules
<1>1. TypeOK /\ findingsDropped \in Nat /\ malformed \in Nat
  BY DEF Sound, TypeInv, TypeOK
<1>2. malformed > 0 <=> broken({"truncated_frame"})
  <2>1. \A i \in Positions : Breaks("truncated_frame", i) <=> log[i].type = "Malformed"
    BY DEF Breaks
  <2>2. \A i \in Positions : Breaks("truncated_frame", i)
                               <=> <<"truncated_frame", i>> \in Broken
    BY DEF Broken, Rules
  <2>3. \A x \in Broken : x[1] = "truncated_frame" =>
          x[2] \in Positions /\ x = <<"truncated_frame", x[2]>>
    BY DEF Broken
  <2>4. (\E i \in Positions : log[i].type = "Malformed") => broken({"truncated_frame"})
    <3> HAVE \E i \in Positions : log[i].type = "Malformed"
    <3>1. PICK i \in Positions : log[i].type = "Malformed"
      OBVIOUS
    <3>2. <<"truncated_frame", i>> \in Broken
      BY <2>1, <2>2, <3>1
    <3> QED BY <3>2
  <2>5. broken({"truncated_frame"}) => \E i \in Positions : log[i].type = "Malformed"
    BY <2>1, <2>2, <2>3
  <2> QED BY <2>4, <2>5 DEF MalformedSeen
<1>3. \A rules : /\ Kept(rules) > 0 => broken(rules)
                 /\ findingsDropped = 0 /\ broken(rules) => Kept(rules) > 0
  BY KeptBroken
<1>4. /\ broken({"truncated_frame"}) => broken(ParseRules)
      /\ broken(ParseRules \cup OrderRules) <=> broken(ParseRules) \/ broken(OrderRules)
  BY DEF ParseRules
<1>5. /\ Buckets.parse = Kept(ParseRules) /\ Buckets.order = Kept(OrderRules)
      /\ Lifecycle.early = Kept({"route_monitoring_before_peer_up"})
  BY DEF Buckets, Lifecycle
<1> DEFINE issues == malformed > 0 \/ Kept(ParseRules) > 0
<1>6. /\ Health = "ISSUES" <=> issues
      /\ Health = "OK" <=> ~issues /\ ~(Kept(OrderRules) > 0)
      /\ Interpretation = "mid-stream capture"
           => Kept({"route_monitoring_before_peer_up"}) > 0
  BY <1>5 DEF Health, Interpretation
<1> HIDE DEF broken
<1>7. /\ Health = "ISSUES" => broken(ParseRules)
      /\ broken({"truncated_frame"}) => Health = "ISSUES"
      /\ Interpretation = "mid-stream capture" =>
           broken({"route_monitoring_before_peer_up"})
  BY <1>2, <1>3, <1>4, <1>6
<1>8. ASSUME ~(findingsDropped > 0)
      PROVE  /\ Health = "ISSUES" <=> broken(ParseRules)
             /\ Health = "OK" <=> ~broken(ParseRules \cup OrderRules)
  <2>1. findingsDropped = 0
    BY <1>1, <1>8
  <2>2. \A rules : Kept(rules) > 0 <=> broken(rules)
    BY <1>3, <2>1
  <2> QED BY <1>2, <1>4, <1>6, <2>2
<1> QED BY <1>7, <1>8 DEF broken

LEMMA InspectFields ==
  /\ Inspect.health = Health /\ Inspect.interpretation = Interpretation
  /\ Inspect.truncated = (findingsDropped > 0) /\ Inspect.dropped = findingsDropped
  /\ Inspect.buckets = Buckets /\ Inspect.severities = Severities
  /\ Inspect.lifecycle = Lifecycle
  /\ Inspect.peers = [p \in PeersShown |-> PeerRow(p)]
  /\ Inspect.initiation = initInfo /\ Inspect.termination = termInfo
  /\ Inspect.stats = statsInfo
BY DEF Inspect

LEMMA InspectFollows ==
  Sound /\ Counted /\ InfosKept /\ MalformedSeen => InspectIsTrue
<1> SUFFICES ASSUME Sound, Counted, InfosKept, MalformedSeen PROVE InspectIsTrue
  OBVIOUS
<1>1. TypeOK /\ PeerLifecycle
  BY DEF Sound, TypeInv
<1> DEFINE broken(rules) == \E x \in Broken : x[1] \in rules
           r == Inspect
<1>2. /\ r.health = "ISSUES" => broken(ParseRules)
      /\ broken({"truncated_frame"}) => r.health = "ISSUES"
      /\ r.interpretation = "mid-stream capture" =>
           broken({"route_monitoring_before_peer_up"})
      /\ ~r.truncated =>
           /\ r.health = "ISSUES" <=> broken(ParseRules)
           /\ r.health = "OK" <=> ~broken(ParseRules \cup OrderRules)
  BY HealthTold, InspectFields
<1>3. r.buckets.parse + r.buckets.order + r.buckets.other + r.dropped
        = Cardinality(Broken)
  BY <1>1, SumsAddUp, InspectFields DEF Counted
<1>4. r.severities.error + r.severities.warn + r.dropped = Cardinality(Broken)
  BY <1>1, SumsAddUp, InspectFields DEF Counted
<1>5. r.lifecycle.active = Cardinality({p \in Peers : OpenAfter(p, Len(log))})
  <2>1. active = {p \in Peers : OpenAfter(p, Len(log))}
    BY <1>1 DEF TypeOK, PeerLifecycle
  <2> QED BY <2>1, InspectFields DEF Lifecycle
<1>6. r.lifecycle.observed = Cardinality(Observed)
  BY InspectFields DEF Lifecycle
<1>7. Cardinality(Observed) = Cardinality({log[i].peer : i \in Positions} \ {NoPeer})
  BY <1>1, ObservedPeers
<1>8. DOMAIN r.peers = PeersShown /\ \A p \in PeersShown : r.peers[p].rm = count[p]["rm"]
  <2>1. r.peers = [p \in PeersShown |-> PeerRow(p)]
    BY InspectFields
  <2>2. \A p \in PeersShown : r.peers[p] = PeerRow(p)
    BY <2>1
  <2>3. \A p : PeerRow(p).rm = count[p]["rm"]
    BY DEF PeerRow
  <2> HIDE DEF r
  <2> QED BY <2>1, <2>2, <2>3
<1>9. /\ Cardinality(Observed) \in Nat
      /\ Cardinality(PeersShown) = IF Cardinality(Observed) <= MaxPeersArg
                                   THEN Cardinality(Observed) ELSE MaxPeersArg
      /\ \A p \in PeersShown, q \in Observed \ PeersShown :
           count[q]["rm"] <= count[p]["rm"]
  BY <1>1, ShownPeers
<1>10. Cardinality(PeersShown) = Min({Cardinality(Observed), MaxPeersArg})
  <2> DEFINE a == Cardinality(Observed)
             b == MaxPeersArg
             m == IF a <= b THEN a ELSE b
  <2>1. a \in Nat /\ b \in Nat
    BY <1>9, MaxPeersAssumption
  <2> HIDE DEF a, b
  <2>2. {a, b} \subseteq Nat /\ m \in {a, b} /\ \A y \in {a, b} : m <= y
    BY <2>1
  <2> HIDE DEF m
  <2>3. Min({a, b}) = m
    BY <2>2, MinIs
  <2> QED BY <1>9, <2>3 DEF a, b, m
<1>11. /\ r.initiation = FirstOf("Initiation")
       /\ r.termination = FirstOf("Termination")
       /\ r.stats = FirstOf("StatisticsReport")
  BY KeptIsFirst, InspectFields DEF InfosKept
<1> HIDE DEF r, broken
<1>12. /\ r.lifecycle.observed = Cardinality({log[i].peer : i \in Positions} \ {NoPeer})
       /\ Cardinality(DOMAIN r.peers) = Min({r.lifecycle.observed, MaxPeersArg})
       /\ \A p \in DOMAIN r.peers, q \in Observed \ DOMAIN r.peers :
            count[q]["rm"] <= r.peers[p].rm
  BY <1>6, <1>7, <1>8, <1>9, <1>10
<1> QED BY <1>2, <1>3, <1>4, <1>5, <1>11, <1>12 DEF InspectIsTrue, r, broken

(* Whatever the capture, the caps and the number of peers, what inspect    *)
(* prints is true of the items: health, buckets, severities, sessions, the *)
(* peers shown and the kept messages (report.rs:45-141, 514-619).          *)
THEOREM InspectCorrect == Spec => []InspectIsTrue
<1>1. Spec => []TypeOK
  BY TypeCorrect, PTL
<1>2. Init => InfosKept /\ MalformedSeen
  BY InitReported
<1>3. TypeOK /\ (InfosKept /\ MalformedSeen) /\ [Next]_vars
        => (InfosKept /\ MalformedSeen)'
  BY NextReported
<1>4. Spec => [](InfosKept /\ MalformedSeen)
  BY <1>1, <1>2, <1>3, PTL DEF Spec
<1> QED BY <1>4, SoundAlways, CountedAlways, InspectFollows, PTL
=============================================================================
