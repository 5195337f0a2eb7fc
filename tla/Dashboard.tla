------------------------------ MODULE Dashboard ------------------------------
(***************************************************************************)
(* The live dashboard (src/src/dashboard.rs): run_dashboard finds a topic, *)
(* opens the stream browser, loads the RPKI table and runs the loop that   *)
(* serves keys, polls the consumer and folds each message into bounded     *)
(* maps and a message log, from which the screen is drawn.                 *)
(*                                                                         *)
(* A message is what the code branches on.  Its update is what bgpkit-     *)
(* parser makes of a Route Monitoring frame, if anything: two lists of     *)
(* prefixes and the AS path.  The verdicts are those of Rpki, and the      *)
(* browser is the choice that Browser ends with.  Left out: the window     *)
(* that process_message pushes to (Rolling), the throughput history, BGP   *)
(* communities and the key that shows them, colours and layout.            *)
(***************************************************************************)
EXTENDS Integers, Sequences, FiniteSets, FiniteSetsExt, SequencesExt

CONSTANTS
  Messages,    \* the messages the stream may bring
  NoPeer,      \* no per-peer header
  NoUpdate,    \* not an UPDATE, or one that does not parse
  NoVerdict,   \* RPKI state "--"
  NoHint,      \* no rpki_detail
  NoKey,       \* no key waits
  NoTopic,     \* no --topic
  Verdict,     \* RPKICache::validate: <<prefix, origin>> to a status
  Collector,   \* the collector's AS, 6447
  Peering,     \* topic to <<collector, ASN>>; -1 if the name has no number
  ActiveSets,  \* the sets of active peerings that may be loaded (Caches)
  TopicArgs,   \* values of --topic
  CollectorArgs, \* of --collector: the topics with the fragment, or NoFilter
  AsnArgs,     \* of --asn
  NoFilter,    \* no --collector, no --asn
  MaxPeers, MaxPrefixes, MaxAsns, MaxPairs, \* MAX_TRACKED_*
  MaxPath,     \* MAX_TRACKED_PATH_ASNS
  MaxLog,      \* max_log_lines
  MaxShow,     \* max_show: prefixes shown of one origin
  MaxMessages  \* bound on the messages of one dashboard

Topics   == DOMAIN Peering
Statuses == {"Valid", "InvalidWrongAsn", "InvalidTooLong", "NotFound"}
Invalids == {"InvalidWrongAsn", "InvalidTooLong"}
KeyCodes == {"q", "esc", "p"} \* b as q, Ctrl-C as Esc
Screens  == {"start", "browser", "connecting", "keys", "poll", "drain", "left",
             "ended"}

ASSUME TopicAssumption == NoTopic \notin Topics
ASSUME CapAssumption ==
  /\ {MaxPeers, MaxPrefixes, MaxAsns, MaxPairs, MaxPath, MaxLog} \subseteq Nat
  /\ MaxShow \in Nat \ {0}
ASSUME NoneAssumption == NoVerdict \notin Statuses /\ NoHint \notin Nat

(* Prefixes and ASes are numbers, because the panels sort them.            *)
Updates == [announced: Seq(Nat), withdrawn: Seq(Nat), path: Seq(Nat)]

ASSUME MessageAssumption ==
  \A m \in Messages :
    /\ {m.frame, m.version, m.meta} \subseteq BOOLEAN
    /\ m.update # NoUpdate => m.update \in Updates
ASSUME PeeringAssumption ==
  NoKey \notin KeyCodes /\ TopicArgs \subseteq Topics \cup {NoTopic}

VARIABLES
  screen,    \* where the program is
  topicArg,  \* --topic
  offered,   \* the topics in the browser
  chosen,    \* the topic followed
  tui,       \* the terminal is in the alternate screen
  failed,    \* the program ended with an error
  pending,   \* the key that waits to be read
  paused, browse,
  rpki,      \* the RPKI table is loaded
  history,   \* history: the messages processed by this dashboard
  seen,      \* total_messages
  peerMsgs, peerWarnings, churn, origins, lastPath, adjacency, frequency,
  keepalives, metadata, log

tuiVars  == <<screen, topicArg, offered, chosen, tui, failed>>
keyVars  == <<pending, paused, browse>>
dataVars == <<history, seen, peerMsgs, peerWarnings, churn, origins,
              lastPath, adjacency, frequency, keepalives, metadata, log>>
vars     == <<tuiVars, keyVars, rpki, dataVars>>
-----------------------------------------------------------------------------
(* Bounded maps.                                                           *)

(* Variants: there is no cap, or a map at its cap is updated no more.      *)
NoCap(map, k, cap)    == TRUE
RoomOnly(map, k, cap) == Cardinality(DOMAIN map) < cap

(* A key is written when it is there already or the map has room.          *)
Writable(map, k, cap) == k \in DOMAIN map \/ Cardinality(DOMAIN map) < cap

InsertBounded(map, k, v, cap) ==
  IF Writable(map, k, cap)
  THEN [x \in DOMAIN map \cup {k} |-> IF x = k THEN v ELSE map[x]]
  ELSE map

BumpCount(map, k, n, cap) ==
  InsertBounded(map, k, n + (IF k \in DOMAIN map THEN map[k] ELSE 0), cap)

(* One key after the other.                                                *)
BumpAll(map, keys, cap) ==
  LET after[i \in 0..Len(keys)] ==
        IF i = 0 THEN map ELSE BumpCount(after[i-1], keys[i], 1, cap)
  IN  after[Len(keys)]

InsertAll(map, keys, v, cap) ==
  LET after[i \in 0..Len(keys)] ==
        IF i = 0 THEN map ELSE InsertBounded(after[i-1], keys[i], v, cap)
  IN  after[Len(keys)]
-----------------------------------------------------------------------------
(* extract_prefixes                                                        *)

(* Variant: the origin is read after the path has been cut.                *)
OriginOfCut(u) ==
  LET cut == SubSeq(u.path, 1, Min({MaxPath, Len(u.path)}))
  IN  IF cut = <<>> THEN 0 ELSE Last(cut)

(* The last AS of the whole path, 0 without one.                           *)
Origin(u) == IF u.path = <<>> THEN 0 ELSE Last(u.path)

StoredPath(u) == SubSeq(u.path, 1, Min({MaxPath, Len(u.path)}))

Keepalive(m) ==
  m.update # NoUpdate /\ m.update.announced = <<>> /\ m.update.withdrawn = <<>>

Changed(u) == u.announced \o u.withdrawn

(* The pairs of neighbours on a path.                                      *)
Pairs(path) ==
  IF path = <<>> THEN <<>>
  ELSE [i \in 1..(Len(path) - 1) |-> <<path[i], path[i + 1]>>]
-----------------------------------------------------------------------------
(* The verdict of a message from those of its announced prefixes.          *)

(* Variant: a prefix without a covering VRP hides a later invalid one.     *)
FirstSticks(worst, s) == IF worst = NoVerdict THEN s ELSE worst

Worse(worst, s) ==
  IF worst = NoVerdict \/ (worst = "NotFound" /\ s \in Invalids) THEN s ELSE worst

Verdicts(u) ==
  [i \in DOMAIN u.announced |-> Verdict[<<u.announced[i], Origin(u)>>]]

(* validate has a status for each of them.                                 *)
ASSUME VerdictAssumption ==
  \A m \in Messages : m.update # NoUpdate =>
    \A i \in DOMAIN m.update.announced : Verdicts(m.update)[i] \in Statuses

MessageVerdict(u) ==
  LET vs == Verdicts(u)
      worst[i \in 0..Len(vs)] ==
        IF i = 0 THEN NoVerdict ELSE Worse(worst[i-1], vs[i])
  IN  IF rpki THEN worst[Len(vs)] ELSE NoVerdict

(* The prefix whose detail is kept: the first invalid one.                 *)
MessageHint(u) ==
  LET bad == {i \in DOMAIN u.announced : Verdicts(u)[i] \in Invalids}
  IN  IF rpki /\ bad # {} THEN u.announced[Min(bad)] ELSE NoHint

LogLine(m) ==
  IF m.update = NoUpdate
  THEN [type |-> m.type, update |-> NoUpdate]
  ELSE [type |-> m.type, update |-> m.update, verdict |-> MessageVerdict(m.update),
        hint |-> MessageHint(m.update)]
-----------------------------------------------------------------------------
(* process_message                                                         *)

Findings(m) == {r \in {"invalid_bmp_version", "unknown_bmp_type"} :
                  \/ r = "invalid_bmp_version" /\ ~m.version
                  \/ r = "unknown_bmp_type" /\ m.type = "Unknown"}

Newest(s, n) == SubSeq(s, Max({1, Len(s) - n + 1}), Len(s))

CountPeer(m) ==
  IF m.frame /\ m.peer # NoPeer
  THEN /\ peerMsgs' = BumpCount(peerMsgs, m.peer, 1, MaxPeers)
       /\ peerWarnings' =
            IF Findings(m) = {} THEN peerWarnings
            ELSE BumpCount(peerWarnings, m.peer, Cardinality(Findings(m)), MaxPeers)
  ELSE UNCHANGED <<peerMsgs, peerWarnings>>

Track(u) ==
  /\ churn' = BumpAll(churn, Changed(u), MaxPrefixes)
  /\ origins' = IF Origin(u) = 0 THEN origins
                ELSE InsertAll(origins, Changed(u), Origin(u), MaxPrefixes)
  /\ lastPath' = InsertAll(lastPath, u.announced, StoredPath(u), MaxPrefixes)
  /\ frequency' = BumpAll(frequency, StoredPath(u), MaxAsns)
  /\ adjacency' = BumpAll(adjacency, Pairs(StoredPath(u)), MaxPairs)

(* Variant: keepalives are logged.                                         *)
LogAll(m) == m.frame

Logged(m) == m.frame /\ ~Keepalive(m)

ProcessMessage(m) ==
  /\ history' = Append(history, m)
  /\ seen' = seen + 1
  /\ CountPeer(m)
  /\ keepalives' = IF m.frame /\ Keepalive(m) THEN keepalives + 1 ELSE keepalives
  /\ IF Logged(m) /\ m.update # NoUpdate THEN Track(m.update)
     ELSE UNCHANGED <<churn, origins, lastPath, frequency, adjacency>>
  /\ log' = IF Logged(m) THEN Newest(Append(log, LogLine(m)), MaxLog) ELSE log
  /\ metadata' = (metadata \/ (m.frame /\ m.meta))
-----------------------------------------------------------------------------
(* The screen.                                                             *)

(* strip_known_prefix                                                      *)
StripKnownPrefix(path) ==
  LET p == IF path # <<>> /\ Head(path) = Collector THEN Tail(path) ELSE path
  IN  IF p # <<>> /\ Head(p) = Peering[chosen][2] THEN Tail(p) ELSE p

LinesOf(e) ==
  IF e.update = NoUpdate
  THEN <<[type |-> e.type, sign |-> "", prefix |-> NoUpdate]>>
  ELSE [i \in DOMAIN e.update.announced |->
          [type |-> e.type, verdict |-> e.verdict, hint |-> e.hint, sign |-> "+",
           prefix |-> e.update.announced[i],
           path |-> StripKnownPrefix(StoredPath(e.update))]]
       \o
       [i \in DOMAIN e.update.withdrawn |->
          LET p == e.update.withdrawn[i]
          IN  [type |-> e.type, verdict |-> e.verdict, sign |-> "-", prefix |-> p,
               path |-> IF p \in DOMAIN lastPath
                        THEN StripKnownPrefix(lastPath[p]) ELSE <<>>]]

AllLines(entries) == FlattenSeq([i \in DOMAIN entries |-> LinesOf(entries[i])])

(* render_message_log, in a pane of that many rows.                        *)
Ticker(rows) == Newest(AllLines(Newest(log, rows)), rows)

ChurnOf(p) == IF p \in DOMAIN churn THEN churn[p] ELSE 0

PrefixesOf(o) == {p \in DOMAIN origins : origins[p] = o}

(* Variant: an origin ranks by the churn of all its prefixes.              *)
TotalRank(o) == MapThenSumSet(ChurnOf, PrefixesOf(o))

(* An origin ranks by its single most churned prefix.                      *)
Rank(o) == Max({ChurnOf(p) : p \in PrefixesOf(o)})

(* The members of S from first to last, given what is ahead of each.       *)
Ranked(S, ahead) ==
  [k \in 1..Cardinality(S) |-> CHOOSE x \in S : Cardinality(ahead[x]) = k - 1]

Grouped == {origins[p] : p \in DOMAIN origins}

RankedOrigins ==
  Ranked(Grouped, [o \in Grouped |->
    {q \in Grouped : Rank(q) > Rank(o) \/ (Rank(q) = Rank(o) /\ q < o)}])

RankedPrefixes(o) ==
  Ranked(PrefixesOf(o), [p \in PrefixesOf(o) |->
    {q \in PrefixesOf(o) : \/ ChurnOf(q) > ChurnOf(p)
                           \/ ChurnOf(q) = ChurnOf(p) /\ q < p}])

(* The rows of one origin: its prefixes, the rest in one row, a blank one. *)
GroupRows(o) ==
  LET ps   == RankedPrefixes(o)
      row  == [i \in 1..Min({MaxShow, Len(ps)}) |-> <<ps[i], ChurnOf(ps[i])>>]
      rest == SubSeq(ps, MaxShow + 1, Len(ps))
  IN  row \o (IF rest = <<>> THEN <<>>
              ELSE << <<"rest", MapThenSumSet(ChurnOf, ToSet(rest))>> >>)
          \o << <<"blank", 0>> >>

(* render_origins: groups until the rows are used up.                      *)
PrefixFlaps(rows) ==
  LET leading == RankedOrigins
      groups  == Min({rows \div 2, Len(leading)})
      flaps[i \in 0..groups] ==
        IF i = 0 THEN <<>>
        ELSE IF Len(flaps[i-1]) >= rows THEN flaps[i-1]
        ELSE flaps[i-1] \o GroupRows(leading[i])
  IN  flaps[groups]
-----------------------------------------------------------------------------
Init ==
  /\ screen = "start" /\ topicArg \in TopicArgs /\ offered = {}
  /\ chosen = NoTopic /\ tui = TRUE /\ failed = FALSE
  /\ pending = NoKey
  /\ paused = FALSE /\ browse = FALSE /\ rpki = FALSE
  /\ history = <<>> /\ seen = 0
  /\ peerMsgs = <<>> /\ peerWarnings = <<>> /\ churn = <<>> /\ origins = <<>>
  /\ lastPath = <<>> /\ adjacency = <<>> /\ frequency = <<>>
  /\ keepalives = 0 /\ metadata = FALSE /\ log = <<>>

(* Dashboard::new *)
Renew ==
  /\ paused' = FALSE /\ browse' = FALSE /\ rpki' = FALSE
  /\ history' = <<>> /\ seen' = 0
  /\ peerMsgs' = <<>> /\ peerWarnings' = <<>> /\ churn' = <<>> /\ origins' = <<>>
  /\ lastPath' = <<>> /\ adjacency' = <<>> /\ frequency' = <<>>
  /\ keepalives' = 0 /\ metadata' = FALSE /\ log' = <<>>

(* Variant: the terminal is left as it is.                                 *)
EndAsIs(error, restored) ==
  /\ screen' = "ended" /\ failed' = error
  /\ UNCHANGED <<topicArg, offered, chosen, tui>>

(* run_dashboard returns, after ratatui::restore or without it.            *)
End(error, restored) ==
  /\ screen' = "ended" /\ failed' = error /\ tui' = ~restored
  /\ UNCHANGED <<topicArg, offered, chosen>>

(* apply_filters *)
ApplyFilters(topics, collector, asn) ==
  {t \in topics : /\ collector = NoFilter \/ t \in collector
                  /\ asn = NoFilter \/ Peering[t][2] = asn}

(* filter_active_topics *)
FilterActive(topics, active) ==
  {t \in topics : Peering[t][2] # 0 /\ Peering[t] \in active}

(* A single topic is opened at once; an empty list is an error only at the *)
(* start, where it is shown for three seconds.                             *)
Choose ==
  /\ screen = "start"
  /\ UNCHANGED <<keyVars, rpki, dataVars>>
  /\ \/ /\ topicArg # NoTopic
        /\ screen' = "connecting" /\ chosen' = topicArg
        /\ UNCHANGED <<topicArg, offered, tui, failed>>
     \/ topicArg = NoTopic /\ End(TRUE, FALSE) \* fetch_topics fails
     \/ /\ topicArg = NoTopic
        /\ \E active \in ActiveSets, collector \in CollectorArgs, asn \in AsnArgs :
             LET left == FilterActive(ApplyFilters(Topics, collector, asn), active)
             IN  CASE left = {} -> \E drawn \in BOOLEAN : End(TRUE, drawn)
                   [] Cardinality(left) = 1 ->
                        /\ screen' = "connecting"
                        /\ chosen' \in left
                        /\ UNCHANGED <<topicArg, offered, tui, failed>>
                   [] OTHER ->
                        /\ screen' = "browser"
                        /\ offered' = left
                        /\ UNCHANGED <<topicArg, chosen, tui, failed>>

(* topic_browser ends with a topic, without one, or with an I/O error.     *)
Browse ==
  /\ screen = "browser"
  /\ pending' = NoKey
  /\ UNCHANGED <<paused, browse, rpki, dataVars>>
  /\ \/ /\ screen' = "connecting" /\ chosen' \in offered /\ offered' = {}
        /\ UNCHANGED <<topicArg, tui, failed>>
     \/ End(FALSE, TRUE)
     \/ End(TRUE, FALSE)

(* Consumer, subscription, a new Dashboard (as the last one was left), the *)
(* caches and the RPKI table.  Revalidating the log finds it empty.        *)
Connect ==
  /\ screen = "connecting"
  /\ \/ /\ End(TRUE, FALSE)
        /\ UNCHANGED <<keyVars, rpki, dataVars>>
     \/ /\ screen' = "keys" /\ rpki' \in BOOLEAN
        /\ UNCHANGED <<topicArg, offered, chosen, tui, failed, keyVars,
                       dataVars>>

Goto(s) ==
  screen' = s /\ UNCHANGED <<topicArg, offered, chosen, tui, failed>>

(* handle_key                                                              *)
HandleKey ==
  /\ paused' = (IF pending = "p" THEN ~paused ELSE paused)
  /\ browse' = (IF pending = "q" THEN TRUE ELSE browse)

(* Variant: a paused dashboard reads no key.                               *)
ReadsRunning == pending # NoKey /\ ~paused

(* A key press is there within 100 ms.                                     *)
Reads == pending # NoKey

(* Draw and wait for a key.  A key that exits leaves at once.              *)
ServeKeys ==
  /\ screen = "keys"
  /\ IF Reads THEN HandleKey /\ pending' = NoKey ELSE UNCHANGED keyVars
  /\ Goto(IF Reads /\ pending \in {"q", "esc"} THEN "left"
          ELSE IF paused'                       THEN "keys"
          ELSE "poll")
  /\ UNCHANGED <<rpki, dataVars>>

(* Terminal I/O fails: run_loop returns and browse is not set.             *)
LoopFails ==
  screen = "keys" /\ End(TRUE, TRUE) /\ UNCHANGED <<keyVars, rpki, dataVars>>

(* The first poll, for up to 500 ms: nothing, an error or no payload, or a *)
(* message, after which the consumer is drained.                           *)
PollMessage(m) ==
  /\ screen = "poll" /\ seen < MaxMessages
  /\ ProcessMessage(m) /\ Goto("drain")
  /\ UNCHANGED <<keyVars, rpki>>

PollNothing ==
  screen = "poll" /\ Goto("keys") /\ UNCHANGED <<keyVars, rpki, dataVars>>

DrainMessage(m) ==
  /\ screen = "drain" /\ seen < MaxMessages
  /\ ProcessMessage(m) /\ UNCHANGED <<tuiVars, keyVars, rpki>>

(* A poll without waiting finds nothing.                                   *)
DrainEnds ==
  screen = "drain" /\ Goto("keys") /\ UNCHANGED <<keyVars, rpki, dataVars>>

(* After the loop: the totals and the end, or the browser again, with all  *)
(* topics (kept from the start, or fetched now), without --collector and   *)
(* --asn.  The dashboard is dropped.                                       *)
Leave ==
  /\ screen = "left"
  /\ UNCHANGED pending
  /\ \/ ~browse /\ End(FALSE, TRUE) /\ UNCHANGED <<paused, browse, rpki, dataVars>>
     \/ /\ browse /\ End(TRUE, FALSE) \* fetch_topics or the clearing fails
        /\ UNCHANGED <<paused, browse, rpki, dataVars>>
     \/ /\ browse
        /\ \E active \in ActiveSets :
             offered' = FilterActive(ApplyFilters(Topics, NoFilter, NoFilter), active)
        /\ screen' = "browser" /\ chosen' = NoTopic
        /\ Renew
        /\ UNCHANGED <<topicArg, tui, failed>>

(* The user, at any time after the browser.                                *)
PressKey(k) ==
  /\ screen \in {"connecting", "keys", "poll", "drain"} /\ pending = NoKey
  /\ pending' = k
  /\ UNCHANGED <<tuiVars, paused, browse, rpki, dataVars>>

Next ==
  \/ Choose \/ Browse \/ Connect \/ ServeKeys \/ LoopFails \/ PollNothing
  \/ DrainEnds \/ Leave
  \/ \E m \in Messages : PollMessage(m) \/ DrainMessage(m)
  \/ \E k \in KeyCodes : PressKey(k)

Spec == Init /\ [][Next]_vars

(* The loop goes on: both of its waits have a timeout.  Nothing is assumed *)
(* of the drain, which lasts as long as every poll brings something.       *)
FairSpec ==
  /\ Spec
  /\ WF_vars(ServeKeys)
  /\ WF_vars(PollNothing \/ \E m \in Messages : PollMessage(m))
-----------------------------------------------------------------------------
(* Types, and the caps on everything that grows with the stream.           *)
TypeOK ==
  /\ screen \in Screens /\ topicArg \in Topics \cup {NoTopic}
  /\ offered \subseteq Topics
  /\ chosen \in Topics \cup {NoTopic} /\ {tui, failed} \subseteq BOOLEAN
  /\ pending \in KeyCodes \cup {NoKey} /\ {paused, browse, rpki} \subseteq BOOLEAN
  /\ history \in Seq(Messages) /\ seen = Len(history)
  /\ Len(log) <= MaxLog
  /\ \A keys \in {DOMAIN peerMsgs, DOMAIN peerWarnings} : Cardinality(keys) <= MaxPeers
  /\ \A keys \in {DOMAIN churn, DOMAIN origins, DOMAIN lastPath} :
       Cardinality(keys) <= MaxPrefixes
  /\ Cardinality(DOMAIN frequency) <= MaxAsns
  /\ Cardinality(DOMAIN adjacency) <= MaxPairs
  /\ metadata \in BOOLEAN /\ keepalives \in 0..seen

(* Where a key stands in the lists of keys of all the messages.            *)
Places(k, lists) ==
  UNION {{i} \X {j \in DOMAIN lists[i] : lists[i][j] = k} : i \in DOMAIN lists}

(* counts holds how often each of its keys occurs in the lists, and a key  *)
(* it does not hold came when it was full.                                 *)
Exact(counts, lists, cap) ==
  /\ \A k \in DOMAIN counts : counts[k] = Cardinality(Places(k, lists))
  /\ \A i \in DOMAIN lists : \A j \in DOMAIN lists[i] :
       lists[i][j] \in DOMAIN counts \/ Cardinality(DOMAIN counts) = cap

(* The prefixes, the path and the peer by which a message is counted.      *)
PrefixKeys(m) ==
  IF Logged(m) /\ m.update # NoUpdate THEN Changed(m.update) ELSE <<>>
PathKeys(m) ==
  IF Logged(m) /\ m.update # NoUpdate THEN StoredPath(m.update) ELSE <<>>
PairKeys(m) == Pairs(PathKeys(m))
PeerKeys(m) == IF m.frame /\ m.peer # NoPeer THEN <<m.peer>> ELSE <<>>
WarningKeys(m) ==
  IF PeerKeys(m) = <<>> THEN <<>>
  ELSE [i \in 1..Cardinality(Findings(m)) |-> m.peer]

KeysSeen(Of(_)) == [i \in DOMAIN history |-> Of(history[i])]

(* A bounded map may miss keys but never miscounts: what it holds for a    *)
(* peer, prefix, AS or pair is exact since the dashboard was opened, and   *)
(* it only misses keys that came when it was at its cap.                   *)
TrackedCountsExact ==
  /\ Exact(churn, KeysSeen(PrefixKeys), MaxPrefixes)
  /\ Exact(frequency, KeysSeen(PathKeys), MaxAsns)
  /\ Exact(adjacency, KeysSeen(PairKeys), MaxPairs)
  /\ Exact(peerMsgs, KeysSeen(PeerKeys), MaxPeers)
  /\ Exact(peerWarnings, KeysSeen(WarningKeys), MaxPeers)

(* The Prefix Flaps panel groups a prefix under the last AS of the whole   *)
(* path of the latest message with a path that named it, announced or      *)
(* withdrawn: cutting long paths and the caps do not move it elsewhere.    *)
GroupedUnderLatest ==
  \A p \in DOMAIN origins :
    LET named == {i \in DOMAIN history : /\ p \in ToSet(PrefixKeys(history[i]))
                                         /\ Origin(history[i].update) # 0}
    IN  named # {} /\ origins[p] = Last(history[Max(named)].update.path)

(* The first row of a panel with room for a group is a prefix than which   *)
(* no other one of known origin has a higher churn count; one that came    *)
(* when the churn map was full has none and ranks as 0.                    *)
MostChurnedLeads ==
  \A rows \in 2..5 : origins # <<>> =>
    PrefixFlaps(rows)[1][2] = Max({ChurnOf(p) : p \in DOMAIN origins})

(* An invalid prefix makes its message's line invalid unless the first     *)
(* prefix is Valid, and no line is invalid without one; its hint is there  *)
(* whenever some prefix is invalid, even on a line that says Valid.        *)
OnlyValidFirstHides ==
  \A i \in DOMAIN log : log[i].update # NoUpdate /\ log[i].verdict # NoVerdict =>
    LET vs  == Verdicts(log[i].update)
        bad == {j \in DOMAIN vs : vs[j] \in Invalids}
    IN  /\ log[i].verdict \in Invalids <=> bad # {} /\ vs[1] # "Valid"
        /\ log[i].hint # NoHint <=> bad # {}

(* What the message pane shows of the last messages that fit are the       *)
(* newest rows of the whole log: every logged message has a row.           *)
TickerShowsNewest ==
  \A rows \in 0..4 : Ticker(rows) = Newest(AllLines(log), rows)

(* A key pressed while the dashboard runs is served, provided that a drain *)
(* ends: a stream that never leaves the consumer empty keeps the dashboard *)
(* from reading any key.                                                   *)
KeysServed ==
  WF_vars(DrainEnds) =>
    (screen \in {"keys", "poll", "drain"} /\ pending # NoKey)
      ~> (pending = NoKey \/ screen = "ended")

(* A program that has ended leaves the terminal in the alternate screen    *)
(* only after an error.                                                    *)
RestoredUnlessFailed == screen = "ended" /\ tui => failed
=============================================================================
