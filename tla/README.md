# A TLA+ model of bmpwatch

bmpwatch analyses BMP, the BGP Monitoring Protocol. It reads a capture (a raw
stream of BMP frames, or a `.bmpd` container recorded from Kafka), checks it
against lint rules, summarises it, replays it through a rolling window, or
follows a live RouteViews stream in a terminal dashboard with RPKI validation.
This directory holds TLA+ modules that model the program, TLC configurations
that check them on small instances, and TLAPS proofs of theorems that hold for
every instance. Paths below are relative to the repository root, which the
modules call `src/`; `doctor.rs` is `src/src/doctor.rs` there.

## 1. Inventory

| component | state it keeps | operations | hard behaviour | modelled |
|---|---|---|---|---|
| doctor (`doctor.rs`, `state.rs`, `event.rs`, `lint.rs`) | counters; per peer: flags, timestamps, counters; capped findings and events | open, process a frame, a malformed item, I/O error, finish | sequences of sessions of interleaved peers; two caps; exit code from capped findings | `Doctor` |
| watch (`doctor.rs:411-474`, `rolling.rs`) | ring of slots, counts by type and peer, total | push, print a line, finish | unsigned decrements, wrap-around, empty window | `Rolling`, `SlidingWindow` |
| container (`obmp_writer.rs`, `obmp_reader.rs`, recorder) | the file; recorder flags and counts; reader offset and statistics | poll, write, flush, stop; open, read prefix, read payload | crash inside a record, reading a growing file, deadline and Ctrl-C, limits that differ between writer and reader | `Container`, `RecordStream` |
| RPKI (`rpki.rs`) | VRP tables, cache file, temporary files | load, RTR session, save, validate | several processes on one cache file, crash inside a save, binary search on sorted data, deduplication | `Rpki` |
| stream browser (`browser.rs`) | filter, two lists, two selections, two scroll offsets, click tracker | keys, clicks, wheel, resize, draw | state recomputed by some handlers and not by others; layout one frame old | `Browser` |
| dashboard (`dashboard.rs`) | bounded maps, message log, rolling window, pause and exit flags, the terminal | find topics, browse, connect; keys, poll, drain; fold a message; leave | verdict of a message from those of its prefixes, a drain without an end, maps with caps of their own, errors after the terminal was taken over | `Dashboard` (partly: no header, status bar, throughput, communities) |
| raw BMP framing (`raw_bmp.rs`) | file offset | next frame, parse one frame | going on after a bad length, silent tail, read errors | `RawStream` |
| report (`report.rs`) | none | buckets, life cycle, health, peers shown, JSON | sums over findings that the cap may have cut | `Report` |
| active peerings (`peering.rs`) | cache file | load, fetch, parse, write; filter of topics | cache written in place, read by others meanwhile | `Caches`; the filter in `Dashboard` |
| AS names (`asnames.rs`) | cache file, names of the session | refresh, look up | load, merge, rewrite by several processes; a name cached before it is known | `Caches` |
| Kafka access (`kafka.rs`) | consumer | topics, filters, poll | timeouts, errors | `Container`, `Dashboard`; polls are inputs |
| command line, formats (`cli.rs`, `input.rs`, `main.rs`, `cache.rs`, `error.rs`) | none | parse, detect a format, dispatch, exit code | a raw capture that starts with the magic of a container | exit codes in `Doctor`, formats in `RawStream` |
| bgpkit-parser, librdkafka | - | - | third-party code | inputs |

How they interact: the frame source (raw iterator or container reader) feeds
doctor and watch by calls; recorder and reader share only the file; dashboards
share only the cache files; browser and dashboard hand a terminal to each
other; the dashboard pushes each message into a rolling window and validates
its prefixes with the RPKI table.

What makes each part correct:

- doctor: a finding is reported if and only if its item breaks the rule given
  the whole history; caps lose the latest findings only and nothing else; the
  exit code tells whether there was anything to report.
- watch: what is counted incrementally is what a recount of the window gives,
  and a printed line summarises exactly the last messages.
- container: what the recorder counts is in the file; the reader delivers the
  recorded messages, in order, and ends only for a reason that is there.
- RPKI: a verdict is what the VRPs say; the cache is always one whole session.
- browser: what is selected, shown and opened agree after every event.
- dashboard: an invalid prefix shows on its message's line (it does, unless the
  first prefix is Valid); keys are served; what a bounded map holds is exact
  although it misses keys; the panels lead with what they claim to; the terminal
  is given back.
- raw framing: damage to a file does not reach the frames in front of it, what
  is yielded is what stands at the offset reported, and iteration ends.
- report: what inspect prints is what a capture, cut by the cap, says.
- cache files: an active set is one page, or a part of one after a crash; a
  refreshed name stays; a label does not change while one looks at it, as far as the
  names of the session have room.

`PROJECT.json` lists every hazard with its line and the properties about it.

## 2. Plan

The modules were written in this order, the most important behaviour first:

1. `Doctor` with proofs.
2. `Rolling`, refining `SlidingWindow`, with proofs.
3. `Container`, refining `RecordStream`, with proofs.
4. `Rpki`, with proofs of its cache file and of its verdicts.
5. `Browser`, with proofs.
6. `Dashboard`: `run_dashboard`, `run_loop`, `process_message` and the two panels
   that compute something, with proofs.
7. `Caches`: the files of active peerings and AS names, with proofs.
8. `RawStream`, with proofs, and `Report` on top of `Doctor`.
9. `OrderLemmas`: what the proofs share.

Every module of the plan is written, checked and proved about. No module reaches a
RECURSIVE operator; what recurs in the code is a recursive function, and what
sorts or filters a list is defined by the rank of each member.

## 3. Modules and how they correspond to the code

**Doctor** models `Doctor::process` and what the subcommands do around it. A
frame is the record of what the code branches on: type, version byte right or
wrong, peer, timestamp, whether the type's own part decodes, number of prefixes.
One action per outcome of the frame source: `ProcessFrame`, `ProcessMalformed`,
`Finish`, `IoError`, and before these `Open` or `OpenFails`. `process_frame` is
one action, with the findings in the order the code pushes them. A finding's
offset is the position of its item in `log`, a history variable that no action
reads; the properties recompute from `log` what the findings should be
(`Breaks`). `Init` ranges over inspect, lint and dump.

**SlidingWindow** is the promise of a rolling summary: the last messages and a
summary of exactly them. **Rolling** is the ring of `rolling.rs` with its
counters, driven by the loop of `watch`. Counters are integers, so that an
unsigned underflow is a violation of `TypeOK` and not a wrap-around. The
interval timer may or may not have fired at any message. The refinement mapping
reads the ring from the oldest slot on. Metadata is left out of the mapping: it
reaches the summary only with the last line, and no document says otherwise.

**RecordStream** is the promise of a capture: the recorded messages, delivered
in order. **Container** has a recorder process and a reader process over one
file. The file is a sequence of cells; a length prefix is two cells and a
payload as many as its size, so every kind of torn record exists. `Check`,
`PollMessage`, `WriteCell`, `FrameWritten` and `Finish` are the recording
loop, and before it `Resolve` finds the topics and `Create` opens the file;
`ReadPrefix`, `ReadPayload` and `ReadTorn` are the iterator; `WriteFails`,
`ReadError`, `Crash`, `CtrlC` and `Expire` are the environment. A payload has
the outcome of each parsing step, and `Counted` is what the statistics make of it.

**Rpki** has any number of dashboards that share a cache directory. `pc` follows
`load_or_download`: read the cache if it is fresh, otherwise a session of
prefix PDUs ended by End of Data, then create, write, sync and rename. Building
the table sorts by address (stable) and removes equal neighbours, as the code
does; `Search` is the binary search, `Block` the walk to both sides, `Verdict`
the loop over all prefix lengths. IPv4 and IPv6 are the same code twice and one
definition here. Addresses have `Width` bits. A sorted sequence is given by the rank
of each position (`Ranked`), so that equal addresses keep their order as in the
stable sort; `Kept` are the positions that deduplication leaves, and `Ranges` the
part of the sequence that the binary search still looks at after each probe.

**Browser** is the event loop of the stream browser. One step is the handler of
an event followed by the scrolling and drawing in front of the next event, as in
the loop. A text is abstracted to the set of filters that are found in it.
Drawing can fail: `Panics` says that the renderer would index a stream that is
not there. A resize is drawn in the new size with offsets for the old one,
because the layout is stored while drawing and used in the next turn.
`Ascending` is the list of the members of a set of positions, what a filter over an
enumerated vector collects. The names that `Dashboard` has too begin with `Browser`
(`BrowserInit`, `BrowserNext`), so that one module can hold the proofs about both
screens. The
escape fragments that a debug variable makes the loop swallow, and the list of
recent topics, are left out.

**Report** extends `Doctor` by what `inspect` prints of its state: the buckets of
findings, the life cycle line, the health and its interpretation, the peers in
the order shown and cut at `--max-peers`, and the JSON form. They are operators over
the variables of `Doctor`; `InspectIsTrue` compares them with the history.

**Dashboard** has a variable `screen` for the place in `run_dashboard` and
`run_loop`: choosing a topic, the browser, connecting, then keys, poll, drain in
turn. `Choose`, `Browse` and `Connect` may fail with an error that skips the end of
the function, where the terminal is restored; `End` is every other way out. A
message is the record of what `process_message` branches on, and `ProcessMessage`
is all of it but the push to the rolling window (`Rolling`), throughput and
communities: findings, log, metadata and the bounded maps, each through `BumpCount`
or `InsertBounded` with its own cap. `Ticker` and `PrefixFlaps` are the rows of
the two panels, for any height; `Ranked` puts origins and prefixes in the order in
which `render_origins` sorts them. The verdict of a prefix is a constant: what `Rpki`
proves and checks it to be. The browser is the choice it ends with. `history`
records the messages since the dashboard was opened; no action reads it.

**RawStream** is the iterator over a raw file and the parser of a single frame, which
the container reader uses. A file is a sequence of cells, one per field of the
layout, so lengths, types and values can be cut and damaged separately.
`Iterate` is one call of `next`: `SkipHeader`, `DeliverFrame`, `TruncatedFrame`,
failing reads, or the end. `Init` opens the file as a raw capture if that is
the flag or if nothing of it looks like a container.

**Caches** has any number of processes that share the cache directory; each is idle,
a dashboard (loading, fetching, writing the page, running) or a refresh of AS
names (asking, merging, writing). Both files are truncated and then filled.
The page is written row by row and read at any moment. What a reader makes of it
(`Parsed`) is exact as long as the file holds the first rows of one page: a row cut
at its end parses as nothing or as itself. The code writes bytes, each writer at its own
offset, so where two writers overlap a row may begin or go on in the middle of
another one, and where they meet depends on the lengths of their rows. From
there on the file is `Garbled`, and any set of peerings may be parsed of it, those
of no page (`Strays`) included; the same holds for a reader under whom the file is
truncated (`torn`). The next truncation starts anew. A reader may also find that the
file cannot be read or is not UTF-8 (`CannotRead`), and falls through as the
code does. A file of names that is not complete reads as empty; a write that fails leaves
in the file what was written, and the process forgets the rest. `damage` and
`nameHurt` are history variables: that the last write was cut short or overlapped
another. `seen` is the damage of what a dashboard loaded, `shown` the
label each AS was last drawn with. The sources of a name and their order are `Chain`; the
tables compiled in are constants.

`MCDoctor`, `MCRolling`, `MCContainer`, `MCRpki`, `MCBrowser`, `MCDashboard`,
`MCCaches` and `MCRawStream` give the constants small values; the runs `caches` and
`rpki_verdicts` use symmetry of processes, and check no liveness.
The modules named `...Proofs` hold the theorems; `TerminalProofs` those of both
`Browser` and `Dashboard`.
Definitions commented as variants are plausible mistakes; none is used by a
specification. Each property has one which violates it when it replaces the
definition after it (listed under `mutants` in `PROJECT.json`).

## 4. Runs

| run | question | instance | states |
|---|---|---|---|
| `doctor_lint` | are findings, counters, events, exit code and all that inspect prints what the history says? | two peers, twelve kinds of frames, four items, caps 0 (raised to 1) and 3 | 556 944 |
| `rolling` | do the counts survive eviction, and does the ring implement the window? | two peers, five kinds of frames and malformed items, windows 0 to 3, seven items | 358 630 |
| `container` | is every recorded message in the file, and delivered once and in order, with failures everywhere? | six payloads, three messages, payload limit between the sizes used, topics found, none found, or no broker | 268 582 |
| `container_metadata` | is metadata that of the first payload that unwraps? - violated | same | |
| `rpki_verdicts` | is a verdict what the VRPs say, and the shared file one whole session? | addresses of two bits, 49 routes; one dashboard with up to three of five PDUs in any order, two at the same time with up to two of two PDUs each | 62 409 |
| `rpki_wrong_asn` | does InvalidWrongAsn mean that no covering VRP has the origin? - violated | one dashboard, two VRPs | |
| `rpki_duplicates` | is an authorised route Valid? - violated | one dashboard, two VRPs | |
| `browser` | do selections, filter, scrolling and opening agree? | three collectors with three, one and one streams, filters of two characters, panes of 0 to 2 rows | 2 897 |
| `browser_click_panics` | is what is drawn there? - violated | same | |
| `dashboard` | are the bounded maps exact, do the panels lead with what they claim, is the terminal restored, are keys served? | three topics, nine kinds of messages over four prefixes and four ASes, three messages, caps of one to three, log of two | 209 936 |
| `caches` | is an active set one page, does a refreshed name stay, does a label stay? | two processes; four starts for the page, three for the names; two pages of two rows, three ASes, limits of one and two | 470 968 |
| `raw_stream` | how far does damage reach, do both parsers agree, does iteration end? | two frames of five kinds, cut at every cell or any cell replaced by any of ten values, with and without the magic of a container, reads failing anywhere | 607 517 |

Bounds and why they are enough. *Doctor*: two items of a peer with an item of
the other in between, then one more, give every predecessor relation the rules
use; cap 1 is hit at once and cap 3 in the middle of a frame with two findings.
*Rolling*: seven items through three slots evict every slot, and the first one
again after it has been rewritten; window 0 takes the early return. *Container*: three
records are one before, one at and one after each interesting cell; sizes 0, 1,
2 and 3 are empty, within, at and over the limit of 2. *Rpki*: two bits give
nested prefixes and siblings; three VRPs let a duplicate be adjacent to, before
and after another VRP. `Bounded`, a constraint of the run, keeps the product of both
questions small: the long sequences of VRPs are for a dashboard without a rival and
a session without an older cache file, which a later start then reads; two that race
for the file, and sessions that replace one, bring up to two VRPs of two kinds each, so
that they differ. *Browser*: three streams in two rows must scroll, and the
filters hide none, the first, all but the last stream. *Dashboard*: three messages
fill each map and come back to a key that is in it and to one that is not; a log of
two drops its oldest line; paths are one longer than is stored. *Caches*: with four
starts two writers overlap, one or both go on to load again what they left, and
a later writing heals the file; a page is two rows, so it can be cut in the middle.
The cap of one name is reached by the second. No action touches both files, so
`Bounded`, a constraint of the run, leaves out the states in which both are in use. *RawStream*: `MaxItems` (12) exceeds the items any file yields unless reads
keep failing; a replaced cell takes every value, so a length becomes zero, too small,
too large, over `MaxFrame`, or one that ends inside the next frame. Deadlock
is allowed in all runs: a capture ends, a browser is closed, and the bounds stop
the rest.

Fairness is assumed in three modules. *Container*: the recorder's loop takes its next
step, resolving topics included (a poll returns within its 500 ms timeout, the
metadata request within its own), time passes (so the deadline expires), and an
open reader takes its next step (it is a loop without waiting). Nothing obliges
anybody to press Ctrl-C, to open the file, to send a message, and no failure has
to happen. *Dashboard*: `ServeKeys` and the first poll of a turn, both of which wait with
a timeout. The end of a drain is not assumed, because nothing in the code brings it about:
`KeysServed` has it as a premise, since a drain that never ends serves no key.
*RawStream*: the command calls the iterator until it ends.

What the violated runs show:

- `container_metadata`: `obmp_reader.rs:306` looks for metadata only while no
  record has been counted, so a first record that does not unwrap means no
  metadata at all; the documentation says the first payload that unwraps.
- `rpki_wrong_asn`: `rpki.rs:235` answers InvalidWrongAsn as soon as a covering VRP of
  another origin is long enough, also when a covering VRP of the observed origin stands
  beside it whose maximal length is too short: a route of length 2 from `a1`
  under 0/1-1 of `a1` and 0/2-2 of `a2`. README.md:257 and the comment at
  `rpki.rs:188-190` say that none of the covering VRPs match the origin.
  `VerdictsSound`, which holds, says what the verdict does mean: a covering VRP of another
  origin is long enough.
- `rpki_duplicates`: deduplication (`rpki.rs:701`) ignores the maximal length.
  With two VRPs of one prefix and origin the one received first wins, and a
  route that only the other authorises is InvalidTooLong. `OnlyShadowedDenied`,
  which holds, says that a route misses its Valid only if the session brought another
  VRP of the same prefix and origin that is too short for it.
- `browser_click_panics`: a click on a collector (`browser.rs:435`) does not
  recompute the stream filter, against the comment at `browser.rs:683`; the
  next drawing may index out of bounds. `InStepUnlessClicked`, which holds, says that
  without such a click this cannot happen, and the theorem
  `PanicsOnlyClickedAndFiltered` that it takes a filter as well.

What the models showed besides, where no document says otherwise and so no run is
expected to fail:

- `browser.rs:724`: a filter that hides the selected stream moves the selection to
  the first stream, hidden or not. `UnfilteredStaysInPane` says that without
  a filter the selection is on the screen.
- `dashboard.rs:159`: once the first prefix of a message is Valid, later invalid
  ones leave the line Valid, with their hint next to it.
- `dashboard.rs:212`: a withdrawn prefix goes under the origin of the update that
  withdraws it. `dashboard.rs:143`: of a path longer than is stored, the
  ticker shows the last AS that is stored as the origin; the panel is not affected.
- `dashboard.rs:336`: an error of the broker after the terminal was taken over ends
  the program in the alternate screen. `dashboard.rs:915`: a stream faster than its
  processing keeps keys waiting. Back from the dashboard, `--collector` and `--asn`
  no longer apply.
- `peering.rs:133`: a part of a page counts as fresh for 15 minutes and hides streams,
  and a file in which two writers overlapped may list peerings that the server never
  did. `ActiveIsOnePage` says that a part only hides, and that the next writing that is
  alone heals the file; of the overlap itself nothing can be promised.
- `dashboard.rs:695`: an AS that is not curated and comes when the session holds its
  maximum of names is looked up at every drawing, and its label changes when a refresh
  brings a name. `LabelsStable` makes exactly this exception.
  `asnames.rs:209`: a torn file of names reads as empty, and the refresh that follows
  writes only its own; "wrote ..." is printed although a failed write is ignored.
- `dashboard.rs:626`: of two collectors with equally many prefixes, which name an AS
  gets depends on the order of a hash map.
- `report.rs:320`: health and interpretation come from kept findings, so that they
  depend on the cap. `raw_bmp.rs:512`: a tail shorter than a header is dropped
  without a word.

## 5. Proofs

`tlapm` checks every theorem; nothing is assumed beyond the named assumptions
on constants, which TLC evaluates in the runs. They say what the inputs are:

- captures, messages and pages have their types, and a damaged capture says which
  cell is the first that is not as it was sent (`CapturesAssumption`);
- `None` values are none of the values they stand next to (`NoPeerAssumption`,
  `NoLineAssumption`, `NoneAssumption` and the like);
- limits are numbers; `Width` and the prefixes shown per origin are at least one;
- `KeyOrder` lists every peer once: it is the order of the map's keys;
- every collector has a stream, as `BrowserModel::new` makes collectors from streams,
  and they are in its order (`CollectorsAssumption`);
- AS numbers and prefixes are numbers, because the code sorts them, and the ASes of
  `Caches` are finitely many;
- `validate` has a status for every announced prefix (`VerdictAssumption`).

**OrderLemmas** holds what several proofs rest on. Induction over the naturals is
taken from the least member of a set (`LeastMember`, `SetInduction`): the set of
numbers for which a statement holds is written down instead of a predicate.
`Recursion` and `OnlySolution` say that a recursive function exists and has no
rival, so that its equation may be used; `FlattenUnfold` and `FlattenStep` do that
for `FlattenSeq`. `Ranks` and `EveryRank` say that the members of a finite ordered set
have the ranks from zero on, each once; what is sorted by rank is a permutation.

**DoctorProofs**, for every set of peers, every capture, and every cap:

- `TypeCorrect`: types, and `CapRespected`: findings are dropped only at the
  cap, which is never exceeded. `TypeInv`, both together, is inductive: the type
  of `findings` alone does not bound its length.
- `LifecycleCorrect`: the flags of a peer are what the history says. The
  invariant is inductive with `TypeInv`; the step rests on `SessionStep` and
  `LatestStep`, which say how a quantified statement about the history changes
  when one item is appended.
- `SoundFindings`: each finding points at an item that breaks its rule. Inductive
  together with the two before: what an old finding says about its item does not
  change when the history grows (`PastBreaks`), and what a new one says follows
  from the flags being right (`RaisedBreaks`).
- `LintCorrect`: the exit code of lint. It needs the converse of soundness,
  `NoneMissed`: as long as nothing was dropped, every broken rule is told. The step
  rests on `BreaksRaised` and `FrameFindingsAll`, the converses of the two lemmas for
  soundness; a cap of at least one then makes an empty list mean a clean capture.
- `CompletenessCorrect`: kept and dropped findings are together as many as the
  broken rules, none twice, and those dropped are the latest. The set of broken rules
  grows by those of one item (`BrokenStep`), which are told one after the other
  (`FrameTold`), and a cap cuts the end (`EarliestStep`).
- `CountersCorrect`: of each peer, the counters of Peer Ups, of route monitorings
  before a Peer Up and of timestamp regressions are the numbers of such places in the
  history, and its four counters of frames add up to all its frames; dump lists of the
  first items, up to its cap, the rules they break. Each step adds one place to some
  of these sets (`PositionsStep`).
- `InspectCorrect`: what `Report` prints. The sums over findings split by bucket and by
  severity (`KeptSplit`, `SumsAddUp`), and the peers shown are the first in the order
  of their route frames and keys (`AheadOrders`, `ShownPeers`).

**RollingProofs**, for every window size and stream:

- `TypeCorrect` (no counter falls below zero) and `CountsCorrect` (they equal a
  recount). Neither is inductive alone - that a decrement is safe needs the recount,
  and the recount needs to know that the evicted slot is in use - so the invariant
  `IInv` is the conjunction of types, shape of the ring and recount, and `Recount` is
  the lemma about the cardinality of a set of slots when one slot changes.
- `Refinement`: `Rolling` implements `SlidingWindow`. Read from the oldest slot on, a
  push drops the first message of the window and appends one (`WindowSlides`, with
  `Wrap` for the arithmetic modulo the size), or appends while the ring is not
  full (`LongerWindow`); a line has the sums of that window because position and slot
  are in bijection (`WindowOfSlots`, `SameNumber`).

**ContainerProofs**, for every set of payloads, all limits, and failures and crashes
anywhere. The invariant has three parts. `RecorderInv`: what is in the file and what
is still to be written make up the layout of the accepted messages. `ReaderInv`: the
reader stands behind the records delivered, or behind the prefix of the next one.
`StatsInv`: the counters. From it follow `TypeCorrect`, `FileCorrect`,
`DeliveryCorrect` and `StatsCorrect`; `EndsCorrect`, an action property, says that the
iteration ends only for a reason that is there; and `Refinement` that recorder, file
and reader implement `RecordStream`. `EndsAppend` and `LayoutAppend` are the
lemmas about the recursive layout of a file; `CompleteRecords` says that a record is
complete exactly when the file reaches its end.

**RpkiProofs**, for any number of dashboards, every server, and addresses of any width:

- `TypeCorrect`: no session or file brings more VRPs than the limit.
- `OneSession`: the cache file is one complete session, and every table in use
  comes from one. The invariant follows a session from `Build` through the
  temporary file to the file that the next dashboard reads (`SortedAgain`: what is read
  is sorted once more, which changes nothing).
- `VerdictsCorrect`: a verdict, and what is told with it, follows from the accepted
  VRPs. Sorting is a permutation in ascending order (`SortedFacts`), deduplication
  keeps the first of those alike (`DedupFacts`), the binary search ends on a position
  with the address if there is one (`SearchFacts`, by induction over the probes:
  `HalfNarrows`), and the walk from there meets all of them (`BlockFacts`).
- `OnlyDuplicatesDeny`: an authorised route misses its Valid only if the session
  brought a duplicate with a maximal length that is too short.

**RawStreamProofs**, for every file, frame limit and limit of statistics:

- `AgreementCorrect`: what the iterator yields is what the slice parser reads at
  the reported offset. The offset the iterator counts is not needed to read on, so that
  it could be wrong unnoticed; the invariant `InPlace` says that it is the position in
  the file until less than a header is left or a read has failed.
- `DamageCorrect`: the frames in front of the first damage are yielded as sent, and a
  cut capture tells at most one error. The invariant `Walks` says that the reader has
  come from frame to frame as far as the file is like what was sent, `CutInv` what is
  left when it has come to the end of a cut file. `Steps` and `Marks` are about the
  places where frames begin in the concatenation of all that were sent.

**CachesProofs**, for any number of processes, pages, ASes and starts:

- `TypeCorrect`: no refresh asks for or keeps more names than its limits, and nothing
  is left of a page when its writer stops. (This needs a failed write to forget
  its place in the page as well as the page.)
- `LabelsStay`: the label an AS is drawn with does not change while a dashboard runs,
  unless the AS is not curated and came when the session was full. The invariant
  `LabelOf` says that what was drawn is in the session, or curated, or the session is
  full; it stays full, because it only grows (`StaysFull`).
- `AnswersStay`: a refreshed name stays in the file unless refreshes overlap.
  Inductive with `OneMerges`: while no write was disturbed, at most one process is
  between merging and writing, and what it is about to write holds all names so far.
- `OnePage`: an active set is a whole page or what is bundled if the file was written
  undisturbed, and a part of one if the writing was cut short or was going on. Inductive
  with `OneWrites`: unless writers overlapped since the last truncation that was
  alone, at most one process writes, and the file is the part of its page up to its
  offset. `PartParsed` is the lemma that a part of a page invents no peering, `ReadsRight`
  that what is read is no better than `damage` says.

**TerminalProofs**, about `Dashboard`, for every set of topics, messages of any
length, and all caps. The invariant is `Placed`, where the program is and whether
it holds the terminal, and `Data`, what the messages left behind:

- `CountsCorrect`, and with it `TypeCorrect`: a bounded map follows a list of keys, one
  list per message (`Counting`). `BumpTally` and `BumpAllTally` say what counting one
  key and all keys of a message add, `FollowsAll` that the map still follows the longer
  list, `FollowsExact` that a map which follows a list counts it exactly.
- `GroupingCorrect`: the origin of a tracked prefix is that of the latest message that
  gave it one (`Grouping`; `NamedGrows`).
- `LeaderCorrect`: the order of the panel is by rank (`KeyOrders`, `RankedFirst`), so
  that its first group has the highest rank and begins with the prefix that
  gives it (`FirstRow`, `FlapsBegin`).
- `VerdictsCorrect`: the fold over the prefixes of a message, by induction over
  them (`Judged`), and every entry of the log has its message's verdict (`Logging`).
- `TickerCorrect`: an entry has at least one row (`EntryLines`), so the last messages
  that fit have all the last rows (`FlattenEnd`, `NewestOfEnd`).
- `AnyHeight`: the last two for panels of every height, where the run tries a few.
- `TerminalCorrect`: the terminal is restored on every way out that is not an error.

**TerminalProofs**, about `Browser`, for every list of collectors, every set of
characters, bound on the filter and height of the panes. What the browser holds is
divided in two. `Held` is true of it at any time: the list is what the filter finds,
both selections exist exactly when something is listed, and without a filter no
stream is hidden. `InStep` is what a click may break: the streams shown are those the
filter finds for the selected collector. `BrowserInv` has `Held` always, `InStep`
until a collector is clicked (and again once the filter is recomputed), and
`Pointing`: what was clicked last is still selected, unless the tracker was reset.

- Each operation of the model keeps both parts (`MoveFacts`, `FocusFacts`,
  `EnsureFacts`), and `RecomputeFacts` and `RebuildFacts` bring `InStep` about from
  `Listing` alone. `FilterFacts` is where the two copies of the search condition meet:
  a filter never hides all streams of a collector that it lists, because that collector
  is listed for its own text, when all are shown, or for the text of one of them.
- `EveryTurn`: a turn of the loop quits, draws a model with these properties, or
  returns the stream selected in one. The theorems follow from it.
- `BrowserTypeCorrect`, `InStepCorrect`: types, and the panes agree until a click.
- `PanicsOnlyClickedAndFiltered`: the panic of the violated run takes a clicked
  collector and a filter; TLC shows that both together are enough.
- `PaneCorrect`: without a filter the selected rows are in their panes after every
  turn (`ScrolledFacts` is the arithmetic of `ensure_visible`).
- `OpensCorrect`: a double click opens what the click before it had selected.

Only model-checked: everything with fairness - `BothStop`, `KeysServed`,
`IterationEnds` - since liveness and ENABLED are out of the prover's reach. Every
other property of a run that passes is stated by a theorem.

## 6. Not modelled

Text and JSON layout, terminal drawing other than what is indexed or computed,
the dashboard's header, status bar, throughput and community counters, byte-level
parsing of BGP, RTR and cache files (its outcomes are inputs), third-party
libraries, argument parsing, the hook for a closed pipe, debug logs, the bundled
tables of names, labs and release tooling. They keep no state that another part
reads, or are not code of this repository.
