------------------------------ MODULE Container ------------------------------
(***************************************************************************)
(* A .bmpd capture from the Kafka recorder to the analysis.  The recorder  *)
(* (record_openbmp_kafka/src/main.rs) polls messages and writes each as a  *)
(* length-prefixed record (src/src/obmp_writer.rs); a reader               *)
(* (src/src/obmp_reader.rs) iterates over the file, possibly while it is   *)
(* still being written or after the recorder died.                         *)
(*                                                                         *)
(* The file is a sequence of cells, which reach it one by one and in order *)
(* (the buffered writer and the operating system may stop between any two  *)
(* bytes).  A prefix is two cells and a payload as many as its size, so    *)
(* that a record can be torn in its prefix, after it or in its payload.    *)
(***************************************************************************)
EXTENDS Integers, Sequences, FiniteSets, SequencesExt

CONSTANTS
  Payloads,    \* the messages the broker may deliver
  MaxPayload,  \* MAX_PAYLOAD_LEN, in cells
  MaxMessages, \* --max-messages
  MinMessages, \* --min-messages
  TopicLimit   \* --topic-limit

Kinds == {"RawBmp", "OpenBmpWrapped", "Unrecognized"}

(* kind: by the first bytes.  header: the OpenBMP header parses.  inner:   *)
(* bytes follow the header.  frame: the (inner) BMP frame parses.          *)
PayloadType == [kind: Kinds, header: BOOLEAN, inner: BOOLEAN, frame: BOOLEAN,
                size: Nat]

Empty == [kind |-> "Unrecognized", header |-> FALSE, inner |-> FALSE,
          frame |-> FALSE, size |-> 0]

ASSUME PayloadAssumption ==
  /\ Payloads \subseteq PayloadType
  /\ \A m \in Payloads : m.size = 0 => m = Empty
ASSUME LimitAssumption ==
  {MaxPayload, MaxMessages, MinMessages, TopicLimit} \subseteq Nat

VARIABLES
  recorder,  \* "resolving", "creating", "checking", "polling", "writing",
             \* "finishing", "listed", "exited", "failed" or "crashed"
  running,   \* the flag the Ctrl-C handler clears
  expired,   \* --max-seconds have passed
  accepted,  \* history: the payloads handed to write_frame
  todo,      \* the cells of the record being written, not yet in the file
  written,   \* messages_written
  exit,      \* the recorder's exit code
  file,      \* the cells in the file
  reader,    \* "closed", "prefix", "payload", "ended" or "failed"
  offset,    \* file_offset: the cells consumed
  need,      \* payload_len of the record being read
  delivered, \* the payloads of the records read
  tail,      \* the error item that ended the iteration
  stats,     \* the counters of ContainerStats
  metadata   \* the record whose OpenBMP metadata is kept, 0 for none

recVars  == <<recorder, running, expired, accepted, todo, written, exit>>
readVars == <<reader, offset, need, delivered, tail, stats, metadata>>
vars     == <<recVars, file, readVars>>

Magic  == <<"magic">>
Prefix == 2

Cells(m) ==
  [i \in 1..(Prefix + m.size) |-> IF i <= Prefix THEN <<"length", m.size>>
                                                 ELSE <<"data", m>>]
-----------------------------------------------------------------------------
(* The recorder.                                                           *)

Stopped == {"listed", "exited", "failed", "crashed"}

(* main: an exact topic is taken at its word; otherwise the broker is      *)
(* asked, and no topic (or no answer) and too many are errors.  Whatever   *)
(* is to be listed is printed, however much it is, and nothing recorded.   *)
Resolve ==
  /\ recorder = "resolving"
  /\ \E exact, list \in BOOLEAN, matched \in 0..(TopicLimit + 1) :
       LET fails == ~exact /\ (matched = 0 \/ (~list /\ matched > TopicLimit))
       IN  /\ recorder' = CASE fails          -> "failed"
                            [] ~fails /\ list -> "listed"
                            [] OTHER          -> "creating"
           /\ exit' = IF fails THEN 1 ELSE 0
  /\ UNCHANGED <<running, expired, accepted, todo, written, file, readVars>>

(* File::create and the magic; run_record fails when either does.          *)
Create ==
  /\ recorder = "creating"
  /\ \/ recorder' = "checking" /\ file' = <<Magic>> /\ UNCHANGED exit
     \/ recorder' = "failed" /\ exit' = 1 /\ UNCHANGED file
  /\ UNCHANGED <<running, expired, accepted, todo, written, readVars>>

(* Variants: the number of messages or the time is not looked at.          *)
NoLimit    == running /\ ~expired
NoDeadline == running /\ written < MaxMessages

(* The condition of the recording loop.                                    *)
Recording == running /\ written < MaxMessages /\ ~expired

Check ==
  /\ recorder = "checking"
  /\ recorder' = IF Recording THEN "polling" ELSE "finishing"
  /\ UNCHANGED <<running, expired, accepted, todo, written, exit, file, readVars>>

(* Nothing within the poll timeout, a Kafka error or an empty message.     *)
PollNothing ==
  /\ recorder = "polling"
  /\ recorder' = "checking"
  /\ UNCHANGED <<running, expired, accepted, todo, written, exit, file, readVars>>

PollMessage(m) ==
  /\ recorder = "polling"
  /\ recorder' = "writing"
  /\ accepted' = Append(accepted, m)
  /\ todo' = Cells(m)
  /\ UNCHANGED <<running, expired, written, exit, file, readVars>>

WriteCell ==
  /\ recorder = "writing" /\ todo # <<>>
  /\ file' = Append(file, Head(todo))
  /\ todo' = Tail(todo)
  /\ UNCHANGED <<recorder, running, expired, accepted, written, exit, readVars>>

(* Variant: a message counts as written before it is flushed.              *)
CountEarly ==
  /\ recorder = "writing"
  /\ recorder' = "checking"
  /\ written' = written + 1
  /\ UNCHANGED <<running, expired, accepted, todo, exit, file, readVars>>

(* write_frame returns: everything is flushed.                             *)
FrameWritten ==
  /\ recorder = "writing" /\ todo = <<>>
  /\ recorder' = "checking"
  /\ written' = written + 1
  /\ UNCHANGED <<running, expired, accepted, todo, exit, file, readVars>>

(* A write fails; dropping the buffered writer may still bring some of the *)
(* record, or all of it, into the file.                                    *)
WriteFails ==
  /\ recorder = "writing" /\ todo # <<>>
  /\ recorder' = "failed" /\ exit' = 1
  /\ \E n \in 0..Len(todo) : file' = file \o SubSeq(todo, 1, n)
  /\ todo' = <<>>
  /\ UNCHANGED <<running, expired, accepted, written, readVars>>

(* check_min_messages                                                      *)
ExitCode == IF MinMessages > 0 /\ written < MinMessages THEN 1 ELSE 0

Finish ==
  /\ recorder = "finishing"
  /\ recorder' = "exited"
  /\ exit' = ExitCode
  /\ UNCHANGED <<running, expired, accepted, todo, written, file, readVars>>

(* The handler is set once the topics are known; before that it is a Crash.*)
CtrlC ==
  /\ recorder \notin Stopped \cup {"resolving"} /\ running
  /\ running' = FALSE
  /\ UNCHANGED <<recorder, expired, accepted, todo, written, exit, file, readVars>>

Expire ==
  /\ recorder \notin Stopped \cup {"resolving", "creating"} /\ ~expired
  /\ expired' = TRUE
  /\ UNCHANGED <<recorder, running, accepted, todo, written, exit, file, readVars>>

(* The process is killed; what it had buffered is lost.                    *)
Crash ==
  /\ recorder \notin Stopped
  /\ recorder' = "crashed" /\ todo' = <<>>
  /\ UNCHANGED <<running, expired, accepted, written, exit, file, readVars>>
-----------------------------------------------------------------------------
(* parse_record_payload                                                    *)

Unwraps(m) == m.kind = "OpenBmpWrapped" /\ m.header /\ m.inner

FrameOk(m) == m.frame /\ (m.kind = "RawBmp" \/ Unwraps(m))

StatCounters == {"records", "raw", "wrapped", "unrecognized", "unwrap", "inner"}

(* Variant: a malformed wrapper counts as an inner error, too.             *)
CountedTwice(m) ==
  {c \in StatCounters :
     \/ c = "records"
     \/ c = "raw"          /\ m.kind = "RawBmp"
     \/ c = "wrapped"      /\ m.kind = "OpenBmpWrapped"
     \/ c = "unrecognized" /\ m.kind = "Unrecognized"
     \/ c = "unwrap"       /\ m.kind = "OpenBmpWrapped" /\ ~m.header
     \/ c = "inner"        /\ m.kind # "Unrecognized" /\ ~FrameOk(m)}

(* The counters next increments.  A wrapper without an inner frame has a   *)
(* well-formed header and counts as an inner error.                        *)
Counted(m) ==
  {c \in StatCounters :
     \/ c = "records"
     \/ c = "raw"          /\ m.kind = "RawBmp"
     \/ c = "wrapped"      /\ m.kind = "OpenBmpWrapped"
     \/ c = "unrecognized" /\ m.kind = "Unrecognized"
     \/ c = "unwrap"       /\ m.kind = "OpenBmpWrapped" /\ ~m.header
     \/ c = "inner"        /\ m.kind = "RawBmp" /\ ~FrameOk(m)
     \/ c = "inner"        /\ m.kind = "OpenBmpWrapped" /\ m.header /\ ~FrameOk(m)}

(* Metadata is only taken from the very first record of the container.     *)
Metadata(m) ==
  IF stats["records"] = 0 /\ Unwraps(m) THEN stats["records"] + 1 ELSE metadata
-----------------------------------------------------------------------------
(* The reader.                                                             *)

Open ==
  /\ reader = "closed"
  /\ IF file = <<>> THEN reader' = "failed" /\ UNCHANGED offset
                    ELSE reader' = "prefix" /\ offset' = 1
  /\ UNCHANGED <<recVars, file, need, delivered, tail, stats, metadata>>

Available == Len(file) - offset

(* The length prefix; the end of the file there is the end of the          *)
(* iteration, an error item only in front of the first record.             *)
ReadPrefix ==
  /\ reader = "prefix"
  /\ \/ /\ Available < Prefix
        /\ reader' = "ended"
        /\ tail' = IF delivered = <<>> THEN "no_record" ELSE "none"
        /\ UNCHANGED <<offset, need>>
     \/ /\ Available >= Prefix
        /\ offset' = offset + Prefix
        /\ need' = file[offset + 1][2]
        /\ IF need' > MaxPayload
           THEN reader' = "ended" /\ tail' = "oversized"
           ELSE reader' = "payload" /\ UNCHANGED tail
  /\ UNCHANGED <<recVars, file, delivered, stats, metadata>>

(* The payload as it is in the file; without a cell it is an empty one.    *)
PayloadAt ==
  IF need = 0 THEN Empty ELSE file[offset + 1][2]

(* Variant: what is there of a torn payload is delivered.                  *)
SomeAvailable == Available >= 1 \/ need = 0

(* Variant: a record at the very end of the file seems torn.               *)
MoreAvailable == Available > need

WholeAvailable == Available >= need

ReadPayload ==
  /\ reader = "payload"
  /\ WholeAvailable
  /\ reader' = "prefix"
  /\ offset' = offset + need
  /\ delivered' = Append(delivered, PayloadAt)
  /\ stats' = [c \in StatCounters |->
                 stats[c] + IF c \in Counted(PayloadAt) THEN 1 ELSE 0]
  /\ metadata' = Metadata(PayloadAt)
  /\ UNCHANGED <<recVars, file, need, tail>>

(* The end of the file within the payload.                                 *)
ReadTorn ==
  /\ reader = "payload"
  /\ ~WholeAvailable
  /\ reader' = "ended" /\ tail' = "torn"
  /\ UNCHANGED <<recVars, file, offset, need, delivered, stats, metadata>>

(* An I/O error aborts the analysis in front of a payload, but within a    *)
(* payload it is one more error item that ends the iteration.              *)
ReadError ==
  /\ \/ reader = "prefix"  /\ reader' = "failed" /\ UNCHANGED tail
     \/ reader = "payload" /\ reader' = "ended" /\ tail' = "io"
  /\ UNCHANGED <<recVars, file, offset, need, delivered, stats, metadata>>
-----------------------------------------------------------------------------
Init ==
  /\ recorder = "resolving" /\ running = TRUE /\ expired = FALSE
  /\ accepted = <<>> /\ todo = <<>> /\ written = 0 /\ exit = 0
  /\ file = <<>>
  /\ reader = "closed" /\ offset = 0 /\ need = 0
  /\ delivered = <<>> /\ tail = "none"
  /\ stats = [c \in StatCounters |-> 0] /\ metadata = 0

Record ==
  \/ Resolve
  \/ Create
  \/ Check
  \/ PollNothing
  \/ \E m \in Payloads : PollMessage(m)
  \/ WriteCell
  \/ FrameWritten
  \/ Finish

Read == ReadPrefix \/ ReadPayload \/ ReadTorn

Next ==
  \/ Record \/ WriteFails \/ Crash
  \/ CtrlC \/ Expire
  \/ Open \/ Read \/ ReadError

Spec == Init /\ [][Next]_vars

(* The recorder's loop keeps running (a poll returns within its timeout),  *)
(* so does the loop of an open reader, and time passes.  Nobody has to     *)
(* press Ctrl-C or to open the file, and nothing has to fail.              *)
FairSpec == Spec /\ WF_vars(Record) /\ WF_vars(Expire) /\ WF_vars(Read)
-----------------------------------------------------------------------------
(* Every variable has its type.                                            *)
TypeOK ==
  /\ recorder \in Stopped \cup {"resolving", "creating", "checking", "polling",
                                "writing", "finishing"}
  /\ running \in BOOLEAN /\ expired \in BOOLEAN
  /\ accepted \in Seq(Payloads)
  /\ written \in 0..MaxMessages
  /\ exit \in 0..1
  /\ reader \in {"closed", "prefix", "payload", "ended", "failed"}
  /\ offset \in 0..Len(file) /\ need \in Nat
  /\ delivered \in Seq(Payloads)
  /\ tail \in {"none", "no_record", "oversized", "torn", "io"}
  /\ stats \in [StatCounters -> Nat] /\ metadata \in 0..1

(* What a file with the first n of these records looks like, where its     *)
(* last record ends, and the number of accepted records that are in the    *)
(* file as a whole.                                                        *)
Layouts(records) ==
  LET upTo[n \in 0..Len(records)] ==
        IF n = 0 THEN <<Magic>> ELSE upTo[n-1] \o Cells(records[n])
  IN  upTo

Ends(records) ==
  LET end[n \in 0..Len(records)] ==
        IF n = 0 THEN 1 ELSE end[n-1] + Prefix + records[n].size
  IN  end

Layout(records) == Layouts(records)[Len(records)]

Complete ==
  LET end == Ends(accepted)
  IN  Cardinality({n \in 1..Len(accepted) : end[n] <= Len(file)})

(* At every moment and wherever the recorder dies, the file is a prefix of *)
(* what the accepted messages amount to, and while it records the rest is  *)
(* still to be written: nothing is written twice, left out or interleaved. *)
FileLayout ==
  /\ IsPrefix(file, Layout(accepted))
  /\ recorder \in {"checking", "polling", "writing", "finishing", "exited"} =>
       file \o todo = Layout(accepted)

(* messages_written is never more than what is in the file, even for a     *)
(* recorder that died, and at most one record less.  A recorder that exits *)
(* leaves no torn record, and exit code 0 means that enough are in it; one *)
(* that was to list the topics leaves the file alone.                      *)
WrittenIsInFile ==
  /\ Complete - written \in {0, 1}
  /\ recorder = "exited" =>
       /\ Complete = written /\ Len(accepted) = written
       /\ exit = 0 => Complete >= MinMessages
  /\ recorder = "listed" => file = <<>>

(* Both, wherever the recorder fails or dies (obmp_writer.rs:31-39,        *)
(* main.rs:209-252).                                                       *)
FileAsCounted == FileLayout /\ WrittenIsInFile

(* The reader delivers the recorded messages, each once and in order, from *)
(* a finished file, a growing one and one whose recorder died.             *)
DeliveredInOrder ==
  /\ IsPrefix(delivered, accepted)
  /\ Len(delivered) <= Complete

(* The iteration only ends without an error item, or for a torn record,    *)
(* when every complete record has been delivered; a record is only torn    *)
(* while it is being written or after the recorder died in it; and         *)
(* otherwise it ends in front of a record over the limit.                  *)
EndsForAReason ==
  [][reader' = "ended" /\ reader # "ended" =>
       CASE tail' \in {"none", "no_record"} -> Len(delivered) = Complete
         [] tail' = "torn"      -> /\ Len(delivered) = Complete
                                   /\ recorder \in {"writing", "failed", "crashed"}
         [] tail' = "oversized" -> accepted[Len(delivered) + 1].size > MaxPayload
         [] OTHER               -> tail' = "io"]_vars

(* The counters shown for a container account for every record: each is of *)
(* one kind, and each one whose frame is an error is in exactly one of the *)
(* three classes of failures (docs/real-sample-validation.md:90-102).      *)
StatsAddUp ==
  /\ stats["records"] = Len(delivered)
  /\ stats["records"] = stats["raw"] + stats["wrapped"] + stats["unrecognized"]
  /\ stats["unwrap"] + stats["inner"] + stats["unrecognized"]
       = Cardinality({i \in DOMAIN delivered : ~FrameOk(delivered[i])})

(* The recorder stops by itself, even when no message ever arrives.        *)
RecorderStops == <>(recorder \in Stopped)

(* An opened file is read to an end, whatever the recorder does.           *)
ReaderStops == reader = "prefix" ~> reader \in {"ended", "failed"}

(* Neither waits for the other or for the broker for ever (main.rs:203,    *)
(* obmp_reader.rs:253-340).                                                *)
BothStop == RecorderStops /\ ReaderStops

(* Seen from outside, recording and reading are appending to and following *)
(* a stream of messages.                                                   *)
RS == INSTANCE RecordStream
        WITH recorded <- SubSeq(accepted, 1, Complete),
             closed <- reader \in {"ended", "failed"}

ImplementsRecordStream == RS!Spec

(* "Metadata is captured from the first successfully unwrapped OBMP        *)
(* payload" (docs/real-sample-validation.md:87, obmp_reader.rs:47-48).     *)
MetadataOfFirstUnwrapped ==
  \A k \in DOMAIN delivered :
    Unwraps(delivered[k]) /\ (\A j \in 1..(k-1) : ~Unwraps(delivered[j]))
      => metadata = k
=============================================================================
