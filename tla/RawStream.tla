----------------------------- MODULE RawStream -----------------------------
(***************************************************************************)
(* How a capture of raw BMP frames is read (src/src/raw_bmp.rs): the       *)
(* iterator that walks a file header by header, and the parser of a single *)
(* frame that the .bmpd reader applies to the payload of a record.         *)
(*                                                                         *)
(* A file is a sequence of cells.  A cell stands for a field of the code's *)
(* layout: a header is a length and a type, an entry of an information or  *)
(* statistics list is a type and a length followed by its value.  The      *)
(* version byte is passed on as it is and left out, as is how a value is   *)
(* shown: a statistic of neither 4 nor 8 bytes as its own length.          *)
(***************************************************************************)
EXTENDS Integers, Sequences, FiniteSetsExt, SequencesExt

CONSTANTS
  MaxCell,     \* the largest value of a cell
  MaxFrame,    \* MAX_FRAME_LEN
  MaxStats,    \* MAX_STATS_ENTRIES
  NotText,     \* a cell that is not UTF-8
  MagicCells,  \* MAGIC of the .bmpd format
  Captures,    \* the captures: the frames sent, and the file they became
  MaxItems     \* bound on the items an iterator yields

Cells == 0..MaxCell

Header    == 2 \* BMP_COMMON_HEADER_SIZE, in cells
PeerSize  == 1 \* BMP_PER_PEER_HEADER_SIZE
EntrySize == 2 \* type and length of a TLV or a statistic
CountSize == 1 \* the number of statistics

RouteMonitoring == 0
Statistics      == 1
PeerDown        == 2
PeerUp          == 3
Initiation      == 4
Termination     == 5
RouteMirroring  == 6

(* has_per_peer_header                                                     *)
PeerTypes == {RouteMonitoring, Statistics, PeerDown, PeerUp, RouteMirroring}

LenOf(data)  == data[1]
TypeOf(data) == data[2]

(* A frame whose length field is its length.                               *)
WellFormed(f) == Len(f) \in Header..MaxFrame /\ LenOf(f) = Len(f)

ASSUME SizeAssumption  == {MaxCell, MaxFrame, MaxStats, MaxItems} \subseteq Nat
ASSUME MagicAssumption == Len(MagicCells) > Header /\ LenOf(MagicCells) > MaxFrame
(* hurt is the first cell that is missing or not as it was sent.           *)
ASSUME CapturesAssumption ==
  \A c \in Captures :
    /\ c.file \in Seq(Cells) /\ c.sent \in Seq(Seq(Cells))
    /\ \A i \in DOMAIN c.sent : WellFormed(c.sent[i])
    /\ c.hurt \in 1..(Len(c.file) + 1)
    /\ IsPrefix(SubSeq(c.file, 1, c.hurt - 1), FlattenSeq(c.sent))

VARIABLES
  file,    \* the capture
  format,  \* --format: "raw-bmp", "bmpd" or "auto"
  phase,   \* "opening", "reading", "ended", "failed" or "container"
  pos,     \* cells the reader has consumed
  offset,  \* where the iterator believes the next frame starts
  items,   \* what it has yielded
  sent,    \* history: the frames the capture was made of
  hurt,    \* history: the first cell that is missing or changed
  ioFailed \* history: reading a payload has failed

vars == <<file, format, phase, pos, offset, items, sent, hurt, ioFailed>>
-----------------------------------------------------------------------------
(* What is read out of the payload of one frame.                           *)

Fits(data, end) == end <= Len(data)

(* Up to n entries: the first that the data cuts short ends the list.      *)
Entries(data, n) ==
  LET from[k \in 0..n, at \in 1..(Len(data) + 1)] ==
        IF k = n \/ ~Fits(data, at + EntrySize - 1) THEN <<>>
        ELSE LET end == at + EntrySize + data[at + 1] - 1
             IN  IF ~Fits(data, end) THEN <<>>
                 ELSE << [type  |-> data[at],
                          value |-> SubSeq(data, at + EntrySize, end)] >>
                      \o from[k + 1, end + 1]
  IN  from[0, 1]

IsText(value) == NotText \notin ToSet(value)

(* In a Termination, type 1 with a value of two bytes (a cell) is a reason.*)
IsReason(entry) == entry.type = 1 /\ entry.value # <<>>

(* parse_tlvs: the strings.  What is not text has a placeholder in an      *)
(* Initiation and is skipped in a Termination.                             *)
Strings(type, payload) ==
  LET all == Entries(payload, Len(payload))
  IN  CASE type = Initiation  ->
             [i \in DOMAIN all |->
               IF IsText(all[i].value) THEN all[i]
               ELSE [type |-> all[i].type, value |-> <<"bytes", Len(all[i].value)>>]]
        [] type = Termination ->
             SelectSeq(all, LAMBDA e : ~IsReason(e) /\ IsText(e.value))
        [] OTHER -> <<>>

(* parse_tlvs: the termination reason, of the last TLV that has one.       *)
Reason(type, payload) ==
  LET reasons == SelectSeq(Entries(payload, Len(payload)), IsReason)
  IN  IF type # Termination \/ reasons = <<>> THEN <<>>
      ELSE << Last(reasons).value[1] >>

(* parse_stats, of what follows the per-peer header: no more entries than  *)
(* the count says, the data could hold and the cap allows.                 *)
Stats(type, payload) ==
  LET data == SubSeq(payload, PeerSize + 1, Len(payload))
      room == (Len(data) - CountSize) \div EntrySize
  IN  IF type # Statistics \/ Len(data) < CountSize THEN <<>>
      ELSE Entries(Tail(data), Min({data[1], room, MaxStats}))

(* PerPeerHeader::parse                                                    *)
PeerOf(type, payload) ==
  IF type \in PeerTypes /\ Len(payload) >= PeerSize
  THEN SubSeq(payload, 1, PeerSize) ELSE <<>>

(* The reason code of a Peer Down.                                         *)
DownCode(type, payload) ==
  IF type = PeerDown /\ Len(payload) > PeerSize THEN << payload[PeerSize + 1] >>
  ELSE <<>>

(* RawBmpFrame: the whole frame is data, found at the cell at (from 0).    *)
Frame(data, at) ==
  LET type == TypeOf(data) payload == SubSeq(data, Header + 1, Len(data))
  IN  [ok |-> TRUE, at |-> at, type |-> type, payload |-> payload,
       peer |-> PeerOf(type, payload), strings |-> Strings(type, payload),
       reason |-> Reason(type, payload), stats |-> Stats(type, payload),
       down |-> DownCode(type, payload)]

Error(at) == [ok |-> FALSE, at |-> at]

(* parse_frame_from_bytes: data may go on behind the frame.                *)
ParseFrame(data, at) ==
  IF \/ Len(data) < Header
     \/ LenOf(data) < Header
     \/ Len(data) < LenOf(data)
  THEN Error(at) ELSE Frame(SubSeq(data, 1, LenOf(data)), at)
-----------------------------------------------------------------------------
(* RawBmpIterator.                                                         *)

Rest == SubSeq(file, pos + 1, Len(file))

Yield(item) == items' = Append(items, item)

(* detect_format                                                           *)
Detected == IF IsPrefix(MagicCells, file) THEN "bmpd" ELSE "raw-bmp"

Resolved == IF format = "auto" THEN Detected ELSE format

(* A container goes to the .bmpd reader, whose parser is ParseFrame.       *)
Open ==
  /\ phase = "opening"
  /\ phase' = IF Resolved = "bmpd" THEN "container" ELSE "reading"
  /\ UNCHANGED <<file, format, pos, offset, items, sent, hurt, ioFailed>>

Reading == phase = "reading" /\ Len(items) < MaxItems

HeaderRead == Reading /\ Len(Rest) >= Header

(* Variant: the first header is looked for again and again.                *)
EmptyAgain ==
  /\ Reading /\ Len(Rest) < Header /\ offset = 0
  /\ pos' = Len(file)
  /\ Yield(Error(0))
  /\ UNCHANGED <<file, format, phase, offset, sent, hurt, ioFailed>>

(* The file does not even hold one header; offset 1 keeps it from being    *)
(* told again.                                                             *)
EmptyFile ==
  /\ Reading /\ Len(Rest) < Header /\ offset = 0
  /\ pos' = Len(file) /\ offset' = 1
  /\ Yield(Error(0))
  /\ UNCHANGED <<file, format, phase, sent, hurt, ioFailed>>

(* The rest of the file is shorter than a header, and is not mentioned.    *)
End ==
  /\ Reading /\ Len(Rest) < Header /\ offset # 0
  /\ pos' = Len(file) /\ phase' = "ended"
  /\ UNCHANGED <<file, format, offset, items, sent, hurt, ioFailed>>

(* The length field counts the header.                                     *)
FrameLength(data) == LenOf(data)

(* Variant: a frame without a payload is refused.                          *)
EmptyOrTooLong == LenOf(Rest) <= Header \/ LenOf(Rest) > MaxFrame

BadLength == LenOf(Rest) < Header \/ LenOf(Rest) > MaxFrame

(* The length cannot be right: the next header is looked for right behind  *)
(* this one.                                                               *)
SkipHeader ==
  /\ HeaderRead /\ BadLength
  /\ pos' = pos + Header /\ offset' = offset + Header
  /\ Yield(Error(offset))
  /\ UNCHANGED <<file, format, phase, sent, hurt, ioFailed>>

(* Variant: the offset is only moved by the header.                        *)
DeliverInPlace ==
  LET size == FrameLength(Rest)
  IN  /\ HeaderRead /\ ~BadLength /\ size <= Len(Rest)
      /\ pos' = pos + size /\ offset' = offset + Header
      /\ Yield(Frame(SubSeq(Rest, 1, size), offset))
      /\ UNCHANGED <<file, format, phase, sent, hurt, ioFailed>>

DeliverFrame ==
  LET size == FrameLength(Rest)
  IN  /\ HeaderRead /\ ~BadLength /\ size <= Len(Rest)
      /\ pos' = pos + size /\ offset' = offset + size
      /\ Yield(Frame(SubSeq(Rest, 1, size), offset))
      /\ UNCHANGED <<file, format, phase, sent, hurt, ioFailed>>

(* The payload goes on behind the end of the file.                         *)
TruncatedFrame ==
  /\ HeaderRead /\ ~BadLength /\ FrameLength(Rest) > Len(Rest)
  /\ pos' = Len(file) /\ offset' = offset + Header
  /\ Yield(Error(offset))
  /\ UNCHANGED <<file, format, phase, sent, hurt, ioFailed>>

(* An I/O error within the payload is told as a truncated frame; the next  *)
(* header is looked for wherever the reader stopped.                       *)
PayloadReadFails ==
  /\ HeaderRead /\ ~BadLength /\ ~ioFailed
  /\ \E read \in 0..(LenOf(Rest) - Header - 1) :
       /\ pos + Header + read <= Len(file)
       /\ pos' = pos + Header + read
  /\ offset' = offset + Header
  /\ Yield(Error(offset))
  /\ ioFailed' = TRUE
  /\ UNCHANGED <<file, format, phase, sent, hurt>>

(* Within a header it is an I/O error, at which the command gives up.      *)
HeaderReadFails ==
  /\ Reading
  /\ phase' = "failed"
  /\ UNCHANGED <<file, format, pos, offset, items, sent, hurt, ioFailed>>
-----------------------------------------------------------------------------
Init ==
  /\ \E c \in Captures : file = c.file /\ sent = c.sent /\ hurt = c.hurt
  /\ format \in {"raw-bmp", "bmpd", "auto"}
  /\ phase = "opening"
  /\ pos = 0 /\ offset = 0 /\ items = <<>> /\ ioFailed = FALSE

Iterate ==
  \/ EmptyFile
  \/ End
  \/ SkipHeader
  \/ DeliverFrame
  \/ TruncatedFrame
  \/ PayloadReadFails
  \/ HeaderReadFails

Next == Open \/ Iterate

Spec == Init /\ [][Next]_vars

(* The command calls the iterator until it ends or an I/O error occurs.    *)
FairSpec == Spec /\ WF_vars(Next)
-----------------------------------------------------------------------------
(* The cells in front of the i-th frame sent.                              *)
Before(i) == Len(FlattenSeq(SubSeq(sent, 1, i - 1)))

(* Damage does not reach back: every frame in front of the first cell that *)
(* differs from what was sent is delivered as sent and where it was sent,  *)
(* and nothing is yielded between (raw_bmp.rs:507-592).                    *)
FramesBeforeDamage ==
  \A i \in DOMAIN sent :
    Before(i + 1) < hurt => i \in DOMAIN items /\ items[i] = Frame(sent[i], Before(i))

(* A capture cut anywhere yields no more than its whole frames and one     *)
(* error, which is there unless less than a header of a frame is left over.*)
CutTellsOneError ==
  LET whole == {i \in DOMAIN sent : Before(i + 1) <= Len(file)}
      left  == Len(file) - Before(Max({0} \cup whole) + 1)
      error == left >= Header \/ Len(file) < Header
  IN  IsPrefix(file, FlattenSeq(sent)) =>
        Len(items) = Cardinality(whole) + IF error THEN 1 ELSE 0

(* Once a file is read to its end without a read error.                    *)
DamageIsLocal ==
  phase = "ended" /\ ~ioFailed => FramesBeforeDamage /\ CutTellsOneError

(* What the slice parser makes of the cells from an item's offset on is    *)
(* the item, except that only the iterator refuses frames above            *)
(* MAX_FRAME_LEN.                                                          *)
AgreedIn(cells, item) ==
  LET from == SubSeq(cells, item.at + 1, Len(cells))
  IN  \/ item = ParseFrame(from, item.at)
      \/ item = Error(item.at) /\ Len(from) >= Header /\ LenOf(from) > MaxFrame

(* Both parsers agree, whatever is in the file: every item the iterator    *)
(* yields is at the offset it says, however many it skipped before         *)
(* (raw_bmp.rs:410-488 and 507-592, which repeat the same parsing).        *)
ParsersAgree == ioFailed \/ \A i \in DOMAIN items : AgreedIn(file, items[i])

(* Reading ends for every content, damaged or empty, and also after a      *)
(* failed read.                                                            *)
IterationEnds == <>(phase \in {"ended", "failed", "container"})
=============================================================================
