--------------------------- MODULE RawStreamProofs ---------------------------
(***************************************************************************)
(* What the raw BMP iterator yields, for every capture, whatever the       *)
(* bounds: the items are those the slice parser makes of the file at their *)
(* offsets.  The invariant behind it is that, as long as no read fails,    *)
(* the offset is where the reader stands, or nothing is left to read that  *)
(* could hold a header.  A second part is about damage: the iterator       *)
(* walks over the frames that were sent until it meets the first cell that *)
(* is missing or changed, so that what comes before is yielded as sent.    *)
(***************************************************************************)
EXTENDS RawStream, OrderLemmas, SequenceTheorems, TLAPS

USE DEF Header

Items == {Error(n) : n \in Nat} \cup {Frame(d, n) : d \in Seq(Cells), n \in Nat}

Types ==
  /\ file \in Seq(Cells)
  /\ pos \in 0..Len(file) /\ offset \in Nat
  /\ ioFailed \in BOOLEAN
  /\ items \in Seq(Items)

(* The offset is the reader's position until less than a header is left.   *)
InPlace == ioFailed \/ offset = pos \/ (offset > 0 /\ Len(file) - pos < Header)

IInv == Types /\ InPlace /\ ParsersAgree

(* A part of a sequence of cells.                                          *)
LEMMA PartFacts ==
  ASSUME NEW s \in Seq(Cells), NEW m \in 1..(Len(s) + 1), NEW n \in 0..Len(s)
  PROVE  /\ SubSeq(s, m, n) \in Seq(Cells)
         /\ Len(SubSeq(s, m, n)) = IF m <= n THEN n - m + 1 ELSE 0
<1>1. m \in Int /\ n \in Int /\ \A i \in m..n : s[i] \in Cells
  BY ElementOfSeq
<1> QED BY <1>1, SubSeqProperties

(* What is left of the file is a sequence of cells of the right length.    *)
LEMMA RestFacts ==
  ASSUME Types
  PROVE  /\ Rest \in Seq(Cells)
         /\ Len(Rest) = Len(file) - pos
         /\ Len(Rest) >= Header => LenOf(Rest) \in Nat
<1>1. Rest \in Seq(Cells) /\ Len(Rest) = Len(file) - pos
  BY PartFacts DEF Types, Rest
<1>2. ASSUME Len(Rest) >= Header
      PROVE  Rest[1] \in Cells
  BY <1>1, <1>2, ElementOfSeq DEF Types
<1> QED BY <1>1, <1>2, SizeAssumption DEF LenOf, Cells

(* The fields of an item that tell it apart.                               *)
LEMMA ItemFacts ==
  ASSUME NEW d, NEW n
  PROVE  Frame(d, n).at = n /\ Error(n).at = n
  BY DEF Frame, Error

(* Items are what the iterator yields.                                     *)
LEMMA ErrorIsItem ==
  ASSUME NEW n \in Nat
  PROVE  Error(n) \in Items
  BY DEF Items

LEMMA FrameIsItem ==
  ASSUME NEW d \in Seq(Cells), NEW n \in Nat
  PROVE  Frame(d, n) \in Items
  BY DEF Items

(* An item that agrees may be appended.                                    *)
LEMMA YieldAgrees ==
  ASSUME IInv, NEW item \in Items, Yield(item),
         ioFailed \/ AgreedIn(file, item), file' = file, ioFailed' = ioFailed
  PROVE  items' \in Seq(Items) /\ ParsersAgree'
<1>1. /\ items' \in Seq(Items)
      /\ DOMAIN items' = DOMAIN items \cup {Len(items) + 1}
      /\ items'[Len(items) + 1] = item
      /\ \A i \in DOMAIN items : items'[i] = items[i]
  BY AppendProperties DEF IInv, Types, Yield
<1>2. ASSUME ~ioFailed, NEW i \in DOMAIN items'
      PROVE  AgreedIn(file, items'[i])
  BY <1>1, <1>2 DEF IInv, ParsersAgree
<1> QED BY <1>1, <1>2 DEF ParsersAgree

(* A header behind which the frame cannot be read, or not so long a one,   *)
(* is an error to the slice parser, too.                                   *)
LEMMA ErrorAgrees ==
  ASSUME Types, offset = pos,
         \/ Len(Rest) < Header
         \/ /\ Len(Rest) >= Header
            /\ \/ BadLength
               \/ FrameLength(Rest) > Len(Rest)
  PROVE  AgreedIn(file, Error(offset))
<1>1. SubSeq(file, Error(offset).at + 1, Len(file)) = Rest
  BY ItemFacts DEF Rest
<1>2. \/ ParseFrame(Rest, offset) = Error(offset)
      \/ Len(Rest) >= Header /\ LenOf(Rest) > MaxFrame
  BY RestFacts, SizeAssumption DEF ParseFrame, BadLength, FrameLength
<1> QED BY <1>1, <1>2, ItemFacts DEF AgreedIn

(* A whole frame is the same frame to the slice parser.                    *)
LEMMA FrameAgrees ==
  ASSUME Types, offset = pos, Len(Rest) >= Header, ~BadLength,
         FrameLength(Rest) <= Len(Rest)
  PROVE  AgreedIn(file, Frame(SubSeq(Rest, 1, FrameLength(Rest)), offset))
<1> DEFINE item == Frame(SubSeq(Rest, 1, FrameLength(Rest)), offset)
<1>1. item.at = offset
  BY ItemFacts
<1>2. SubSeq(file, item.at + 1, Len(file)) = Rest
  BY <1>1 DEF Rest
<1>3. ParseFrame(Rest, offset) = item
  BY RestFacts, SizeAssumption DEF ParseFrame, BadLength, FrameLength
<1> QED BY <1>1, <1>2, <1>3 DEF AgreedIn

(* Initially nothing is read and nothing yielded.                          *)
LEMMA InitInv ==
  ASSUME Init
  PROVE  IInv
<1>1. PICK c \in Captures : file = c.file
  BY DEF Init
<1>2. file \in Seq(Cells)
  BY <1>1, CapturesAssumption
<1>3. items \in Seq(Items) /\ ParsersAgree
  BY EmptySeq DEF Init, ParsersAgree
<1>4. pos = 0 /\ offset = 0 /\ ioFailed = FALSE
  BY DEF Init
<1>5. pos \in 0..Len(file) /\ offset \in Nat
  BY <1>2, <1>4, LenProperties
<1>6. ioFailed \in BOOLEAN /\ InPlace
  BY <1>4 DEF InPlace
<1> QED BY <1>2, <1>3, <1>5, <1>6 DEF IInv, Types

(* Every step keeps the invariant: the reader only leaves the offset       *)
(* behind at the end of the file or when a read fails.                     *)
LEMMA NextInv ==
  ASSUME IInv, [Next]_vars
  PROVE  IInv'
<1> USE DEF IInv
<1>1. CASE Open
  BY <1>1 DEF Open, Types, InPlace, ParsersAgree
<1>2. CASE EmptyFile
  <2>1. /\ offset = 0 /\ Len(Rest) < Header /\ Yield(Error(offset))
        /\ file' = file /\ ioFailed' = ioFailed
        /\ pos' = Len(file) /\ offset' = 1
    BY <1>2 DEF EmptyFile, Yield
  <2>2. ioFailed \/ AgreedIn(file, Error(offset))
    BY <2>1, ErrorAgrees DEF InPlace, Types
  <2>3. items' \in Seq(Items) /\ ParsersAgree'
    BY <2>1, <2>2, ErrorIsItem, YieldAgrees DEF Types
  <2> QED BY <2>1, <2>3 DEF Types, InPlace
<1>3. CASE End
  BY <1>3, RestFacts DEF End, Types, InPlace, ParsersAgree
<1>4. CASE SkipHeader
  <2>1. /\ Len(Rest) >= Header /\ BadLength /\ Yield(Error(offset))
        /\ file' = file /\ ioFailed' = ioFailed
        /\ pos' = pos + Header /\ offset' = offset + Header
    BY <1>4 DEF SkipHeader, HeaderRead
  <2>2. ioFailed \/ AgreedIn(file, Error(offset))
    BY <2>1, ErrorAgrees, RestFacts DEF InPlace, Types
  <2>3. items' \in Seq(Items) /\ ParsersAgree'
    BY <2>1, <2>2, ErrorIsItem, YieldAgrees DEF Types
  <2>4. ioFailed \/ offset = pos
    BY <2>1, RestFacts DEF InPlace, Types
  <2> QED BY <2>1, <2>3, <2>4, RestFacts DEF Types, InPlace
<1>5. CASE DeliverFrame
  <2> DEFINE size == FrameLength(Rest)
             item == Frame(SubSeq(Rest, 1, size), offset)
  <2>1. /\ Len(Rest) >= Header /\ ~BadLength /\ size <= Len(Rest)
        /\ Yield(item) /\ file' = file /\ ioFailed' = ioFailed
        /\ pos' = pos + size /\ offset' = offset + size
    BY <1>5 DEF DeliverFrame, HeaderRead
  <2>2. ioFailed \/ offset = pos
    BY <2>1, RestFacts DEF InPlace, Types
  <2>3. ioFailed \/ AgreedIn(file, item)
    BY <2>1, <2>2, FrameAgrees
  <2>4. size \in Nat
    BY <2>1, RestFacts DEF FrameLength
  <2>5. item \in Items
    <3>1. SubSeq(Rest, 1, size) \in Seq(Cells)
      BY <2>1, <2>4, RestFacts, PartFacts
    <3> QED BY <3>1, FrameIsItem DEF Types
  <2>6. items' \in Seq(Items) /\ ParsersAgree'
    BY <2>1, <2>3, <2>5, YieldAgrees
  <2> QED BY <2>1, <2>2, <2>4, <2>6, RestFacts DEF Types, InPlace
<1>6. CASE TruncatedFrame
  <2>1. /\ Len(Rest) >= Header /\ FrameLength(Rest) > Len(Rest)
        /\ Yield(Error(offset)) /\ file' = file /\ ioFailed' = ioFailed
        /\ pos' = Len(file) /\ offset' = offset + Header
    BY <1>6 DEF TruncatedFrame, HeaderRead
  <2>2. ioFailed \/ AgreedIn(file, Error(offset))
    BY <2>1, ErrorAgrees, RestFacts DEF InPlace, Types
  <2>3. items' \in Seq(Items) /\ ParsersAgree'
    BY <2>1, <2>2, ErrorIsItem, YieldAgrees DEF Types
  <2> QED BY <2>1, <2>3 DEF Types, InPlace
<1>7. CASE PayloadReadFails
  <2>1. /\ Yield(Error(offset)) /\ file' = file /\ ioFailed' = TRUE
        /\ offset' = offset + Header
        /\ Len(Rest) >= Header
        /\ \E read \in 0..(LenOf(Rest) - Header - 1) :
             /\ pos + Header + read <= Len(file)
             /\ pos' = pos + Header + read
    BY <1>7 DEF PayloadReadFails, HeaderRead
  <2>2. pos' \in 0..Len(file)
    BY <2>1, RestFacts DEF Types
  <2>3. items' \in Seq(Items)
    BY <2>1, ErrorIsItem, AppendProperties DEF Yield, Types
  <2> QED BY <2>1, <2>2, <2>3 DEF Types, InPlace, ParsersAgree
<1>8. CASE HeaderReadFails
  BY <1>8 DEF HeaderReadFails, Types, InPlace, ParsersAgree
<1>9. CASE UNCHANGED vars
  BY <1>9 DEF vars, Types, InPlace, ParsersAgree
<1> QED
  BY <1>1, <1>2, <1>3, <1>4, <1>5, <1>6, <1>7, <1>8, <1>9 DEF Next, Iterate

(* Both parsers agree about every capture: as long as no read of a payload *)
(* fails, what the iterator yields is what the slice parser makes of the   *)
(* file at the item's offset (raw_bmp.rs:410-488 and 507-592).             *)
THEOREM AgreementCorrect == Spec => []ParsersAgree
<1>1. Init => IInv
  BY InitInv
<1>2. IInv /\ [Next]_vars => IInv'
  BY NextInv
<1>3. IInv => ParsersAgree
  BY DEF IInv
<1> QED BY <1>1, <1>2, <1>3, PTL DEF Spec
-----------------------------------------------------------------------------
(* What a capture is made of.                                              *)

Flat == FlattenSeq(sent)

Origin ==
  /\ sent \in Seq(Seq(Cells)) /\ \A i \in DOMAIN sent : WellFormed(sent[i])
  /\ hurt \in 1..(Len(file) + 1)
  /\ IsPrefix(SubSeq(file, 1, hurt - 1), Flat)

(* Where the frames begin in what was sent.                                *)
LEMMA Marks ==
  ASSUME sent \in Seq(Seq(Cells))
  PROVE  /\ Flat \in Seq(Cells) /\ Before(1) = 0
         /\ Before(Len(sent) + 1) = Len(Flat)
         /\ \A i \in 1..(Len(sent) + 1) : Before(i) \in Nat
         /\ \A i \in 1..Len(sent) :
              /\ Len(sent[i]) \in Nat /\ Before(i + 1) = Before(i) + Len(sent[i])
              /\ \A k \in 1..Len(sent[i]) : Flat[Before(i) + k] = sent[i][k]
<1> DEFINE N == Len(sent)
           F(i) == FlattenSeq(SubSeq(sent, 1, i))
<1>1. N \in Nat /\ \A i \in 1..N : sent[i] \in Seq(Cells) /\ Len(sent[i]) \in Nat
  BY LenProperties, ElementOfSeq
<1>2. F(0) = <<>> /\ F(N) = Flat
  <2>1. SubSeq(sent, 1, 0) = <<>> /\ SubSeq(sent, 1, N) = sent
    BY SubSeqEmpty, SubSeqFull
  <2>2. FlattenSeq(<<>>) = <<>>
    BY DEF FlattenSeq
  <2> QED BY <2>1, <2>2 DEF Flat
<1>3. \A i \in 1..N : F(i-1) \in Seq(Cells) /\ F(i) = F(i-1) \o sent[i]
  BY FlattenStep
<1>4. \A i \in 0..N : Before(i + 1) = Len(F(i))
  <2>1. \A i \in 0..N : (i + 1) - 1 = i
    BY <1>1
  <2> QED BY <2>1 DEF Before
<1> HIDE DEF F, N
<1>5. \A i \in 0..N : F(i) \in Seq(Cells) /\ Len(F(i)) \in Nat
  <2> SUFFICES ASSUME NEW i \in 0..N PROVE F(i) \in Seq(Cells)
    BY LenProperties
  <2>1. CASE i = 0
    BY <1>2, <2>1, EmptySeq
  <2>2. CASE i # 0
    <3>1. i \in 1..N
      BY <1>1, <2>2
    <3>2. F(i-1) \in Seq(Cells) /\ sent[i] \in Seq(Cells) /\ F(i) = F(i-1) \o sent[i]
      BY <1>1, <1>3, <3>1 DEF N
    <3> QED BY <3>2, ConcatProperties
  <2> QED BY <2>1, <2>2
<1>6. ASSUME NEW i \in 1..N
      PROVE  /\ Len(F(i)) = Len(F(i-1)) + Len(sent[i])
             /\ \A k \in 1..Len(F(i)) :
                  F(i)[k] = IF k <= Len(F(i-1)) THEN F(i-1)[k] ELSE sent[i][k - Len(F(i-1))]
  <2>1. F(i-1) \in Seq(Cells) /\ sent[i] \in Seq(Cells) /\ F(i) = F(i-1) \o sent[i]
    BY <1>1, <1>3
  <2> DEFINE s == F(i-1)
             t == sent[i]
  <2> HIDE DEF s, t
  <2>2. s \in Seq(Cells) /\ t \in Seq(Cells)
    BY <2>1 DEF s, t
  <2>3. /\ Len(s \o t) = Len(s) + Len(t)
        /\ \A k \in 1..(Len(s) + Len(t)) :
             (s \o t)[k] = IF k <= Len(s) THEN s[k] ELSE t[k - Len(s)]
    BY <2>2, ConcatProperties
  <2> QED BY <2>1, <2>3 DEF s, t
<1>7. \A i \in 1..N : i - 1 \in 0..N /\ i \in 0..N /\ (i - 1) + 1 = i
  BY <1>1
<1>8. \A i \in 1..N : Before(i) = Len(F(i-1)) /\ Before(i + 1) = Before(i) + Len(sent[i])
  BY <1>4, <1>6, <1>7
(* A frame stands where it was appended, however many come behind it.      *)
<1> DEFINE Kept(i) == \A j \in 1..i : \A k \in 1..Len(sent[j]) :
                        /\ Before(j) + k <= Len(F(i))
                        /\ F(i)[Before(j) + k] = sent[j][k]
           T == {i \in 0..N : Kept(i)}
<1>9. 0 \in T
  <2>1. \A j \in 1..0 : FALSE
    OBVIOUS
  <2>2. 0 \in 0..N
    BY <1>1
  <2> QED BY <2>1, <2>2
<1>10. ASSUME NEW i \in 1..N, i - 1 \in T PROVE i \in T
  <2>1. Kept(i - 1)
    BY <1>10
  <2> HIDE DEF T
  <2> SUFFICES ASSUME NEW j \in 1..i, NEW k \in 1..Len(sent[j])
               PROVE  /\ Before(j) + k <= Len(F(i))
                      /\ F(i)[Before(j) + k] = sent[j][k]
    BY <1>7 DEF T
  <2>2. PICK a \in Nat : a = Len(F(i-1))
    BY <1>5, <1>7
  <2>3. PICK b \in Nat : b = Len(sent[i])
    BY <1>1
  <2>4. Len(F(i)) = a + b
    BY <1>6, <2>2, <2>3
  <2>5. CASE j = i
    <3>1. Before(j) = a /\ k \in 1..b
      BY <1>8, <2>2, <2>3, <2>5
    <3>2. a + k \in 1..(a + b) /\ ~(a + k <= a) /\ (a + k) - a = k /\ a + k <= a + b
      BY <2>2, <2>3, <3>1
    <3>3. F(i)[a + k] = sent[i][k]
      BY <1>6, <2>2, <2>4, <3>2
    <3> QED BY <2>4, <2>5, <3>1, <3>2, <3>3
  <2>6. CASE j # i
    <3>1. j \in 1..(i-1) /\ j \in 1..N
      BY <1>1, <2>6
    <3>2. PICK c \in Nat : c = Before(j)
      BY <1>5, <1>7, <1>8, <3>1
    <3>3. c + k <= a /\ F(i-1)[c + k] = sent[j][k]
      BY <2>1, <2>2, <3>1, <3>2
    <3>4. PICK d \in Nat : d = Len(sent[j])
      BY <1>1, <3>1
    <3>5. c + k \in 1..(a + b) /\ c + k <= a + b
      <4>1. k \in 1..d
        BY <3>4
      <4>2. c + k <= a
        BY <3>3
      <4> HIDE DEF F, N
      <4>3. k \in Nat /\ k > 0
        BY <4>1
      <4> QED BY ONLY <4>2, <4>3, a \in Nat, b \in Nat, c \in Nat
    <3>6. F(i)[c + k] = F(i-1)[c + k]
      BY <1>6, <2>2, <2>4, <3>3, <3>5
    <3> QED BY <2>4, <3>2, <3>3, <3>5, <3>6
  <2> QED BY <2>5, <2>6
<1> HIDE DEF T
<1>11. 0..N \subseteq T
  BY <1>1, <1>9, <1>10, SetInduction
<1>12. Kept(N)
  <2>1. N \in T
    BY <1>1, <1>11
  <2> QED BY <2>1 DEF T
<1>13. Before(1) = 0 /\ Before(N + 1) = Len(Flat) /\ Flat \in Seq(Cells)
  <2>1. 0 \in 0..N /\ N \in 0..N /\ 0 + 1 = 1
    BY <1>1
  <2>2. Before(1) = Len(F(0)) /\ Before(N + 1) = Len(F(N))
    BY <1>4, <2>1
  <2> QED BY <1>2, <1>5, <2>1, <2>2, EmptySeq
<1>14. \A i \in 1..(N + 1) : Before(i) \in Nat
  <2> SUFFICES ASSUME NEW i \in 1..(N + 1) PROVE Before(i) \in Nat
    OBVIOUS
  <2>1. i - 1 \in 0..N /\ (i - 1) + 1 = i
    BY <1>1
  <2> QED BY <1>4, <1>5, <2>1
<1>15. \A i \in 1..N : \A k \in 1..Len(sent[i]) : Flat[Before(i) + k] = sent[i][k]
  BY <1>2, <1>12
<1> QED BY <1>1, <1>8, <1>13, <1>14, <1>15 DEF N

(* A frame holds at least a header.                                        *)
LEMMA MarksGrow ==
  ASSUME Origin, NEW i \in 1..(Len(sent) + 1), NEW j \in 1..(Len(sent) + 1), i < j
  PROVE  Before(i) + Header <= Before(j)
<1> DEFINE N == Len(sent)
           M == j - i
           T == {m \in 0..M : m = 0 \/ Before(i) + Header <= Before(i + m)}
<1>1. N \in Nat /\ i \in 1..(N + 1) /\ j \in 1..(N + 1) /\ i \in Nat /\ j \in Nat
  BY LenProperties DEF Origin
<1>2. /\ \A n \in 1..(N + 1) : Before(n) \in Nat
      /\ \A n \in 1..N : /\ Len(sent[n]) \in Nat
                         /\ Before(n + 1) = Before(n) + Len(sent[n])
  BY Marks DEF Origin
<1>3. \A n \in 1..N : Len(sent[n]) >= Header
  <2> SUFFICES ASSUME NEW n \in 1..N PROVE Len(sent[n]) >= Header
    OBVIOUS
  <2>1. WellFormed(sent[n])
    BY DEF Origin
  <2> QED BY <1>2, <2>1, SizeAssumption DEF WellFormed
<1> HIDE DEF N
<1>4. 0 \in T /\ M \in Nat /\ i + M = j /\ M # 0
  BY <1>1
<1>5. ASSUME NEW m \in 1..M, m - 1 \in T PROVE m \in T
  <2> DEFINE n == i + (m - 1)
  <2>1. n \in 1..N /\ n + 1 = i + m /\ m \in 0..M
    BY <1>1
  <2>2. m - 1 = 0 \/ Before(i) + Header <= Before(n)
    BY <1>5
  <2>3. m - 1 = 0 => n = i
    BY <1>1
  <2> HIDE DEF n
  <2>4. PICK a \in Nat : a = Before(i)
    BY <1>1, <1>2
  <2>5. PICK b \in Nat : b = Before(n)
    <3>1. n \in 1..(N + 1)
      BY <1>1, <2>1
    <3> QED BY <1>2, <3>1
  <2>6. PICK c \in Nat : c = Len(sent[n]) /\ c >= Header
    BY <1>2, <1>3, <2>1
  <2>7. Before(i + m) = b + c
    BY <1>2, <2>1, <2>5, <2>6
  <2>8. a <= b
    BY <2>2, <2>3, <2>4, <2>5
  <2>9. a + Header <= b + c
    BY <2>6, <2>8
  <2> QED BY <2>1, <2>4, <2>7, <2>9
<1> HIDE DEF T, M
<1>6. M \in T
  <2>1. 0..M \subseteq T
    BY <1>4, <1>5, SetInduction
  <2> QED BY <1>4, <2>1
<1> QED BY <1>4, <1>6 DEF T
-----------------------------------------------------------------------------
(* The reader on a capture that starts like what was sent.                 *)

(* The first P cells are as they were sent.                                *)
Alike(P) == P <= Len(Flat) /\ \A k \in 1..P : file[k] = Flat[k]

LEMMA PrefixIsAlike ==
  ASSUME file \in Seq(Cells), Flat \in Seq(Cells), NEW P \in 0..Len(file),
         IsPrefix(SubSeq(file, 1, P), Flat)
  PROVE  Alike(P)
<1> DEFINE f == SubSeq(file, 1, P)
<1>1. P \in Nat /\ Len(file) \in Nat /\ Len(Flat) \in Nat
  BY LenProperties
<1>2. Len(f) = P /\ \A k \in 1..P : f[k] = file[k]
  <2>1. P \in Int /\ \A k \in 1..P : file[k] \in Cells
    BY <1>1, ElementOfSeq
  <2>2. /\ Len(f) = IF 1 <= P THEN P - 1 + 1 ELSE 0
        /\ \A k \in 1..(P - 1 + 1) : f[k] = file[1 + k - 1]
    BY <2>1, SubSeqProperties
  <2> QED BY <1>1, <2>2
<1> HIDE DEF f
<1>3. P <= Len(Flat) /\ SubSeq(f, 1, P) = SubSeq(Flat, 1, P)
  BY <1>2 DEF IsPrefix, f
<1>4. \A k \in 1..P : SubSeq(f, 1, P)[k] = f[k]
  <2>1. P \in Int /\ \A k \in 1..P : f[k] \in Cells
    BY <1>1, <1>2, ElementOfSeq
  <2>2. \A k \in 1..(P - 1 + 1) : SubSeq(f, 1, P)[k] = f[1 + k - 1]
    BY <2>1, SubSeqProperties
  <2> QED BY <1>1, <2>2
<1>5. \A k \in 1..P : SubSeq(Flat, 1, P)[k] = Flat[k]
  <2>1. P \in Int /\ \A k \in 1..P : Flat[k] \in Cells
    BY <1>1, <1>3, ElementOfSeq
  <2>2. \A k \in 1..(P - 1 + 1) : SubSeq(Flat, 1, P)[k] = Flat[1 + k - 1]
    BY <2>1, SubSeqProperties
  <2> QED BY <1>1, <2>2
<1> QED BY <1>2, <1>3, <1>4, <1>5 DEF Alike

(* A header that is as it was sent leads to the frame that was sent.       *)
LEMMA AtFrame ==
  ASSUME Types, Origin, NEW P \in 0..Len(file), Alike(P), NEW n \in Nat,
         n < Len(sent), pos = Before(n + 1), pos + Header <= P
  PROVE  /\ Len(Rest) >= Header /\ ~BadLength
         /\ FrameLength(Rest) = Len(sent[n+1])
         /\ Before(n + 2) = pos + Len(sent[n+1]) /\ Len(sent[n+1]) \in Nat
         /\ Before(n + 2) <= P =>
              /\ FrameLength(Rest) <= Len(Rest)
              /\ SubSeq(Rest, 1, FrameLength(Rest)) = sent[n+1]
<1> DEFINE f == sent[n+1]
<1>1. /\ n + 1 \in 1..Len(sent) /\ (n + 1) + 1 = n + 2
      /\ Len(file) \in Nat /\ pos \in Nat /\ P \in Nat /\ P <= Len(file)
  BY LenProperties DEF Types, Origin
<1>2. f \in Seq(Cells) /\ WellFormed(f)
  BY <1>1, ElementOfSeq DEF Origin
<1>3. /\ Len(f) \in Nat /\ Before(n + 2) = pos + Len(f)
      /\ \A k \in 1..Len(f) : Flat[pos + k] = f[k]
  BY <1>1, Marks DEF Origin
<1>4. Len(f) >= Header /\ Len(f) <= MaxFrame /\ f[1] = Len(f) /\ MaxFrame \in Nat
  BY <1>2, <1>3, SizeAssumption DEF WellFormed, LenOf
<1> HIDE DEF f
<1>5. Rest \in Seq(Cells) /\ Len(Rest) = Len(file) - pos
  BY RestFacts
<1>6. \A k \in 1..(Len(file) - pos) : Rest[k] = file[pos + k]
  <2>1. \A i \in (pos + 1)..Len(file) : file[i] \in Cells
    BY <1>1, ElementOfSeq DEF Types
  <2>2. \A k \in 1..(Len(file) - (pos + 1) + 1) : Rest[k] = file[(pos + 1) + k - 1]
    <3>1. PICK from \in Int : from = pos + 1
      BY <1>1
    <3>2. PICK to \in Int : to = Len(file)
      BY <1>1
    <3>3. \A i \in from..to : file[i] \in Cells
      BY <2>1, <3>1, <3>2
    <3>4. \A k \in 1..(to - from + 1) : SubSeq(file, from, to)[k] = file[from + k - 1]
      BY <3>3, SubSeqProperties
    <3> QED BY <3>1, <3>2, <3>4 DEF Rest
  <2>3. Len(file) - (pos + 1) + 1 = Len(file) - pos
    BY <1>1
  <2>4. \A k \in 1..(Len(file) - pos) : (pos + 1) + k - 1 = pos + k
    BY <1>1
  <2> QED BY <2>2, <2>3, <2>4
<1>7. \A k \in 1..Len(f) : pos + k <= P => Rest[k] = f[k]
  <2> SUFFICES ASSUME NEW k \in 1..Len(f), pos + k <= P PROVE Rest[k] = f[k]
    OBVIOUS
  <2>1. k \in 1..(Len(file) - pos) /\ pos + k \in 1..P
    BY <1>1, <1>3
  <2> QED BY <1>3, <1>6, <2>1 DEF Alike
<1>8. Len(Rest) >= Header
  BY <1>1, <1>5
<1>9. LenOf(Rest) = Len(f)
  <2>1. 1 \in 1..Len(f) /\ pos + 1 <= P
    BY <1>1, <1>3, <1>4
  <2> QED BY <1>4, <1>7, <2>1 DEF LenOf
<1>10. ~BadLength
  BY <1>3, <1>4, <1>9 DEF BadLength
<1>11. ASSUME Before(n + 2) <= P
       PROVE  Len(f) <= Len(Rest) /\ SubSeq(Rest, 1, Len(f)) = f
  <2>1. pos + Len(f) <= P /\ Len(f) <= Len(Rest)
    BY <1>1, <1>3, <1>5, <1>11
  <2>2. \A k \in 1..Len(f) : pos + k <= P
    BY <1>1, <1>3, <2>1
  <2>3. Len(f) \in Int /\ \A k \in 1..Len(f) : Rest[k] \in Cells
    BY <1>2, <1>3, <1>7, <2>2, ElementOfSeq
  <2>4. /\ SubSeq(Rest, 1, Len(f)) \in Seq(Cells)
        /\ Len(SubSeq(Rest, 1, Len(f))) = IF 1 <= Len(f) THEN Len(f) - 1 + 1 ELSE 0
        /\ \A k \in 1..(Len(f) - 1 + 1) : SubSeq(Rest, 1, Len(f))[k] = Rest[1 + k - 1]
    BY <2>3, SubSeqProperties
  <2>5. /\ Len(f) - 1 + 1 = Len(f) /\ (IF 1 <= Len(f) THEN Len(f) - 1 + 1 ELSE 0) = Len(f)
        /\ \A k \in 1..Len(f) : 1 + k - 1 = k
    BY <1>3
  <2>6. Len(SubSeq(Rest, 1, Len(f))) = Len(f)
    BY <2>4, <2>5
  <2>7. \A k \in 1..Len(f) : SubSeq(Rest, 1, Len(f))[k] = f[k]
    BY <1>7, <2>2, <2>4, <2>5
  <2> DEFINE g == SubSeq(Rest, 1, Len(f))
  <2>8. g \in Seq(Cells) /\ Len(g) = Len(f) /\ \A k \in 1..Len(g) : g[k] = f[k]
    BY <2>4, <2>6, <2>7
  <2> HIDE DEF g
  <2>9. g = f
    BY <1>2, <2>8, SeqEqual
  <2> QED BY <2>1, <2>9 DEF g
<1> QED BY <1>1, <1>3, <1>8, <1>9, <1>10, <1>11 DEF f, FrameLength
-----------------------------------------------------------------------------
(* What the iterator has yielded of such a capture.  While all the frames  *)
(* whose number it has yielded lie within the first P cells, it stands     *)
(* behind them.                                                            *)
Here(P) == Len(items) <= Len(sent) /\ Before(Len(items) + 1) <= P

Walk(P) ==
  /\ \A j \in DOMAIN sent : j <= Len(items) /\ Before(j + 1) <= P =>
       items[j] = Frame(sent[j], Before(j))
  /\ phase \in {"opening", "reading"} /\ Here(P) =>
       pos = Before(Len(items) + 1) /\ offset = pos
  /\ phase = "ended" => \A j \in DOMAIN sent : Before(j + 1) <= P => j <= Len(items)

Walks == \A P \in 0..Len(file) : Alike(P) => Walk(P)

(* Of a capture that was only cut: the one error has been told, or there   *)
(* was no need for it.                                                     *)
Told ==
  LET n == Len(items)
  IN  /\ n \in 1..(Len(sent) + 1) /\ Before(n) <= Len(file)
      /\ n <= Len(sent) => Before(n + 1) > Len(file)
      /\ Len(file) - Before(n) >= Header \/ Len(file) < Header
      /\ pos = Len(file) /\ offset # 0

Clean ==
  /\ Here(Len(file)) /\ Len(file) >= Header
  /\ Len(file) - Before(Len(items) + 1) < Header

CutInv ==
  IsPrefix(file, Flat) => \/ Told
                          \/ phase # "ended" /\ Here(Len(file))
                          \/ phase = "ended" /\ Clean

DInv == IInv /\ Origin /\ (ioFailed \/ (Walks /\ CutInv))

YieldStep == EmptyFile \/ SkipHeader \/ DeliverFrame \/ TruncatedFrame

LEMMA Steps ==
  ASSUME Next, ~ioFailed'
  PROVE  /\ ~ioFailed /\ UNCHANGED <<file, sent, hurt>>
         /\ \/ YieldStep
            \/ End
            \/ phase' = "failed" /\ UNCHANGED <<pos, offset, items>>
            \/ phase = "opening" /\ phase' \in {"container", "reading"}
               /\ UNCHANGED <<pos, offset, items>>
<1> USE DEF YieldStep
<1>1. CASE Open
  BY <1>1 DEF Open
<1>2. CASE EmptyFile
  BY <1>2 DEF EmptyFile
<1>3. CASE SkipHeader
  BY <1>3 DEF SkipHeader
<1>4. CASE DeliverFrame
  BY <1>4 DEF DeliverFrame
<1>5. CASE TruncatedFrame
  BY <1>5 DEF TruncatedFrame
<1>6. CASE End
  BY <1>6 DEF End
<1>7. CASE PayloadReadFails
  BY <1>7 DEF PayloadReadFails
<1>8. CASE HeaderReadFails
  BY <1>8 DEF HeaderReadFails
<1> QED BY <1>1, <1>2, <1>3, <1>4, <1>5, <1>6, <1>7, <1>8 DEF Next, Iterate

LEMMA YieldFacts ==
  ASSUME Types, YieldStep
  PROVE  /\ phase = "reading" /\ phase' = "reading"
         /\ Len(items) \in Nat /\ Len(items') = Len(items) + 1
         /\ \A j \in 1..Len(items) : items'[j] = items[j]
<1>1. PICK item : items' = Append(items, item) /\ phase = "reading" /\ phase' = "reading"
  BY DEF YieldStep, EmptyFile, SkipHeader, DeliverFrame, TruncatedFrame, Yield, Reading,
         HeaderRead
<1>2. Len(items) \in Nat
  BY LenProperties DEF Types
<1>3. Len(items') = Len(items) + 1 /\ \A j \in 1..Len(items) : items'[j] = items[j]
  <2>1. items \in Seq(Items \cup {item}) /\ item \in Items \cup {item}
    BY SeqMonotonic DEF Types
  <2> QED BY <1>1, <2>1, AppendProperties
<1> QED BY <1>1, <1>2, <1>3

(* Where the capture is as it was sent, the next item is the next frame.   *)
LEMMA Delivers ==
  ASSUME Types, Origin, NEW P \in 0..Len(file), Alike(P), Walk(P), YieldStep,
         NEW n, n = Len(items), n < Len(sent), Before(n + 2) <= P
  PROVE  /\ items'[n+1] = Frame(sent[n+1], Before(n + 1))
         /\ pos' = Before(n + 2) /\ offset' = pos'
<1>1. n \in Nat /\ Len(sent) \in Nat /\ P \in Nat /\ P <= Len(file) /\ Len(file) \in Nat
  BY LenProperties DEF Types, Origin
<1>2. /\ Before(n + 1) \in Nat /\ Before(n + 2) \in Nat
      /\ Before(n + 1) + Header <= Before(n + 2)
  <2>1. n + 1 \in 1..(Len(sent) + 1) /\ n + 2 \in 1..(Len(sent) + 1) /\ n + 1 < n + 2
    BY <1>1
  <2> QED BY <2>1, Marks, MarksGrow DEF Origin
<1>3. Before(n + 1) <= P /\ Here(P)
  BY <1>1, <1>2 DEF Here
<1>4. pos = Before(n + 1) /\ offset = pos
  BY <1>3, YieldFacts DEF Walk
<1>5. /\ Len(Rest) >= Header /\ ~BadLength /\ FrameLength(Rest) <= Len(Rest)
      /\ SubSeq(Rest, 1, FrameLength(Rest)) = sent[n+1]
      /\ FrameLength(Rest) = Len(sent[n+1]) /\ Before(n + 2) = pos + Len(sent[n+1])
  <2>1. pos + Header <= P
    BY <1>1, <1>2, <1>4
  <2> QED BY <1>1, <1>4, <2>1, AtFrame
<1>6. Len(Rest) \in Nat /\ FrameLength(Rest) \in Nat
  BY <1>5, RestFacts, LenProperties DEF FrameLength
<1>7. ~EmptyFile /\ ~SkipHeader /\ ~TruncatedFrame
  <2>1. ~(Len(Rest) < Header) /\ ~(FrameLength(Rest) > Len(Rest))
    BY <1>5, <1>6
  <2> QED BY <1>5, <2>1 DEF EmptyFile, SkipHeader, TruncatedFrame
<1>8. /\ items' = Append(items, Frame(sent[n+1], offset))
      /\ pos' = pos + FrameLength(Rest) /\ offset' = offset + FrameLength(Rest)
  BY <1>5, <1>7 DEF YieldStep, DeliverFrame, Yield
<1>9. items'[n+1] = Frame(sent[n+1], offset)
  <2> DEFINE item == Frame(sent[n+1], offset)
  <2> HIDE DEF item
  <2>1. items \in Seq(Items \cup {item}) /\ item \in Items \cup {item}
    BY SeqMonotonic DEF Types
  <2>2. Append(items, item)[Len(items) + 1] = item
    BY <2>1, AppendProperties
  <2> QED BY <1>8, <2>2 DEF item
<1> QED BY <1>4, <1>5, <1>8, <1>9

LEMMA WalkStep ==
  ASSUME Types, Origin, NEW P \in 0..Len(file), Alike(P), Walk(P), Next, ~ioFailed'
  PROVE  Walk(P)'
<1>1. UNCHANGED <<file, sent, hurt>> /\ \A i : Before(i)' = Before(i)
  BY Steps DEF Before
<1>2. CASE YieldStep
  <2> DEFINE n == Len(items)
  <2>1. /\ phase' = "reading" /\ n \in Nat /\ Len(items') = n + 1
        /\ \A j \in 1..n : items'[j] = items[j]
    BY <1>2, YieldFacts
  <2>2. Len(sent) \in Nat /\ DOMAIN sent = 1..Len(sent)
    BY LenProperties DEF Origin
  <2>3. n + 1 <= Len(sent) /\ Before(n + 2) <= P =>
          /\ items'[n+1] = Frame(sent[n+1], Before(n + 1))
          /\ pos' = Before(n + 2) /\ offset' = pos'
    <3>1. n + 1 <= Len(sent) => n < Len(sent)
      BY <2>1, <2>2
    <3> QED BY <1>2, <3>1, Delivers
  <2> HIDE DEF n
  <2>4. ASSUME NEW j \in DOMAIN sent, j <= n + 1, Before(j + 1) <= P
        PROVE  items'[j] = Frame(sent[j], Before(j))
    <3>1. CASE j = n + 1
      <4>1. j + 1 = n + 2 /\ n + 1 <= Len(sent)
        BY <2>1, <2>2, <3>1
      <4> QED BY <2>3, <2>4, <3>1, <4>1
    <3>2. CASE j # n + 1
      <4>1. j \in 1..n /\ j <= n
        BY <2>1, <2>2, <2>4, <3>2
      <4> QED BY <2>1, <2>4, <4>1 DEF Walk, n
    <3> QED BY <3>1, <3>2
  <2>5. Here(P)' => n + 1 <= Len(sent) /\ Before(n + 2) <= P
    <3>1. (n + 1) + 1 = n + 2
      BY <2>1
    <3> QED BY <1>1, <2>1, <3>1 DEF Here
  <2>6. Before(Len(items) + 1)' = Before(n + 2)
    <3>1. (n + 1) + 1 = n + 2
      BY <2>1
    <3> QED BY <1>1, <2>1, <3>1 DEF Before
  <2> QED BY <1>1, <2>1, <2>3, <2>4, <2>5, <2>6 DEF Walk
<1>3. CASE End
  <2>1. /\ UNCHANGED items /\ phase' = "ended" /\ phase = "reading" /\ Len(Rest) < Header
    BY <1>3 DEF End, Reading
  <2> DEFINE n == Len(items)
  <2>2. /\ n \in Nat /\ Len(sent) \in Nat /\ DOMAIN sent = 1..Len(sent) /\ P \in Nat
        /\ Len(file) \in Nat /\ P <= Len(file)
    BY LenProperties DEF Types, Origin
  <2>3. ASSUME NEW j \in DOMAIN sent, Before(j + 1) <= P PROVE j <= n
    <3> SUFFICES ASSUME j > n PROVE FALSE
      BY <2>2
    <3>1. n + 1 \in 1..(Len(sent) + 1) /\ n + 1 < j + 1 /\ j + 1 \in 1..(Len(sent) + 1)
          /\ n <= Len(sent)
      BY <2>2
    <3> HIDE DEF n
    <3>2. /\ Before(n + 1) + Header <= Before(j + 1)
          /\ Before(n + 1) \in Nat /\ Before(j + 1) \in Nat
      BY <3>1, Marks, MarksGrow DEF Origin
    <3>3. Before(n + 1) <= P
      BY <2>2, <2>3, <3>2
    <3>4. pos = Before(n + 1)
      BY <2>1, <3>1, <3>3 DEF Walk, Here, n
    <3>5. Len(Rest) = Len(file) - pos
      BY RestFacts
    <3> QED BY <2>1, <2>2, <2>3, <3>2, <3>4, <3>5
  <2> QED BY <1>1, <2>1, <2>3 DEF Walk
<1>4. CASE phase' = "failed" /\ UNCHANGED <<pos, offset, items>>
  BY <1>1, <1>4 DEF Walk
<1>5. CASE phase = "opening" /\ phase' \in {"container", "reading"}
           /\ UNCHANGED <<pos, offset, items>>
  <2>1. Here(P)' <=> Here(P)
    BY <1>1, <1>5 DEF Here
  <2>2. Before(Len(items) + 1)' = Before(Len(items) + 1)
    BY <1>1, <1>5 DEF Before
  <2> QED BY <1>1, <1>5, <2>1, <2>2 DEF Walk
<1> QED BY <1>2, <1>3, <1>4, <1>5, Steps

LEMMA CutStep ==
  ASSUME Types, Origin, Alike(Len(file)), Walk(Len(file)), IsPrefix(file, Flat), CutInv,
         Next, ~ioFailed'
  PROVE  CutInv'
<1> DEFINE n == Len(items)
           L == Len(file)
<1>1. UNCHANGED <<file, sent>> /\ \A i : Before(i)' = Before(i)
  BY Steps DEF Before
<1>2. /\ n \in Nat /\ Len(sent) \in Nat /\ L \in Nat /\ pos \in Nat
      /\ Len(Rest) = L - pos /\ L <= Len(Flat)
  BY LenProperties, RestFacts DEF Types, Origin, Alike
<1>3. CASE YieldStep
  <2>1. phase = "reading" /\ phase' = "reading" /\ Len(items') = n + 1
    BY <1>3, YieldFacts
  <2>2. ~Told
    <3> SUFFICES ASSUME Told PROVE FALSE
      OBVIOUS
    <3>1. pos = L /\ offset # 0
      BY DEF Told
    <3>2. ~(Len(Rest) >= Header)
      BY <1>2, <3>1
    <3> QED BY <1>3, <3>1, <3>2 DEF YieldStep, EmptyFile, SkipHeader, DeliverFrame,
                                    TruncatedFrame, HeaderRead
  <2>3. n <= Len(sent) /\ Before(n + 1) <= L /\ pos = Before(n + 1) /\ offset = pos
    BY <2>1, <2>2 DEF CutInv, Here, Walk
  <2>4. /\ n + 1 \in 1..(Len(sent) + 1) /\ n + 2 = (n + 1) + 1
        /\ Before(n + 1) \in Nat
    <3>1. n + 1 \in 1..(Len(sent) + 1) /\ n + 2 = (n + 1) + 1
      BY <1>2, <2>3
    <3> QED BY <3>1, Marks DEF Origin
  <2>5. CASE EmptyFile
    <3>1. pos' = L /\ offset' = 1 /\ offset = 0 /\ Len(Rest) < Header
      BY <2>5 DEF EmptyFile
    <3>2. n = 0
      <4> SUFFICES ASSUME n # 0 PROVE FALSE
        OBVIOUS
      <4>1. 1 \in 1..(Len(sent) + 1) /\ 1 < n + 1
        BY <1>2
      <4>2. Before(1) + Header <= Before(n + 1) /\ Before(1) = 0
        BY <2>4, <4>1, Marks, MarksGrow DEF Origin
      <4> QED BY <2>3, <3>1, <4>2
    <3>3. L < Header
      BY <1>2, <2>3, <3>1
    <3>4. 1 <= Len(sent) => Before(2) > L
      <4> SUFFICES ASSUME 1 <= Len(sent) PROVE Before(2) > L
        OBVIOUS
      <4>1. 1 \in 1..(Len(sent) + 1) /\ 2 \in 1..(Len(sent) + 1) /\ 1 < 2
        BY <1>2
      <4>2. Before(1) + Header <= Before(2) /\ Before(1) = 0 /\ Before(2) \in Nat
        BY <4>1, Marks, MarksGrow DEF Origin
      <4> QED BY <1>2, <3>3, <4>2
    <3>5. Before(1) <= L
      BY <1>2, Marks DEF Origin
    <3>6. Len(items') = 1 /\ 1 \in 1..(Len(sent) + 1) /\ 1 + 1 = 2
      BY <1>2, <2>1, <3>2
    <3>7. Before(Len(items))' = Before(1) /\ Before(Len(items) + 1)' = Before(2)
      BY <1>1, <3>6 DEF Before
    <3>8. Told'
      <4>1. pos' = Len(file') /\ offset' # 0 /\ Len(file') < Header
        BY <1>1, <3>1, <3>3
      <4> QED BY <1>1, <3>4, <3>5, <3>6, <3>7, <4>1 DEF Told
    <3> QED BY <3>8 DEF CutInv
  <2>6. ASSUME Len(Rest) >= Header
        PROVE  /\ n < Len(sent) /\ ~BadLength
               /\ FrameLength(Rest) = Len(sent[n+1]) /\ Len(sent[n+1]) \in Nat
               /\ Before(n + 2) = pos + FrameLength(Rest)
    <3>1. pos + Header <= L
      BY <1>2, <2>6
    <3>2. n < Len(sent)
      <4> SUFFICES ASSUME n = Len(sent) PROVE FALSE
        BY <1>2, <2>3
      <4>1. Before(n + 1) = Len(Flat)
        BY Marks DEF Origin
      <4> QED BY <1>2, <2>3, <3>1, <4>1
    <3>3. L \in 0..Len(file)
      BY <1>2
    <3> QED BY <1>2, <2>3, <3>1, <3>2, <3>3, AtFrame
  <2>7. CASE SkipHeader
    BY <2>6, <2>7 DEF SkipHeader, HeaderRead
  <2>8. Before(Len(items))' = Before(n + 1) /\ Before(Len(items) + 1)' = Before(n + 2)
    BY <1>1, <2>1, <2>4 DEF Before
  <2>9. CASE DeliverFrame
    <3>1. Len(Rest) >= Header /\ FrameLength(Rest) <= Len(Rest)
      BY <2>9 DEF DeliverFrame, HeaderRead
    <3>2. n + 1 <= Len(sent) /\ Before(n + 2) <= L
      BY <1>2, <2>6, <3>1
    <3>3. Here(Len(file))'
      BY <1>1, <2>1, <2>8, <3>2 DEF Here
    <3> QED BY <2>1, <3>3 DEF CutInv
  <2>10. CASE TruncatedFrame
    <3>1. /\ Len(Rest) >= Header /\ FrameLength(Rest) > Len(Rest)
          /\ pos' = L /\ offset' = offset + Header
      BY <2>10 DEF TruncatedFrame, HeaderRead
    <3>2. /\ n + 1 \in 1..(Len(sent) + 1) /\ Before(n + 2) > L
          /\ L - Before(n + 1) >= Header /\ offset' # 0
      <4>1. Before(n + 2) > L
        BY <1>2, <2>6, <3>1
      <4>2. L - Before(n + 1) >= Header
        BY <1>2, <2>3, <3>1
      <4>3. offset' = Before(n + 1) + Header
        BY <2>3, <3>1
      <4> QED BY <2>4, <4>1, <4>2, <4>3
    <3>3. Told'
      BY <1>1, <2>1, <2>3, <2>8, <3>1, <3>2 DEF Told
    <3> QED BY <3>3 DEF CutInv
  <2> QED BY <1>3, <2>5, <2>7, <2>9, <2>10 DEF YieldStep
<1>4. n' = n => /\ Before(Len(items))' = Before(n)
                /\ Before(Len(items) + 1)' = Before(n + 1)
  BY <1>1 DEF Before
<1>5. CASE End
  <2>1. /\ UNCHANGED <<items, offset>> /\ phase' = "ended" /\ phase = "reading"
        /\ Len(Rest) < Header /\ offset # 0 /\ pos' = L
    BY <1>5 DEF End, Reading
  <2>2. CASE Told
    <3>1. Told'
      BY <1>1, <1>4, <2>1, <2>2 DEF Told
    <3> QED BY <3>1 DEF CutInv
  <2>3. CASE ~Told
    <3>1. n <= Len(sent) /\ Before(n + 1) <= L /\ pos = Before(n + 1) /\ offset = pos
      BY <2>1, <2>3 DEF CutInv, Here, Walk
    <3>2. n # 0
      BY <2>1, <3>1, Marks DEF Origin
    <3>3. Before(1) + Header <= Before(n + 1) /\ Before(1) = 0 /\ Before(n + 1) \in Nat
      <4>1. 1 \in 1..(Len(sent) + 1) /\ n + 1 \in 1..(Len(sent) + 1) /\ 1 < n + 1
        BY <1>2, <3>1, <3>2
      <4> QED BY <4>1, Marks, MarksGrow DEF Origin
    <3>4. L >= Header /\ L - Before(n + 1) < Header
      BY <1>2, <2>1, <3>1, <3>3
    <3>5. Clean'
      BY <1>1, <1>4, <2>1, <3>1, <3>4 DEF Clean, Here
    <3> QED BY <2>1, <3>5 DEF CutInv
  <2> QED BY <2>2, <2>3
<1>6. ASSUME UNCHANGED <<pos, offset, items>>, phase' # "ended", phase # "ended"
      PROVE  CutInv'
  <2>1. Told => Told'
    BY <1>1, <1>4, <1>6 DEF Told
  <2>2. Here(Len(file)) => Here(Len(file))'
    BY <1>1, <1>4, <1>6 DEF Here
  <2> QED BY <1>6, <2>1, <2>2 DEF CutInv
<1>7. CASE phase' = "failed" /\ UNCHANGED <<pos, offset, items>>
  <2>1. phase # "ended" \/ Clean \/ Told
    BY DEF CutInv
  <2>2. Clean => Here(Len(file))
    BY DEF Clean
  <2>3. Told => Told'
    BY <1>1, <1>4, <1>7 DEF Told
  <2>4. Here(Len(file)) => Here(Len(file))'
    BY <1>1, <1>4, <1>7 DEF Here
  <2> QED BY <1>7, <2>2, <2>3, <2>4 DEF CutInv
<1>8. CASE phase = "opening" /\ phase' \in {"container", "reading"}
           /\ UNCHANGED <<pos, offset, items>>
  BY <1>6, <1>8
<1> QED BY <1>3, <1>5, <1>7, <1>8, Steps
-----------------------------------------------------------------------------
LEMMA InitDamage == Init => DInv
<1> SUFFICES ASSUME Init PROVE DInv
  OBVIOUS
<1>1. IInv
  BY InitInv
<1>2. PICK c \in Captures : file = c.file /\ sent = c.sent /\ hurt = c.hurt
  BY DEF Init
<1>3. Origin
  BY <1>2, CapturesAssumption DEF Origin, Flat
<1>4. phase = "opening" /\ pos = 0 /\ offset = 0 /\ Len(items) = 0
  BY DEF Init
<1>5. Before(1) = 0 /\ Len(sent) \in Nat /\ Len(file) \in Nat
  BY <1>3, Marks, LenProperties DEF Origin, IInv, Types
<1>6. Before(Len(items) + 1) = 0
  <2>1. Len(items) + 1 = 1
    BY <1>4
  <2> QED BY <1>5, <2>1
<1>7. ASSUME NEW P \in 0..Len(file) PROVE Walk(P)
  <2>1. \A j \in DOMAIN sent : ~(j <= Len(items))
    BY <1>3, <1>4, <1>5 DEF Origin
  <2> QED BY <1>4, <1>6, <2>1 DEF Walk
<1>8. Here(Len(file))
  BY <1>4, <1>5, <1>6 DEF Here
<1> QED BY <1>1, <1>3, <1>4, <1>7, <1>8 DEF DInv, Walks, CutInv

LEMMA CutIsAlike ==
  ASSUME Types, Origin, IsPrefix(file, Flat)
  PROVE  Len(file) \in 0..Len(file) /\ Alike(Len(file))
<1>1. SubSeq(file, 1, Len(file)) = file /\ Len(file) \in 0..Len(file)
  BY SubSeqFull, LenProperties DEF Types
<1> QED BY <1>1, PrefixIsAlike, Marks DEF Types, Origin

LEMMA NextDamage == DInv /\ [Next]_vars => DInv'
<1> SUFFICES ASSUME DInv, [Next]_vars PROVE DInv'
  OBVIOUS
<1>1. IInv' /\ Types
  BY NextInv DEF DInv, IInv
<1>2. UNCHANGED <<file, sent, hurt>>
  BY DEF Next, Open, Iterate, EmptyFile, End, SkipHeader, DeliverFrame, TruncatedFrame,
         PayloadReadFails, HeaderReadFails, vars
<1>3. Origin'
  BY <1>2 DEF DInv, Origin, Flat
<1>4. CASE UNCHANGED vars
  <2>1. \A i : Before(i)' = Before(i)
    BY <1>4 DEF vars, Before
  <2>2. Before(Len(items))' = Before(Len(items))
        /\ Before(Len(items) + 1)' = Before(Len(items) + 1)
    BY <1>4 DEF vars, Before
  <2>3. \A P \in 0..Len(file) : Alike(P)' = Alike(P) /\ Walk(P)' = Walk(P)
    BY <1>4, <2>1, <2>2 DEF vars, Alike, Walk, Here, Flat
  <2>4. CutInv' = CutInv
    BY <1>4, <2>1, <2>2 DEF vars, CutInv, Told, Clean, Here, Flat
  <2>5. Walks' <=> Walks
    BY <1>2, <2>3 DEF Walks
  <2> QED BY <1>1, <1>3, <1>4, <2>4, <2>5 DEF DInv, vars
<1>5. ASSUME Next, ~ioFailed' PROVE Walks' /\ CutInv'
  <2>1. Origin /\ Walks /\ CutInv
    BY <1>5, Steps DEF DInv
  <2>2. \A P : Alike(P)' <=> Alike(P)
    BY <1>2 DEF Alike, Flat
  <2>3. Walks'
    <3> SUFFICES ASSUME NEW P \in 0..Len(file'), Alike(P)' PROVE Walk(P)'
      BY DEF Walks
    <3>1. P \in 0..Len(file) /\ Alike(P) /\ Walk(P)
      BY <1>2, <2>1, <2>2 DEF Walks
    <3> QED BY <1>1, <1>5, <2>1, <3>1, WalkStep
  <2>4. CutInv'
    <3>1. IsPrefix(file, Flat)' <=> IsPrefix(file, Flat)
      BY <1>2 DEF Flat
    <3>2. CASE ~IsPrefix(file, Flat)
      BY <3>1, <3>2 DEF CutInv
    <3>3. CASE IsPrefix(file, Flat)
      <4>1. Alike(Len(file)) /\ Walk(Len(file))
        BY <1>1, <2>1, <3>3, CutIsAlike DEF Walks
      <4> QED BY <1>1, <1>5, <2>1, <3>3, <4>1, CutStep
    <3> QED BY <3>2, <3>3
  <2> QED BY <2>3, <2>4
<1> QED BY <1>1, <1>3, <1>4, <1>5 DEF DInv

(* The cells in front of the damage.                                       *)
LEMMA HurtIsAlike ==
  ASSUME Types, Origin
  PROVE  hurt - 1 \in 0..Len(file) /\ Alike(hurt - 1)
<1>1. hurt - 1 \in 0..Len(file)
  BY LenProperties DEF Types, Origin
<1> QED BY <1>1, PrefixIsAlike, Marks DEF Types, Origin

LEMMA FramesDelivered ==
  ASSUME DInv, phase = "ended", ~ioFailed
  PROVE  FramesBeforeDamage
<1>1. Types /\ Origin /\ Walks
  BY DEF DInv, IInv
<1>2. Walk(hurt - 1)
  BY <1>1, HurtIsAlike DEF Walks
<1>3. /\ DOMAIN items = 1..Len(items) /\ Len(items) \in Nat /\ hurt \in Nat
      /\ DOMAIN sent = 1..Len(sent) /\ Len(sent) \in Nat
  BY <1>1, LenProperties DEF Types, Origin
<1> SUFFICES ASSUME NEW i \in DOMAIN sent, Before(i + 1) < hurt
             PROVE  i \in DOMAIN items /\ items[i] = Frame(sent[i], Before(i))
  BY DEF FramesBeforeDamage
<1>4. Before(i + 1) \in Nat
  <2>1. i + 1 \in 1..(Len(sent) + 1)
    BY <1>3
  <2> QED BY <1>1, <2>1, Marks DEF Origin
<1>5. Before(i + 1) <= hurt - 1
  BY <1>3, <1>4
<1>6. i <= Len(items)
  BY <1>2, <1>5 DEF Walk
<1> QED BY <1>2, <1>3, <1>5, <1>6 DEF Walk

LEMMA MaxUpTo ==
  ASSUME NEW n \in Nat
  PROVE  Max({0} \cup 1..n) = n /\ Cardinality(1..n) = n
<1>1. n \in {0} \cup 1..n /\ \A y \in {0} \cup 1..n : n >= y
  OBVIOUS
<1>2. \A x \in {0} \cup 1..n : (\A y \in {0} \cup 1..n : x >= y) => x = n
  BY <1>1
<1>3. Max({0} \cup 1..n) = n
  BY <1>1, <1>2 DEF Max
<1>4. Cardinality(1..n) = n
  BY FS_Interval
<1> QED BY <1>3, <1>4

LEMMA OneErrorTold ==
  ASSUME DInv, phase = "ended", ~ioFailed
  PROVE  CutTellsOneError
<1> DEFINE whole == {i \in DOMAIN sent : Before(i + 1) <= Len(file)}
           n     == Len(items)
           L     == Len(file)
<1> SUFFICES ASSUME IsPrefix(file, Flat)
             PROVE  n = Cardinality(whole) +
                          IF \/ L - Before(Max({0} \cup whole) + 1) >= Header
                             \/ L < Header
                          THEN 1 ELSE 0
  BY DEF CutTellsOneError, Flat
<1>1. Types /\ Origin /\ Walk(L) /\ (Told \/ Clean)
  BY CutIsAlike DEF DInv, IInv, Walks, CutInv
<1>2. /\ n \in Nat /\ L \in Nat /\ Len(sent) \in Nat /\ DOMAIN sent = 1..Len(sent)
  BY <1>1, LenProperties DEF Types, Origin
<1>3. \A i \in 1..(Len(sent) + 1) : Before(i) \in Nat
  BY <1>1, Marks DEF Origin
<1>4. \A i, j \in 1..(Len(sent) + 1) : i < j => Before(i) <= Before(j)
  <2> SUFFICES ASSUME NEW i \in 1..(Len(sent) + 1), NEW j \in 1..(Len(sent) + 1), i < j
               PROVE  Before(i) <= Before(j)
    OBVIOUS
  <2>1. Before(i) + Header <= Before(j) /\ Before(i) \in Nat /\ Before(j) \in Nat
    BY <1>1, <1>3, MarksGrow
  <2> QED BY <2>1
<1>5. ASSUME NEW m \in 0..Len(sent), Before(m + 1) <= L,
             m < Len(sent) => Before(m + 2) > L
      PROVE  whole = 1..m
  <2>1. ASSUME NEW i \in 1..m PROVE i \in whole
    <3>1. i + 1 \in 1..(Len(sent) + 1) /\ m + 1 \in 1..(Len(sent) + 1)
          /\ (i + 1 < m + 1 \/ i = m) /\ i \in 1..Len(sent)
      BY <1>2
    <3>2. Before(i + 1) <= Before(m + 1) \/ i = m
      BY <1>4, <3>1
    <3>3. Before(i + 1) <= L
      BY <1>2, <1>3, <1>5, <3>1, <3>2
    <3> QED BY <1>2, <3>1, <3>3
  <2>2. ASSUME NEW i \in whole PROVE i \in 1..m
    <3> SUFFICES ASSUME i > m PROVE FALSE
      BY <1>2
    <3>1. /\ m < Len(sent) /\ m + 2 \in 1..(Len(sent) + 1) /\ i + 1 \in 1..(Len(sent) + 1)
          /\ (m + 2 < i + 1 \/ m + 2 = i + 1)
      BY <1>2
    <3>2. Before(m + 2) <= Before(i + 1)
      BY <1>3, <1>4, <3>1
    <3>3. Before(i + 1) <= L
      OBVIOUS
    <3> QED BY <1>2, <1>3, <1>5, <3>1, <3>2, <3>3
  <2> QED BY <2>1, <2>2
<1> HIDE DEF whole
<1>6. CASE Clean
  <2>1. n <= Len(sent) /\ Before(n + 1) <= L /\ ~(L < Header)
        /\ ~(L - Before(n + 1) >= Header)
    <3>1. n <= Len(sent) /\ Before(n + 1) <= L /\ L >= Header
          /\ L - Before(n + 1) < Header
      BY <1>6 DEF Clean, Here
    <3>2. Before(n + 1) \in Nat
      <4>1. n + 1 \in 1..(Len(sent) + 1)
        BY <1>2, <3>1
      <4> QED BY <1>3, <4>1
    <3> QED BY <1>2, <3>1, <3>2
  <2>2. n < Len(sent) => Before(n + 2) > L
    <3> SUFFICES ASSUME n < Len(sent), ~(Before(n + 2) > L) PROVE FALSE
      OBVIOUS
    <3>1. n + 1 \in DOMAIN sent /\ (n + 1) + 1 = n + 2 /\ n + 2 \in 1..(Len(sent) + 1)
          /\ ~(n + 1 <= n)
      BY <1>2
    <3>2. Before(n + 2) <= L
      BY <1>2, <1>3, <3>1
    <3> QED BY <1>1, <3>1, <3>2 DEF Walk
  <2>3. n \in 0..Len(sent)
    BY <1>2, <2>1
  <2>4. whole = 1..n
    BY <1>5, <2>1, <2>2, <2>3
  <2>5. Max({0} \cup whole) = n /\ Cardinality(whole) = n
    BY <1>2, <2>4, MaxUpTo
  <2> QED BY <1>2, <2>1, <2>5
<1>7. CASE Told
  <2> DEFINE m == n - 1
  <2>1. /\ n \in 1..(Len(sent) + 1) /\ Before(n) <= L
        /\ n <= Len(sent) => Before(n + 1) > L
        /\ L - Before(n) >= Header \/ L < Header
    BY <1>7 DEF Told
  <2>2. /\ m \in 0..Len(sent) /\ m \in Nat /\ m + 1 = n /\ m + 2 = n + 1
        /\ m < Len(sent) => n <= Len(sent)
    BY <1>2, <2>1
  <2> HIDE DEF m
  <2>3. whole = 1..m
    BY <1>5, <2>1, <2>2
  <2>4. Max({0} \cup whole) = m /\ Cardinality(whole) = m
    BY <2>2, <2>3, MaxUpTo
  <2> QED BY <2>1, <2>2, <2>4
<1> QED BY <1>1, <1>6, <1>7

(* Whatever is damaged or missing of a capture, and wherever: the frames   *)
(* in front are yielded as they were sent, at the offsets where they were  *)
(* sent, and of a capture that was only cut the reader tells at most one   *)
(* error, once it has come to the end without a read error                 *)
(* (raw_bmp.rs:507-592).                                                   *)
THEOREM DamageCorrect == Spec => []DamageIsLocal
<1>1. DInv => DamageIsLocal
  BY FramesDelivered, OneErrorTold DEF DamageIsLocal
<1> QED BY InitDamage, NextDamage, <1>1, PTL DEF Spec
=============================================================================
