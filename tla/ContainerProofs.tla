---------------------------- MODULE ContainerProofs ----------------------------
(* Proofs about Container, for every set of messages and every limit: what *)
(* is in the file wherever the recorder dies, what a reader makes of it,   *)
(* and that both together are a stream of records.                         *)
EXTENDS Container, OrderLemmas, SequenceTheorems, TLAPS

-----------------------------------------------------------------------------
(* What a file may hold.                                                   *)
CellSet == {Magic} \cup ({"length"} \X Nat) \cup ({"data"} \X Payloads)

LEMMA CellsShape ==
  ASSUME NEW m \in Payloads
  PROVE  /\ m.size \in Nat
         /\ Cells(m) \in Seq(CellSet)
         /\ Len(Cells(m)) = Prefix + m.size
         /\ \A i \in 1..(Prefix + m.size) :
              Cells(m)[i] = IF i <= Prefix THEN <<"length", m.size>>
                                           ELSE <<"data", m>>
<1>1. m.size \in Nat
  BY PayloadAssumption DEF PayloadType
<1>2. \A i \in 1..(Prefix + m.size) :
        (IF i <= Prefix THEN <<"length", m.size>> ELSE <<"data", m>>) \in CellSet
  BY <1>1 DEF CellSet
<1>3. Prefix + m.size \in Nat
  BY <1>1 DEF Prefix
<1>4. Cells(m) \in [1..(Prefix + m.size) -> CellSet]
  BY <1>2 DEF Cells
<1>5. Cells(m) \in Seq(CellSet) /\ Len(Cells(m)) = Prefix + m.size
  BY <1>3, <1>4, SeqDef
<1> QED BY <1>1, <1>5 DEF Cells

(* The two recursive definitions, unfolded.                                *)
LEMMA EndsUnfold ==
  ASSUME NEW records \in Seq(Payloads)
  PROVE  /\ Ends(records) \in [0..Len(records) -> Nat]
         /\ Ends(records)[0] = 1
         /\ \A n \in 1..Len(records) :
              Ends(records)[n] = Ends(records)[n-1] + Prefix + records[n].size
<1> DEFINE N    == Len(records)
           step == [n \in 1..N |-> [v \in Nat |-> v + Prefix + records[n].size]]
           Def(f) == [n \in 0..N |-> IF n = 0 THEN 1
                                     ELSE f[n-1] + Prefix + records[n].size]
           e == Ends(records)
<1>1. N \in Nat
  BY LenProperties
<1>2. ASSUME NEW n \in 1..N PROVE records[n].size \in Nat
  <2>1. records[n] \in Payloads
    BY ElementOfSeq
  <2> QED BY <2>1, CellsShape
<1>3. step \in [1..N -> [Nat -> Nat]]
  BY <1>2 DEF Prefix
<1>4. \A v \in Nat, n \in 1..N : step[n][v] = v + Prefix + records[n].size
  OBVIOUS
<1> HIDE DEF step, N
<1>5. 1 \in Nat
  OBVIOUS
<1>6. PICK f \in [0..N -> Nat] : Solves(f, N, 1, step)
  BY <1>1, <1>3, <1>5, Recursion
<1>7. /\ f[0] = 1
      /\ \A n \in 1..N : /\ f[n-1] \in Nat
                         /\ f[n] = f[n-1] + Prefix + records[n].size
  <2>1. ASSUME NEW n \in 1..N
        PROVE  f[n-1] \in Nat /\ f[n] = f[n-1] + Prefix + records[n].size
    <3>1. n - 1 \in 0..N
      BY <1>1
    <3>2. f[n-1] \in Nat /\ f[n] = step[n][f[n-1]]
      BY <1>6, <3>1 DEF Solves
    <3> QED BY <1>4, <3>2
  <2> QED BY <1>6, <2>1 DEF Solves
<1>8. f = Def(f)
  <2>1. \A n \in 0..N : f[n] = Def(f)[n]
    BY <1>1, <1>7
  <2> QED BY <2>1, <1>6
<1>9. e = Def(e)
  <2>1. e = CHOOSE g : g = Def(g)
    BY DEF Ends, N
  <2> QED BY <1>8, <2>1
<1> HIDE DEF e
<1>10. e[0] = 1 /\ \A n \in 1..N : e[n] = e[n-1] + Prefix + records[n].size
  BY <1>1, <1>9
<1>11. SameUpTo(e, f, N)
  <2>1. e[0] = f[0] /\ \A n \in 1..N : e[n-1] = f[n-1] => e[n] = f[n]
    BY <1>7, <1>10
  <2> QED BY <2>1, <1>1, Agree
<1>12. e \in [0..N -> Nat]
  BY <1>6, <1>9, <1>11 DEF SameUpTo
<1> QED BY <1>10, <1>12 DEF e, N

LEMMA LayoutsUnfold ==
  ASSUME NEW records \in Seq(Payloads)
  PROVE  /\ Layouts(records) \in [0..Len(records) -> Seq(CellSet)]
         /\ Layouts(records)[0] = <<Magic>>
         /\ \A n \in 1..Len(records) :
              Layouts(records)[n] = Layouts(records)[n-1] \o Cells(records[n])
<1> DEFINE N    == Len(records)
           S    == Seq(CellSet)
           step == [n \in 1..N |-> [v \in S |-> v \o Cells(records[n])]]
           base == <<Magic>>
           Def(f) == [n \in 0..N |-> IF n = 0 THEN base
                                     ELSE f[n-1] \o Cells(records[n])]
           e == Layouts(records)
<1>1. N \in Nat
  BY LenProperties
<1>2. ASSUME NEW n \in 1..N PROVE Cells(records[n]) \in S
  <2>1. records[n] \in Payloads
    BY ElementOfSeq
  <2> QED BY <2>1, CellsShape
<1>3. step \in [1..N -> [S -> S]]
  BY <1>2, ConcatProperties
<1>4. \A v \in S, n \in 1..N : step[n][v] = v \o Cells(records[n])
  OBVIOUS
<1>5. base \in S
  BY DEF CellSet
<1> HIDE DEF step, N, S, base
<1>6. PICK f \in [0..N -> S] : Solves(f, N, base, step)
  BY <1>1, <1>3, <1>5, Recursion
<1>7. ASSUME NEW n \in 1..N
      PROVE  f[n] = f[n-1] \o Cells(records[n])
  <2>1. n - 1 \in 0..N
    BY <1>1
  <2>2. f[n-1] \in S /\ f[n] = step[n][f[n-1]]
    BY <1>6, <2>1 DEF Solves
  <2> QED BY <1>4, <2>2
<1>8. f = Def(f)
  <2>1. ASSUME NEW n \in 0..N PROVE f[n] = Def(f)[n]
    <3>1. CASE n = 0
      BY <3>1, <1>6 DEF Solves
    <3>2. CASE n # 0
      <4>1. n \in 1..N
        BY <1>1, <3>2
      <4> QED BY <1>7, <3>2, <4>1
    <3> QED BY <3>1, <3>2
  <2> QED BY <2>1, <1>6
<1>9. e = Def(e)
  <2>1. e = CHOOSE g : g = Def(g)
    BY DEF Layouts, N, base
  <2> QED BY <1>8, <2>1
<1> HIDE DEF e
<1>10. e[0] = base /\ \A n \in 1..N : e[n] = e[n-1] \o Cells(records[n])
  <2>1. ASSUME NEW n \in 1..N PROVE e[n] = e[n-1] \o Cells(records[n])
    <3>1. n \in 0..N /\ n # 0
      BY <1>1
    <3> QED BY <1>9, <3>1
  <2>2. 0 \in 0..N
    BY <1>1
  <2> QED BY <1>9, <2>1, <2>2
<1>11. SameUpTo(e, f, N)
  <2>1. e[0] = f[0] /\ \A n \in 1..N : e[n-1] = f[n-1] => e[n] = f[n]
    BY <1>6, <1>7, <1>10 DEF Solves
  <2> QED BY <2>1, <1>1, Agree
<1>12. e \in [0..N -> S]
  BY <1>6, <1>9, <1>11 DEF SameUpTo
<1> QED BY <1>10, <1>12 DEF e, N, S, base

(* One more record changes neither what is before it nor where that ends.  *)
LEMMA EndsAppend ==
  ASSUME NEW records \in Seq(Payloads), NEW m \in Payloads
  PROVE  LET more == Append(records, m)
         IN  /\ \A n \in 0..Len(records) : Ends(more)[n] = Ends(records)[n]
             /\ Ends(more)[Len(more)] = Ends(records)[Len(records)] + Prefix + m.size
<1> DEFINE more == Append(records, m)
           N    == Len(records)
           old  == Ends(records)
           new  == Ends(more)
<1>1. /\ more \in Seq(Payloads) /\ N \in Nat /\ Len(more) = N + 1 /\ more[N + 1] = m
      /\ \A n \in 1..N : more[n] = records[n]
  BY AppendProperties
<1>2. /\ old[0] = 1 /\ \A n \in 1..N : old[n] = old[n-1] + Prefix + records[n].size
  BY EndsUnfold
<1>3. /\ new[0] = 1
      /\ \A n \in 1..(N + 1) : new[n] = new[n-1] + Prefix + more[n].size
  BY <1>1, EndsUnfold
<1> HIDE DEF old, new, more, N
<1>4. SameUpTo(new, old, N)
  <2>1. ASSUME NEW n \in 1..N, new[n-1] = old[n-1] PROVE new[n] = old[n]
    <3>1. n \in 1..(N + 1)
      BY <1>1
    <3> QED BY <1>1, <1>2, <1>3, <2>1, <3>1
  <2>2. new[0] = old[0]
    BY <1>2, <1>3
  <2> QED BY <2>1, <2>2, <1>1, Agree
<1>5. new[N + 1] = old[N] + Prefix + m.size
  <2>1. N + 1 \in 1..(N + 1) /\ (N + 1) - 1 = N /\ N \in 0..N
    BY <1>1
  <2>2. new[N] = old[N]
    BY <1>4, <2>1 DEF SameUpTo
  <2> QED BY <1>1, <1>3, <2>1, <2>2
<1> QED BY <1>1, <1>4, <1>5 DEF SameUpTo, old, new, more, N

LEMMA LayoutAppend ==
  ASSUME NEW records \in Seq(Payloads), NEW m \in Payloads
  PROVE  Layout(Append(records, m)) = Layout(records) \o Cells(m)
<1> DEFINE more == Append(records, m)
           N    == Len(records)
           old  == Layouts(records)
           new  == Layouts(more)
<1>1. /\ more \in Seq(Payloads) /\ N \in Nat /\ Len(more) = N + 1 /\ more[N + 1] = m
      /\ \A n \in 1..N : more[n] = records[n]
  BY AppendProperties
<1>2. old[0] = <<Magic>> /\ \A n \in 1..N : old[n] = old[n-1] \o Cells(records[n])
  BY LayoutsUnfold
<1>3. /\ new[0] = <<Magic>>
      /\ \A n \in 1..(N + 1) : new[n] = new[n-1] \o Cells(more[n])
  BY <1>1, LayoutsUnfold
<1> HIDE DEF old, new, more, N
<1>4. SameUpTo(new, old, N)
  <2>1. ASSUME NEW n \in 1..N, new[n-1] = old[n-1] PROVE new[n] = old[n]
    <3>1. n \in 1..(N + 1)
      BY <1>1
    <3> QED BY <1>1, <1>2, <1>3, <2>1, <3>1
  <2>2. new[0] = old[0]
    BY <1>2, <1>3
  <2> QED BY <2>1, <2>2, <1>1, Agree
<1>5. new[N + 1] = old[N] \o Cells(m)
  <2>1. N + 1 \in 1..(N + 1) /\ (N + 1) - 1 = N /\ N \in 0..N
    BY <1>1
  <2>2. new[N] = old[N]
    BY <1>4, <2>1 DEF SameUpTo
  <2> QED BY <1>1, <1>3, <2>1, <2>2
<1> QED BY <1>1, <1>5 DEF Layout, old, new, more, N

-----------------------------------------------------------------------------
(* The layout of a file with these records, cell by cell: where a record   *)
(* ends and what is in front of it.  As records are only appended, this is *)
(* part of the inductive invariant.                                        *)
Laid(records) ==
  /\ records \in Seq(Payloads)
  /\ Layout(records) \in Seq(CellSet)
  /\ Len(Layout(records)) = Ends(records)[Len(records)]
  /\ \A n \in 1..Len(records) : \A i \in 1..(Prefix + records[n].size) :
       Layout(records)[Ends(records)[n-1] + i] = Cells(records[n])[i]
  /\ \A k, n \in 0..Len(records) :
       k < n => Ends(records)[k] + Prefix <= Ends(records)[n]

Steps == {"resolving", "creating", "checking", "polling", "writing", "finishing"}

(* The recorder: the file is always the beginning of the layout, all of it *)
(* that is not still to be written while it records; a record counted as   *)
(* written ends in the file and at most one more has been accepted.        *)
RecorderTypes ==
  /\ recorder \in Stopped \cup Steps
  /\ running \in BOOLEAN /\ expired \in BOOLEAN /\ exit \in 0..1
  /\ written \in 0..MaxMessages
  /\ file \in Seq(CellSet) /\ todo \in Seq(CellSet)

ControlInv ==
  /\ recorder \in {"resolving", "creating", "listed"} => file = <<>>
  /\ recorder \in {"checking", "polling", "writing", "finishing", "exited"} =>
       file # <<>> /\ file \o todo = Layout(accepted)
  /\ recorder # "writing" => todo = <<>>
  /\ recorder \in {"polling", "writing"} => written < MaxMessages
  /\ recorder \in {"checking", "polling", "finishing", "exited"} =>
       Len(accepted) = written
  /\ recorder = "writing" => Len(accepted) = written + 1
  /\ recorder = "exited" /\ exit = 0 => written >= MinMessages

FileInv ==
  /\ Laid(accepted)
  /\ file = <<>> => accepted = <<>> /\ written = 0
  /\ file # <<>> => /\ Len(accepted) \in {written, written + 1}
                    /\ Ends(accepted)[written] <= Len(file)
  /\ Len(file) <= Len(Layout(accepted))
  /\ \A i \in 1..Len(file) : file[i] = Layout(accepted)[i]

RecorderInv == RecorderTypes /\ ControlInv /\ FileInv

(* The reader: it stands behind the records delivered, or behind the       *)
(* prefix of the one after them, which is complete in the file.            *)
ReaderInv ==
  LET d == Len(delivered)
  IN  /\ reader \in {"closed", "prefix", "payload", "ended", "failed"}
      /\ tail \in {"none", "no_record", "oversized", "torn", "io"}
      /\ offset \in 0..Len(file) /\ need \in Nat
      /\ delivered \in Seq(Payloads) /\ d <= Len(accepted)
      /\ \A i \in 1..d : delivered[i] = accepted[i]
      /\ d # 0 => Ends(accepted)[d] <= Len(file)
      /\ reader \in {"prefix", "payload"} => file # <<>>
      /\ reader = "closed" => delivered = <<>>
      /\ reader = "prefix" => offset = Ends(accepted)[d]
      /\ reader = "payload" => /\ d < Len(accepted)
                               /\ offset = Ends(accepted)[d] + Prefix
                               /\ need = accepted[d + 1].size

Failing == {i \in DOMAIN delivered : ~FrameOk(delivered[i])}

(* The counters.                                                           *)
StatsInv ==
  /\ stats \in [StatCounters -> Nat] /\ metadata \in 0..1
  /\ StatsAddUp

IInv == RecorderInv /\ ReaderInv /\ StatsInv

-----------------------------------------------------------------------------
(* The layout of no records and of one more.                               *)
LEMMA LaidEmpty == Laid(<<>>) /\ Layout(<<>>) = <<Magic>> /\ Ends(<<>>)[0] = 1
<1>1. <<>> \in Seq(Payloads) /\ Len(<<>>) = 0
  BY EmptySeq
<1>2. Layout(<<>>) = <<Magic>> /\ Ends(<<>>)[0] = 1
  BY <1>1, LayoutsUnfold, EndsUnfold DEF Layout
<1>3. <<Magic>> \in Seq(CellSet) /\ Len(<<Magic>>) = 1
  BY DEF CellSet
<1> DEFINE none == <<>>
<1>4. /\ none \in Seq(Payloads) /\ Len(none) = 0
      /\ Layout(none) = <<Magic>> /\ Ends(none)[0] = 1
  BY <1>1, <1>2
<1> HIDE DEF none
<1>5. 1..Len(none) = {} /\ 0..Len(none) = {0}
  BY <1>4
<1>6. Laid(none)
  BY <1>3, <1>4, <1>5 DEF Laid
<1> QED BY <1>4, <1>6 DEF none

LEMMA LaidAppend ==
  ASSUME NEW records, Laid(records), NEW m \in Payloads
  PROVE  Laid(Append(records, m))
<1> DEFINE more == Append(records, m)
           N    == Len(records)
           old  == Ends(records)
           new  == Ends(more)
           L    == Layout(records)
<1>1. records \in Seq(Payloads) /\ N \in Nat
  BY LenProperties DEF Laid
<1>2. /\ more \in Seq(Payloads) /\ Len(more) = N + 1 /\ more[N + 1] = m
      /\ \A n \in 1..N : more[n] = records[n]
  BY <1>1, AppendProperties
<1>3. /\ m.size \in Nat /\ Cells(m) \in Seq(CellSet)
      /\ Len(Cells(m)) = Prefix + m.size
  BY CellsShape
<1>4. /\ \A n \in 0..N : new[n] = old[n]
      /\ new[N + 1] = old[N] + Prefix + m.size
  BY <1>1, <1>2, EndsAppend
<1>5. Layout(more) = L \o Cells(m)
  BY <1>1, LayoutAppend
<1>6. L \in Seq(CellSet) /\ Len(L) = old[N] /\ old \in [0..N -> Nat]
  BY <1>1, EndsUnfold DEF Laid
<1>7. /\ Layout(more) \in Seq(CellSet)
      /\ Len(Layout(more)) = Len(L) + Prefix + m.size
      /\ \A i \in 1..(Len(L) + Prefix + m.size) :
           Layout(more)[i] = IF i <= Len(L) THEN L[i] ELSE Cells(m)[i - Len(L)]
  <2> DEFINE c == Cells(m)
  <2> HIDE DEF c, L
  <2>1. /\ L \o c \in Seq(CellSet)
        /\ Len(L \o c) = Len(L) + Len(c)
        /\ \A i \in 1..(Len(L) + Len(c)) :
             (L \o c)[i] = IF i <= Len(L) THEN L[i] ELSE c[i - Len(L)]
    BY <1>3, <1>6, ConcatProperties DEF c
  <2>2. Len(L) \in Nat
    BY <1>6, LenProperties
  <2>3. Len(L) + Len(c) = Len(L) + Prefix + m.size
    BY <1>3, <2>2 DEF c, Prefix
  <2> QED BY <1>5, <2>1, <2>3 DEF c
<1>8. \A n \in 1..N : /\ records[n].size \in Nat
                      /\ old[n] = old[n-1] + Prefix + records[n].size
  <2>1. \A n \in 1..N : records[n] \in Payloads
    BY <1>1, ElementOfSeq
  <2> QED BY <1>1, <2>1, EndsUnfold, CellsShape
<1>9. \A k, n \in 0..N : k < n => old[k] + Prefix <= old[n]
  BY DEF Laid
<1>10. \A n \in 1..N : \A i \in 1..(Prefix + records[n].size) :
         L[old[n-1] + i] = Cells(records[n])[i]
  BY DEF Laid
<1> HIDE DEF more, N, old, new, L
<1>11. ASSUME NEW n \in 1..(N + 1), NEW i \in 1..(Prefix + more[n].size)
       PROVE  Layout(more)[new[n-1] + i] = Cells(more[n])[i]
  <2>1. CASE n = N + 1
    <3>1. more[n] = m /\ new[n-1] = Len(L) /\ i \in 1..(Prefix + m.size)
      BY <1>1, <1>2, <1>4, <1>6, <2>1
    <3>2. Len(L) \in Nat /\ i \in Int /\ i > 0
      BY <1>1, <1>6, <1>3, <3>1 DEF Prefix
    <3>3. Len(L) + i \in 1..(Len(L) + Prefix + m.size) /\ ~(Len(L) + i <= Len(L))
      BY <3>1, <3>2, <1>3 DEF Prefix
    <3>4. (Len(L) + i) - Len(L) = i
      BY <3>2
    <3> QED BY <1>7, <3>1, <3>3, <3>4
  <2>2. CASE n # N + 1
    <3>1. n \in 1..N /\ n - 1 \in 0..N /\ n \in 0..N
      BY <1>1, <2>2
    <3>2. more[n] = records[n] /\ new[n-1] = old[n-1]
      BY <1>2, <1>4, <3>1
    <3>3. /\ old[n-1] \in Nat /\ old[n] \in Nat /\ old[N] \in Nat
          /\ records[n].size \in Nat
          /\ old[n] = old[n-1] + Prefix + records[n].size
      BY <1>1, <1>6, <1>8, <3>1
    <3>4. old[n] <= old[N]
      <4>1. CASE n = N
        BY <4>1, <3>3
      <4>2. CASE n < N
        BY <4>2, <1>1, <1>9, <3>1, <3>3 DEF Prefix
      <4> QED BY <4>1, <4>2, <3>1, <1>1
    <3>5. i \in 1..(Prefix + records[n].size)
      BY <3>2
    <3>6. old[n-1] + i \in 1..(Len(L) + Prefix + m.size) /\ old[n-1] + i <= Len(L)
      <4>1. /\ i \in Int /\ 1 <= i /\ i <= Prefix + records[n].size
            /\ Len(L) \in Nat /\ old[n] <= Len(L) /\ m.size \in Nat
        BY <1>3, <1>6, <3>3, <3>4, <3>5 DEF Prefix
      <4>2. old[n-1] + i <= Len(L)
        <5> DEFINE a == old[n-1]
                   b == old[n]
                   r == records[n].size
                   l == Len(L)
        <5>1. /\ a \in Nat /\ b \in Nat /\ r \in Nat /\ l \in Nat /\ i \in Int
              /\ b = a + 2 + r /\ i <= 2 + r /\ b <= l
          BY <3>3, <4>1 DEF Prefix
        <5> HIDE DEF a, b, r, l
        <5>2. a + i <= l
          BY ONLY <5>1
        <5> QED BY <5>2 DEF a, l
      <4> DEFINE x == old[n-1] + i
                 top == Len(L) + Prefix + m.size
      <4>3. x \in Int /\ 1 <= x /\ top \in Int /\ x <= top
        <5>1. x \in Int /\ 1 <= x
          BY <3>3, <4>1
        <5>2. top \in Int /\ Len(L) <= top
          BY <4>1 DEF Prefix
        <5> HIDE DEF x, top
        <5>3. x <= Len(L)
          BY <4>2 DEF x
        <5> QED BY <4>1, <5>1, <5>2, <5>3
      <4> HIDE DEF x, top
      <4>4. x \in 1..top
        BY <4>3
      <4> QED BY <4>2, <4>4 DEF x, top
    <3> QED BY <1>7, <1>10, <3>1, <3>2, <3>5, <3>6
  <2> QED BY <2>1, <2>2
<1>12. ASSUME NEW k \in 0..(N + 1), NEW n \in 0..(N + 1), k < n
       PROVE  new[k] + Prefix <= new[n]
  <2>1. k \in 0..N /\ new[k] = old[k] /\ old[k] \in Nat /\ old[N] \in Nat /\ N \in 0..N
    BY <1>1, <1>4, <1>6, <1>12
  <2>2. CASE n = N + 1
    <3>1. old[k] <= old[N]
      <4>1. CASE k = N
        BY <4>1, <2>1
      <4>2. CASE k # N
        BY <4>2, <1>1, <1>9, <2>1 DEF Prefix
      <4> QED BY <4>1, <4>2
    <3> QED BY <1>3, <1>4, <2>1, <2>2, <3>1 DEF Prefix
  <2>3. CASE n # N + 1
    <3>1. n \in 0..N /\ new[n] = old[n]
      BY <1>1, <1>4, <2>3
    <3> QED BY <1>9, <1>12, <2>1, <3>1
  <2> QED BY <2>2, <2>3
<1>13. Len(Layout(more)) = new[N + 1]
  <2>1. N \in 0..N /\ old[N] \in Nat
    BY <1>1, <1>6
  <2> QED BY <1>4, <1>6, <1>7
<1> QED BY <1>2, <1>7, <1>11, <1>12, <1>13 DEF Laid, more, N, old, new, L

-----------------------------------------------------------------------------
(* The recorder's steps.                                                   *)
LEMMA InitInv == Init => IInv
<1> SUFFICES ASSUME Init PROVE IInv
  OBVIOUS
<1>1. /\ accepted = <<>> /\ todo = <<>> /\ file = <<>> /\ delivered = <<>>
      /\ written = 0 /\ recorder = "resolving" /\ reader = "closed"
      /\ offset = 0 /\ need = 0 /\ metadata = 0 /\ tail = "none" /\ exit = 0
      /\ stats = [c \in StatCounters |-> 0]
      /\ running = TRUE /\ expired = FALSE
  BY DEF Init
<1>2. /\ Len(file) = 0 /\ Len(delivered) = 0 /\ DOMAIN delivered = {}
      /\ file \in Seq(CellSet) /\ todo \in Seq(CellSet) /\ delivered \in Seq(Payloads)
      /\ Len(accepted) = 0
  BY <1>1
<1>3. Laid(accepted) /\ Len(Layout(accepted)) = 1
  BY <1>1, LaidEmpty
<1>4. MaxMessages \in Nat
  BY LimitAssumption
<1>5. RecorderInv
  <2>1. written \in 0..MaxMessages /\ recorder \in Stopped \cup Steps
    BY <1>1, <1>4 DEF Steps
  <2>2. \A i \in 1..Len(file) : file[i] = Layout(accepted)[i]
    BY <1>2
  <2>3. Len(file) <= Len(Layout(accepted))
    BY <1>2, <1>3
  <2>4. RecorderTypes
    <3>1. running \in BOOLEAN /\ expired \in BOOLEAN
      BY <1>1
    <3>2. exit \in 0..1
      BY <1>1
    <3> QED BY <1>2, <2>1, <3>1, <3>2 DEF RecorderTypes
  <2>5. ControlInv
    BY <1>1 DEF ControlInv
  <2>6. FileInv
    BY <1>1, <1>2, <1>3, <2>2, <2>3 DEF FileInv
  <2> QED BY <2>4, <2>5, <2>6 DEF RecorderInv
<1>6. ReaderInv
  BY <1>1, <1>2 DEF ReaderInv
<1>7. Cardinality({i \in DOMAIN delivered : ~FrameOk(delivered[i])}) = 0
  <2>1. {i \in DOMAIN delivered : ~FrameOk(delivered[i])} = {}
    BY <1>2
  <2> QED BY <2>1, FS_EmptySet
<1>8. StatsInv
  BY <1>1, <1>2, <1>7 DEF StatsInv, StatsAddUp, StatCounters
<1> QED BY <1>5, <1>6, <1>8 DEF IInv

(* What every step of the recorder does to the reader's side.              *)
Grows ==
  /\ file' \in Seq(CellSet) /\ Len(file) <= Len(file')
  /\ accepted' = accepted \/ \E m \in Payloads : accepted' = Append(accepted, m)
  /\ UNCHANGED readVars

LEMMA ReaderKept ==
  ASSUME IInv, Grows
  PROVE  ReaderInv' /\ StatsInv'
<1> DEFINE d == Len(delivered)
<1>1. /\ accepted \in Seq(Payloads) /\ file \in Seq(CellSet)
      /\ delivered \in Seq(Payloads) /\ d <= Len(accepted)
      /\ d \in Nat /\ Len(accepted) \in Nat
      /\ Len(file) \in Nat /\ Len(file') \in Nat
  BY LenProperties DEF IInv, RecorderInv, RecorderTypes, ControlInv, FileInv, ReaderInv, Laid, Grows
<1>2. /\ Len(accepted) <= Len(accepted')
      /\ \A n \in 1..Len(accepted) : accepted'[n] = accepted[n]
      /\ \A n \in 0..Len(accepted) : Ends(accepted')[n] = Ends(accepted)[n]
  <2>1. CASE accepted' = accepted
    BY <2>1, <1>1
  <2>2. ASSUME NEW m \in Payloads, accepted' = Append(accepted, m)
        PROVE  /\ Len(accepted) <= Len(accepted')
               /\ \A n \in 1..Len(accepted) : accepted'[n] = accepted[n]
               /\ \A n \in 0..Len(accepted) : Ends(accepted')[n] = Ends(accepted)[n]
    <3>1. \A n \in 0..Len(accepted) : Ends(accepted')[n] = Ends(accepted)[n]
      BY <1>1, <2>2, EndsAppend
    <3> QED BY <1>1, <2>2, <3>1, AppendProperties
  <2> QED BY <2>1, <2>2 DEF Grows
<1>3. /\ reader' = reader /\ offset' = offset /\ need' = need /\ delivered' = delivered
      /\ tail' = tail /\ stats' = stats /\ metadata' = metadata
  BY DEF Grows, readVars
<1>4. file # <<>> => file' # <<>>
  <2>1. file # <<>> => Len(file) # 0
    BY <1>1, EmptySeq
  <2>2. file' = <<>> => Len(file') = 0
    OBVIOUS
  <2> QED BY <1>1, <2>1, <2>2 DEF Grows
<1>5. Len(accepted') \in Nat
  BY <1>1, AppendProperties, LenProperties DEF Grows
<1>6. ReaderInv'
  <2>1. d \in 0..Len(accepted) /\ d <= Len(accepted') /\ \A i \in 1..d : i \in 1..Len(accepted)
    BY <1>1, <1>2, <1>5
  <2>2. Ends(accepted')[d] = Ends(accepted)[d]
    BY <1>2, <2>1
  <2>3. \A i \in 1..d : delivered[i] = accepted'[i]
    BY <1>2, <2>1 DEF IInv, ReaderInv
  <2>4. offset \in 0..Len(file')
    BY <1>1 DEF IInv, ReaderInv, Grows
  <2>5. d # 0 => Ends(accepted')[d] <= Len(file')
    <3>1. Ends(accepted)[d] \in Nat
      BY <1>1, <2>1, EndsUnfold
    <3> QED BY <1>1, <2>2, <3>1 DEF IInv, ReaderInv, Grows
  <2>6. reader = "payload" => /\ d < Len(accepted')
                              /\ offset = Ends(accepted')[d] + Prefix
                              /\ need = accepted'[d + 1].size
    <3> SUFFICES ASSUME reader = "payload"
                 PROVE  /\ d < Len(accepted')
                        /\ offset = Ends(accepted')[d] + Prefix
                        /\ need = accepted'[d + 1].size
      OBVIOUS
    <3>1. d < Len(accepted) /\ d + 1 \in 1..Len(accepted)
      BY <1>1 DEF IInv, ReaderInv
    <3> QED BY <1>1, <1>2, <1>5, <2>2, <3>1 DEF IInv, ReaderInv
  <2> QED
    BY <1>3, <1>4, <2>1, <2>2, <2>3, <2>4, <2>5, <2>6 DEF IInv, ReaderInv
<1>7. StatsInv'
  BY <1>3 DEF IInv, StatsInv, StatsAddUp
<1> QED BY <1>6, <1>7

(* A file that is the beginning of a layout.                               *)
LEMMA Beginning ==
  ASSUME NEW f \in Seq(CellSet), NEW t \in Seq(CellSet)
  PROVE  /\ Len(f) <= Len(f \o t)
         /\ \A i \in 1..Len(f) : f[i] = (f \o t)[i]
<1>1. Len(f) \in Nat /\ Len(t) \in Nat
  BY LenProperties
<1>2. \A i \in 1..Len(f) : i \in 1..(Len(f) + Len(t)) /\ i <= Len(f)
  BY <1>1
<1> QED BY <1>1, <1>2, ConcatProperties

(* The steps that write nothing.                                           *)
LEMMA FileUntouched ==
  ASSUME IInv, file' = file, accepted' = accepted, written' = written,
         UNCHANGED readVars,
         recorder' \in Stopped \cup Steps, exit' \in 0..1,
         running' \in BOOLEAN, expired' \in BOOLEAN,
         todo' \in {todo, <<>>}, recorder' # "writing" => todo' = <<>>,
         recorder' \in {"resolving", "creating", "listed"} => file = <<>>,
         recorder' \in {"checking", "polling", "writing", "finishing", "exited"} =>
           file # <<>> /\ file \o todo' = Layout(accepted),
         recorder' \in {"polling", "writing"} => written < MaxMessages,
         recorder' \in {"checking", "polling", "finishing", "exited"} =>
           Len(accepted) = written,
         recorder' = "writing" => Len(accepted) = written + 1,
         recorder' = "exited" /\ exit' = 0 => written >= MinMessages
  PROVE  RecorderInv' /\ Grows
<1>1. file' \in Seq(CellSet) /\ Len(file) \in Nat /\ todo' \in Seq(CellSet)
  BY EmptySeq, LenProperties DEF IInv, RecorderInv, RecorderTypes, ControlInv, FileInv
<1>2. Laid(accepted)' /\ Layout(accepted)' = Layout(accepted)
      /\ Ends(accepted)' = Ends(accepted)
  BY DEF IInv, RecorderInv, RecorderTypes, ControlInv, FileInv
<1> HIDE DEF Laid, Layout, Ends
<1>3. RecorderInv'
  BY <1>1, <1>2 DEF IInv, RecorderInv, RecorderTypes, ControlInv, FileInv
<1>4. Grows
  BY <1>1 DEF Grows
<1> QED BY <1>3, <1>4

LEMMA ResolveStep == IInv /\ Resolve => RecorderInv' /\ Grows
<1> SUFFICES ASSUME IInv, Resolve PROVE RecorderInv' /\ Grows
  OBVIOUS
<1>1. /\ recorder = "resolving" /\ recorder' \in {"failed", "listed", "creating"}
      /\ exit' \in 0..1
      /\ UNCHANGED <<running, expired, accepted, todo, written, file, readVars>>
  BY DEF Resolve
<1>2. file = <<>> /\ todo = <<>> /\ running \in BOOLEAN /\ expired \in BOOLEAN
  BY <1>1 DEF IInv, RecorderInv, RecorderTypes, ControlInv, FileInv
<1> QED BY <1>1, <1>2, FileUntouched DEF Stopped, Steps

LEMMA CreateStep == IInv /\ Create => RecorderInv' /\ Grows
<1> SUFFICES ASSUME IInv, Create PROVE RecorderInv' /\ Grows
  OBVIOUS
<1>1. /\ recorder = "creating"
      /\ UNCHANGED <<running, expired, accepted, todo, written, readVars>>
  BY DEF Create
<1>2. /\ file = <<>> /\ todo = <<>> /\ running \in BOOLEAN /\ expired \in BOOLEAN
      /\ accepted = <<>> /\ written = 0 /\ exit \in 0..1
  BY <1>1 DEF IInv, RecorderInv, RecorderTypes, ControlInv, FileInv
<1>3. CASE recorder' = "failed" /\ exit' = 1 /\ UNCHANGED file
  BY <1>1, <1>2, <1>3, FileUntouched DEF Stopped, Steps
<1>4. CASE recorder' = "checking" /\ file' = <<Magic>> /\ UNCHANGED exit
  <2>1. file' \in Seq(CellSet) /\ Len(file') = 1 /\ file' # <<>> /\ Len(file) = 0
    BY <1>2, <1>4 DEF CellSet
  <2>2. /\ accepted' = <<>> /\ Layout(accepted') = <<Magic>> /\ Ends(accepted')[0] = 1
        /\ Laid(accepted')
    BY <1>1, <1>2, LaidEmpty
  <2>3. todo' = <<>> /\ written' = 0 /\ Len(accepted') = 0 /\ todo' \in Seq(CellSet)
    BY <1>1, <1>2
  <2>4. file' \o todo' = file'
    BY <2>1, <2>3, ConcatEmptySeq
  <2>5. 0 \in 0..MaxMessages
    BY LimitAssumption
  <2>6. RecorderTypes'
    BY <1>1, <1>2, <1>4, <2>1, <2>3, <2>5 DEF RecorderTypes, Steps
  <2>7. ControlInv'
    BY <1>4, <2>1, <2>2, <2>3, <2>4 DEF ControlInv
  <2>8. FileInv'
    BY <1>4, <2>1, <2>2, <2>3 DEF FileInv
  <2>9. Grows
    BY <1>1, <2>1 DEF Grows
  <2> QED BY <2>6, <2>7, <2>8, <2>9 DEF RecorderInv
<1> QED BY <1>3, <1>4 DEF Create

LEMMA CheckStep == IInv /\ Check => RecorderInv' /\ Grows
<1> SUFFICES ASSUME IInv, Check PROVE RecorderInv' /\ Grows
  OBVIOUS
<1>1. /\ recorder = "checking" /\ recorder' \in {"polling", "finishing"}
      /\ recorder' = "polling" => written < MaxMessages
      /\ UNCHANGED <<running, expired, accepted, todo, written, exit, file, readVars>>
  BY DEF Check, Recording
<1>2. /\ todo = <<>> /\ running \in BOOLEAN /\ expired \in BOOLEAN /\ exit \in 0..1
      /\ file # <<>> /\ file \o todo = Layout(accepted) /\ Len(accepted) = written
  BY <1>1 DEF IInv, RecorderInv, RecorderTypes, ControlInv, FileInv
<1> QED BY <1>1, <1>2, FileUntouched DEF Stopped, Steps

LEMMA PollNothingStep == IInv /\ PollNothing => RecorderInv' /\ Grows
<1> SUFFICES ASSUME IInv, PollNothing PROVE RecorderInv' /\ Grows
  OBVIOUS
<1>1. /\ recorder = "polling" /\ recorder' = "checking"
      /\ UNCHANGED <<running, expired, accepted, todo, written, exit, file, readVars>>
  BY DEF PollNothing
<1>2. /\ todo = <<>> /\ running \in BOOLEAN /\ expired \in BOOLEAN /\ exit \in 0..1
      /\ file # <<>> /\ file \o todo = Layout(accepted) /\ Len(accepted) = written
  BY <1>1 DEF IInv, RecorderInv, RecorderTypes, ControlInv, FileInv
<1> QED BY <1>1, <1>2, FileUntouched DEF Stopped, Steps

LEMMA FinishStep == IInv /\ Finish => RecorderInv' /\ Grows
<1> SUFFICES ASSUME IInv, Finish PROVE RecorderInv' /\ Grows
  OBVIOUS
<1>1. /\ recorder = "finishing" /\ recorder' = "exited" /\ exit' = ExitCode
      /\ UNCHANGED <<running, expired, accepted, todo, written, file, readVars>>
  BY DEF Finish
<1>2. /\ todo = <<>> /\ running \in BOOLEAN /\ expired \in BOOLEAN /\ written \in Nat
      /\ file # <<>> /\ file \o todo = Layout(accepted) /\ Len(accepted) = written
  BY <1>1, LimitAssumption DEF IInv, RecorderInv, RecorderTypes, ControlInv, FileInv
<1>3. exit' \in 0..1 /\ (exit' = 0 => written >= MinMessages)
  BY <1>1, <1>2, LimitAssumption DEF ExitCode
<1> QED BY <1>1, <1>2, <1>3, FileUntouched DEF Stopped, Steps

LEMMA SignalStep == IInv /\ (CtrlC \/ Expire \/ Crash) => RecorderInv' /\ Grows
<1> SUFFICES ASSUME IInv, CtrlC \/ Expire \/ Crash PROVE RecorderInv' /\ Grows
  OBVIOUS
<1>1. CASE CtrlC \/ Expire
  <2>1. /\ recorder' = recorder /\ running' \in BOOLEAN /\ expired' \in BOOLEAN
        /\ UNCHANGED <<accepted, todo, written, exit, file, readVars>>
    BY <1>1 DEF CtrlC, Expire, IInv, RecorderInv, RecorderTypes, ControlInv, FileInv
  <2> QED BY <2>1, FileUntouched DEF IInv, RecorderInv, RecorderTypes, ControlInv, FileInv
<1>2. CASE Crash
  BY <1>2, FileUntouched DEF Crash, IInv, RecorderInv, RecorderTypes, ControlInv, FileInv, Stopped
<1> QED BY <1>1, <1>2

(* The steps that write.                                                   *)
LEMMA PollMessageStep ==
  ASSUME IInv, NEW m \in Payloads, PollMessage(m)
  PROVE  RecorderInv' /\ Grows
<1>1. /\ recorder = "polling" /\ recorder' = "writing"
      /\ accepted' = Append(accepted, m) /\ todo' = Cells(m)
      /\ UNCHANGED <<running, expired, written, exit, file, readVars>>
  BY DEF PollMessage
<1>2. /\ RecorderTypes /\ Laid(accepted) /\ accepted \in Seq(Payloads)
      /\ todo = <<>> /\ file # <<>> /\ file \o todo = Layout(accepted)
      /\ Len(accepted) = written /\ written < MaxMessages
      /\ Ends(accepted)[written] <= Len(file)
  BY <1>1 DEF IInv, RecorderInv, ControlInv, FileInv, Laid
<1>3. file \in Seq(CellSet) /\ Cells(m) \in Seq(CellSet) /\ Len(accepted) \in Nat
  BY <1>2, CellsShape, LenProperties DEF RecorderTypes
<1>4. file = Layout(accepted)
  BY <1>2, <1>3, ConcatEmptySeq
<1>5. file \o Cells(m) = Layout(accepted')
  BY <1>1, <1>2, <1>4, LayoutAppend
<1>6. Ends(accepted')[written] = Ends(accepted)[written]
  <2>1. written \in 0..Len(accepted)
    BY <1>2, <1>3
  <2> QED BY <1>1, <1>2, <2>1, EndsAppend
<1>7. Laid(accepted') /\ Len(accepted') = written + 1
  BY <1>1, <1>2, LaidAppend, AppendProperties
<1>8. RecorderTypes'
  BY <1>1, <1>2, <1>3 DEF RecorderTypes, Steps
<1>9. ControlInv'
  BY <1>1, <1>2, <1>5, <1>7 DEF ControlInv
<1>10. FileInv'
  <2>1. /\ Len(file) <= Len(Layout(accepted'))
        /\ \A i \in 1..Len(file) : file[i] = Layout(accepted')[i]
    BY <1>3, <1>5, Beginning
  <2> QED BY <1>1, <1>2, <1>6, <1>7, <2>1 DEF FileInv
<1>11. Grows
  <2>1. Len(file) \in Nat
    BY <1>3, LenProperties
  <2> QED BY <1>1, <1>3, <2>1 DEF Grows
<1> QED BY <1>8, <1>9, <1>10, <1>11 DEF RecorderInv

(* Moving a part of what is to be written into the file.                   *)
LEMMA Moved ==
  ASSUME NEW f \in Seq(CellSet), NEW t \in Seq(CellSet), NEW n \in 0..Len(t)
  PROVE  LET more == f \o SubSeq(t, 1, n)
             rest == SubSeq(t, n + 1, Len(t))
         IN  /\ more \in Seq(CellSet) /\ rest \in Seq(CellSet)
             /\ Len(more) = Len(f) + n
             /\ more \o rest = f \o t
<1> DEFINE s == SubSeq(t, 1, n)
           r == SubSeq(t, n + 1, Len(t))
<1>1. Len(f) \in Nat /\ Len(t) \in Nat /\ n \in Nat
  BY LenProperties
<1>2. \A i \in 1..Len(t) : t[i] \in CellSet
  BY ElementOfSeq
<1>3. s \in Seq(CellSet) /\ Len(s) = n
  <2>1. \A i \in 1..n : t[i] \in CellSet
    BY <1>1, <1>2
  <2> QED BY <1>1, <2>1, SubSeqProperties
<1>4. r \in Seq(CellSet)
  <2>1. \A i \in (n + 1)..Len(t) : t[i] \in CellSet
    BY <1>1, <1>2
  <2> QED BY <1>1, <2>1, SubSeqProperties
<1>5. s \o r = t
  <2>1. SubSeq(t, 1, n) \o SubSeq(t, n + 1, Len(t)) = SubSeq(t, 1, Len(t))
    <3>1. 1 \in 1..(Len(t) + 1) /\ n \in (1 - 1)..Len(t) /\ Len(t) \in n..Len(t)
      BY <1>1
    <3> QED BY <3>1, ConcatAdjacentSubSeq
  <2> QED BY <2>1, SubSeqFull
<1> HIDE DEF s, r
<1>6. f \o s \in Seq(CellSet) /\ Len(f \o s) = Len(f) + n
  BY <1>3, ConcatProperties
<1>7. (f \o s) \o r = f \o (s \o r)
  <2>1. f \in Seq(CellSet) /\ s \in Seq(CellSet) /\ r \in Seq(CellSet)
    BY <1>3, <1>4
  <2> QED BY ONLY <2>1, ConcatAssociative
<1> QED BY <1>4, <1>5, <1>6, <1>7 DEF s, r

LEMMA WriteCellStep == IInv /\ WriteCell => RecorderInv' /\ Grows
<1> SUFFICES ASSUME IInv, WriteCell PROVE RecorderInv' /\ Grows
  OBVIOUS
<1>1. /\ recorder = "writing" /\ todo # <<>>
      /\ file' = Append(file, Head(todo)) /\ todo' = Tail(todo)
      /\ UNCHANGED <<recorder, running, expired, accepted, written, exit, readVars>>
  BY DEF WriteCell
<1>2. /\ RecorderTypes /\ FileInv /\ ControlInv
      /\ file \in Seq(CellSet) /\ todo \in Seq(CellSet)
      /\ file # <<>> /\ file \o todo = Layout(accepted)
      /\ Len(accepted) = written + 1
  BY <1>1 DEF IInv, RecorderInv, RecorderTypes, ControlInv
<1>3. Len(file) \in Nat /\ Len(todo) \in Nat \ {0} /\ Head(todo) \in CellSet
  BY <1>1, <1>2, LenProperties, EmptySeq, HeadTailProperties
<1>4. file' = file \o SubSeq(todo, 1, 1) /\ todo' = SubSeq(todo, 2, Len(todo))
  <2>1. SubSeq(todo, 1, 1) = <<Head(todo)>>
    <3>1. 1 \in 1..Len(todo) /\ 1 \in 1..1
      BY <1>3
    <3>2. SubSeq(todo, 1, 1) = <<todo[1]>> \o SubSeq(todo, 1 + 1, 1)
      BY <1>2, <3>1, SubSeqRecursiveFirst
    <3>3. SubSeq(todo, 1 + 1, 1) = <<>>
      BY SubSeqEmpty
    <3>4. <<todo[1]>> \in Seq(CellSet) /\ Head(todo) = todo[1]
      BY <1>2, <3>1, ElementOfSeq
    <3> QED BY <3>2, <3>3, <3>4, ConcatEmptySeq
  <2>2. todo' = SubSeq(todo, 2, Len(todo))
    BY <1>1, <1>2, TailIsSubSeq
  <2> QED BY <1>1, <1>2, <1>3, <2>1, <2>2, AppendIsConcat
<1>5. /\ file' \in Seq(CellSet) /\ todo' \in Seq(CellSet)
      /\ Len(file') = Len(file) + 1
      /\ file' \o todo' = file \o todo
  <2> DEFINE n == 1
  <2>1. n \in 0..Len(todo) /\ n + 1 = 2
    BY <1>3
  <2>2. file' = file \o SubSeq(todo, 1, n)
    BY <1>4
  <2> HIDE DEF n
  <2>3. todo' = SubSeq(todo, n + 1, Len(todo))
    BY <1>4, <2>1
  <2>4. file' \in Seq(CellSet) /\ Len(file') = Len(file) + n
    BY <1>2, <2>1, <2>2, Moved
  <2>5. todo' \in Seq(CellSet) /\ file' \o todo' = file \o todo
    BY <1>2, <2>1, <2>2, <2>3, Moved
  <2> QED BY <2>4, <2>5 DEF n
<1>6. file' # <<>>
  BY <1>1, <1>2, <1>3, AppendProperties
<1>7. RecorderTypes'
  BY <1>1, <1>2, <1>5 DEF RecorderTypes
<1>8. ControlInv'
  BY <1>1, <1>2, <1>5, <1>6 DEF ControlInv
<1>9. FileInv'
  <2>1. /\ Len(file') <= Len(Layout(accepted'))
        /\ \A i \in 1..Len(file') : file'[i] = Layout(accepted')[i]
    BY <1>1, <1>2, <1>5, Beginning
  <2>2. Ends(accepted)[written] \in Nat
    <3>1. accepted \in Seq(Payloads) /\ written \in 0..Len(accepted)
      BY <1>2, LimitAssumption, LenProperties DEF FileInv, Laid, RecorderTypes
    <3> QED BY <3>1, EndsUnfold
  <2>3. Ends(accepted)[written] <= Len(file')
    BY <1>2, <1>3, <1>5, <2>2 DEF FileInv
  <2> QED BY <1>1, <1>2, <1>6, <2>1, <2>3 DEF FileInv
<1>10. Grows
  BY <1>1, <1>3, <1>5 DEF Grows
<1> QED BY <1>7, <1>8, <1>9, <1>10 DEF RecorderInv

LEMMA FrameWrittenStep == IInv /\ FrameWritten => RecorderInv' /\ Grows
<1> SUFFICES ASSUME IInv, FrameWritten PROVE RecorderInv' /\ Grows
  OBVIOUS
<1>1. /\ recorder = "writing" /\ todo = <<>> /\ recorder' = "checking"
      /\ written' = written + 1
      /\ UNCHANGED <<running, expired, accepted, todo, exit, file, readVars>>
  BY DEF FrameWritten
<1>2. /\ RecorderTypes /\ FileInv /\ ControlInv
      /\ file \in Seq(CellSet) /\ file # <<>> /\ file \o todo = Layout(accepted)
      /\ Len(accepted) = written + 1 /\ written < MaxMessages
  BY <1>1 DEF IInv, RecorderInv, RecorderTypes, ControlInv
<1>3. file = Layout(accepted) /\ Len(file) \in Nat
  BY <1>1, <1>2, ConcatEmptySeq, LenProperties
<1>4. written + 1 \in 0..MaxMessages
  BY <1>2, LimitAssumption DEF RecorderTypes
<1>5. Ends(accepted)[written + 1] <= Len(file)
  BY <1>2, <1>3 DEF FileInv, Laid
<1>6. RecorderTypes'
  BY <1>1, <1>2, <1>4 DEF RecorderTypes, Steps
<1>7. ControlInv'
  BY <1>1, <1>2 DEF ControlInv
<1>8. FileInv'
  BY <1>1, <1>2, <1>5 DEF FileInv
<1>9. Grows
  BY <1>1, <1>2, <1>3 DEF Grows
<1> QED BY <1>6, <1>7, <1>8, <1>9 DEF RecorderInv

LEMMA WriteFailsStep == IInv /\ WriteFails => RecorderInv' /\ Grows
<1> SUFFICES ASSUME IInv, WriteFails PROVE RecorderInv' /\ Grows
  OBVIOUS
<1>1. /\ recorder = "writing" /\ recorder' = "failed" /\ exit' = 1 /\ todo' = <<>>
      /\ UNCHANGED <<running, expired, accepted, written, readVars>>
  BY DEF WriteFails
<1>2. /\ RecorderTypes /\ FileInv /\ ControlInv
      /\ file \in Seq(CellSet) /\ todo \in Seq(CellSet)
      /\ file # <<>> /\ file \o todo = Layout(accepted)
      /\ Len(accepted) = written + 1
  BY <1>1 DEF IInv, RecorderInv, RecorderTypes, ControlInv
<1>3. PICK n \in 0..Len(todo) : file' = file \o SubSeq(todo, 1, n)
  BY DEF WriteFails
<1> DEFINE rest == SubSeq(todo, n + 1, Len(todo))
<1>4. /\ file' \in Seq(CellSet) /\ rest \in Seq(CellSet)
      /\ Len(file') = Len(file) + n /\ file' \o rest = Layout(accepted)
  BY <1>2, <1>3, Moved
<1> HIDE DEF rest
<1>5. Len(file) \in Nat \ {0} /\ n \in Nat
  BY <1>2, EmptySeq, LenProperties
<1>6. file' # <<>>
  <2>1. Len(file') # 0
    BY <1>4, <1>5
  <2> QED BY <2>1
<1>7. RecorderTypes'
  BY <1>1, <1>2, <1>4, EmptySeq DEF RecorderTypes, Stopped
<1>8. ControlInv'
  BY <1>1 DEF ControlInv
<1>9. FileInv'
  <2>1. /\ Len(file') <= Len(Layout(accepted'))
        /\ \A i \in 1..Len(file') : file'[i] = Layout(accepted')[i]
    BY <1>1, <1>4, Beginning
  <2>2. Ends(accepted)[written] \in Nat
    <3>1. accepted \in Seq(Payloads) /\ written \in 0..Len(accepted)
      BY <1>2, LimitAssumption, LenProperties DEF FileInv, Laid, RecorderTypes
    <3> QED BY <3>1, EndsUnfold
  <2>3. Ends(accepted)[written] <= Len(file')
    BY <1>2, <1>4, <1>5, <2>2 DEF FileInv
  <2> QED BY <1>1, <1>2, <1>6, <2>1, <2>3 DEF FileInv
<1>10. Grows
  BY <1>1, <1>4, <1>5 DEF Grows
<1> QED BY <1>7, <1>8, <1>9, <1>10 DEF RecorderInv

-----------------------------------------------------------------------------
(* Where the complete records end.                                         *)
LEMMA EndsGrow ==
  ASSUME IInv
  PROVE  /\ accepted \in Seq(Payloads) /\ Len(accepted) \in Nat /\ Len(file) \in Nat
         /\ Ends(accepted) \in [0..Len(accepted) -> Nat]
         /\ Ends(accepted)[0] = 1
         /\ Len(file) <= Ends(accepted)[Len(accepted)]
         /\ \A k, n \in 0..Len(accepted) :
              k < n => Ends(accepted)[k] + Prefix <= Ends(accepted)[n]
         /\ \A n \in 1..Len(accepted) :
              /\ accepted[n] \in Payloads /\ accepted[n].size \in Nat
              /\ Ends(accepted)[n] = Ends(accepted)[n-1] + Prefix + accepted[n].size
<1>1. /\ accepted \in Seq(Payloads) /\ file \in Seq(CellSet)
      /\ Len(file) <= Ends(accepted)[Len(accepted)]
      /\ \A k, n \in 0..Len(accepted) :
           k < n => Ends(accepted)[k] + Prefix <= Ends(accepted)[n]
  BY DEF IInv, RecorderInv, RecorderTypes, FileInv, Laid
<1>2. \A n \in 1..Len(accepted) : accepted[n] \in Payloads /\ accepted[n].size \in Nat
  BY <1>1, ElementOfSeq, CellsShape
<1> QED BY <1>1, <1>2, EndsUnfold, LenProperties

LEMMA CompleteRecords ==
  ASSUME IInv
  PROVE  /\ Complete \in 0..Len(accepted)
         /\ Complete \in {written, written + 1}
         /\ file # <<>> => Ends(accepted)[Complete] <= Len(file)
         /\ \A n \in 1..Len(accepted) :
              Ends(accepted)[n] <= Len(file) <=> n <= Complete
<1> DEFINE A    == Len(accepted)
           e    == Ends(accepted)
           L    == Len(file)
           Done == {n \in 1..A : e[n] <= L}
           K    == IF file # <<>> /\ e[A] <= L THEN A ELSE written
<1>1. /\ A \in Nat /\ L \in Nat /\ e \in [0..A -> Nat] /\ e[0] = 1
      /\ \A k, n \in 0..A : k < n => e[k] + Prefix <= e[n]
  BY EndsGrow
<1>2. /\ written \in Nat
      /\ file = <<>> => A = 0 /\ written = 0 /\ L = 0
      /\ file # <<>> => A \in {written, written + 1} /\ e[written] <= L
  BY LimitAssumption DEF IInv, RecorderInv, RecorderTypes, FileInv
<1> HIDE DEF A, e, L
<1>3. /\ K \in 0..A /\ K \in {written, written + 1}
      /\ file # <<>> => e[K] <= L
  BY <1>1, <1>2
<1>4. ASSUME NEW n \in 1..A PROVE e[n] <= L <=> n <= K
  <2>1. file # <<>> /\ n \in 0..A /\ e[n] \in Nat /\ K \in 0..A /\ e[K] \in Nat
    BY <1>1, <1>2, <1>3
  <2>2. ASSUME n <= K PROVE e[n] <= L
    <3>1. e[n] <= e[K]
      <4>1. CASE n = K
        BY <4>1, <2>1
      <4>2. CASE n < K
        BY <4>2, <1>1, <2>1 DEF Prefix
      <4> QED BY <2>1, <2>2, <4>1, <4>2
    <3> QED BY <1>1, <1>3, <2>1, <3>1
  <2>3. ASSUME ~(n <= K) PROVE ~(e[n] <= L)
    <3>1. n = A /\ ~(e[A] <= L)
      BY <1>1, <1>2, <2>1, <2>3
    <3> QED BY <3>1
  <2> QED BY <2>2, <2>3
<1>5. Done = 1..K
  <2>1. \A n \in 1..A : n \in Done <=> n \in 1..K
    BY <1>1, <1>3, <1>4
  <2>2. 1..K \subseteq 1..A
    BY <1>1, <1>3
  <2> QED BY <2>1, <2>2
<1>6. Cardinality(Done) = K
  <2>1. K \in Nat
    BY <1>1, <1>3
  <2> HIDE DEF Done, K
  <2>2. Cardinality(1..K) = K
    <3>1. 1 \in Int /\ K \in Int /\ (1 > K => K = 0) /\ K - 1 + 1 = K
      BY <2>1
    <3> QED BY <3>1, FS_Interval
  <2> QED BY <1>5, <2>2
<1>7. Complete = K
  BY <1>6 DEF Complete, A, e, L
<1> HIDE DEF K
<1> QED BY <1>3, <1>4, <1>7 DEF A, e, L

(* What the reader finds behind the records it has delivered.              *)
LEMMA NextRecord ==
  ASSUME IInv, file # <<>>, NEW d, d = Len(delivered),
         Ends(accepted)[d] + Prefix <= Len(file)
  PROVE  /\ d < Len(accepted)
         /\ file[Ends(accepted)[d] + 1][2] = accepted[d + 1].size
<1>1. d \in 0..Len(accepted)
  BY EndsGrow, LenProperties DEF IInv, ReaderInv
<1>2. /\ Ends(accepted)[d] \in Nat /\ Len(accepted) \in Nat /\ Len(file) \in Nat
      /\ Len(file) <= Ends(accepted)[Len(accepted)]
  BY <1>1, EndsGrow
<1>3. d < Len(accepted)
  <2>1. d # Len(accepted)
    <3> SUFFICES ASSUME d = Len(accepted) PROVE FALSE
      OBVIOUS
    <3> QED BY <1>2 DEF Prefix
  <2> QED BY <1>1, <1>2, <2>1
<1>4. d + 1 \in 1..Len(accepted) /\ (d + 1) - 1 = d
  BY <1>1, <1>2, <1>3
<1> DEFINE m == accepted[d + 1]
           p == Ends(accepted)[d] + 1
<1>5. m \in Payloads /\ m.size \in Nat
  BY <1>4, EndsGrow
<1>6. 1 \in 1..(Prefix + m.size)
  BY <1>5 DEF Prefix
<1>7. Cells(m)[1] = <<"length", m.size>>
  <2> HIDE DEF m
  <2>1. \A i \in 1..(Prefix + m.size) :
          Cells(m)[i] = IF i <= Prefix THEN <<"length", m.size>>
                                       ELSE <<"data", m>>
    BY <1>5, CellsShape
  <2>2. 1 <= Prefix
    BY DEF Prefix
  <2> QED BY <1>6, <2>1, <2>2
<1>8. Layout(accepted)[p] = Cells(m)[1]
  BY <1>4, <1>6 DEF IInv, RecorderInv, FileInv, Laid
<1>9. p \in 1..Len(file)
  BY <1>2 DEF Prefix
<1>10. file[p] = Layout(accepted)[p]
  BY <1>9 DEF IInv, RecorderInv, FileInv
<1> HIDE DEF m, p
<1>11. file[p][2] = m.size
  BY <1>7, <1>8, <1>10
<1> QED BY <1>3, <1>11 DEF m, p

LEMMA NextPayload ==
  ASSUME IInv, reader = "payload", WholeAvailable, NEW d, d = Len(delivered)
  PROVE  /\ PayloadAt = accepted[d + 1] /\ accepted[d + 1] \in Payloads
         /\ d + 1 \in 1..Len(accepted)
         /\ offset + need = Ends(accepted)[d + 1]
         /\ Ends(accepted)[d + 1] <= Len(file)
<1> DEFINE m == accepted[d + 1]
           e == Ends(accepted)
<1>1. /\ d < Len(accepted) /\ offset = e[d] + Prefix /\ need = m.size
      /\ offset \in Nat /\ d \in Nat /\ file # <<>>
  BY LenProperties DEF IInv, ReaderInv
<1>2. d + 1 \in 1..Len(accepted) /\ (d + 1) - 1 = d /\ d \in 0..Len(accepted)
  BY <1>1, EndsGrow
<1>3. m \in Payloads /\ m.size \in Nat /\ e[d + 1] = e[d] + Prefix + m.size
  <2> HIDE DEF m, e
  <2>1. \A n \in 1..Len(accepted) :
              /\ accepted[n] \in Payloads /\ accepted[n].size \in Nat
              /\ e[n] = e[n-1] + Prefix + accepted[n].size
    BY EndsGrow DEF e
  <2> QED BY <1>2, <2>1 DEF m
<1>4. e[d] \in Nat /\ Len(file) \in Nat
  BY <1>2, EndsGrow
<1>5. offset + need = e[d + 1] /\ e[d + 1] <= Len(file)
  <2> HIDE DEF m, e
  <2>1. offset + need <= Len(file)
    BY <1>1, <1>3, <1>4 DEF WholeAvailable, Available
  <2> QED BY <1>1, <1>3, <1>4, <2>1 DEF Prefix
<1>6. PayloadAt = m
  <2>1. CASE need = 0
    BY <1>1, <1>3, <2>1, PayloadAssumption DEF PayloadAt
  <2>2. CASE need # 0
    <3> DEFINE i == Prefix + 1
               p == offset + 1
    <3>1. i \in 1..(Prefix + m.size) /\ ~(i <= Prefix)
      BY <1>1, <1>3, <2>2 DEF Prefix
    <3>2. Cells(m)[i] = <<"data", m>>
      BY <1>3, <3>1, CellsShape
    <3>3. e[d] + i = p
      BY <1>1, <1>4 DEF Prefix
    <3>4. Layout(accepted)[p] = Cells(m)[i]
      <4> HIDE DEF i, p
      <4>1. Layout(accepted)[e[(d + 1) - 1] + i] = Cells(m)[i]
        BY <1>2, <3>1 DEF IInv, RecorderInv, FileInv, Laid
      <4> QED BY <1>2, <3>3, <4>1
    <3>5. p \in 1..Len(file)
      <4> HIDE DEF e, m
      <4> QED BY <1>1, <1>3, <1>4, <1>5, <2>2 DEF Prefix
    <3>6. file[p] = Layout(accepted)[p]
      BY <3>5 DEF IInv, RecorderInv, FileInv
    <3> HIDE DEF p, i, m
    <3>7. file[p][2] = m
      BY <3>2, <3>4, <3>6
    <3> QED BY <2>2, <3>7 DEF PayloadAt, p
  <2> QED BY <2>1, <2>2
<1> QED BY <1>2, <1>3, <1>5, <1>6

-----------------------------------------------------------------------------
(* The reader's steps.                                                     *)
LEMMA RecorderKept ==
  ASSUME IInv, UNCHANGED <<recVars, file>>
  PROVE  RecorderInv'
<1>1. /\ recorder' = recorder /\ running' = running /\ expired' = expired
      /\ accepted' = accepted /\ todo' = todo /\ written' = written /\ exit' = exit
      /\ file' = file
  BY DEF recVars
<1>2. Laid(accepted') /\ Layout(accepted') = Layout(accepted)
      /\ Ends(accepted') = Ends(accepted)
  BY <1>1 DEF IInv, RecorderInv, FileInv
<1> QED BY <1>1, <1>2 DEF IInv, RecorderInv, RecorderTypes, ControlInv, FileInv

(* The steps that deliver nothing: where the reader may then stand.        *)
LEMMA NothingDelivered ==
  ASSUME IInv, UNCHANGED <<recVars, file, delivered, stats, metadata>>,
         reader' \in {"prefix", "payload", "ended", "failed"},
         tail' \in {"none", "no_record", "oversized", "torn", "io"},
         offset' \in 0..Len(file), need' \in Nat,
         reader' \in {"prefix", "payload"} => file # <<>>,
         reader' = "prefix" => offset' = Ends(accepted)[Len(delivered)],
         reader' = "payload" => /\ Len(delivered) < Len(accepted)
                                /\ offset' = Ends(accepted)[Len(delivered)] + Prefix
                                /\ need' = accepted[Len(delivered) + 1].size
  PROVE  IInv'
<1>1. RecorderInv'
  BY RecorderKept
<1>2. /\ accepted' = accepted /\ file' = file /\ delivered' = delivered
      /\ stats' = stats /\ metadata' = metadata
  BY DEF recVars
<1>3. Ends(accepted') = Ends(accepted)
  BY <1>2
<1> HIDE DEF Ends
<1>4. ReaderInv'
  BY <1>2, <1>3 DEF IInv, ReaderInv
<1>5. StatsInv'
  BY <1>2 DEF IInv, StatsInv, StatsAddUp
<1> QED BY <1>1, <1>4, <1>5 DEF IInv

LEMMA OpenStep == IInv /\ Open => IInv'
<1> SUFFICES ASSUME IInv, Open PROVE IInv'
  OBVIOUS
<1>1. /\ reader = "closed" /\ UNCHANGED <<recVars, file, need, delivered, tail, stats, metadata>>
      /\ IF file = <<>> THEN reader' = "failed" /\ UNCHANGED offset
                        ELSE reader' = "prefix" /\ offset' = 1
  BY DEF Open
<1>2. /\ offset \in 0..Len(file) /\ need \in Nat /\ delivered = <<>>
      /\ tail \in {"none", "no_record", "oversized", "torn", "io"}
  BY <1>1 DEF IInv, ReaderInv
<1>3. Len(delivered) = 0 /\ Ends(accepted)[0] = 1
  BY <1>2, EndsGrow
<1>4. file # <<>> => 1 \in 0..Len(file)
  BY EndsGrow, EmptySeq DEF IInv, RecorderInv, RecorderTypes
<1> QED BY <1>1, <1>2, <1>3, <1>4, NothingDelivered

LEMMA ReadPrefixStep == IInv /\ ReadPrefix => IInv'
<1> SUFFICES ASSUME IInv, ReadPrefix PROVE IInv'
  OBVIOUS
<1>1. reader = "prefix" /\ UNCHANGED <<recVars, file, delivered, stats, metadata>>
  BY DEF ReadPrefix
<1> DEFINE d == Len(delivered)
           e == Ends(accepted)[d]
<1>2. /\ offset \in 0..Len(file) /\ need \in Nat /\ offset = e /\ file # <<>>
      /\ tail \in {"none", "no_record", "oversized", "torn", "io"}
      /\ Len(file) \in Nat
  BY <1>1, EndsGrow DEF IInv, ReaderInv
<1>3. CASE /\ Available < Prefix /\ reader' = "ended"
           /\ tail' \in {"none", "no_record"} /\ UNCHANGED <<offset, need>>
  BY <1>1, <1>2, <1>3, NothingDelivered
<1>4. CASE /\ Available >= Prefix /\ offset' = offset + Prefix
           /\ need' = file[offset + 1][2]
           /\ IF need' > MaxPayload
              THEN reader' = "ended" /\ tail' = "oversized"
              ELSE reader' = "payload" /\ UNCHANGED tail
  <2>1. e + Prefix <= Len(file)
    BY <1>2, <1>4 DEF Available, Prefix
  <2>2. d < Len(accepted) /\ need' = accepted[d + 1].size
    BY <1>2, <1>4, <2>1, NextRecord
  <2>3. need' \in Nat
    <3>1. d + 1 \in 1..Len(accepted)
      BY <2>2, EndsGrow, LenProperties DEF IInv, ReaderInv
    <3> QED BY <2>2, <3>1, EndsGrow
  <2>4. offset' = e + Prefix /\ offset' \in 0..Len(file)
    BY <1>2, <1>4, <2>1 DEF Prefix
  <2> QED BY <1>1, <1>2, <1>4, <2>2, <2>3, <2>4, NothingDelivered
<1> QED BY <1>3, <1>4 DEF ReadPrefix

LEMMA ReadStops == IInv /\ (ReadTorn \/ ReadError) => IInv'
<1> SUFFICES ASSUME IInv, ReadTorn \/ ReadError PROVE IInv'
  OBVIOUS
<1>1. /\ reader' \in {"ended", "failed"} /\ tail' \in {tail, "torn", "io"}
      /\ UNCHANGED <<recVars, file, offset, need, delivered, stats, metadata>>
  BY DEF ReadTorn, ReadError
<1>2. /\ offset \in 0..Len(file) /\ need \in Nat
      /\ tail \in {"none", "no_record", "oversized", "torn", "io"}
  BY DEF IInv, ReaderInv
<1> QED BY <1>1, <1>2, NothingDelivered

(* One more record: the counters it increments and the failures it adds.   *)
LEMMA FailuresAppend ==
  ASSUME NEW s \in Seq(Payloads), NEW m \in Payloads
  PROVE  LET Failures(records) == {i \in DOMAIN records : ~FrameOk(records[i])}
         IN  /\ Cardinality(Failures(s)) \in Nat
             /\ Cardinality(Failures(Append(s, m)))
                  = Cardinality(Failures(s)) + IF FrameOk(m) THEN 0 ELSE 1
<1> DEFINE more == Append(s, m)
           N    == Len(s)
           F    == {i \in DOMAIN s : ~FrameOk(s[i])}
           G    == {i \in DOMAIN more : ~FrameOk(more[i])}
<1>1. /\ N \in Nat /\ DOMAIN s = 1..N /\ DOMAIN more = 1..(N + 1)
      /\ more[N + 1] = m /\ \A i \in 1..N : more[i] = s[i]
  BY AppendProperties, LenProperties
<1>2. IsFiniteSet(F) /\ Cardinality(F) \in Nat /\ N + 1 \notin F
  <2>1. IsFiniteSet(1..N)
    BY <1>1, FS_Interval
  <2>2. F \subseteq 1..N /\ N + 1 \notin 1..N
    BY <1>1
  <2> HIDE DEF F
  <2>3. IsFiniteSet(F)
    BY <2>1, <2>2, FS_Subset
  <2> QED BY <2>2, <2>3, FS_CardinalityType
<1>3. G = IF FrameOk(m) THEN F ELSE F \cup {N + 1}
  <2> HIDE DEF more
  <2>1. \A i \in 1..(N + 1) : i \in 1..N \/ i = N + 1
    BY <1>1
  <2>2. \A i \in 1..N : i \in 1..(N + 1) /\ i # N + 1
    BY <1>1
  <2>3. N + 1 \in 1..(N + 1)
    BY <1>1
  <2> QED BY <1>1, <2>1, <2>2, <2>3
<1> HIDE DEF F, G, more
<1>4. Cardinality(G) = Cardinality(F) + IF FrameOk(m) THEN 0 ELSE 1
  <2>1. CASE FrameOk(m)
    BY <1>2, <1>3, <2>1
  <2>2. CASE ~FrameOk(m)
    <3>1. Cardinality(F \cup {N + 1}) = Cardinality(F) + 1
      BY <1>2, FS_AddElement
    <3> QED BY <1>3, <2>2, <3>1
  <2> QED BY <2>1, <2>2
<1> QED BY <1>2, <1>4 DEF F, G, more

LEMMA OneKind ==
  ASSUME NEW m \in Payloads
  PROVE  LET n(c) == IF c \in Counted(m) THEN 1 ELSE 0
         IN  /\ n("records") = 1
             /\ n("raw") + n("wrapped") + n("unrecognized") = 1
             /\ n("unwrap") + n("inner") + n("unrecognized")
                  = IF FrameOk(m) THEN 0 ELSE 1
<1>1. m.kind \in Kinds /\ m.header \in BOOLEAN /\ m.inner \in BOOLEAN /\ m.frame \in BOOLEAN
  BY PayloadAssumption DEF PayloadType
<1>2. /\ "records" \in Counted(m)
      /\ "raw" \in Counted(m) <=> m.kind = "RawBmp"
      /\ "wrapped" \in Counted(m) <=> m.kind = "OpenBmpWrapped"
      /\ "unrecognized" \in Counted(m) <=> m.kind = "Unrecognized"
      /\ "unwrap" \in Counted(m) <=> m.kind = "OpenBmpWrapped" /\ ~m.header
      /\ "inner" \in Counted(m) <=>
           ~FrameOk(m) /\ (m.kind = "RawBmp" \/ (m.kind = "OpenBmpWrapped" /\ m.header))
  BY DEF Counted, StatCounters
<1>3. CASE m.kind = "RawBmp"
  BY <1>1, <1>2, <1>3 DEF FrameOk
<1>4. CASE m.kind = "Unrecognized"
  BY <1>1, <1>2, <1>4 DEF FrameOk, Unwraps
<1>5. CASE m.kind = "OpenBmpWrapped"
  BY <1>1, <1>2, <1>5 DEF FrameOk, Unwraps
<1> QED BY <1>1, <1>3, <1>4, <1>5 DEF Kinds

LEMMA ReadPayloadStep == IInv /\ ReadPayload => IInv'
<1> SUFFICES ASSUME IInv, ReadPayload PROVE IInv'
  OBVIOUS
<1> DEFINE d == Len(delivered)
           m == accepted[d + 1]
<1>1. /\ reader = "payload" /\ WholeAvailable /\ reader' = "prefix"
      /\ offset' = offset + need /\ delivered' = Append(delivered, PayloadAt)
      /\ stats' = [c \in StatCounters |->
                     stats[c] + IF c \in Counted(PayloadAt) THEN 1 ELSE 0]
      /\ metadata' = Metadata(PayloadAt)
      /\ UNCHANGED <<recVars, file, need, tail>>
  BY DEF ReadPayload
<1>2. /\ PayloadAt = m /\ m \in Payloads /\ d + 1 \in 1..Len(accepted)
      /\ offset' = Ends(accepted)[d + 1] /\ Ends(accepted)[d + 1] <= Len(file)
  BY <1>1, NextPayload
<1> HIDE DEF m
<1>3. /\ ReaderInv /\ StatsInv /\ delivered \in Seq(Payloads) /\ d \in Nat
      /\ Len(accepted) \in Nat /\ Len(file) \in Nat
  BY EndsGrow, LenProperties DEF IInv, ReaderInv
<1>4. /\ delivered' \in Seq(Payloads) /\ Len(delivered') = d + 1
      /\ delivered'[d + 1] = m /\ \A i \in 1..d : delivered'[i] = delivered[i]
  BY <1>1, <1>2, <1>3, AppendProperties
<1>5. RecorderInv'
  BY <1>1, RecorderKept
<1>6. /\ accepted' = accepted /\ file' = file /\ need' = need /\ tail' = tail
      /\ Ends(accepted') = Ends(accepted)
  BY <1>1 DEF recVars
<1>7. ReaderInv'
  <2>1. \A i \in 1..(d + 1) : delivered'[i] = accepted[i]
    <3> SUFFICES ASSUME NEW i \in 1..(d + 1) PROVE delivered'[i] = accepted[i]
      OBVIOUS
    <3>1. CASE i = d + 1
      BY <1>4, <3>1 DEF m
    <3>2. CASE i # d + 1
      <4>1. i \in 1..d
        BY <1>3, <3>2
      <4> QED BY <1>3, <1>4, <4>1 DEF ReaderInv
    <3> QED BY <3>1, <3>2
  <2>2. /\ d + 1 <= Len(accepted) /\ Ends(accepted)[d + 1] \in Nat
        /\ offset' \in 0..Len(file)
    <3>1. d + 1 \in 0..Len(accepted)
      BY <1>2, <1>3
    <3>2. Ends(accepted)[d + 1] \in Nat
      BY <3>1, EndsGrow
    <3> QED BY <1>2, <1>3, <3>1, <3>2
  <2>3. file # <<>>
    BY <1>1, <1>3 DEF ReaderInv
  <2> HIDE DEF Ends
  <2> QED BY <1>1, <1>2, <1>3, <1>4, <1>6, <2>1, <2>2, <2>3 DEF ReaderInv
<1>8. StatsInv'
  <2> DEFINE n(c) == IF c \in Counted(m) THEN 1 ELSE 0
  <2>1. /\ stats \in [StatCounters -> Nat] /\ metadata \in 0..1 /\ StatsAddUp
        /\ stats["records"] \in Nat
    BY <1>3 DEF StatsInv, StatCounters
  <2>2. stats' = [c \in StatCounters |-> stats[c] + n(c)]
    BY <1>1, <1>2
  <2>3. \A c \in StatCounters : n(c) \in Nat
    OBVIOUS
  <2>4. stats' \in [StatCounters -> Nat]
    BY <2>1, <2>2, <2>3
  <2>5. metadata' \in 0..1
    <3>1. CASE stats["records"] = 0
      BY <1>1, <2>1, <3>1 DEF Metadata
    <3>2. CASE stats["records"] # 0
      BY <1>1, <2>1, <3>2 DEF Metadata
    <3> QED BY <3>1, <3>2
  <2> DEFINE old == Cardinality({i \in DOMAIN delivered : ~FrameOk(delivered[i])})
             new == Cardinality({i \in DOMAIN delivered' : ~FrameOk(delivered'[i])})
  <2>6. old \in Nat /\ new = old + IF FrameOk(m) THEN 0 ELSE 1
    BY <1>1, <1>2, <1>3, FailuresAppend
  <2>7. /\ n("records") = 1
        /\ n("raw") + n("wrapped") + n("unrecognized") = 1
        /\ n("unwrap") + n("inner") + n("unrecognized") = IF FrameOk(m) THEN 0 ELSE 1
    BY <1>2, OneKind
  <2>8. /\ stats["records"] = d
        /\ stats["records"] = stats["raw"] + stats["wrapped"] + stats["unrecognized"]
        /\ stats["unwrap"] + stats["inner"] + stats["unrecognized"] = old
    BY <2>1 DEF StatsAddUp
  <2> HIDE DEF n, old, new
  <2>9. \A c \in StatCounters : stats'[c] = stats[c] + n(c) /\ stats[c] \in Nat /\ n(c) \in Nat
    BY <2>1, <2>2, <2>3
  <2>10. stats'["records"] = Len(delivered')
    <3>1. stats'["records"] = stats["records"] + n("records")
      BY <2>9 DEF StatCounters
    <3> QED BY <1>4, <2>7, <2>8, <3>1
  <2>11. stats'["records"] = stats'["raw"] + stats'["wrapped"] + stats'["unrecognized"]
    <3> DEFINE Adds(c) == /\ stats'[c] = stats[c] + n(c)
                          /\ stats[c] \in Nat /\ n(c) \in Nat
    <3>1. Adds("records") /\ Adds("raw") /\ Adds("wrapped") /\ Adds("unrecognized")
      BY <2>9 DEF StatCounters
    <3> QED BY <2>7, <2>8, <3>1
  <2>12. stats'["unwrap"] + stats'["inner"] + stats'["unrecognized"] = new
    <3> DEFINE Adds(c) == /\ stats'[c] = stats[c] + n(c)
                          /\ stats[c] \in Nat /\ n(c) \in Nat
               more    == IF FrameOk(m) THEN 0 ELSE 1
    <3>1. Adds("unwrap") /\ Adds("inner") /\ Adds("unrecognized")
      BY <2>9 DEF StatCounters
    <3>2. more \in Nat /\ old \in Nat /\ new = old + more
      BY <2>6
    <3>3. n("unwrap") + n("inner") + n("unrecognized") = more
      BY <2>7
    <3> HIDE DEF more
    <3>4. stats["unwrap"] + stats["inner"] + stats["unrecognized"] = old
      BY <2>8
    <3>5. ASSUME NEW a \in Nat, NEW b \in Nat, NEW c \in Nat,
                 NEW x \in Nat, NEW y \in Nat, NEW z \in Nat
          PROVE  (a + x) + (b + y) + (c + z) = (a + b + c) + (x + y + z)
      OBVIOUS
    <3>6. stats'["unwrap"] + stats'["inner"] + stats'["unrecognized"]
            = (stats["unwrap"] + stats["inner"] + stats["unrecognized"])
                + (n("unwrap") + n("inner") + n("unrecognized"))
      BY <3>1, <3>5
    <3> QED BY <3>2, <3>3, <3>4, <3>6
  <2> QED BY <2>4, <2>5, <2>10, <2>11, <2>12 DEF StatsInv, StatsAddUp, new
<1> QED BY <1>5, <1>7, <1>8 DEF IInv

-----------------------------------------------------------------------------
LEMMA NextInv == IInv /\ [Next]_vars => IInv'
<1> SUFFICES ASSUME IInv, [Next]_vars PROVE IInv'
  OBVIOUS
<1>1. ASSUME RecorderInv' /\ Grows PROVE IInv'
  BY <1>1, ReaderKept DEF IInv
<1>2. CASE Record
  <2>1. CASE \E m \in Payloads : PollMessage(m)
    BY <1>1, <2>1, PollMessageStep
  <2> QED
    BY <1>1, <1>2, <2>1, ResolveStep, CreateStep, CheckStep, PollNothingStep,
       WriteCellStep, FrameWrittenStep, FinishStep DEF Record
<1>3. CASE WriteFails
  BY <1>1, <1>3, WriteFailsStep
<1>4. CASE Crash \/ CtrlC \/ Expire
  BY <1>1, <1>4, SignalStep
<1>5. CASE Open \/ Read \/ ReadError
  BY <1>5, OpenStep, ReadPrefixStep, ReadPayloadStep, ReadStops DEF Read
<1>6. CASE UNCHANGED vars
  <2>1. UNCHANGED <<recVars, file>> /\ UNCHANGED readVars
    BY <1>6 DEF vars
  <2>2. RecorderInv'
    BY <2>1, RecorderKept
  <2>3. Grows
    BY <2>1, EndsGrow DEF Grows, recVars, IInv, RecorderInv, RecorderTypes
  <2> QED BY <1>1, <2>2, <2>3
<1> QED BY <1>2, <1>3, <1>4, <1>5, <1>6 DEF Next

LEMMA Invariant == Spec => []IInv
<1> QED BY InitInv, NextInv, PTL DEF Spec

-----------------------------------------------------------------------------
(* What the invariant says of a single state.                              *)
LEMMA PointwisePrefix ==
  ASSUME NEW S, NEW s \in Seq(S), NEW t \in Seq(S), Len(s) <= Len(t),
         \A i \in 1..Len(s) : s[i] = t[i]
  PROVE  IsPrefix(s, t)
<1>1. Len(s) \in Nat /\ Len(t) \in Nat
  BY LenProperties
<1>2. SubSeq(s, 1, Len(s)) = s
  BY SubSeqFull
<1> DEFINE u == SubSeq(t, 1, Len(s))
<1>3. /\ u \in Seq(S) /\ Len(u) = Len(s)
      /\ \A i \in 1..Len(s) : u[i] = t[i]
  <2>1. \A i \in 1..Len(s) : i \in 1..Len(t) /\ t[i] \in S
    BY <1>1, ElementOfSeq
  <2> QED BY <1>1, <2>1, SubSeqProperties
<1> HIDE DEF u
<1>4. u = s
  BY <1>3, SeqEqual
<1> QED BY <1>2, <1>4 DEF IsPrefix, u

LEMMA TypeHolds == IInv => TypeOK
<1> SUFFICES ASSUME IInv PROVE TypeOK
  OBVIOUS
<1> QED
  BY DEF IInv, RecorderInv, RecorderTypes, FileInv, Laid, ReaderInv, StatsInv, TypeOK, Steps

LEMMA FileAsCountedHolds == IInv => FileAsCounted
<1> SUFFICES ASSUME IInv PROVE FileAsCounted
  OBVIOUS
<1>1. /\ RecorderTypes /\ ControlInv /\ FileInv /\ Laid(accepted)
      /\ file \in Seq(CellSet) /\ Layout(accepted) \in Seq(CellSet)
  BY DEF IInv, RecorderInv, RecorderTypes, FileInv, Laid
<1>2. IsPrefix(file, Layout(accepted))
  BY <1>1, PointwisePrefix DEF FileInv
<1>3. FileLayout
  BY <1>1, <1>2 DEF FileLayout, ControlInv
<1>4. /\ Complete \in 0..Len(accepted) /\ Complete \in {written, written + 1}
      /\ Len(accepted) \in Nat /\ written \in Nat
  BY <1>1, CompleteRecords, EndsGrow, LimitAssumption DEF RecorderTypes
<1>5. Complete - written \in {0, 1}
  BY <1>4
<1>6. recorder = "exited" => /\ Complete = written /\ Len(accepted) = written
                             /\ exit = 0 => Complete >= MinMessages
  BY <1>1, <1>4 DEF ControlInv
<1>7. WrittenIsInFile
  BY <1>1, <1>5, <1>6 DEF WrittenIsInFile, ControlInv
<1> QED BY <1>3, <1>7 DEF FileAsCounted

LEMMA DeliveredIsComplete ==
  ASSUME IInv
  PROVE  Len(delivered) \in 0..Complete
<1>1. /\ Len(delivered) \in Nat /\ Len(delivered) <= Len(accepted)
      /\ Len(delivered) # 0 => Ends(accepted)[Len(delivered)] <= Len(file)
  BY LenProperties DEF IInv, ReaderInv
<1>2. CASE Len(delivered) = 0
  BY <1>2, CompleteRecords
<1>3. CASE Len(delivered) # 0
  <2>1. Len(delivered) \in 1..Len(accepted)
    BY <1>1, <1>3, EndsGrow
  <2> QED BY <1>1, <1>3, <2>1, CompleteRecords
<1> QED BY <1>2, <1>3

LEMMA DeliveredInOrderHolds == IInv => DeliveredInOrder
<1> SUFFICES ASSUME IInv PROVE DeliveredInOrder
  OBVIOUS
<1>1. /\ delivered \in Seq(Payloads) /\ accepted \in Seq(Payloads)
      /\ Len(delivered) <= Len(accepted)
      /\ \A i \in 1..Len(delivered) : delivered[i] = accepted[i]
  BY EndsGrow DEF IInv, ReaderInv
<1>2. IsPrefix(delivered, accepted)
  BY <1>1, PointwisePrefix
<1>3. Len(delivered) <= Complete
  BY DeliveredIsComplete
<1> QED BY <1>2, <1>3 DEF DeliveredInOrder

-----------------------------------------------------------------------------
(* The reader only stops where there is nothing complete in front of it.   *)
EndsWell ==
  reader' = "ended" /\ reader # "ended" =>
    CASE tail' \in {"none", "no_record"} -> Len(delivered) = Complete
      [] tail' = "torn"      -> /\ Len(delivered) = Complete
                                /\ recorder \in {"writing", "failed", "crashed"}
      [] tail' = "oversized" -> accepted[Len(delivered) + 1].size > MaxPayload
      [] OTHER               -> tail' = "io"

LEMMA ReadPrefixEnds == IInv /\ ReadPrefix => EndsWell
<1> SUFFICES ASSUME IInv, ReadPrefix, reader' = "ended" PROVE EndsWell
  BY DEF EndsWell
<1> DEFINE d == Len(delivered)
           e == Ends(accepted)
<1>1. reader = "prefix"
  BY DEF ReadPrefix
<1>2. /\ file # <<>> /\ offset = e[d] /\ d \in 0..Complete
      /\ Complete \in 0..Len(accepted)
      /\ Len(accepted) \in Nat /\ Len(file) \in Nat
      /\ e[Complete] <= Len(file) /\ e \in [0..Len(accepted) -> Nat]
      /\ \A k, n \in 0..Len(accepted) : k < n => e[k] + Prefix <= e[n]
  BY <1>1, DeliveredIsComplete, CompleteRecords, EndsGrow DEF IInv, ReaderInv
<1>3. CASE Available < Prefix /\ tail' \in {"none", "no_record"}
  <2>1. d = Complete
    <3> SUFFICES ASSUME d # Complete PROVE FALSE
      OBVIOUS
    <3> HIDE DEF e, d
    <3>1. d \in 0..Len(accepted) /\ d < Complete
      BY <1>2
    <3>2. e[d] + Prefix <= e[Complete] /\ e[d] \in Nat /\ e[Complete] \in Nat
      BY <1>2, <3>1
    <3> QED BY <1>2, <1>3, <3>2 DEF Available, Prefix
  <2> QED BY <1>3, <2>1 DEF EndsWell
<1>4. CASE /\ Available >= Prefix /\ need' = file[offset + 1][2]
           /\ need' > MaxPayload /\ tail' = "oversized"
  <2>1. e[d] + Prefix <= Len(file)
    <3> HIDE DEF e, d
    <3>1. d \in 0..Len(accepted) /\ e[d] \in Nat
      BY <1>2
    <3> QED BY <1>2, <1>4, <3>1 DEF Available, Prefix
  <2>2. need' = accepted[d + 1].size
    BY <1>2, <1>4, <2>1, NextRecord
  <2> QED BY <1>4, <2>2 DEF EndsWell
<1> QED BY <1>3, <1>4 DEF ReadPrefix

LEMMA ReadTornEnds == IInv /\ ReadTorn => EndsWell
<1> SUFFICES ASSUME IInv, ReadTorn PROVE EndsWell
  OBVIOUS
<1> DEFINE d == Len(delivered)
           e == Ends(accepted)
           A == Len(accepted)
<1>1. reader = "payload" /\ ~WholeAvailable /\ tail' = "torn"
  BY DEF ReadTorn
<1>2. /\ file # <<>> /\ d < A /\ offset = e[d] + Prefix /\ need = accepted[d + 1].size
      /\ d \in 0..Complete /\ Complete \in 0..A /\ A \in Nat /\ Len(file) \in Nat
      /\ e \in [0..A -> Nat]
      /\ \A k, n \in 0..A : k < n => e[k] + Prefix <= e[n]
      /\ \A n \in 1..A : e[n] <= Len(file) <=> n <= Complete
      /\ \A n \in 1..A : /\ accepted[n].size \in Nat
                         /\ e[n] = e[n-1] + Prefix + accepted[n].size
  BY <1>1, DeliveredIsComplete, CompleteRecords, EndsGrow DEF IInv, ReaderInv
<1>3. /\ RecorderTypes /\ ControlInv /\ Laid(accepted) /\ file \in Seq(CellSet)
      /\ Len(Layout(accepted)) = e[A]
  BY DEF IInv, RecorderInv, RecorderTypes, FileInv, Laid
<1> HIDE DEF d, e, A
<1>4. d + 1 \in 1..A /\ (d + 1) - 1 = d /\ d \in 0..A
  <2>1. d \in Nat /\ d < A /\ A \in Nat
    BY <1>2
  <2> QED BY <2>1
<1>5. /\ e[d] \in Nat /\ e[d + 1] \in Nat /\ need \in Nat
      /\ e[d + 1] = e[d] + Prefix + need
  <2>1. e[d + 1] = e[(d + 1) - 1] + Prefix + accepted[d + 1].size /\ need \in Nat
    BY <1>2, <1>4
  <2>2. e[d] \in Nat
    BY <1>2, <1>4
  <2> QED BY <1>2, <1>4, <2>1, <2>2 DEF Prefix
<1>6. ~(e[d + 1] <= Len(file))
  BY <1>1, <1>2, <1>5 DEF WholeAvailable, Available, Prefix
<1>7. d = Complete
  BY <1>2, <1>4, <1>6
<1>8. recorder \in {"writing", "failed", "crashed"}
  <2>1. recorder \notin {"resolving", "creating", "listed"}
    BY <1>2, <1>3 DEF ControlInv
  <2>2. recorder \notin {"checking", "polling", "finishing", "exited"}
    <3> SUFFICES ASSUME recorder \in {"checking", "polling", "finishing", "exited"}
                 PROVE  FALSE
      OBVIOUS
    <3>1. file = Layout(accepted)
      BY <1>3, ConcatEmptySeq DEF ControlInv
    <3>2. e[d + 1] <= e[A]
      <4>1. CASE d + 1 = A
        BY <4>1, <1>5
      <4>2. CASE d + 1 # A
        <5>1. d + 1 \in 0..A /\ A \in 0..A /\ d + 1 < A /\ e[A] \in Nat
          BY <1>2, <1>4, <4>2
        <5> QED BY <1>2, <1>5, <5>1 DEF Prefix
      <4> QED BY <4>1, <4>2
    <3> QED BY <1>3, <1>6, <3>1, <3>2
  <2> QED BY <1>3, <2>1, <2>2 DEF RecorderTypes, Stopped, Steps
<1> QED BY <1>1, <1>7, <1>8 DEF EndsWell, d

LEMMA StepEndsWell == IInv /\ [Next]_vars => EndsWell
<1> SUFFICES ASSUME IInv, [Next]_vars, reader' = "ended", reader # "ended"
             PROVE  EndsWell
  BY DEF EndsWell
<1>1. CASE ReadPrefix
  BY <1>1, ReadPrefixEnds
<1>2. CASE ReadTorn
  BY <1>2, ReadTornEnds
<1>3. CASE ReadError
  BY <1>3 DEF ReadError, EndsWell
<1>4. CASE Open \/ ReadPayload
  BY <1>4 DEF Open, ReadPayload
<1>5. CASE Record \/ WriteFails \/ Crash \/ CtrlC \/ Expire \/ UNCHANGED vars
  <2>1. reader' = reader
    BY <1>5 DEF Record, Resolve, Create, Check, PollNothing, PollMessage, WriteCell,
                FrameWritten, Finish, WriteFails, Crash, CtrlC, Expire, vars, readVars
  <2> QED BY <2>1
<1> QED BY <1>1, <1>2, <1>3, <1>4, <1>5 DEF Next, Read

-----------------------------------------------------------------------------
(* The refinement: what is recorded are the accepted records that are in   *)
(* the file as a whole.                                                    *)
recorded == SubSeq(accepted, 1, Complete)
closed   == reader \in {"ended", "failed"}

(* CompleteRecords for both ends of a step.                                *)
CompleteFacts ==
  /\ Complete \in 0..Len(accepted)
  /\ Complete \in {written, written + 1}
  /\ \A n \in 1..Len(accepted) : Ends(accepted)[n] <= Len(file) <=> n <= Complete

LEMMA CompleteBothEnds == (IInv => CompleteFacts) /\ (IInv' => CompleteFacts')
<1>1. IInv => CompleteFacts
  BY CompleteRecords DEF CompleteFacts
<1>2. IInv' => CompleteFacts'
  BY <1>1, PTL
<1> QED BY <1>1, <1>2

LEMMA RecordedGrows ==
  ASSUME IInv, IInv', Grows,
         file' = file \/ (accepted' = accepted /\ written' = written)
  PROVE  recorded' = recorded \/ \E m \in Payloads : recorded' = Append(recorded, m)
<1> DEFINE A == Len(accepted)
           e == Ends(accepted)
           K == Complete
           M == Complete'
<1>1. /\ accepted \in Seq(Payloads) /\ A \in Nat /\ Len(file) \in Nat
      /\ e \in [0..A -> Nat] /\ Len(file) <= e[A] /\ e[0] = 1
      /\ \A n \in 1..A : accepted[n] \in Payloads
  BY EndsGrow
<1>2. /\ K \in 0..A /\ K \in {written, written + 1}
      /\ \A n \in 1..A : e[n] <= Len(file) <=> n <= K
  BY CompleteBothEnds DEF CompleteFacts
<1>3. /\ M \in 0..Len(accepted') /\ M \in {written', written' + 1}
      /\ \A n \in 1..Len(accepted') : Ends(accepted')[n] <= Len(file') <=> n <= M
  BY CompleteBothEnds DEF CompleteFacts
<1>4. written \in Nat
  BY LimitAssumption DEF IInv, RecorderInv, RecorderTypes
<1>5. Len(file') \in Nat /\ Len(file) <= Len(file')
  BY LenProperties DEF Grows
<1> HIDE DEF A, e, K, M
<1>6. CASE accepted' = accepted
  <2>1. /\ M \in 0..A
        /\ \A n \in 1..A : e[n] <= Len(file') <=> n <= M
    BY <1>3, <1>6 DEF A, e
  <2>2. K <= M
    <3>1. CASE K = 0
      BY <2>1, <3>1
    <3>2. CASE K # 0
      <4>1. K \in 1..A /\ e[K] \in Nat /\ e[K] <= Len(file)
        BY <1>1, <1>2, <3>2
      <4> QED BY <1>1, <1>5, <2>1, <4>1
    <3> QED BY <3>1, <3>2
  <2>3. CASE M = K
    BY <1>6, <2>3 DEF recorded, K, M
  <2>4. CASE M # K
    <3>1. file' # file
      <4> SUFFICES ASSUME file' = file PROVE FALSE
        OBVIOUS
      <4>1. M \in 1..A /\ ~(M <= K)
        BY <1>1, <1>2, <2>1, <2>2, <2>4
      <4> QED BY <1>2, <2>1, <4>1
    <3>2. M \in {written, written + 1}
      BY <1>3, <3>1
    <3>3. M = K + 1
      BY <1>1, <1>2, <1>4, <2>1, <2>2, <2>4, <3>2
    <3>4. K + 1 \in 1..A
      BY <1>1, <1>2, <2>1, <3>3
    <3>5. SubSeq(accepted, 1, K + 1) = Append(SubSeq(accepted, 1, K), accepted[K + 1])
      <4>1. /\ 1 \in 1..Len(accepted) /\ K + 1 \in 1..Len(accepted)
            /\ (K + 1) - 1 = K /\ accepted[K + 1] \in Payloads
        BY <1>1, <1>2, <3>4 DEF A
      <4>2. SubSeq(accepted, 1, K + 1) = SubSeq(accepted, 1, K) \o <<accepted[K + 1]>>
        BY <1>1, <4>1, SubSeqRecursiveSecond
      <4>3. SubSeq(accepted, 1, K) \in Seq(Payloads)
        <5>1. 1 \in Int /\ K \in Int /\ \A i \in 1..K : accepted[i] \in Payloads
          BY <1>1, <1>2
        <5> QED BY <5>1, SubSeqProperties
      <4> QED BY <4>1, <4>2, <4>3, AppendIsConcat
    <3>6. recorded' = Append(recorded, accepted[K + 1])
      BY <1>6, <3>3, <3>5 DEF recorded, K, M
    <3> QED BY <1>1, <3>4, <3>6
  <2> QED BY <2>3, <2>4
<1>7. ASSUME NEW m \in Payloads, accepted' = Append(accepted, m)
      PROVE  recorded' = recorded
  <2>1. Len(accepted') = A + 1 /\ A + 1 # A
    BY <1>1, <1>7, AppendProperties DEF A
  <2>2. file' = file
    BY <2>1 DEF A
  <2>3. /\ \A n \in 0..A : Ends(accepted')[n] = e[n]
        /\ Ends(accepted')[A + 1] = e[A] + Prefix + m.size
    BY <1>1, <1>7, <2>1, EndsAppend DEF A, e
  <2>4. m.size \in Nat /\ e[A] \in Nat
    BY <1>1, CellsShape
  <2>5. ~(A + 1 <= M)
    <3>1. ~(Ends(accepted')[A + 1] <= Len(file'))
      BY <1>1, <2>2, <2>3, <2>4 DEF Prefix
    <3>2. A + 1 \in 1..Len(accepted')
      BY <1>1, <2>1
    <3> QED BY <1>3, <3>1, <3>2
  <2>6. M \in 0..A
    BY <1>1, <1>3, <2>1, <2>5
  <2>7. \A n \in 1..A : n <= M <=> n <= K
    <3>1. \A n \in 1..A : n \in 1..Len(accepted') /\ n \in 0..A
      BY <1>1, <2>1
    <3> QED BY <1>2, <1>3, <2>2, <2>3, <3>1
  <2>8. M = K
    <3>1. M \in Nat /\ K \in Nat /\ M <= A /\ K <= A
      BY <1>1, <1>2, <2>6
    <3>2. M <= K
      <4>1. CASE M = 0
        BY <3>1, <4>1
      <4>2. CASE M # 0
        <5>1. M \in 1..A
          BY <1>1, <3>1, <4>2
        <5> QED BY <2>7, <3>1, <5>1
      <4> QED BY <4>1, <4>2
    <3>3. K <= M
      <4>1. CASE K = 0
        BY <3>1, <4>1
      <4>2. CASE K # 0
        <5>1. K \in 1..A
          BY <1>1, <3>1, <4>2
        <5> QED BY <2>7, <3>1, <5>1
      <4> QED BY <4>1, <4>2
    <3> QED BY <3>1, <3>2, <3>3
  <2>9. SubSeq(Append(accepted, m), 1, K) = SubSeq(accepted, 1, K)
    <3> DEFINE more == Append(accepted, m)
    <3>1. /\ more \in Seq(Payloads) /\ Len(more) = A + 1
          /\ \A i \in 1..A : more[i] = accepted[i]
      BY <1>1, AppendProperties DEF A
    <3> HIDE DEF more
    <3>2. \A i \in 1..K : more[i] = accepted[i] /\ accepted[i] \in Payloads
      BY <1>1, <1>2, <3>1
    <3>3. 1 \in Int /\ K \in Int /\ 1 <= K + 1 /\ K - 1 + 1 = K
      BY <1>1, <1>2
    <3>4. /\ SubSeq(more, 1, K) \in Seq(Payloads) /\ Len(SubSeq(more, 1, K)) = K
          /\ \A i \in 1..K : SubSeq(more, 1, K)[i] = more[i]
      BY <3>2, <3>3, SubSeqProperties
    <3>5. /\ SubSeq(accepted, 1, K) \in Seq(Payloads) /\ Len(SubSeq(accepted, 1, K)) = K
          /\ \A i \in 1..K : SubSeq(accepted, 1, K)[i] = accepted[i]
      BY <3>2, <3>3, SubSeqProperties
    <3>6. SubSeq(more, 1, K) = SubSeq(accepted, 1, K)
      BY <3>2, <3>4, <3>5, SeqEqual
    <3> QED BY <3>6 DEF more
  <2> QED BY <1>7, <2>8, <2>9 DEF recorded, K, M
<1> QED BY <1>6, <1>7 DEF Grows

(* The steps of the recorder: each records at most one message.            *)
LEMMA RecorderRefines ==
  ASSUME IInv, IInv',
         Record \/ WriteFails \/ Crash \/ CtrlC \/ Expire
  PROVE  [\E m \in Payloads : RS!Record(m)]_<<recorded, delivered, closed>>
<1>1. Grows
  <2>1. CASE Record
    <3>1. CASE \E m \in Payloads : PollMessage(m)
      BY <3>1, PollMessageStep
    <3> QED
      BY <2>1, <3>1, ResolveStep, CreateStep, CheckStep, PollNothingStep,
         WriteCellStep, FrameWrittenStep, FinishStep DEF Record
  <2> QED BY <2>1, WriteFailsStep, SignalStep
<1>2. file' = file \/ (accepted' = accepted /\ written' = written)
  BY DEF Record, Resolve, Create, Check, PollNothing, PollMessage, WriteCell,
         FrameWritten, Finish, WriteFails, Crash, CtrlC, Expire
<1>3. recorded' = recorded \/ \E m \in Payloads : recorded' = Append(recorded, m)
  BY <1>1, <1>2, RecordedGrows
<1>4. delivered' = delivered /\ closed' = closed
  BY <1>1 DEF Grows, readVars, closed
<1> QED BY <1>3, <1>4 DEF RS!Record, recorded, closed

(* The steps of the reader.                                                *)
LEMMA SameRecorded ==
  ASSUME UNCHANGED <<recVars, file>>
  PROVE  recorded' = recorded
<1>1. accepted' = accepted /\ file' = file
  BY DEF recVars
<1>2. Complete' = Complete
  BY <1>1 DEF Complete
<1> QED BY <1>1, <1>2 DEF recorded

LEMMA DeliverRefines == IInv /\ ReadPayload => RS!Deliver
<1> SUFFICES ASSUME IInv, ReadPayload PROVE RS!Deliver
  OBVIOUS
<1> DEFINE d == Len(delivered)
<1>1. /\ reader = "payload" /\ WholeAvailable /\ reader' = "prefix"
      /\ delivered' = Append(delivered, PayloadAt) /\ UNCHANGED <<recVars, file>>
  BY DEF ReadPayload
<1>2. /\ PayloadAt = accepted[d + 1] /\ d + 1 \in 1..Len(accepted)
      /\ Ends(accepted)[d + 1] <= Len(file)
  BY <1>1, NextPayload
<1>3. /\ Complete \in 0..Len(accepted) /\ Len(accepted) \in Nat /\ d \in Nat
      /\ accepted \in Seq(Payloads)
      /\ d + 1 <= Complete
  BY <1>2, CompleteRecords, EndsGrow, LenProperties DEF IInv, ReaderInv
<1>4. /\ Len(recorded) = Complete
      /\ recorded[d + 1] = accepted[d + 1]
  <2> DEFINE K == Complete
  <2> HIDE DEF K
  <2>1. K \in 0..Len(accepted) /\ 1 \in Int /\ K \in Int /\ 1 <= K + 1 /\ K - 1 + 1 = K
    BY <1>3 DEF K
  <2>2. \A i \in 1..K : accepted[i] \in Payloads
    <3>1. \A i \in 1..K : i \in 1..Len(accepted)
      BY <1>3, <2>1
    <3> QED BY <1>3, <3>1, ElementOfSeq
  <2>3. /\ Len(SubSeq(accepted, 1, K)) = K
        /\ \A i \in 1..K : SubSeq(accepted, 1, K)[i] = accepted[i]
    BY <1>3, <2>1, <2>2, SubSeqProperties
  <2>4. d + 1 \in 1..K
    BY <1>3, <2>1 DEF K
  <2> QED BY <2>3, <2>4 DEF K, recorded
<1>5. recorded' = recorded
  BY <1>1, SameRecorded
<1>6. ~closed /\ ~closed'
  BY <1>1 DEF closed
<1>7. d < Len(recorded)
  BY <1>3, <1>4
<1>8. delivered' = Append(delivered, recorded[d + 1])
  BY <1>1, <1>2, <1>4
<1>9. closed' = closed
  BY <1>1 DEF closed
<1> QED BY <1>5, <1>6, <1>7, <1>8, <1>9, Zenon DEF RS!Deliver, recorded, closed

LEMMA ReaderRefines ==
  ASSUME Open \/ ReadPrefix \/ ReadTorn \/ ReadError
  PROVE  [RS!Close]_<<recorded, delivered, closed>>
<1>1. UNCHANGED <<recVars, file>> /\ delivered' = delivered
  BY DEF Open, ReadPrefix, ReadTorn, ReadError
<1>2. recorded' = recorded
  BY <1>1, SameRecorded
<1>3. ~closed
  BY DEF Open, ReadPrefix, ReadTorn, ReadError, closed
<1>4. CASE reader' \in {"ended", "failed"}
  <2>1. closed' = TRUE
    BY <1>4 DEF closed
  <2> QED BY <1>1, <1>2, <1>3, <2>1, Zenon DEF RS!Close, recorded, closed
<1>5. CASE reader' \notin {"ended", "failed"}
  <2>1. closed' = closed
    BY <1>3, <1>5 DEF closed
  <2> QED BY <1>1, <1>2, <2>1, Zenon
<1> QED BY <1>4, <1>5

LEMMA InitRefines == Init => RS!Init
<1> SUFFICES ASSUME Init PROVE RS!Init
  OBVIOUS
<1>1. IInv
  BY InitInv
<1>2. accepted = <<>> /\ delivered = <<>> /\ reader = "closed"
  BY DEF Init
<1>3. Complete = 0
  BY <1>1, <1>2, CompleteRecords
<1>4. SubSeq(accepted, 1, Complete) = <<>>
  BY <1>2, <1>3, SubSeqEmpty
<1> QED BY <1>2, <1>4 DEF RS!Init

LEMMA NextRefines ==
  IInv /\ IInv' /\ [Next]_vars => [RS!Next]_<<recorded, delivered, closed>>
<1> SUFFICES ASSUME IInv, IInv', [Next]_vars
             PROVE  [RS!Next]_<<recorded, delivered, closed>>
  OBVIOUS
<1>1. CASE Record \/ WriteFails \/ Crash \/ CtrlC \/ Expire
  BY <1>1, RecorderRefines DEF RS!Next
<1>2. CASE ReadPayload
  BY <1>2, DeliverRefines DEF RS!Next
<1>3. CASE Open \/ ReadPrefix \/ ReadTorn \/ ReadError
  BY <1>3, ReaderRefines DEF RS!Next
<1>4. CASE UNCHANGED vars
  <2>1. UNCHANGED <<recVars, file>> /\ delivered' = delivered /\ closed' = closed
    BY <1>4 DEF vars, readVars, closed
  <2> QED BY <2>1, SameRecorded
<1> QED BY <1>1, <1>2, <1>3, <1>4 DEF Next, Read

-----------------------------------------------------------------------------
(* Every variable has its type in every reachable state; in particular the *)
(* reader's offset never exceeds the file (obmp_reader.rs:253-340).        *)
THEOREM TypeCorrect == Spec => []TypeOK
<1>1. IInv => TypeOK
  BY TypeHolds
<1> QED BY InitInv, NextInv, <1>1, PTL DEF Spec

(* Whatever the messages, the limits and the moment the recorder fails or  *)
(* dies: the file is a prefix of what the accepted messages amount to, it  *)
(* holds every message counted as written and at most one more, and an     *)
(* exit code of 0 means that there are enough (obmp_writer.rs:31-39,       *)
(* main.rs:209-252).                                                       *)
THEOREM FileCorrect == Spec => []FileAsCounted
<1>1. IInv => FileAsCounted
  BY FileAsCountedHolds
<1> QED BY InitInv, NextInv, <1>1, PTL DEF Spec

(* A reader of a finished, growing or torn file delivers the messages that *)
(* were recorded, each once and in order, and only complete ones           *)
(* (obmp_reader.rs:253-340).                                               *)
THEOREM DeliveryCorrect == Spec => []DeliveredInOrder
<1>1. IInv => DeliveredInOrder
  BY DeliveredInOrderHolds
<1> QED BY InitInv, NextInv, <1>1, PTL DEF Spec

(* The container's counters account for every record and every failure     *)
(* exactly once, however many records there are (obmp_reader.rs:342-460).  *)
THEOREM StatsCorrect == Spec => []StatsAddUp
<1>1. IInv => StatsAddUp
  BY DEF IInv, StatsInv
<1> QED BY InitInv, NextInv, <1>1, PTL DEF Spec

(* The reader never ends in front of a complete record within the limit,   *)
(* and only calls a record torn that the recorder is writing or died in.   *)
THEOREM EndsCorrect == Spec => EndsForAReason
<1>1. IInv /\ [Next]_vars => [EndsWell]_vars
  BY StepEndsWell
<1> QED BY InitInv, NextInv, <1>1, PTL DEF Spec, EndsForAReason, EndsWell

(* Recorder, file and reader together implement the abstract stream of     *)
(* records: a step that completes a record in the file records a message,  *)
(* ReadPayload delivers the next one, the end of the iteration closes.     *)
THEOREM Refinement == Spec => ImplementsRecordStream
<1>1. IInv /\ IInv' /\ [Next]_vars => [RS!Next]_<<recorded, delivered, closed>>
  BY NextRefines
<1> QED
  BY InitInv, NextInv, InitRefines, <1>1, PTL
  DEF Spec, ImplementsRecordStream, RS!Spec, recorded, closed
=============================================================================
