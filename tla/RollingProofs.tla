---------------------------- MODULE RollingProofs ----------------------------
(* Proofs about Rolling, for every window size, set of peers and capture:  *)
(* the incremental counters agree with a recount of the window, hence none *)
(* of their decrements underflows.                                         *)
EXTENDS Rolling, FiniteSetTheorems, SequenceTheorems, TLAPS

(* The inductive invariant.  No conjunct is inductive alone: that a counter*)
(* stays in Nat needs the recount, the recount needs to know which slot is *)
(* evicted.                                                                *)
IInv ==
  /\ TypeOK
  /\ RingShape
  /\ CountsOfWindow
  /\ IsFiniteSet(DOMAIN peerCounts)

-----------------------------------------------------------------------------
(* Counting after slot k of a finite set has been written anew.            *)
LEMMA Recount ==
  ASSUME NEW A, IsFiniteSet(A), NEW k, NEW B, NEW c \in BOOLEAN,
         B = IF c THEN (A \ {k}) \cup {k} ELSE A \ {k}
  PROVE  /\ IsFiniteSet(B)
         /\ Cardinality(A) \in Nat /\ Cardinality(B) \in Nat
         /\ Cardinality(B) = Cardinality(A) - One(k \in A) + One(c)
         /\ Cardinality(A) - One(k \in A) \in Nat
<1>1. /\ IsFiniteSet(A \ {k})
      /\ Cardinality(A \ {k}) = IF k \in A THEN Cardinality(A) - 1 ELSE Cardinality(A)
  BY FS_RemoveElement
<1>2. Cardinality(A) \in Nat /\ Cardinality(A \ {k}) \in Nat
  BY <1>1, FS_CardinalityType
<1>3. CASE c
  <2>1. /\ IsFiniteSet((A \ {k}) \cup {k})
        /\ Cardinality((A \ {k}) \cup {k}) = Cardinality(A \ {k}) + 1
    BY <1>1, FS_AddElement
  <2> QED BY <1>1, <1>2, <1>3, <2>1 DEF One
<1>4. CASE ~c
  BY <1>1, <1>2, <1>4 DEF One
<1> QED BY <1>3, <1>4

LEMMA InUseFinite ==
  ASSUME windowSeen \in Nat, NEW A \in SUBSET InUse
  PROVE  IsFiniteSet(A) /\ Cardinality(A) \in Nat
<1>1. IsFiniteSet(InUse)
  BY FS_Interval DEF InUse
<1> QED BY <1>1, FS_Subset, FS_CardinalityType

(* Where a push writes, and what it leaves alone.                          *)
LEMMA SlideShape ==
  ASSUME IInv, size # 0, NEW m \in Slots, Slide(m)
  PROVE  /\ size \in Nat \ {0} /\ windowSeen \in Nat /\ next \in 0..(size-1)
         /\ next \in InUse <=> Full
         /\ windowSeen' \in 0..size /\ next' \in 0..(size-1)
         /\ slots' \in [0..(size-1) -> Slots]
         /\ InUse' = InUse \cup {next}
         /\ slots'[next] = m
         /\ \A i \in InUse \ {next} : slots'[i] = slots[i]
         /\ Full => slots \in [0..(size-1) -> Slots]
         /\ windowSeen' < size => next' = windowSeen'
         /\ slots' # <<>> /\ windowSeen' # 0
<1> DEFINE ring == IF slots = <<>> THEN [i \in 0..(size-1) |-> EmptySlot] ELSE slots
<1>1. /\ size \in Nat \ {0} /\ windowSeen \in 0..size /\ windowSeen \in Nat
      /\ next \in 0..(size-1)
      /\ windowSeen < size => next = windowSeen
      /\ slots = <<>> <=> windowSeen = 0
      /\ slots \in {<<>>} \cup [0..(size-1) -> Slots]
  BY WindowAssumption DEF IInv, TypeOK, RingShape
<1>2. ring \in [0..(size-1) -> Slots]
  <2>1. EmptySlot \in Slots
    BY DEF EmptySlot, Slots, Types
  <2> QED BY <1>1, <2>1
<1>3. /\ windowSeen' = IF Full THEN windowSeen ELSE windowSeen + 1
      /\ slots' = [ring EXCEPT ![next] = m]
      /\ next' = NextSlot
  BY DEF Slide
<1> HIDE DEF ring
<1>4. next \in InUse <=> Full
  BY <1>1 DEF InUse, Full
<1>5. windowSeen' \in 0..size /\ InUse' = InUse \cup {next} /\ windowSeen' # 0
  BY <1>1, <1>3 DEF InUse, Full
<1>6. next' \in 0..(size-1) /\ (windowSeen' < size => next' = windowSeen')
  <2>1. CASE next + 1 < size
    <3>1. next' = next + 1
      BY <1>1, <1>3, <2>1 DEF NextSlot
    <3> QED BY <3>1, <2>1, <1>1, <1>3 DEF Full
  <2>2. CASE next + 1 = size
    <3>1. next' = 0
      BY <1>1, <1>3, <2>2 DEF NextSlot
    <3>2. ~(windowSeen' < size)
      BY <1>1, <1>3, <2>2 DEF Full
    <3> QED BY <3>1, <3>2, <1>1
  <2> QED BY <2>1, <2>2, <1>1
<1>7. /\ slots' \in [0..(size-1) -> Slots] /\ slots'[next] = m
      /\ \A i \in (0..(size-1)) \ {next} : slots'[i] = ring[i]
  BY <1>1, <1>2, <1>3
<1>8. \A i \in InUse \ {next} : slots'[i] = slots[i]
  <2> TAKE i \in InUse \ {next}
  <2>1. i \in (0..(size-1)) \ {next} /\ windowSeen # 0
    BY <1>1 DEF InUse
  <2>2. ring = slots
    BY <2>1, <1>1 DEF ring
  <2> QED BY <2>1, <2>2, <1>7
<1>9. Full => slots \in [0..(size-1) -> Slots]
  BY <1>1 DEF Full
<1>10. slots' # <<>>
  BY <1>1, <1>7
<1> QED BY <1>1, <1>4, <1>5, <1>6, <1>7, <1>8, <1>9, <1>10

-----------------------------------------------------------------------------
(* The counters after a push.                                              *)
LEMMA TypeCounts ==
  ASSUME IInv, size # 0, NEW m \in Slots, Slide(m), NEW t \in Types
  PROVE  /\ byType'[t] \in Nat
         /\ byType'[t] = Cardinality({i \in InUse' : slots'[i].type = t})
<1> DEFINE A == {i \in InUse : slots[i].type = t}
           B == {i \in InUse' : slots'[i].type = t}
<1>1. /\ windowSeen \in Nat
      /\ next \in InUse <=> Full
      /\ InUse' = InUse \cup {next}
      /\ slots'[next] = m
      /\ \A i \in InUse \ {next} : slots'[i] = slots[i]
      /\ Full => slots # <<>>
  <2>1. Full => slots # <<>>
    BY SlideShape DEF IInv, RingShape, Full, TypeOK
  <2> QED BY <2>1, SlideShape
<1>2. B = IF m.type = t THEN (A \ {next}) \cup {next} ELSE A \ {next}
  BY <1>1
<1>3. IsFiniteSet(A)
  BY <1>1, InUseFinite
<1>4. byType[t] = Cardinality(A)
  BY DEF IInv, CountsOfWindow
<1>5. byType'[t] = byType[t] - One(Full /\ slots[next].type = t) + One(m.type = t)
  BY <1>1 DEF Slide, One
<1>6. (next \in A) <=> (Full /\ slots[next].type = t)
  BY <1>1
<1> HIDE DEF A, B
<1>7. /\ Cardinality(B) \in Nat
      /\ Cardinality(B) = Cardinality(A) - One(next \in A) + One(m.type = t)
  BY <1>2, <1>3, Recount
<1>8. byType'[t] = Cardinality(A) - One(next \in A) + One(m.type = t)
  BY <1>4, <1>5, <1>6 DEF One
<1>9. byType'[t] \in Nat /\ byType'[t] = Cardinality(B)
  BY <1>7, <1>8
<1> QED BY <1>9 DEF B

LEMMA MalformedCount ==
  ASSUME IInv, size # 0, NEW m \in Slots, Slide(m)
  PROVE  /\ malformed' \in Nat
         /\ malformed' = Cardinality({i \in InUse' : slots'[i].malformed})
<1> DEFINE A == {i \in InUse : slots[i].malformed}
           B == {i \in InUse' : slots'[i].malformed}
<1>1. /\ windowSeen \in Nat
      /\ next \in InUse <=> Full
      /\ InUse' = InUse \cup {next}
      /\ slots'[next] = m
      /\ \A i \in InUse \ {next} : slots'[i] = slots[i]
      /\ Full => slots # <<>>
  <2>1. Full => slots # <<>>
    BY SlideShape DEF IInv, RingShape, Full, TypeOK
  <2> QED BY <2>1, SlideShape
<1>2. m.malformed \in BOOLEAN
  BY DEF Slots
<1>3. B = IF m.malformed THEN (A \ {next}) \cup {next} ELSE A \ {next}
  BY <1>1
<1>4. IsFiniteSet(A)
  BY <1>1, InUseFinite
<1>5. malformed = Cardinality(A)
  BY DEF IInv, CountsOfWindow
<1>6. malformed' = malformed - One(Full /\ slots[next].malformed) + One(m.malformed)
  BY <1>1 DEF Slide, One
<1>7. (next \in A) <=> (Full /\ slots[next].malformed)
  BY <1>1
<1> HIDE DEF A, B
<1>8. /\ Cardinality(B) \in Nat
      /\ Cardinality(B) = Cardinality(A) - One(next \in A) + One(m.malformed)
  BY <1>2, <1>3, <1>4, Recount
<1>9. malformed' = Cardinality(A) - One(next \in A) + One(m.malformed)
  BY <1>5, <1>6, <1>7 DEF One
<1>10. malformed' \in Nat /\ malformed' = Cardinality(B)
  BY <1>8, <1>9
<1> QED BY <1>10 DEF B

(* The map of the peers' counts, as a count for every peer.                *)
CountIn(counts, p) == IF p \in DOMAIN counts THEN counts[p] ELSE 0

PeerMap(counts) ==
  /\ DOMAIN counts \subseteq Peers /\ IsFiniteSet(DOMAIN counts)
  /\ counts \in [DOMAIN counts -> Nat \ {0}]

LEMMA IncrementMap ==
  ASSUME NEW counts, PeerMap(counts), NEW p \in Peers \cup {NoPeer}
  PROVE  /\ PeerMap(Increment(counts, p))
         /\ \A q \in Peers :
              CountIn(Increment(counts, p), q) = CountIn(counts, q) + One(p = q)
<1>1. CASE p = NoPeer
  <2>1. \A q \in Peers : CountIn(counts, q) \in Nat
    BY DEF PeerMap, CountIn
  <2> QED BY <1>1, <2>1, NoPeerAssumption DEF Increment, One
<1>2. CASE p # NoPeer
  <2> DEFINE more == Increment(counts, p)
  <2>1. more = [q \in DOMAIN counts \cup {p} |->
                  (IF q \in DOMAIN counts THEN counts[q] ELSE 0) + One(q = p)]
    BY <1>2 DEF Increment
  <2>2. DOMAIN more = DOMAIN counts \cup {p} /\ p \in Peers
    BY <1>2, <2>1
  <2>3. IsFiniteSet(DOMAIN more) /\ DOMAIN more \subseteq Peers
    BY <2>2, FS_AddElement DEF PeerMap
  <2>4. \A q \in DOMAIN more : more[q] \in Nat \ {0}
    BY <2>1 DEF PeerMap, One
  <2>5. more = [q \in DOMAIN more |-> more[q]]
    BY <2>1
  <2>6. \A q \in Peers : CountIn(more, q) = CountIn(counts, q) + One(p = q)
    BY <2>1, <2>2 DEF PeerMap, CountIn, One
  <2> QED BY <2>3, <2>4, <2>5, <2>6 DEF PeerMap
<1> QED BY <1>1, <1>2

LEMMA DecrementMap ==
  ASSUME NEW counts, PeerMap(counts), NEW p
  PROVE  /\ PeerMap(Decrement(counts, p))
         /\ \A q \in Peers :
              CountIn(Decrement(counts, p), q)
                = CountIn(counts, q) - One(p = q /\ CountIn(counts, q) > 0)
<1>1. \A q \in Peers : /\ CountIn(counts, q) \in Nat
                       /\ CountIn(counts, q) > 0 <=> q \in DOMAIN counts
  BY DEF PeerMap, CountIn
<1>2. CASE p \notin DOMAIN counts
  <2>1. Decrement(counts, p) = counts
    BY <1>2 DEF Decrement
  <2>2. \A q \in Peers : ~(p = q /\ CountIn(counts, q) > 0)
    BY <1>1, <1>2
  <2>3. \A q \in Peers : CountIn(counts, q)
                          = CountIn(counts, q) - One(p = q /\ CountIn(counts, q) > 0)
    BY <1>1, <2>2 DEF One
  <2> QED BY <2>1, <2>3
<1>3. CASE p \in DOMAIN counts /\ counts[p] = 1
  <2> DEFINE less == [q \in DOMAIN counts \ {p} |-> counts[q]]
  <2>1. Decrement(counts, p) = less
    BY <1>3 DEF Decrement
  <2>2. PeerMap(less)
    BY FS_RemoveElement DEF PeerMap
  <2>3. \A q \in Peers : CountIn(less, q)
                          = CountIn(counts, q) - One(p = q /\ CountIn(counts, q) > 0)
    BY <1>1, <1>3 DEF CountIn, One
  <2> QED BY <2>1, <2>2, <2>3
<1>4. CASE p \in DOMAIN counts /\ counts[p] # 1
  <2> DEFINE less == [counts EXCEPT ![p] = @ - 1]
  <2>1. Decrement(counts, p) = less
    BY <1>4 DEF Decrement
  <2>2. PeerMap(less)
    BY <1>4 DEF PeerMap
  <2>3. \A q \in Peers : CountIn(less, q)
                          = CountIn(counts, q) - One(p = q /\ CountIn(counts, q) > 0)
    BY <1>1, <1>4 DEF CountIn, One, PeerMap
  <2> QED BY <2>1, <2>2, <2>3
<1> QED BY <1>2, <1>3, <1>4

LEMMA PeerMapInv ==
  ASSUME IInv
  PROVE  /\ PeerMap(peerCounts)
         /\ \A p \in Peers : CountIn(peerCounts, p)
                             = Cardinality({i \in InUse : slots[i].peer = p})
<1>1. PeerMap(peerCounts)
  BY DEF IInv, TypeOK, PeerMap
<1>2. ASSUME NEW p \in Peers
      PROVE  CountIn(peerCounts, p) = Cardinality({i \in InUse : slots[i].peer = p})
  <2> DEFINE his == {i \in InUse : slots[i].peer = p}
  <2>1. IF p \in DOMAIN peerCounts THEN peerCounts[p] = Cardinality(his)
                                   ELSE his = {}
    BY DEF IInv, CountsOfWindow
  <2> HIDE DEF his
  <2>2. CountIn(peerCounts, p) = Cardinality(his)
    BY <2>1, FS_EmptySet DEF CountIn
  <2> QED BY <2>2 DEF his
<1> QED BY <1>1, <1>2

LEMMA PeerCounts ==
  ASSUME IInv, size # 0, NEW m \in Slots, Slide(m)
  PROVE  /\ PeerMap(peerCounts')
         /\ \A p \in Peers : CountIn(peerCounts', p)
                             = Cardinality({i \in InUse' : slots'[i].peer = p})
<1> DEFINE old  == slots[next].peer
           less == IF Full THEN Decrement(peerCounts, old) ELSE peerCounts
<1>1. /\ windowSeen \in Nat
      /\ next \in InUse <=> Full
      /\ InUse' = InUse \cup {next}
      /\ slots'[next] = m
      /\ \A i \in InUse \ {next} : slots'[i] = slots[i]
      /\ Full => slots # <<>>
  <2>1. Full => slots # <<>>
    BY SlideShape DEF IInv, RingShape, Full, TypeOK
  <2> QED BY <2>1, SlideShape
<1>2. PeerMap(peerCounts) /\ m.peer \in Peers \cup {NoPeer}
  BY PeerMapInv DEF Slots
<1>3. peerCounts' = Increment(less, m.peer)
  BY <1>1 DEF Slide
<1>4. /\ PeerMap(less)
      /\ \A p \in Peers : CountIn(less, p) = CountIn(peerCounts, p)
                           - One(Full /\ old = p /\ CountIn(peerCounts, p) > 0)
  <2>1. CASE Full
    BY <2>1, <1>2, DecrementMap DEF One
  <2>2. CASE ~Full
    <3>1. \A p \in Peers : CountIn(peerCounts, p) \in Nat
      BY <1>2 DEF PeerMap, CountIn
    <3> QED BY <2>2, <1>2, <3>1 DEF One
  <2> QED BY <2>1, <2>2
<1> HIDE DEF less
<1>5. /\ PeerMap(peerCounts')
      /\ \A p \in Peers : CountIn(peerCounts', p) = CountIn(less, p) + One(m.peer = p)
  BY <1>2, <1>3, <1>4, IncrementMap
<1>6. ASSUME NEW p \in Peers
      PROVE  CountIn(peerCounts', p) = Cardinality({i \in InUse' : slots'[i].peer = p})
  <2> DEFINE A == {i \in InUse : slots[i].peer = p}
             B == {i \in InUse' : slots'[i].peer = p}
  <2>1. B = IF m.peer = p THEN (A \ {next}) \cup {next} ELSE A \ {next}
    BY <1>1
  <2>2. IsFiniteSet(A)
    BY <1>1, InUseFinite
  <2>3. CountIn(peerCounts, p) = Cardinality(A)
    BY PeerMapInv
  <2>4. (next \in A) <=> (Full /\ old = p)
    BY <1>1
  <2> HIDE DEF A, B, old
  <2>5. next \in A => Cardinality(A) > 0
    BY <2>2, FS_EmptySet, FS_CardinalityType
  <2>6. /\ Cardinality(A) \in Nat
        /\ Cardinality(B) = Cardinality(A) - One(next \in A) + One(m.peer = p)
    BY <2>1, <2>2, Recount
  <2>7. CountIn(less, p) = Cardinality(A) - One(next \in A)
    BY <1>4, <2>3, <2>4, <2>5 DEF One
  <2>8. CountIn(peerCounts', p) = Cardinality(B)
    BY <1>5, <2>6, <2>7
  <2> QED BY <2>8 DEF B
<1> QED BY <1>5, <1>6

-----------------------------------------------------------------------------
(* The invariant without the line, of which Line speaks in turn.           *)
Counters ==
  /\ size \in WindowArgs /\ windowSeen \in 0..size
  /\ slots \in {<<>>} \cup [0..(size-1) -> Slots]
  /\ next \in 0..size
  /\ byType \in [Types -> Nat] /\ malformed \in Nat
  /\ PeerMap(peerCounts)
  /\ RingShape
  /\ CountsOfWindow

LEMMA IInvParts ==
  IInv <=> /\ Counters
           /\ phase \in {"reading", "done", "failed"} /\ total \in Nat
           /\ hasMeta \in BOOLEAN /\ metadata \in BOOLEAN
           /\ shown \in {NoLine} \cup Lines
BY DEF IInv, Counters, TypeOK, PeerMap

(* The line printed has its type whenever the counters have theirs.        *)
LEMMA LineType ==
  Counters /\ total \in Nat /\ metadata \in BOOLEAN => Line \in Lines
<1> SUFFICES ASSUME Counters, total \in Nat, metadata \in BOOLEAN
             PROVE  Line \in Lines
  OBVIOUS
<1>1. FindingsBuckets \in Nat
  <2>1. CASE size = 0 \/ windowSeen = 0
    BY <2>1 DEF FindingsBuckets
  <2>2. CASE ~(size = 0 \/ windowSeen = 0)
    <3> DEFINE start == IF windowSeen <= size THEN 0 ELSE next
               bound == IF windowSeen <= size THEN windowSeen ELSE size
               used  == {(start + i) % size : i \in 0..(bound-1)}
               cells == {x \in used \X Rules : x[2] \in slots[x[1]].findings}
    <3>1. FindingsBuckets = Cardinality(cells)
      BY <2>2 DEF FindingsBuckets
    <3>2. size \in Nat \ {0} /\ start = 0 /\ bound = windowSeen
          /\ windowSeen \in 0..size
      BY <2>2, WindowAssumption DEF Counters
    <3>3. used \subseteq 0..(size-1)
      <4>1. \A i \in 0..(bound-1) : (start + i) % size \in 0..(size-1)
        BY <3>2
      <4> QED BY <4>1
    <3> HIDE DEF used
    <3>4. IsFiniteSet(used)
      <4>1. size - 1 \in Int
        BY <3>2
      <4>2. IsFiniteSet(0..(size-1))
        BY <4>1, FS_Interval
      <4> QED BY <3>3, <4>2, FS_Subset
    <3>5. IsFiniteSet(Rules)
      <4>1. IsFiniteSet({} \cup {"invalid_bmp_version"})
        BY FS_EmptySet, FS_AddElement
      <4>2. IsFiniteSet(({} \cup {"invalid_bmp_version"}) \cup {"unknown_bmp_type"})
        BY <4>1, FS_AddElement
      <4>3. Rules = ({} \cup {"invalid_bmp_version"}) \cup {"unknown_bmp_type"}
        BY DEF Rules
      <4> QED BY <4>2, <4>3
    <3>6. IsFiniteSet(used \X Rules)
      BY <3>4, <3>5, FS_Product
    <3>7. IsFiniteSet(cells) /\ Cardinality(cells) \in Nat
      BY <3>6, FS_Subset, FS_CardinalityType
    <3> QED BY <3>1, <3>7
  <2> QED BY <2>1, <2>2
<1>2. Cardinality(DOMAIN peerCounts) \in Nat
  BY FS_CardinalityType DEF Counters, PeerMap
<1> QED BY <1>1, <1>2 DEF Counters, Line, Lines

LEMMA NextLineType ==
  (Counters /\ total \in Nat /\ metadata \in BOOLEAN => Line \in Lines)'
BY LineType, PTL

LEMMA CountersStep ==
  ASSUME IInv, NEW m \in Slots, Push(m), UNCHANGED size
  PROVE  Counters'
<1>1. CASE size = 0
  BY <1>1, IInvParts DEF Push, window, Counters, PeerMap, RingShape, CountsOfWindow,
                         InUse
<1>2. CASE size # 0
  <2>1. Slide(m)
    BY <1>2 DEF Push
  <2>2. /\ size \in Nat \ {0} /\ windowSeen' \in 0..size /\ next' \in 0..(size-1)
        /\ slots' \in [0..(size-1) -> Slots]
        /\ windowSeen' < size => next' = windowSeen'
        /\ slots' # <<>> /\ windowSeen' # 0
    BY <1>2, <2>1, SlideShape
  <2>3. \A t \in Types : /\ byType'[t] \in Nat
                         /\ byType'[t] = Cardinality({i \in InUse' : slots'[i].type = t})
    BY <1>2, <2>1, TypeCounts
  <2>4. byType' \in [Types -> Nat]
    <3>1. byType' = [t \in Types |-> byType'[t]]
      BY <2>1 DEF Slide
    <3> QED BY <3>1, <2>3
  <2>5. /\ malformed' \in Nat
        /\ malformed' = Cardinality({i \in InUse' : slots'[i].malformed})
    BY <1>2, <2>1, MalformedCount
  <2>6. /\ PeerMap(peerCounts')
        /\ \A p \in Peers : CountIn(peerCounts', p)
                            = Cardinality({i \in InUse' : slots'[i].peer = p})
    BY <1>2, <2>1, PeerCounts
  <2>7. \A p \in Peers :
          LET his == {i \in InUse' : slots'[i].peer = p}
          IN  IF p \in DOMAIN peerCounts' THEN peerCounts'[p] = Cardinality(his)
                                          ELSE his = {}
    <3> TAKE p \in Peers
    <3> DEFINE his == {i \in InUse' : slots'[i].peer = p}
    <3>1. CountIn(peerCounts', p) = Cardinality(his)
      BY <2>6
    <3>2. IsFiniteSet(his)
      <4>1. windowSeen' \in Int /\ InUse' = 0..(windowSeen' - 1)
        BY <2>2 DEF InUse
      <4>2. IsFiniteSet(InUse')
        BY <4>1, FS_Interval
      <4> QED BY <4>2, FS_Subset
    <3> HIDE DEF his
    <3>3. p \in DOMAIN peerCounts' => peerCounts'[p] = Cardinality(his)
      BY <3>1 DEF CountIn
    <3>4. p \notin DOMAIN peerCounts' => his = {}
      BY <3>1, <3>2, FS_EmptySet DEF CountIn
    <3> QED BY <3>3, <3>4 DEF his
  <2>8. CountsOfWindow'
    BY <2>3, <2>5, <2>7 DEF CountsOfWindow
  <2>9. RingShape'
    BY <1>2, <2>2 DEF RingShape
  <2> QED BY <2>2, <2>4, <2>5, <2>6, <2>8, <2>9 DEF Counters, IInv, TypeOK
<1> QED BY <1>1, <1>2

LEMMA ObserveStep ==
  ASSUME IInv, NEW m \in Slots, Observe(m)
  PROVE  IInv'
<1>1. /\ Push(m) /\ UNCHANGED <<phase, size, hasMeta, metadata>>
      /\ total' = total + 1 /\ shown' \in {shown, Line'}
  BY DEF Observe, Push
<1>2. Counters'
  BY <1>1, CountersStep
<1>3. /\ phase' \in {"reading", "done", "failed"} /\ total' \in Nat
      /\ hasMeta' \in BOOLEAN /\ metadata' \in BOOLEAN
      /\ shown \in {NoLine} \cup Lines
  BY <1>1 DEF IInv, TypeOK
<1>4. Counters' /\ total' \in Nat /\ metadata' \in BOOLEAN => Line' \in Lines
  BY NextLineType
<1>5. shown' \in {NoLine} \cup Lines
  BY <1>1, <1>2, <1>3, <1>4
<1> QED BY <1>2, <1>3, <1>5 DEF IInv, Counters, TypeOK, PeerMap

LEMMA NextInv == IInv /\ [Next]_vars => IInv'
<1> SUFFICES ASSUME IInv, [Next]_vars PROVE IInv'
  OBVIOUS
<1>1. ASSUME NEW f \in Capture, WatchFrame(f) PROVE IInv'
  <2>1. FrameSlot(f) \in Slots
    BY CaptureAssumption DEF Frames, FrameSlot, Slots
  <2> QED BY <1>1, <2>1, ObserveStep DEF WatchFrame
<1>2. CASE WatchMalformed
  <2>1. MalformedSlot \in Slots
    BY DEF MalformedSlot, EmptySlot, Slots, Types
  <2> QED BY <1>2, <2>1, ObserveStep DEF WatchMalformed
<1>3. ASSUME UNCHANGED <<size, total, window>> PROVE Counters' /\ total' \in Nat
  BY <1>3, IInvParts DEF window, Counters, PeerMap, RingShape, CountsOfWindow, InUse
<1>4. CASE Finish
  <2>1. Counters' /\ total' \in Nat
    BY <1>3, <1>4 DEF Finish
  <2>2. /\ phase' = "done" /\ hasMeta' = hasMeta /\ metadata' = hasMeta
        /\ shown' = IF total > 0 THEN Line' ELSE shown
    BY <1>4 DEF Finish
  <2>3. hasMeta \in BOOLEAN /\ shown \in {NoLine} \cup Lines
    BY DEF IInv, TypeOK
  <2>4. Counters' /\ total' \in Nat /\ metadata' \in BOOLEAN => Line' \in Lines
    BY NextLineType
  <2>5. shown' \in {NoLine} \cup Lines
    BY <2>1, <2>2, <2>3, <2>4
  <2> QED BY <2>1, <2>2, <2>3, <2>5 DEF IInv, Counters, TypeOK, PeerMap
<1>5. CASE IoError \/ UNCHANGED vars
  <2>1. Counters' /\ total' \in Nat
    BY <1>3, <1>5 DEF IoError, vars
  <2>2. /\ phase' \in {"reading", "done", "failed"}
        /\ hasMeta' \in BOOLEAN /\ metadata' \in BOOLEAN
        /\ shown' \in {NoLine} \cup Lines
    BY <1>5 DEF IoError, vars, IInv, TypeOK
  <2> QED BY <2>1, <2>2 DEF IInv, Counters, TypeOK, PeerMap
<1> QED BY <1>1, <1>2, <1>4, <1>5 DEF Next

LEMMA InitInv == Init => IInv
<1> SUFFICES ASSUME Init PROVE IInv
  OBVIOUS
<1>1. size \in Nat /\ windowSeen = 0 /\ next = 0 /\ slots = <<>>
  BY WindowAssumption DEF Init
<1>2. InUse = {}
  BY <1>1 DEF InUse
<1>3. DOMAIN peerCounts = {} /\ IsFiniteSet(DOMAIN peerCounts)
  BY FS_EmptySet DEF Init
<1>4. TypeOK
  <2>1. peerCounts \in [DOMAIN peerCounts -> Nat \ {0}]
    BY <1>3 DEF Init
  <2>2. byType \in [Types -> Nat]
    BY DEF Init
  <2>3. /\ windowSeen \in 0..size /\ next \in 0..size
        /\ slots \in {<<>>} \cup [0..(size-1) -> Slots]
        /\ DOMAIN peerCounts \subseteq Peers
    BY <1>1, <1>3
  <2>4. /\ phase \in {"reading", "done", "failed"} /\ size \in WindowArgs
        /\ total \in Nat /\ malformed \in Nat
        /\ hasMeta \in BOOLEAN /\ metadata \in BOOLEAN
        /\ shown \in {NoLine} \cup Lines
    BY DEF Init
  <2> QED BY <2>1, <2>2, <2>3, <2>4 DEF TypeOK
<1>5. RingShape
  BY <1>1 DEF RingShape
<1>6. CountsOfWindow
  BY <1>2, <1>3, FS_EmptySet DEF Init, CountsOfWindow
<1> QED BY <1>3, <1>4, <1>5, <1>6 DEF IInv

-----------------------------------------------------------------------------
(* The refinement: the ring read from the oldest slot on.                  *)
Position(k) == IF windowSeen < size THEN k - 1 ELSE (next + k - 1) % size

LEMMA Wrap ==
  ASSUME NEW s \in Nat \ {0}, NEW x \in 0..(2*s - 1)
  PROVE  x % s = IF x < s THEN x ELSE x - s
OBVIOUS

(* It visits every slot in use exactly once.                               *)
LEMMA PositionVisits ==
  ASSUME IInv
  PROVE  /\ \A k \in 1..windowSeen : Position(k) \in InUse
         /\ \A j, k \in 1..windowSeen : Position(j) = Position(k) => j = k
         /\ \A i \in InUse : \E k \in 1..windowSeen : Position(k) = i
<1>1. /\ size \in Nat /\ windowSeen \in 0..size
      /\ size > 0 => next \in 0..(size-1)
  BY WindowAssumption DEF IInv, TypeOK, RingShape
<1>2. CASE windowSeen < size
  <2>1. \A k \in 1..windowSeen : Position(k) = k - 1
    BY <1>2 DEF Position
  <2>2. \A i \in InUse : i + 1 \in 1..windowSeen /\ (i + 1) - 1 = i
    BY <1>1 DEF InUse
  <2>3. \A k \in 1..windowSeen : k - 1 \in InUse
    BY <1>1 DEF InUse
  <2>4. \A j, k \in 1..windowSeen : j - 1 = k - 1 => j = k
    BY <1>1
  <2>5. ASSUME NEW i \in InUse PROVE \E k \in 1..windowSeen : Position(k) = i
    <3>1. Position(i + 1) = i
      BY <2>1, <2>2
    <3> QED BY <2>2, <3>1
  <2> QED BY <2>1, <2>3, <2>4, <2>5
<1>3. CASE windowSeen = size /\ size = 0
  BY <1>3 DEF InUse
<1>4. CASE windowSeen = size /\ size # 0
  <2>1. size \in Nat \ {0} /\ next \in 0..(size-1) /\ InUse = 0..(size-1)
    BY <1>1, <1>4 DEF InUse
  <2>2. ASSUME NEW k \in 1..size
        PROVE  Position(k) = IF next + k - 1 < size THEN next + k - 1
                                                    ELSE next + k - 1 - size
    <3> DEFINE x == next + k - 1
    <3>1. x \in 0..(2*size - 1)
      BY <2>1
    <3>2. Position(k) = x % size
      BY <1>1, <1>4 DEF Position
    <3> HIDE DEF x
    <3>3. Position(k) = IF x < size THEN x ELSE x - size
      BY <2>1, <3>1, <3>2, Wrap
    <3>4. x = next + k - 1 /\ next + k - 1 - size = x - size
      BY <2>1 DEF x
    <3> QED BY <3>3, <3>4
  <2>3. \A k \in 1..size : Position(k) \in 0..(size-1)
    BY <2>1, <2>2
  <2>4. \A j, k \in 1..size : Position(j) = Position(k) => j = k
    BY <2>1, <2>2
  <2>5. ASSUME NEW i \in 0..(size-1) PROVE \E k \in 1..size : Position(k) = i
    <3> DEFINE k == IF i >= next THEN i - next + 1 ELSE i - next + 1 + size
    <3>1. k \in 1..size
      BY <2>1
    <3>2. Position(k) = i
      BY <2>1, <2>2, <3>1
    <3> QED BY <3>1, <3>2
  <2> QED BY <1>4, <2>1, <2>3, <2>4, <2>5
<1> QED BY <1>1, <1>2, <1>3, <1>4

LEMMA WindowOfSlots ==
  ASSUME IInv
  PROVE  /\ windowSeen \in Nat
         /\ OldestFirst = [k \in 1..windowSeen |-> slots[Position(k)]]
         /\ OldestFirst \in Seq(Slots) /\ Len(OldestFirst) = windowSeen
         /\ \A i \in InUse : slots[i] \in Slots
<1>1. windowSeen \in Nat
  BY WindowAssumption DEF IInv, TypeOK
<1>2. OldestFirst = [k \in 1..windowSeen |-> slots[Position(k)]]
  BY DEF OldestFirst, Position
<1>3. ASSUME NEW i \in InUse PROVE slots[i] \in Slots
  <2>1. slots # <<>>
    BY <1>1 DEF InUse, IInv, RingShape
  <2>2. i \in 0..(size-1) /\ slots \in [0..(size-1) -> Slots]
    BY <1>1, <2>1, WindowAssumption DEF InUse, IInv, TypeOK
  <2> QED BY <2>2
<1>4. OldestFirst \in [1..windowSeen -> Slots]
  BY <1>2, <1>3, PositionVisits
<1>5. OldestFirst \in Seq(Slots) /\ Len(OldestFirst) = windowSeen
  BY <1>1, <1>4, SeqDef
<1> QED BY <1>1, <1>2, <1>3, <1>5

-----------------------------------------------------------------------------
(* What is counted in the slots in use is counted in the window.           *)
LEMMA SameNumber ==
  ASSUME NEW S, IsFiniteSet(S), NEW T, NEW f \in [S -> T],
         \A a, b \in S : f[a] = f[b] => a = b,
         \A t \in T : \E a \in S : f[a] = t
  PROVE  Cardinality(S) = Cardinality(T)
<1>1. f \in Bijection(S, T)
  BY DEF Bijection, Injection, Surjection, IsInjective
<1>2. ExistsBijection(S, T)
  BY <1>1 DEF ExistsBijection
<1> QED BY <1>2, FS_Bijection

LEMMA SameCells ==
  ASSUME IInv, NEW A \in SUBSET InUse
  PROVE  Cardinality({k \in 1..windowSeen : Position(k) \in A}) = Cardinality(A)
<1> DEFINE S == {k \in 1..windowSeen : Position(k) \in A}
           f == [k \in S |-> Position(k)]
<1>1. windowSeen \in Nat
  BY WindowOfSlots
<1>2. IsFiniteSet(S)
  <2>1. IsFiniteSet(1..windowSeen)
    BY <1>1, FS_Interval
  <2> QED BY <2>1, FS_Subset
<1>3. f \in [S -> A] /\ \A k \in S : f[k] = Position(k) /\ k \in 1..windowSeen
  OBVIOUS
<1>4. \A i \in A : \E k \in S : f[k] = i
  <2> TAKE i \in A
  <2>1. PICK k \in 1..windowSeen : Position(k) = i
    BY PositionVisits
  <2> QED BY <2>1
<1> HIDE DEF S, f
<1>5. \A j, k \in S : f[j] = f[k] => j = k
  BY <1>3, PositionVisits
<1>6. Cardinality(S) = Cardinality(A)
  BY <1>2, <1>3, <1>4, <1>5, SameNumber
<1> QED BY <1>6 DEF S

LEMMA RulesFinite == IsFiniteSet(Rules)
<1>1. IsFiniteSet({} \cup {"invalid_bmp_version"})
  BY FS_EmptySet, FS_AddElement
<1>2. IsFiniteSet(({} \cup {"invalid_bmp_version"}) \cup {"unknown_bmp_type"})
  BY <1>1, FS_AddElement
<1>3. Rules = ({} \cup {"invalid_bmp_version"}) \cup {"unknown_bmp_type"}
  BY DEF Rules
<1> QED BY <1>2, <1>3

LEMMA SameFindings ==
  ASSUME IInv
  PROVE  FindingsBuckets
           = Cardinality({x \in (1..windowSeen) \X Rules :
                            x[2] \in slots[Position(x[1])].findings})
<1> DEFINE S == {x \in (1..windowSeen) \X Rules :
                   x[2] \in slots[Position(x[1])].findings}
           T == {x \in InUse \X Rules : x[2] \in slots[x[1]].findings}
           f == [x \in S |-> <<Position(x[1]), x[2]>>]
<1>1. windowSeen \in Nat /\ windowSeen \in 0..size /\ size \in Nat
  BY WindowAssumption DEF IInv, TypeOK
<1>2. IsFiniteSet(S)
  <2>1. IsFiniteSet(1..windowSeen)
    BY <1>1, FS_Interval
  <2>2. IsFiniteSet((1..windowSeen) \X Rules)
    BY <2>1, RulesFinite, FS_Product
  <2> QED BY <2>2, FS_Subset
<1>3. \A x \in S : /\ x[1] \in 1..windowSeen /\ x[2] \in Rules /\ x = <<x[1], x[2]>>
                   /\ f[x] = <<Position(x[1]), x[2]>>
                   /\ x[2] \in slots[Position(x[1])].findings
  OBVIOUS
<1>4. \A x \in S : f[x] \in T
  BY <1>3, PositionVisits
<1>5. f \in [S -> T]
  <2> HIDE DEF T
  <2> QED BY <1>4
<1>6. \A t \in T : \E x \in S : f[x] = t
  <2> TAKE t \in T
  <2>1. t[1] \in InUse /\ t[2] \in Rules /\ t = <<t[1], t[2]>> /\ t[2] \in slots[t[1]].findings
    OBVIOUS
  <2>2. PICK k \in 1..windowSeen : Position(k) = t[1]
    BY <2>1, PositionVisits
  <2>3. <<k, t[2]>> \in S
    BY <2>1, <2>2
  <2>4. f[<<k, t[2]>>] = <<Position(k), t[2]>>
    BY <2>3
  <2> QED BY <2>1, <2>2, <2>3, <2>4
<1>7. \A x, y \in S : f[x] = f[y] => x = y
  <2> TAKE x, y \in S
  <2> HAVE f[x] = f[y]
  <2>1. Position(x[1]) = Position(y[1]) /\ x[2] = y[2]
    BY <1>3
  <2>2. x[1] = y[1]
    BY <1>3, <2>1, PositionVisits
  <2> QED BY <1>3, <2>1, <2>2
<1> HIDE DEF f
<1>8. Cardinality(S) = Cardinality(T)
  BY <1>2, <1>5, <1>6, <1>7, SameNumber
<1>9. FindingsBuckets = Cardinality(T)
  <2>1. CASE windowSeen = 0
    <3>1. T = {}
      BY <2>1 DEF InUse
    <3> QED BY <2>1, <3>1, FS_EmptySet DEF FindingsBuckets
  <2>2. CASE windowSeen # 0
    <3> DEFINE used == {(0 + i) % size : i \in 0..(windowSeen-1)}
    <3>1. FindingsBuckets = Cardinality({x \in used \X Rules : x[2] \in slots[x[1]].findings})
      BY <1>1, <2>2 DEF FindingsBuckets
    <3>2. \A i \in 0..(windowSeen-1) : (0 + i) % size = i
      BY <1>1
    <3>3. used = InUse
      BY <3>2 DEF InUse
    <3> QED BY <3>1, <3>3
  <2> QED BY <2>1, <2>2
<1> QED BY <1>8, <1>9 DEF S

LEMMA SamePeers ==
  ASSUME IInv
  PROVE  {slots[Position(k)].peer : k \in 1..windowSeen} \ {NoPeer} = DOMAIN peerCounts
<1> DEFINE P == {slots[Position(k)].peer : k \in 1..windowSeen}
<1>1. P = {slots[i].peer : i \in InUse}
  BY PositionVisits
<1>2. \A i \in InUse : slots[i].peer \in Peers \cup {NoPeer}
  BY WindowOfSlots DEF Slots
<1>3. P \ {NoPeer} \subseteq Peers /\ DOMAIN peerCounts \subseteq Peers /\ NoPeer \notin Peers
  BY <1>1, <1>2, NoPeerAssumption DEF IInv, TypeOK
<1>4. ASSUME NEW p \in Peers PROVE p \in P <=> p \in DOMAIN peerCounts
  <2> DEFINE his == {i \in InUse : slots[i].peer = p}
  <2>1. p \in P <=> his # {}
    BY <1>1
  <2>2. IF p \in DOMAIN peerCounts THEN peerCounts[p] = Cardinality(his)
                                   ELSE his = {}
    BY DEF IInv, CountsOfWindow
  <2>3. p \in DOMAIN peerCounts => peerCounts[p] \in Nat \ {0}
    BY DEF IInv, TypeOK
  <2> HIDE DEF his, P
  <2>4. p \in DOMAIN peerCounts => his # {}
    BY <2>2, <2>3, FS_EmptySet
  <2> QED BY <2>1, <2>2, <2>4
<1> HIDE DEF P
<1>5. P \ {NoPeer} = DOMAIN peerCounts
  BY <1>3, <1>4
<1> QED BY <1>5 DEF P

(* The cardinality of the abstract module is the cardinality.              *)
LEMMA SameCardinality == ASSUME NEW S PROVE SW!Cardinality(S) = Cardinality(S)
BY DEF SW!Cardinality, Cardinality, SW!IsFiniteSet, IsFiniteSet

(* Hence a line is the summary of the window.                              *)
LEMMA LineSummarises ==
  IInv => Plain(Line) = SW!Summary(total, OldestFirst)
<1> SUFFICES ASSUME IInv PROVE Plain(Line) = SW!Summary(total, OldestFirst)
  OBVIOUS
<1>1. Line # NoLine
  <2>1. Counters /\ total \in Nat /\ metadata \in BOOLEAN
    BY IInvParts
  <2> QED BY <2>1, LineType, NoLineAssumption
<1>2. Plain(Line) = [total |-> total, byType |-> byType, malformed |-> malformed,
                     peers |-> Cardinality(DOMAIN peerCounts),
                     parseErrors |-> FindingsBuckets]
  BY <1>1 DEF Plain, Line
<1>3. /\ DOMAIN OldestFirst = 1..windowSeen
      /\ \A k \in 1..windowSeen : OldestFirst[k] = slots[Position(k)]
  BY WindowOfSlots
<1>4. \A t \in Types : byType[t] = Cardinality({k \in DOMAIN OldestFirst : OldestFirst[k].type = t})
  <2> TAKE t \in Types
  <2> DEFINE A == {i \in InUse : slots[i].type = t}
  <2>1. byType[t] = Cardinality(A)
    BY DEF IInv, CountsOfWindow
  <2>2. {k \in DOMAIN OldestFirst : OldestFirst[k].type = t}
          = {k \in 1..windowSeen : Position(k) \in A}
    BY <1>3, PositionVisits
  <2> HIDE DEF A
  <2>3. Cardinality({k \in 1..windowSeen : Position(k) \in A}) = Cardinality(A)
    <3>1. A \in SUBSET InUse
      BY DEF A
    <3> QED BY <3>1, SameCells
  <2> QED BY <2>1, <2>2, <2>3
<1>5. malformed = Cardinality({k \in DOMAIN OldestFirst : OldestFirst[k].malformed})
  <2> DEFINE A == {i \in InUse : slots[i].malformed}
  <2>1. malformed = Cardinality(A)
    BY DEF IInv, CountsOfWindow
  <2>2. {k \in DOMAIN OldestFirst : OldestFirst[k].malformed}
          = {k \in 1..windowSeen : Position(k) \in A}
    BY <1>3, PositionVisits
  <2> HIDE DEF A
  <2>3. Cardinality({k \in 1..windowSeen : Position(k) \in A}) = Cardinality(A)
    <3>1. A \in SUBSET InUse
      BY DEF A
    <3> QED BY <3>1, SameCells
  <2> QED BY <2>1, <2>2, <2>3
<1>6. {OldestFirst[k].peer : k \in DOMAIN OldestFirst} \ {NoPeer} = DOMAIN peerCounts
  <2>1. {OldestFirst[k].peer : k \in DOMAIN OldestFirst}
          = {slots[Position(k)].peer : k \in 1..windowSeen}
    BY <1>3
  <2> QED BY <2>1, SamePeers
<1>7. FindingsBuckets = Cardinality({x \in (DOMAIN OldestFirst) \X Rules :
                                       x[2] \in OldestFirst[x[1]].findings})
  <2>1. {x \in (DOMAIN OldestFirst) \X Rules : x[2] \in OldestFirst[x[1]].findings}
          = {x \in (1..windowSeen) \X Rules : x[2] \in slots[Position(x[1])].findings}
    BY <1>3
  <2> QED BY <2>1, SameFindings
<1>8. byType = [t \in Types |-> Cardinality({k \in DOMAIN OldestFirst :
                                               OldestFirst[k].type = t})]
  <2>1. byType = [t \in Types |-> byType[t]]
    BY DEF IInv, TypeOK
  <2> QED BY <1>4, <2>1
<1> QED BY <1>2, <1>5, <1>6, <1>7, <1>8, SameCardinality DEF SW!Summary, SW!Number

-----------------------------------------------------------------------------
(* A push slides the window.                                               *)
Longer(m) == Append(OldestFirst, m)

LEMMA LongerWindow ==
  ASSUME IInv, NEW m \in Slots
  PROVE  /\ Longer(m) \in Seq(Slots) /\ Len(Longer(m)) = windowSeen + 1
         /\ Longer(m)[windowSeen + 1] = m
         /\ \A k \in 1..windowSeen : Longer(m)[k] = slots[Position(k)]
         /\ Tail(Longer(m)) \in Seq(Slots) /\ Len(Tail(Longer(m))) = windowSeen
         /\ \A k \in 1..windowSeen : Tail(Longer(m))[k] = Longer(m)[k + 1]
<1> DEFINE w == OldestFirst
           s == Longer(m)
<1>1. /\ windowSeen \in Nat /\ w \in Seq(Slots) /\ Len(w) = windowSeen
      /\ \A k \in 1..windowSeen : w[k] = slots[Position(k)]
  BY WindowOfSlots
<1>2. s = Append(w, m)
  BY DEF Longer
<1> HIDE DEF w, s
<1>3. /\ s \in Seq(Slots) /\ Len(s) = windowSeen + 1 /\ s[windowSeen + 1] = m
      /\ \A k \in 1..windowSeen : s[k] = w[k]
  BY <1>1, <1>2, AppendProperties
<1>4. s # <<>>
  <2>1. Len(s) # 0
    BY <1>1, <1>3
  <2> QED BY <2>1
<1>5. /\ Tail(s) \in Seq(Slots) /\ Len(Tail(s)) = windowSeen
      /\ \A k \in 1..windowSeen : Tail(s)[k] = s[k + 1]
  <2>1. /\ Tail(s) \in Seq(Slots) /\ Len(Tail(s)) = Len(s) - 1
        /\ \A i \in 1..Len(Tail(s)) : Tail(s)[i] = s[i+1]
    BY <1>3, <1>4, HeadTailProperties
  <2> QED BY <1>1, <1>3, <2>1
<1> QED BY <1>1, <1>3, <1>5 DEF s

LEMMA NextWindow ==
  (IInv => /\ OldestFirst \in Seq(Slots) /\ Len(OldestFirst) = windowSeen
           /\ windowSeen \in Nat)'
<1>1. IInv => /\ OldestFirst \in Seq(Slots) /\ Len(OldestFirst) = windowSeen
              /\ windowSeen \in Nat
  BY WindowOfSlots
<1> QED BY <1>1, PTL

LEMMA WindowSlides ==
  ASSUME IInv, IInv', NEW m \in Slots, Push(m), UNCHANGED size
  PROVE  OldestFirst' = IF Len(Longer(m)) <= size THEN Longer(m) ELSE Tail(Longer(m))
<1> DEFINE after == OldestFirst'
           l == Longer(m)
           t == Tail(l)
<1>1. /\ after \in Seq(Slots) /\ Len(after) = windowSeen' /\ windowSeen' \in Nat
  BY NextWindow
<1>2. /\ l \in Seq(Slots) /\ Len(l) = windowSeen + 1
      /\ l[windowSeen + 1] = m
      /\ \A k \in 1..windowSeen : l[k] = slots[Position(k)]
      /\ t \in Seq(Slots) /\ Len(t) = windowSeen
      /\ \A k \in 1..windowSeen : t[k] = l[k + 1]
      /\ windowSeen \in Nat
  BY LongerWindow, WindowOfSlots
<1>3. CASE size = 0
  <2>1. windowSeen = 0 /\ windowSeen' = 0
    BY <1>3 DEF Push, window, IInv, RingShape
  <2> HIDE DEF after, l, t
  <2>2. after = t
    BY <1>1, <1>2, <2>1, EmptySeq
  <2> QED BY <1>2, <1>3, <2>1, <2>2 DEF after, l, t
<1>4. CASE size # 0
  <2>1. Slide(m)
    BY <1>4 DEF Push
  <2>2. /\ size \in Nat \ {0} /\ next \in 0..(size-1) /\ next' \in 0..(size-1)
        /\ slots'[next] = m
        /\ \A i \in InUse \ {next} : slots'[i] = slots[i]
    BY <1>4, <2>1, SlideShape
  <2>3. windowSeen \in 0..size /\ (windowSeen < size => next = windowSeen)
    BY DEF IInv, TypeOK, RingShape
  <2>4. windowSeen' = (IF Full THEN windowSeen ELSE windowSeen + 1) /\ next' = NextSlot
    BY <2>1 DEF Slide
  <2>5. \A k \in 1..windowSeen' :
          after[k] = slots'[IF windowSeen' < size THEN k - 1 ELSE (next' + k - 1) % size]
    BY DEF OldestFirst
  <2>6. \A k \in 1..windowSeen : Position(k) \in InUse
    BY PositionVisits
  <2>7. next' = IF next + 1 < size THEN next + 1 ELSE 0
    BY <2>2, <2>4 DEF NextSlot
  <2> HIDE DEF after, l, t
  <2>8. CASE ~Full
    <3>1. windowSeen < size /\ next = windowSeen /\ windowSeen' = windowSeen + 1
      BY <2>2, <2>3, <2>4, <2>8 DEF Full
    <3>2. ASSUME NEW k \in 1..(windowSeen + 1) PROVE after[k] = slots'[k - 1]
      <4>1. CASE windowSeen' < size
        BY <2>5, <3>1, <4>1
      <4>2. CASE ~(windowSeen' < size)
        <5>1. next' = 0 /\ k - 1 \in 0..(size-1)
          BY <1>2, <2>2, <2>7, <3>1, <4>2
        <5>2. (next' + k - 1) % size = k - 1
          BY <2>2, <5>1
        <5> QED BY <2>5, <3>1, <4>2, <5>2
      <4> QED BY <4>1, <4>2
    <3>3. ASSUME NEW k \in 1..(windowSeen + 1) PROVE after[k] = l[k]
      <4>1. CASE k = windowSeen + 1
        <5>1. k - 1 = next
          BY <1>2, <3>1, <4>1
        <5> QED BY <1>2, <2>2, <3>2, <4>1, <5>1
      <4>2. CASE k # windowSeen + 1
        <5>1. k \in 1..windowSeen /\ k - 1 \in InUse \ {next}
          BY <1>2, <3>1, <4>2 DEF InUse
        <5>2. Position(k) = k - 1
          BY <3>1 DEF Position
        <5> QED BY <1>2, <2>2, <3>2, <5>1, <5>2
      <4> QED BY <4>1, <4>2
    <3>4. after = l
      BY <1>1, <1>2, <3>1, <3>3, SeqEqual
    <3>5. Len(l) <= size
      BY <1>2, <2>2, <3>1
    <3> QED BY <3>4, <3>5 DEF after, l
  <2>9. CASE Full
    <3>1. windowSeen = size /\ windowSeen' = size
      BY <2>2, <2>3, <2>4, <2>9 DEF Full
    <3>2. ASSUME NEW k \in 1..size
          PROVE  after[k] = slots'[IF next + k < size THEN next + k ELSE next + k - size]
      <4> DEFINE n == next'
                 x == n + k - 1
      <4>1. x \in 0..(2*size - 1)
        <5>1. n \in 0..(size-1) /\ size \in Nat \ {0}
          BY <2>2
        <5> HIDE DEF n
        <5> QED BY <5>1
      <4>2. x % size = IF x < size THEN x ELSE x - size
        <5> HIDE DEF x
        <5> QED BY <2>2, <4>1, Wrap
      <4>3. x % size = IF next + k < size THEN next + k ELSE next + k - size
        <5>1. CASE next + 1 < size
          <6>1. x = next + k
            BY <2>2, <2>7, <5>1
          <6> HIDE DEF x
          <6> QED BY <2>2, <4>2, <6>1
        <5>2. CASE next + 1 = size
          <6>1. x = next + k - size /\ x < size /\ ~(next + k < size)
            BY <2>2, <2>7, <5>2
          <6> HIDE DEF x
          <6> QED BY <4>2, <6>1
        <5> QED BY <2>2, <5>1, <5>2
      <4>4. after[k] = slots'[x % size]
        BY <2>2, <2>5, <3>1
      <4> HIDE DEF x
      <4> QED BY <4>3, <4>4
    <3>3. ASSUME NEW k \in 1..size PROVE after[k] = l[k + 1]
      <4>1. CASE k = size
        <5>1. ~(next + k < size) /\ next + k - size = next
          BY <2>2, <4>1
        <5> QED BY <1>2, <2>2, <3>1, <3>2, <4>1, <5>1
      <4>2. CASE k # size
        <5> DEFINE p == IF next + k < size THEN next + k ELSE next + k - size
        <5>1. k + 1 \in 1..windowSeen /\ (k + 1) - 1 = k
          BY <2>2, <3>1, <4>2
        <5>2. p \in 0..(size-1) /\ p # next
          BY <2>2, <4>2
        <5>3. Position(k + 1) = p
          <6> DEFINE x == next + (k + 1) - 1
          <6>1. x = next + k /\ x \in 0..(2*size - 1)
            BY <2>2
          <6>2. Position(k + 1) = x % size
            BY <2>2, <3>1 DEF Position
          <6> HIDE DEF x
          <6>3. x % size = IF x < size THEN x ELSE x - size
            BY <2>2, <6>1, Wrap
          <6>4. p = IF x < size THEN x ELSE x - size
            BY <2>2, <6>1
          <6> QED BY <6>2, <6>3, <6>4
        <5> HIDE DEF p
        <5>4. slots'[p] = slots[p]
          BY <2>2, <3>1, <5>2 DEF InUse
        <5>5. after[k] = slots'[p]
          BY <3>2 DEF p
        <5> QED BY <1>2, <5>1, <5>3, <5>4, <5>5
      <4> QED BY <4>1, <4>2
    <3>4. \A k \in 1..size : after[k] = t[k]
      BY <1>2, <3>1, <3>3
    <3>5. after = t
      BY <1>1, <1>2, <3>1, <3>4, SeqEqual
    <3>6. ~(Len(l) <= size)
      BY <1>2, <2>2, <3>1
    <3> QED BY <3>5, <3>6 DEF after, l, t
  <2> QED BY <2>8, <2>9
<1> QED BY <1>3, <1>4

-----------------------------------------------------------------------------
(* The steps of the refinement.                                            *)
Pushable == {FrameSlot(f) : f \in Capture} \cup {MalformedSlot}

LEMMA PushableSlots == Pushable \subseteq Slots
<1>1. \A f \in Capture : FrameSlot(f) \in Slots
  BY CaptureAssumption DEF Frames, FrameSlot, Slots
<1>2. MalformedSlot \in Slots
  BY DEF MalformedSlot, EmptySlot, Slots, Types
<1> QED BY <1>1, <1>2 DEF Pushable

LEMMA NextLineSummarises ==
  (IInv => Plain(Line) = SW!Summary(total, OldestFirst))'
BY LineSummarises, PTL

LEMMA InitRefines == Init => SW!Init
<1> SUFFICES ASSUME Init PROVE SW!Init
  OBVIOUS
<1>1. IInv
  BY InitInv
<1>2. /\ size \in Nat /\ total = 0 /\ windowSeen = 0 /\ shown = NoLine
  BY WindowAssumption DEF Init
<1>3. OldestFirst = <<>>
  BY <1>1, <1>2, WindowOfSlots, EmptySeq
<1>4. Plain(shown) = NoLine
  BY <1>2 DEF Plain
<1> QED BY <1>2, <1>3, <1>4 DEF SW!Init

LEMMA ObserveRefines ==
  ASSUME IInv, IInv', NEW m \in Pushable, Observe(m)
  PROVE  SW!Push(m)
<1>1. /\ Push(m) /\ UNCHANGED size /\ total' = total + 1
      /\ shown' \in {shown, Line'}
  BY DEF Observe, Push
<1>2. m \in Slots
  BY PushableSlots
<1>3. SW!Slide(m)
  BY <1>1, <1>2, WindowSlides DEF SW!Slide, Longer
<1>4. Plain(Line)' = SW!Summary(total', OldestFirst')
  BY NextLineSummarises
<1>5. Plain(shown)' \in {Plain(shown), SW!Summary(total', OldestFirst')}
  <2>1. CASE shown' = shown
    <3>1. Plain(shown)' = Plain(shown)
      BY <2>1 DEF Plain
    <3> QED BY <3>1
  <2>2. CASE shown' = Line'
    <3>1. Plain(shown)' = Plain(Line)'
      BY <2>2 DEF Plain
    <3> QED BY <1>4, <3>1
  <2> QED BY <1>1, <2>1, <2>2
<1> QED BY <1>1, <1>3, <1>5 DEF SW!Push

LEMMA FinishRefines ==
  ASSUME IInv, IInv', Finish
  PROVE  [SW!Show]_<<size, total, OldestFirst, Plain(shown)>>
<1>1. UNCHANGED <<size, total, window>> /\ shown' = IF total > 0 THEN Line' ELSE shown
  BY DEF Finish
<1>2. OldestFirst' = OldestFirst
  BY <1>1 DEF window, OldestFirst
<1>3. CASE total > 0
  <2>1. Plain(shown)' = Plain(Line)'
    BY <1>1, <1>3 DEF Plain
  <2>2. Plain(Line)' = SW!Summary(total', OldestFirst')
    BY NextLineSummarises
  <2>3. Plain(shown)' = SW!Summary(total, OldestFirst)
    BY <1>1, <1>2, <2>1, <2>2
  <2> QED BY <1>1, <1>2, <1>3, <2>3 DEF SW!Show
<1>4. CASE ~(total > 0)
  <2>1. Plain(shown)' = Plain(shown)
    BY <1>1, <1>4 DEF Plain
  <2> QED BY <1>1, <1>2, <2>1
<1> QED BY <1>3, <1>4

LEMMA NextRefines ==
  IInv /\ IInv' /\ [Next]_vars => [SW!Next]_<<size, total, OldestFirst, Plain(shown)>>
<1> SUFFICES ASSUME IInv, IInv', [Next]_vars
             PROVE  [SW!Next]_<<size, total, OldestFirst, Plain(shown)>>
  OBVIOUS
<1>1. ASSUME NEW m \in Pushable, Observe(m) PROVE SW!Next
  BY <1>1, ObserveRefines DEF SW!Next, Pushable
<1>2. CASE \E f \in Capture : WatchFrame(f)
  BY <1>1, <1>2 DEF WatchFrame, Pushable
<1>3. CASE WatchMalformed
  BY <1>1, <1>3 DEF WatchMalformed, Pushable
<1>4. CASE Finish
  BY <1>4, FinishRefines DEF SW!Next
<1>5. CASE IoError \/ UNCHANGED vars
  <2>1. UNCHANGED <<size, total, window, shown>>
    BY <1>5 DEF IoError, vars
  <2>2. OldestFirst' = OldestFirst /\ Plain(shown)' = Plain(shown)
    BY <2>1 DEF window, OldestFirst, Plain
  <2> QED BY <2>1, <2>2
<1> QED BY <1>2, <1>3, <1>4, <1>5 DEF Next

(* For every window size and every capture, no counter of the summary      *)
(* falls below zero, so no unsigned decrement of push underflows           *)
(* (rolling.rs:131-148).                                                   *)
THEOREM TypeCorrect == Spec => []TypeOK
<1>1. IInv => TypeOK
  BY DEF IInv
<1> QED BY <1>1, InitInv, NextInv, PTL DEF Spec

(* The incremental counters always equal a recount of the messages in the  *)
(* window, over any number of evictions (rolling.rs:131-166).              *)
THEOREM CountsCorrect == Spec => [](RingShape /\ CountsOfWindow)
<1>1. IInv => RingShape /\ CountsOfWindow
  BY DEF IInv
<1> QED BY <1>1, InitInv, NextInv, PTL DEF Spec

(* For every window size, capture and moment at which a line is printed:   *)
(* the ring with its counters implements the window of the last messages,  *)
(* and a line summarises exactly those (rolling.rs:79-210,                 *)
(* doctor.rs:432-473).                                                     *)
THEOREM Refinement == Spec => ImplementsSlidingWindow
<1>1. IInv /\ IInv' /\ [Next]_vars => [SW!Next]_<<size, total, OldestFirst, Plain(shown)>>
  BY NextRefines
<1> QED
  BY InitInv, NextInv, InitRefines, <1>1, PTL DEF Spec, ImplementsSlidingWindow, SW!Spec
=============================================================================
