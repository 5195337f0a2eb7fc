----------------------------- MODULE RpkiProofs -----------------------------
(* Proofs about Rpki, for every set of dashboards, every server, every     *)
(* number of VRPs and every width of an address: what building a table     *)
(* keeps, what the search finds in it, and what a verdict then means.      *)
EXTENDS Rpki, OrderLemmas, SequenceTheorems, TLAPS

-----------------------------------------------------------------------------
(* Sorting and removing duplicates.                                        *)
Values(s) == {s[i] : i \in DOMAIN s}

Ascending(s) == \A i, j \in DOMAIN s : i < j => s[i].addr <= s[j].addr

Ordering(S, pairs) ==
  /\ \A i \in S : <<i, i>> \notin pairs
  /\ \A i, j, k \in S : <<i, j>> \in pairs /\ <<j, k>> \in pairs => <<i, k>> \in pairs
  /\ \A i, j \in S : i # j => <<i, j>> \in pairs \/ <<j, i>> \in pairs

LEMMA PowerFacts == \A n \in 0..Width : PowerOf2[n] \in Nat \ {0}
<1>1. Width \in Nat
  BY WidthAssumption
<1> DEFINE step == [n \in 1..Width |-> [x \in Nat |-> 2 * x]]
<1>2. step \in [1..Width -> [Nat -> Nat]]
  OBVIOUS
<1> HIDE DEF step
<1>3. PICK f \in [0..Width -> Nat] : Solves(f, Width, 1, step)
  BY <1>1, <1>2, Recursion
<1>4. \A n \in 1..Width : f[n] = 2 * f[n-1]
  <2> SUFFICES ASSUME NEW n \in 1..Width PROVE f[n] = 2 * f[n-1]
    OBVIOUS
  <2>1. n - 1 \in 0..Width
    BY <1>1
  <2>2. f[n-1] \in Nat /\ f[n] = step[n][f[n-1]]
    BY <1>3, <2>1 DEF Solves
  <2> QED BY <2>2 DEF step
<1> DEFINE P(h) == h = [n \in 0..Width |-> IF n = 0 THEN 1 ELSE 2 * h[n-1]]
<1>5. P(f)
  <2>1. f[0] = 1
    BY <1>3 DEF Solves
  <2>2. \A n \in 0..Width : f[n] = IF n = 0 THEN 1 ELSE 2 * f[n-1]
    BY <1>1, <1>4, <2>1
  <2> QED BY <1>3, <2>2
<1>6. PowerOf2 = CHOOSE h : P(h)
  BY DEF PowerOf2
<1> HIDE DEF P
<1>7. P(PowerOf2)
  BY <1>5, <1>6
<1>8. PowerOf2 = [n \in 0..Width |-> IF n = 0 THEN 1 ELSE 2 * PowerOf2[n-1]]
  BY <1>7 DEF P
<1>9. PowerOf2[0] = 1 /\ \A n \in 1..Width : PowerOf2[n] = 2 * PowerOf2[n-1]
  BY <1>1, <1>8
<1> DEFINE T == {n \in 0..Width : PowerOf2[n] \in Nat \ {0}}
<1>10. 0 \in T /\ \A n \in 1..Width : n - 1 \in T => n \in T
  <2>1. 0 \in T
    BY <1>1, <1>9
  <2>2. ASSUME NEW n \in 1..Width, n - 1 \in T PROVE n \in T
    <3>1. PICK x \in Nat \ {0} : x = PowerOf2[n-1]
      BY <2>2
    <3>2. PowerOf2[n] = 2 * x /\ 2 * x \in Nat \ {0}
      BY <1>9, <3>1
    <3> QED BY <1>1, <3>2
  <2> QED BY <2>1, <2>2
<1> HIDE DEF T
<1>11. 0..Width \subseteq T
  BY <1>1, <1>10, SetInduction
<1> QED BY <1>11 DEF T

LEMMA AddressFacts == Addresses \subseteq Nat
BY PowerFacts, WidthAssumption DEF Addresses

LEMMA NetworkType ==
  ASSUME NEW addr \in Addresses, NEW len \in 0..Width
  PROVE  Network(addr, len) \in Addresses
<1>1. Width - len \in 0..Width
  BY WidthAssumption
<1>2. PICK k \in Nat \ {0} : k = PowerOf2[Width - len]
  BY <1>1, PowerFacts
<1>3. PICK n \in Nat \ {0} : n = PowerOf2[Width]
  BY WidthAssumption, PowerFacts
<1>4. addr \in Nat /\ addr <= n - 1
  BY <1>3 DEF Addresses
<1>5. (addr \div k) * k \in Int /\ (addr \div k) * k >= 0 /\ (addr \div k) * k <= addr
  BY <1>2, <1>4
<1>6. (addr \div k) * k \in 0..(n-1)
  <2>1. PICK x \in Int : x = (addr \div k) * k
    BY <1>5
  <2>2. x \in 0..(n-1)
    BY <1>3, <1>4, <1>5, <2>1
  <2> QED BY <2>1, <2>2
<1> QED BY <1>2, <1>3, <1>6 DEF Network, Addresses

LEMMA EntryFacts ==
  ASSUME NEW s \in Seq(Vrp)
  PROVE  /\ Len(s) \in Nat /\ DOMAIN s = 1..Len(s)
         /\ \A i \in DOMAIN s : s[i] \in Vrp /\ s[i].addr \in Nat
<1>1. Len(s) \in Nat /\ DOMAIN s = 1..Len(s) /\ \A i \in DOMAIN s : s[i] \in Vrp
  BY LenProperties, ElementOfSeq
<1>2. \A v \in Vrp : v.addr \in Nat
  BY AddressFacts DEF Vrp
<1> QED BY <1>1, <1>2

(* Ranked lists the members of a finite set once each, in order.           *)
LEMMA RankedFacts ==
  ASSUME NEW S, IsFiniteSet(S), NEW pairs, Ordering(S, pairs)
  PROVE  LET order == Ranked(S, pairs)
         IN  /\ Cardinality(S) \in Nat
             /\ order \in [1..Cardinality(S) -> S]
             /\ \A i \in S : \E k \in 1..Cardinality(S) : order[k] = i
             /\ \A k, l \in 1..Cardinality(S) :
                  k < l => <<order[k], order[l]>> \in pairs
<1> DEFINE before == [i \in S |-> {j \in S : <<j, i>> \in pairs}]
           rank   == [x \in S |-> Cardinality(before[x])]
           n      == Cardinality(S)
           order  == Ranked(S, pairs)
<1>1. Orders(before, S)
  <2>1. before \in [S -> SUBSET S]
    OBVIOUS
  <2>2. \A x \in S : x \notin before[x]
    BY DEF Ordering
  <2>3. \A x \in S : \A y \in before[x] : before[y] \subseteq before[x]
    BY DEF Ordering
  <2>4. \A x, y \in S : x # y => x \in before[y] \/ y \in before[x]
    BY DEF Ordering
  <2> HIDE DEF before
  <2> QED BY <2>1, <2>2, <2>3, <2>4 DEF Orders
<1>2. \A i, j \in S : j \in before[i] <=> <<j, i>> \in pairs
  OBVIOUS
<1>3. \A i \in S : Cardinality({j \in S : <<j, i>> \in pairs}) = rank[i]
  OBVIOUS
<1> HIDE DEF before
<1>4. /\ n \in Nat
      /\ rank \in [S -> 0..(n-1)]
      /\ \A x \in S : \A y \in before[x] : rank[y] < rank[x]
      /\ \A x, y \in S : rank[x] = rank[y] => x = y
      /\ \A r \in 0..(n-1) : \E x \in S : rank[x] = r
  BY <1>1, Ranks
<1> HIDE DEF rank
<1>5. order = [k \in 1..n |->
                 CHOOSE i \in S : Cardinality({j \in S : <<j, i>> \in pairs}) = k - 1]
  BY DEF Ranked
<1> HIDE DEF n, order
<1>6. ASSUME NEW k \in 1..n PROVE order[k] \in S /\ rank[order[k]] = k - 1
  <2>1. k - 1 \in 0..(n-1)
    BY <1>4
  <2>2. PICK x \in S : Cardinality({j \in S : <<j, x>> \in pairs}) = k - 1
    BY <1>3, <1>4, <2>1
  <2>3. order[k] = CHOOSE i \in S : Cardinality({j \in S : <<j, i>> \in pairs}) = k - 1
    BY <1>5
  <2>4. /\ order[k] \in S
        /\ Cardinality({j \in S : <<j, order[k]>> \in pairs}) = k - 1
    BY <2>2, <2>3
  <2> QED BY <1>3, <2>4
<1>7. order \in [1..n -> S]
  BY <1>5, <1>6
<1>8. ASSUME NEW i \in S PROVE \E k \in 1..n : order[k] = i
  <2>1. rank[i] \in 0..(n-1)
    BY <1>4
  <2>2. PICK k \in 1..n : k - 1 = rank[i]
    <3>1. rank[i] + 1 \in 1..n /\ (rank[i] + 1) - 1 = rank[i]
      BY <1>4, <2>1
    <3> QED BY <3>1
  <2> QED BY <1>4, <1>6, <2>2
<1>9. ASSUME NEW k \in 1..n, NEW l \in 1..n, k < l
      PROVE  <<order[k], order[l]>> \in pairs
  <2>1. /\ order[k] \in S /\ rank[order[k]] = k - 1
        /\ order[l] \in S /\ rank[order[l]] = l - 1
    BY <1>6
  <2>2. k - 1 < l - 1 /\ ~(l - 1 < k - 1) /\ k - 1 # l - 1
    BY <1>4, <1>9
  <2>3. order[k] # order[l]
    BY <2>1, <2>2
  <2>4. order[l] \notin before[order[k]]
    BY <1>4, <2>1, <2>2
  <2> QED BY <1>2, <2>1, <2>3, <2>4 DEF Ordering
<1> QED BY <1>4, <1>7, <1>8, <1>9 DEF n, order

LEMMA SortedFacts ==
  ASSUME NEW s \in Seq(Vrp)
  PROVE  /\ Sorted(s) \in Seq(Vrp) /\ Len(Sorted(s)) = Len(s)
         /\ Ascending(Sorted(s))
         /\ Values(Sorted(s)) = Values(s)
<1> DEFINE n     == Len(s)
           pairs == ByAddress(s)
           order == Ranked(1..n, pairs)
<1>1. n \in Nat /\ DOMAIN s = 1..n /\ \A i \in 1..n : s[i] \in Vrp
  BY LenProperties, ElementOfSeq
<1>2. \A i \in 1..n : s[i].addr \in Nat
  BY <1>1, AddressFacts DEF Vrp
<1>3. IsFiniteSet(1..n) /\ Cardinality(1..n) = n
  <2>1. IsFiniteSet(1..n) /\ Cardinality(1..n) = IF 1 > n THEN 0 ELSE n - 1 + 1
    BY <1>1, FS_Interval
  <2>2. (IF 1 > n THEN 0 ELSE n - 1 + 1) = n
    BY <1>1
  <2> QED BY <2>1, <2>2
<1>4. \A i, j \in 1..n :
        <<i, j>> \in pairs <=> \/ s[i].addr < s[j].addr
                               \/ s[i].addr = s[j].addr /\ i < j
  BY <1>1 DEF ByAddress
<1> HIDE DEF pairs
<1>5. Ordering(1..n, pairs)
  <2>1. \A i \in 1..n : <<i, i>> \notin pairs
    BY <1>1, <1>2, <1>4
  <2>2. ASSUME NEW i \in 1..n, NEW j \in 1..n, NEW k \in 1..n,
               <<i, j>> \in pairs, <<j, k>> \in pairs
        PROVE  <<i, k>> \in pairs
    <3>1. PICK a \in Nat, b \in Nat, c \in Nat :
            a = s[i].addr /\ b = s[j].addr /\ c = s[k].addr
      BY <1>2
    <3>2. (a < b \/ (a = b /\ i < j)) /\ (b < c \/ (b = c /\ j < k))
      BY <1>4, <2>2, <3>1
    <3>3. a < c \/ (a = c /\ i < k)
      BY <3>2
    <3> QED BY <1>4, <3>1, <3>3
  <2>3. ASSUME NEW i \in 1..n, NEW j \in 1..n, i # j
        PROVE  <<i, j>> \in pairs \/ <<j, i>> \in pairs
    <3>1. PICK a \in Nat, b \in Nat : a = s[i].addr /\ b = s[j].addr
      BY <1>2
    <3>2. (a < b \/ (a = b /\ i < j)) \/ (b < a \/ (b = a /\ j < i))
      BY <2>3
    <3> QED BY <1>4, <3>1, <3>2
  <2> QED BY <2>1, <2>2, <2>3 DEF Ordering
<1>6. /\ order \in [1..n -> 1..n]
      /\ \A i \in 1..n : \E k \in 1..n : order[k] = i
      /\ \A k, l \in 1..n : k < l => <<order[k], order[l]>> \in pairs
  BY <1>3, <1>5, RankedFacts
<1>7. Sorted(s) = [k \in DOMAIN order |-> s[order[k]]]
  BY <1>1 DEF Sorted, At, pairs
<1> HIDE DEF order, n
<1>8. Sorted(s) = [k \in 1..n |-> s[order[k]]]
  BY <1>6, <1>7
<1> DEFINE t == Sorted(s)
<1> HIDE DEF t
<1>9. t \in [1..n -> Vrp] /\ \A k \in 1..n : t[k] = s[order[k]]
  BY <1>1, <1>6, <1>8 DEF t
<1>10. t \in Seq(Vrp) /\ Len(t) = n /\ DOMAIN t = 1..n
  BY <1>1, <1>9, SeqDef
<1>11. Ascending(t)
  <2> SUFFICES ASSUME NEW k \in 1..n, NEW l \in 1..n, k < l
               PROVE  t[k].addr <= t[l].addr
    BY <1>10 DEF Ascending
  <2>1. order[k] \in 1..n /\ order[l] \in 1..n /\ <<order[k], order[l]>> \in pairs
    BY <1>6
  <2>2. PICK a \in Nat, b \in Nat : a = s[order[k]].addr /\ b = s[order[l]].addr
    BY <1>2, <2>1
  <2>3. a < b \/ a = b
    BY <1>4, <2>1, <2>2
  <2>4. a <= b
    BY <2>3
  <2> QED BY <1>9, <2>2, <2>4
<1>12. Values(t) = Values(s)
  <2>1. Values(t) \subseteq Values(s)
    BY <1>1, <1>6, <1>9, <1>10 DEF Values
  <2>2. ASSUME NEW i \in 1..n PROVE s[i] \in Values(t)
    <3>1. PICK k \in 1..n : order[k] = i
      BY <1>6
    <3> QED BY <1>9, <1>10, <3>1 DEF Values
  <2> QED BY <1>1, <2>1, <2>2 DEF Values
<1> QED BY <1>10, <1>11, <1>12 DEF t, n

(* A sorted table is left as it is.                                        *)
LEMMA SortedAgain ==
  ASSUME NEW s \in Seq(Vrp), Ascending(s)
  PROVE  Sorted(s) = s
<1> DEFINE n     == Len(s)
           pairs == ByAddress(s)
           order == Ranked(1..n, pairs)
<1>1. n \in Nat /\ DOMAIN s = 1..n /\ s \in [1..n -> Vrp] /\ \A i \in 1..n : s[i] \in Vrp
  BY LenProperties, ElementOfSeq
<1>2. \A i \in 1..n : s[i].addr \in Nat
  BY <1>1, AddressFacts DEF Vrp
<1>3. \A m \in Nat : IsFiniteSet(1..m) /\ Cardinality(1..m) = m
  <2> SUFFICES ASSUME NEW m \in Nat PROVE IsFiniteSet(1..m) /\ Cardinality(1..m) = m
    OBVIOUS
  <2>1. IsFiniteSet(1..m) /\ Cardinality(1..m) = IF 1 > m THEN 0 ELSE m - 1 + 1
    BY FS_Interval
  <2>2. (IF 1 > m THEN 0 ELSE m - 1 + 1) = m
    OBVIOUS
  <2> QED BY <2>1, <2>2
<1>4. \A i, j \in 1..n : <<i, j>> \in pairs <=> i < j
  <2> SUFFICES ASSUME NEW i \in 1..n, NEW j \in 1..n
               PROVE  <<i, j>> \in pairs <=> i < j
    OBVIOUS
  <2>1. PICK a \in Nat, b \in Nat : a = s[i].addr /\ b = s[j].addr
    BY <1>2
  <2>2. <<i, j>> \in pairs <=> a < b \/ (a = b /\ i < j)
    BY <1>1, <2>1 DEF ByAddress
  <2>3. (i < j => a <= b) /\ (j < i => b <= a)
    BY <1>1, <2>1 DEF Ascending
  <2>4. a < b \/ (a = b /\ i < j) <=> i < j
    <3>1. CASE i < j
      BY <2>3, <3>1
    <3>2. CASE j < i
      BY <2>3, <3>2
    <3>3. CASE i = j
      <4>1. a = b
        BY <2>1, <3>3
      <4> QED BY <3>3, <4>1
    <3> QED BY <1>1, <3>1, <3>2, <3>3
  <2> QED BY <2>2, <2>4
<1>5. \A i \in 1..n : Cardinality({j \in 1..n : <<j, i>> \in pairs}) = i - 1
  <2> SUFFICES ASSUME NEW i \in 1..n
               PROVE  Cardinality({j \in 1..n : <<j, i>> \in pairs}) = i - 1
    OBVIOUS
  <2>1. {j \in 1..n : <<j, i>> \in pairs} = 1..(i-1)
    BY <1>1, <1>4
  <2>2. i - 1 \in Nat
    BY <1>1
  <2> QED BY <1>3, <2>1, <2>2
<1>6. Sorted(s) = [k \in DOMAIN order |-> s[order[k]]]
  BY <1>1 DEF Sorted, At
<1> HIDE DEF pairs
<1>7. order = [k \in 1..n |->
                 CHOOSE i \in 1..n : Cardinality({j \in 1..n : <<j, i>> \in pairs}) = k - 1]
  BY <1>1, <1>3 DEF Ranked
<1> HIDE DEF order, n
<1>8. ASSUME NEW k \in 1..n PROVE order[k] = k
  <2>1. order[k] = CHOOSE i \in 1..n : Cardinality({j \in 1..n : <<j, i>> \in pairs}) = k - 1
    BY <1>7
  <2>2. Cardinality({j \in 1..n : <<j, k>> \in pairs}) = k - 1
    BY <1>5
  <2>3. /\ order[k] \in 1..n
        /\ Cardinality({j \in 1..n : <<j, order[k]>> \in pairs}) = k - 1
    BY <2>1, <2>2
  <2>4. order[k] - 1 = k - 1
    BY <1>5, <2>3
  <2> QED BY <1>1, <2>3, <2>4
<1>9. Sorted(s) = [k \in 1..n |-> s[k]]
  BY <1>6, <1>7, <1>8
<1> QED BY <1>1, <1>9

(* Of neighbours that are the same the first is kept, so that each VRP has *)
(* one that is the same left.                                              *)
LEMMA FirstOfSame ==
  ASSUME NEW s \in Seq(Vrp), NEW i \in DOMAIN s
  PROVE  \E j \in Kept(s) : Same(s[j], s[i])
<1> DEFINE T == {j \in 1..i : \A k \in j..i : Same(s[k], s[i])}
<1>1. Len(s) \in Nat /\ DOMAIN s = 1..Len(s) /\ i \in Nat /\ i >= 1
  BY LenProperties
<1>2. i \in T
  BY <1>1 DEF Same
<1>3. T \subseteq Nat
  OBVIOUS
<1> HIDE DEF T
<1>4. PICK j \in T : \A m \in T : j <= m
  BY <1>2, <1>3, LeastMember
<1>5. j \in 1..i /\ j \in DOMAIN s /\ \A k \in j..i : Same(s[k], s[i])
  BY <1>1, <1>4 DEF T
<1>6. Same(s[j], s[i])
  BY <1>1, <1>5
<1>7. CASE j = 1
  BY <1>5, <1>6, <1>7 DEF Kept
<1>8. CASE j # 1
  <2>1. j - 1 \in 1..i /\ ~(j <= j - 1) /\ \A k \in (j-1)..i : k = j - 1 \/ k \in j..i
    BY <1>1, <1>5, <1>8
  <2>2. j - 1 \notin T
    BY <1>4, <2>1
  <2>3. ~Same(s[j-1], s[i])
    BY <1>5, <2>1, <2>2 DEF T
  <2>4. ~Same(s[j-1], s[j])
    BY <1>6, <2>3 DEF Same
  <2> QED BY <1>5, <1>6, <2>4 DEF Kept
<1> QED BY <1>7, <1>8

LEMMA DedupFacts ==
  ASSUME NEW s \in Seq(Vrp), Ascending(s)
  PROVE  /\ Dedup(s) \in Seq(Vrp) /\ Len(Dedup(s)) <= Len(s)
         /\ Ascending(Dedup(s))
         /\ Values(Dedup(s)) \subseteq Values(s)
         /\ \A v \in Values(s) : \E w \in Values(Dedup(s)) : Same(w, v)
<1> DEFINE K     == Kept(s)
           pairs == {x \in K \X K : x[1] < x[2]}
           n     == Cardinality(K)
           order == Ranked(K, pairs)
<1>1. Len(s) \in Nat /\ DOMAIN s = 1..Len(s) /\ \A i \in DOMAIN s : s[i] \in Vrp
  BY LenProperties, ElementOfSeq
<1>2. K \subseteq 1..Len(s) /\ K \subseteq DOMAIN s
  BY <1>1 DEF Kept
<1>3. IsFiniteSet(K) /\ n \in Nat /\ n <= Len(s)
  <2>1. /\ IsFiniteSet(1..Len(s))
        /\ Cardinality(1..Len(s)) = IF 1 > Len(s) THEN 0 ELSE Len(s) - 1 + 1
    BY <1>1, FS_Interval
  <2>2. (IF 1 > Len(s) THEN 0 ELSE Len(s) - 1 + 1) = Len(s)
    BY <1>1
  <2>3. Cardinality(1..Len(s)) = Len(s)
    BY <2>1, <2>2
  <2> HIDE DEF K
  <2>4. IsFiniteSet(K) /\ Cardinality(K) <= Cardinality(1..Len(s))
    BY <1>2, <2>1, FS_Subset
  <2> QED BY <2>3, <2>4, FS_CardinalityType
<1> HIDE DEF K
<1>4. \A i, j \in K : <<i, j>> \in pairs <=> i < j
  OBVIOUS
<1> HIDE DEF pairs
<1>5. Ordering(K, pairs)
  BY <1>1, <1>2, <1>4 DEF Ordering
<1>6. /\ order \in [1..n -> K]
      /\ \A i \in K : \E k \in 1..n : order[k] = i
      /\ \A k, l \in 1..n : k < l => <<order[k], order[l]>> \in pairs
  BY <1>3, <1>5, RankedFacts
<1>7. Dedup(s) = [k \in DOMAIN order |-> s[order[k]]]
  BY DEF Dedup, At, K, pairs
<1> HIDE DEF order, n
<1> DEFINE t == Dedup(s)
<1> HIDE DEF t
<1>8. t \in [1..n -> Vrp] /\ \A k \in 1..n : t[k] = s[order[k]]
  BY <1>1, <1>2, <1>6, <1>7 DEF t
<1>9. t \in Seq(Vrp) /\ Len(t) = n /\ DOMAIN t = 1..n
  BY <1>3, <1>8, SeqDef
<1>10. Ascending(t)
  <2> SUFFICES ASSUME NEW k \in 1..n, NEW l \in 1..n, k < l
               PROVE  t[k].addr <= t[l].addr
    BY <1>9 DEF Ascending
  <2>1. order[k] \in K /\ order[l] \in K /\ order[k] < order[l]
    BY <1>4, <1>6
  <2> QED BY <1>2, <1>8, <2>1 DEF Ascending
<1>11. Values(t) \subseteq Values(s)
  BY <1>2, <1>6, <1>8, <1>9 DEF Values
<1>12. ASSUME NEW i \in DOMAIN s PROVE \E w \in Values(t) : Same(w, s[i])
  <2>1. PICK j \in K : Same(s[j], s[i])
    BY FirstOfSame DEF K
  <2>2. PICK k \in 1..n : order[k] = j
    BY <1>6
  <2>3. t[k] = s[j] /\ t[k] \in Values(t)
    BY <1>8, <1>9, <2>2 DEF Values
  <2> QED BY <2>1, <2>3
<1> QED BY <1>3, <1>9, <1>10, <1>11, <1>12 DEF t, Values

-----------------------------------------------------------------------------
(* The search in a sorted table.                                           *)

(* Ranges, unfolded.                                                       *)
LEMMA RangesUnfold ==
  ASSUME NEW s \in Seq(Vrp), NEW addr
  PROVE  LET R == Ranges(s, addr)
         IN  /\ R[0] = <<1, Len(s)>>
             /\ \A n \in 1..Len(s) : R[n] = Half(s, addr, R[n-1])
<1> DEFINE N    == Len(s)
           S    == Int \X Int
           base == <<1, N>>
           step == [n \in 1..N |-> [r \in S |-> Half(s, addr, r)]]
<1>1. N \in Nat
  BY LenProperties
<1>2. base \in S
  BY <1>1
<1>3. \A r \in S : Half(s, addr, r) \in S
  BY DEF Half, Middle
<1>4. step \in [1..N -> [S -> S]]
  BY <1>3
<1> HIDE DEF S, step, base
<1>5. PICK f \in [0..N -> S] : Solves(f, N, base, step)
  BY <1>1, <1>2, <1>4, Recursion
<1> HIDE DEF N
<1>6. \A n \in 1..N : f[n] = Half(s, addr, f[n-1])
  <2> SUFFICES ASSUME NEW n \in 1..N PROVE f[n] = Half(s, addr, f[n-1])
    OBVIOUS
  <2>1. n - 1 \in 0..N
    BY <1>1
  <2>2. f[n-1] \in S /\ f[n] = step[n][f[n-1]]
    BY <1>5, <2>1 DEF Solves
  <2> QED BY <2>2 DEF step
<1> DEFINE P(h) == h = [n \in 0..N |-> IF n = 0 THEN base ELSE Half(s, addr, h[n-1])]
<1>7. P(f)
  <2>1. f[0] = base
    BY <1>5 DEF Solves
  <2>2. \A n \in 0..N : f[n] = IF n = 0 THEN base ELSE Half(s, addr, f[n-1])
    BY <1>1, <1>6, <2>1
  <2> QED BY <1>5, <2>2
<1>8. Ranges(s, addr) = CHOOSE h : P(h)
  BY DEF Ranges, N, base
<1> DEFINE R == Ranges(s, addr)
<1> HIDE DEF P, R
<1>9. P(R)
  BY <1>7, <1>8 DEF R
<1>10. R = [n \in 0..N |-> IF n = 0 THEN base ELSE Half(s, addr, R[n-1])]
  BY <1>9 DEF P
<1>11. R[0] = base /\ \A n \in 1..N : R[n] = Half(s, addr, R[n-1])
  BY <1>1, <1>10
<1> QED BY <1>11 DEF R, N, base

(* A range is within the table, holds every position of the address, and   *)
(* gets shorter until its middle is one of them.                           *)
Narrow(s, addr, range, n) ==
  /\ range \in Nat \X Nat
  /\ range[1] >= 1 /\ range[2] <= Len(s)
  /\ \A i \in DOMAIN s : s[i].addr = addr => range[1] <= i /\ i <= range[2]
  /\ \/ range[1] <= range[2] /\ s[Middle(range)].addr = addr
     \/ range[2] - range[1] + 1 <= Len(s) - n

LEMMA HalfNarrows ==
  ASSUME NEW s \in Seq(Vrp), Ascending(s), NEW addr, NEW n \in 1..Len(s),
         NEW range, Narrow(s, addr, range, n - 1)
  PROVE  Narrow(s, addr, Half(s, addr, range), n)
<1> DEFINE mid == Middle(range)
<1>1. PICK lo \in Nat, hi \in Nat : range = <<lo, hi>>
  BY DEF Narrow
<1>2. range[1] = lo /\ range[2] = hi /\ lo >= 1 /\ hi <= Len(s)
  BY <1>1 DEF Narrow
<1>3. Len(s) \in Nat /\ DOMAIN s = 1..Len(s) /\ \A i \in DOMAIN s : s[i].addr \in Nat
  BY EntryFacts
<1>4. CASE lo > hi
  <2>1. Half(s, addr, range) = range
    BY <1>2, <1>4 DEF Half
  <2>2. hi - lo + 1 <= Len(s) - n
    BY <1>3, <1>4
  <2> QED BY <1>2, <2>1, <2>2 DEF Narrow
<1>5. CASE lo <= hi
  <2>1. mid \in Nat /\ lo <= mid /\ mid <= hi /\ mid \in DOMAIN s
    BY <1>2, <1>3, <1>5 DEF Middle
  <2>2. CASE s[mid].addr = addr
    <3>1. Half(s, addr, range) = range
      BY <2>2 DEF Half
    <3> QED BY <1>2, <1>5, <2>2, <3>1 DEF Narrow
  <2>3. CASE s[mid].addr # addr
    <3>1. hi - lo + 1 <= Len(s) - (n - 1)
      BY <1>2, <2>3 DEF Narrow
    <3>2. CASE s[mid].addr < addr
      <4>1. Half(s, addr, range) = <<mid + 1, hi>>
        BY <1>2, <1>5, <2>3, <3>2 DEF Half
      <4>2. hi - (mid + 1) + 1 <= Len(s) - n
        BY <1>3, <2>1, <3>1
      <4>3. ASSUME NEW i \in DOMAIN s, s[i].addr = addr PROVE mid + 1 <= i /\ i <= hi
        <5>1. ~(i <= mid)
          <6> SUFFICES ASSUME i <= mid PROVE FALSE
            OBVIOUS
          <6>1. s[i].addr <= s[mid].addr
            BY <1>3, <2>1 DEF Ascending
          <6> QED BY <1>3, <2>1, <3>2, <4>3, <6>1
        <5>2. i <= hi
          BY <1>2, <4>3 DEF Narrow
        <5> QED BY <1>3, <2>1, <5>1, <5>2
      <4> QED BY <1>2, <2>1, <4>1, <4>2, <4>3 DEF Narrow
    <3>3. CASE ~(s[mid].addr < addr)
      <4>1. Half(s, addr, range) = <<lo, mid - 1>>
        BY <1>2, <1>5, <2>3, <3>3 DEF Half
      <4>2. (mid - 1) - lo + 1 <= Len(s) - n /\ mid - 1 \in Nat /\ mid - 1 <= Len(s)
        BY <1>2, <1>3, <2>1, <3>1
      <4>3. ASSUME NEW i \in DOMAIN s, s[i].addr = addr PROVE lo <= i /\ i <= mid - 1
        <5>1. ~(mid <= i)
          <6> SUFFICES ASSUME mid <= i PROVE FALSE
            OBVIOUS
          <6>1. s[mid].addr <= s[i].addr
            BY <1>3, <2>1 DEF Ascending
          <6> QED BY <1>3, <2>1, <2>3, <3>3, <4>3, <6>1
        <5>2. lo <= i
          BY <1>2, <4>3 DEF Narrow
        <5> QED BY <1>3, <2>1, <5>1, <5>2
      <4> QED BY <1>2, <2>1, <4>1, <4>2, <4>3 DEF Narrow
    <3> QED BY <3>2, <3>3
  <2> QED BY <2>2, <2>3
<1> QED BY <1>4, <1>5

LEMMA SearchFacts ==
  ASSUME NEW s \in Seq(Vrp), Ascending(s), NEW addr
  PROVE  \/ Search(s, addr) = 0 /\ \A i \in DOMAIN s : s[i].addr # addr
         \/ Search(s, addr) \in DOMAIN s /\ s[Search(s, addr)].addr = addr
<1> DEFINE R == Ranges(s, addr)
           N == Len(s)
           T == {n \in 0..N : Narrow(s, addr, R[n], n)}
<1>1. N \in Nat /\ DOMAIN s = 1..N
  BY LenProperties
<1>2. R[0] = <<1, N>> /\ \A n \in 1..N : R[n] = Half(s, addr, R[n-1])
  BY RangesUnfold
<1> HIDE DEF R
<1>3. 0 \in T
  <2>1. /\ <<1, N>> \in Nat \X Nat /\ N <= Len(s)
        /\ \A i \in DOMAIN s : 1 <= i /\ i <= N
        /\ N - 1 + 1 <= Len(s) - 0
    BY <1>1
  <2>2. Narrow(s, addr, <<1, N>>, 0)
    BY <2>1 DEF Narrow
  <2> QED BY <1>1, <1>2, <2>2
<1>4. ASSUME NEW n \in 1..N, n - 1 \in T PROVE n \in T
  <2>1. Narrow(s, addr, R[n-1], n - 1)
    BY <1>4
  <2>2. Narrow(s, addr, R[n], n)
    BY <1>2, <2>1, HalfNarrows
  <2> QED BY <1>1, <2>2
<1> HIDE DEF T
<1>5. 0..N \subseteq T
  BY <1>1, <1>3, <1>4, SetInduction
<1>6. Narrow(s, addr, R[N], N)
  BY <1>1, <1>5 DEF T
<1>7. PICK lo \in Nat, hi \in Nat : R[N] = <<lo, hi>>
  BY <1>6 DEF Narrow
<1>8. Search(s, addr) = IF lo > hi THEN 0 ELSE Middle(R[N])
  BY <1>7 DEF Search, R, N
<1>9. CASE lo > hi
  BY <1>1, <1>6, <1>7, <1>8, <1>9 DEF Narrow
<1>10. CASE lo <= hi
  <2>1. Middle(R[N]) \in DOMAIN s
    BY <1>1, <1>6, <1>7, <1>10 DEF Middle, Narrow
  <2>2. s[Middle(R[N])].addr = addr
    BY <1>1, <1>6, <1>7, <1>10 DEF Narrow
  <2> QED BY <1>8, <1>10, <2>1, <2>2
<1> QED BY <1>9, <1>10

(* What the walk to both sides meets: every VRP with this address.         *)
LEMMA BlockFacts ==
  ASSUME NEW s \in Seq(Vrp), Ascending(s), NEW addr
  PROVE  Block(s, addr) = {i \in DOMAIN s : s[i].addr = addr}
<1> DEFINE pos == Search(s, addr)
<1>1. Len(s) \in Nat /\ DOMAIN s = 1..Len(s) /\ \A i \in DOMAIN s : s[i].addr \in Nat
  BY EntryFacts
<1>2. \/ pos = 0 /\ \A i \in DOMAIN s : s[i].addr # addr
      \/ pos \in DOMAIN s /\ s[pos].addr = addr
  BY SearchFacts
<1> HIDE DEF pos
<1>3. Block(s, addr) =
        IF pos = 0 THEN {}
        ELSE {i \in DOMAIN s : \A j \in (i..pos) \cup (pos..i) : s[j].addr = addr}
  BY DEF Block, pos
<1>4. CASE pos = 0
  BY <1>1, <1>2, <1>3, <1>4
<1>5. CASE pos # 0
  <2>1. pos \in DOMAIN s /\ s[pos].addr = addr
    BY <1>2, <1>5
  <2>2. ASSUME NEW i \in DOMAIN s
        PROVE  (\A j \in (i..pos) \cup (pos..i) : s[j].addr = addr) <=> s[i].addr = addr
    <3>1. i \in (i..pos) \cup (pos..i)
      BY <1>1, <2>1
    <3>2. ASSUME s[i].addr = addr, NEW j \in (i..pos) \cup (pos..i)
          PROVE  s[j].addr = addr
      <4>1. j \in DOMAIN s /\ ((i <= j /\ j <= pos) \/ (pos <= j /\ j <= i))
        BY <1>1, <2>1
      <4>2. \A k, l \in DOMAIN s : k <= l => s[k].addr <= s[l].addr
        BY <1>1 DEF Ascending
      <4>3. \/ s[i].addr <= s[j].addr /\ s[j].addr <= s[pos].addr
            \/ s[pos].addr <= s[j].addr /\ s[j].addr <= s[i].addr
        BY <2>1, <4>1, <4>2
      <4> QED BY <1>1, <2>1, <3>2, <4>1, <4>3
    <3> QED BY <3>1, <3>2
  <2> QED BY <1>3, <1>5, <2>2
<1> QED BY <1>4, <1>5

-----------------------------------------------------------------------------
(* What a table is made of.                                                *)
Short(t) == Len(t["v4"]) + Len(t["v6"]) <= MaxVrps

LEMMA BuildFacts ==
  ASSUME NEW t \in Tables
  PROVE  /\ Build(t) \in Tables
         /\ [f \in Families |-> Sorted(Build(t)[f])] = Build(t)
         /\ \A f \in Families :
              LET s == Build(t)[f]
              IN  /\ Ascending(s)
                  /\ Values(s) \subseteq Values(t[f])
                  /\ \A v \in Values(t[f]) : \E w \in Values(s) : Same(w, v)
<1>1. ASSUME NEW f \in Families
      PROVE  LET s == Build(t)[f]
             IN  /\ s \in Seq(Vrp) /\ Ascending(s)
                 /\ Values(s) \subseteq Values(t[f])
                 /\ \A v \in Values(t[f]) : \E w \in Values(s) : Same(w, v)
                 /\ Sorted(s) = s
  <2> DEFINE u == Sorted(t[f])
             s == Dedup(u)
  <2>1. t[f] \in Seq(Vrp)
    BY DEF Tables
  <2>2. u \in Seq(Vrp) /\ Ascending(u) /\ Values(u) = Values(t[f])
    BY <2>1, SortedFacts
  <2> HIDE DEF u
  <2>3. /\ s \in Seq(Vrp) /\ Ascending(s) /\ Values(s) \subseteq Values(u)
        /\ \A v \in Values(u) : \E w \in Values(s) : Same(w, v)
    BY <2>2, DedupFacts
  <2>4. Build(t)[f] = s
    BY DEF Build, u
  <2> HIDE DEF s
  <2>5. Sorted(s) = s
    BY <2>3, SortedAgain
  <2> QED BY <2>2, <2>3, <2>4, <2>5
<1>2. Build(t) = [f \in Families |-> Build(t)[f]]
  BY DEF Build
<1>3. Build(t) \in Tables
  BY <1>1, <1>2 DEF Tables
<1>4. \A f \in Families : Sorted(Build(t)[f]) = Build(t)[f]
  BY <1>1
<1>5. [f \in Families |-> Sorted(Build(t)[f])] = [f \in Families |-> Build(t)[f]]
  BY <1>4
<1> QED BY <1>1, <1>2, <1>3, <1>5

LEMMA VrpType ==
  ASSUME NEW m \in Pdus, Accepted(m)
  PROVE  m.family \in Families /\ ToVrp(m) \in Vrp
<1>1. /\ m.family \in Families /\ m.addr \in Addresses /\ m.max \in Nat /\ m.asn \in Asns
      /\ m.len \in 1..Width
  BY InputAssumption DEF Pdu, Accepted
<1>2. m.len \in 0..Width /\ m.len \in Nat
  BY <1>1, WidthAssumption
<1>3. Network(m.addr, m.len) \in Addresses
  BY <1>1, <1>2, NetworkType
<1> QED BY <1>1, <1>2, <1>3 DEF ToVrp, Vrp

-----------------------------------------------------------------------------
(* The invariant.                                                          *)
Saving == {"create", "write", "sync", "rename"}

Whole(f) ==
  f \in [vrps: Tables, sent: Tables] /\ Short(f.sent) /\ f.vrps = Build(f.sent)

(* A dashboard that saves has built its table from its session, and the    *)
(* file is whole, also for one that is about to read it.                   *)
OfOneSession ==
  /\ file # NoFile => Whole(file)
  /\ \A p \in Dashboards : /\ pc[p] = "reading" => Whole(file)
                           /\ pc[p] \in Saving => table[p] = Build(sent[p])

IInv == TypeOK /\ OfOneSession /\ CacheIsOneSession

LEMMA InitInv == Init => IInv
<1> SUFFICES ASSUME Init PROVE IInv
  OBVIOUS
<1>1. NoTable \in Tables /\ Len(NoTable["v4"]) + Len(NoTable["v6"]) <= MaxVrps
  BY LimitAssumption DEF NoTable, Tables, Families
<1>2. TypeOK
  BY <1>1 DEF Init, TypeOK
<1>3. OfOneSession /\ CacheIsOneSession
  BY DEF Init, OfOneSession, CacheIsOneSession, FileIsWhole, Saving
<1> QED BY <1>2, <1>3 DEF IInv

LEMMA StepType ==
  ASSUME IInv, NEW p \in Dashboards,
         \/ Start(p) \/ ReadCache(p) \/ ReadFails(p)
         \/ SessionFails(p) \/ EndOfData(p) \/ Save(p) \/ Stop(p)
         \/ \E m \in Pdus : PrefixPdu(p, m)
  PROVE  TypeOK'
<1> DEFINE States == {"off", "reading", "session", "create", "write",
                      "sync", "rename", "running", "without"}
<1>1. NoTable \in Tables /\ Short(NoTable)
  BY LimitAssumption DEF NoTable, Tables, Families, Short
<1>2. /\ pc \in [Dashboards -> States]
      /\ sent \in [Dashboards -> Tables] /\ table \in [Dashboards -> Tables]
      /\ \A q \in Dashboards : Short(sent[q])
      /\ temp \in [Dashboards -> {"none", "partial", "whole"}]
      /\ file \in {NoFile} \cup [vrps: Tables, sent: Tables]
      /\ fresh \in BOOLEAN
  BY DEF IInv, TypeOK, Short
<1>3. sent[p] \in Tables /\ table[p] \in Tables
  BY <1>2
<1> SUFFICES /\ pc' \in [Dashboards -> States]
             /\ sent' \in [Dashboards -> Tables] /\ table' \in [Dashboards -> Tables]
             /\ \A q \in Dashboards : Short(sent'[q])
             /\ temp' \in [Dashboards -> {"none", "partial", "whole"}]
             /\ file' \in {NoFile} \cup [vrps: Tables, sent: Tables]
             /\ fresh' \in BOOLEAN
  BY DEF TypeOK, Short
<1>4. CASE Start(p)
  BY <1>2, <1>4 DEF Start, Go
<1>5. CASE ReadCache(p)
  <2>1. Whole(file)
    BY <1>5 DEF ReadCache, IInv, OfOneSession
  <2>2. file.sent \in Tables /\ Short(file.sent)
    BY <2>1 DEF Whole
  <2>3. [f \in Families |-> Sorted(file.vrps[f])] \in Tables
    BY <2>1, <2>2, BuildFacts DEF Whole
  <2> QED BY <1>2, <1>5, <2>2, <2>3 DEF ReadCache, Go
<1>6. CASE ReadFails(p)
  BY <1>2, <1>6 DEF ReadFails, Go
<1>7. CASE SessionFails(p)
  BY <1>1, <1>2, <1>7 DEF SessionFails, Go
<1>8. CASE EndOfData(p)
  <2>1. Build(sent[p]) \in Tables
    BY <1>3, BuildFacts
  <2> QED BY <1>2, <1>8, <2>1 DEF EndOfData, Go
<1>9. CASE Save(p)
  <2>1. CASE CreateTemp(p)
    BY <1>2, <2>1 DEF CreateTemp, Go
  <2>2. CASE WriteTemp(p)
    BY <1>2, <2>2 DEF WriteTemp, Go
  <2>3. CASE SyncTemp(p)
    BY <1>2, <2>3 DEF SyncTemp, Go
  <2>4. CASE Rename(p)
    BY <1>2, <1>3, <2>4 DEF Rename, Saved, Go
  <2>5. CASE SaveFails(p)
    BY <1>2, <2>5 DEF SaveFails, Go
  <2> QED BY <1>9, <2>1, <2>2, <2>3, <2>4, <2>5 DEF Save
<1>10. CASE Stop(p)
  BY <1>1, <1>2, <1>10 DEF Stop, Go
<1>11. ASSUME NEW m \in Pdus, PrefixPdu(p, m) PROVE TypeOK'
  <2>1. m.family \in Families /\ ToVrp(m) \in Vrp
    BY <1>11, VrpType DEF PrefixPdu
  <2>2. PICK t \in Tables : t = sent[p]
    BY <1>3
  <2>3. PICK u : u = [t EXCEPT ![m.family] = Append(@, ToVrp(m))]
    OBVIOUS
  <2>4. \A f \in Families : t[f] \in Seq(Vrp) /\ Len(t[f]) \in Nat
    BY LenProperties DEF Tables
  <2>5. u \in Tables
    BY <2>1, <2>2, <2>3, <2>4, AppendProperties DEF Tables
  <2>6. Short(u)
    <3>1. Len(Append(t[m.family], ToVrp(m))) = Len(t[m.family]) + 1
      BY <2>1, <2>4, AppendProperties
    <3>2. \A f \in Families : u[f] = IF f = m.family THEN Append(t[f], ToVrp(m)) ELSE t[f]
      BY <2>1, <2>2, <2>3 DEF Tables
    <3>3. \A f \in Families :
            Len(u[f]) = IF f = m.family THEN Len(t[f]) + 1 ELSE Len(t[f])
      BY <3>1, <3>2
    <3>4. Len(t["v4"]) + Len(t["v6"]) < MaxVrps
      BY <1>11, <2>2 DEF PrefixPdu, Received
    <3>5. "v4" \in Families /\ "v6" \in Families
      BY DEF Families
    <3>6. PICK a \in Nat, b \in Nat : a = Len(t["v4"]) /\ b = Len(t["v6"])
      BY <2>4, <3>5
    <3>7. /\ Len(u["v4"]) = IF m.family = "v4" THEN a + 1 ELSE a
          /\ Len(u["v6"]) = IF m.family = "v6" THEN b + 1 ELSE b
      BY <3>3, <3>5, <3>6
    <3>8. Len(u["v4"]) + Len(u["v6"]) = a + b + 1
      <4>1. CASE m.family = "v4"
        BY <3>7, <4>1
      <4>2. CASE m.family = "v6"
        BY <3>7, <4>2
      <4> QED BY <2>1, <4>1, <4>2 DEF Families
    <3>9. a + b < MaxVrps
      BY <3>4, <3>6
    <3>10. a + b + 1 <= MaxVrps
      BY <3>9, LimitAssumption
    <3> QED BY <3>8, <3>10 DEF Short
  <2>7. sent' = [sent EXCEPT ![p] = u]
    BY <1>2, <1>11, <2>2, <2>3 DEF PrefixPdu
  <2>8. sent' \in [Dashboards -> Tables] /\ \A q \in Dashboards : Short(sent'[q])
    BY <1>2, <2>5, <2>6, <2>7
  <2> QED BY <1>2, <1>11, <2>8 DEF PrefixPdu, TypeOK, Short
<1> QED
  BY <1>4, <1>5, <1>6, <1>7, <1>8, <1>9, <1>10, <1>11 DEF TypeOK, Short

LEMMA StepTables ==
  ASSUME IInv, NEW p \in Dashboards,
         \/ Start(p) \/ ReadCache(p) \/ ReadFails(p)
         \/ SessionFails(p) \/ EndOfData(p) \/ Save(p) \/ Stop(p)
         \/ \E m \in Pdus : PrefixPdu(p, m)
  PROVE  OfOneSession' /\ CacheIsOneSession'
<1>1. /\ DOMAIN pc = Dashboards /\ DOMAIN sent = Dashboards /\ DOMAIN table = Dashboards
      /\ sent[p] \in Tables /\ table[p] \in Tables /\ Short(sent[p])
  BY DEF IInv, TypeOK, Short
<1> USE DEF IInv, OfOneSession, CacheIsOneSession, FileIsWhole, Saving, Go
<1>2. CASE Start(p)
  BY <1>1, <1>2 DEF Start
<1>3. CASE ReadCache(p)
  <2>1. Whole(file) /\ file' = file
    BY <1>3 DEF ReadCache
  <2>2. sent'[p] = file.sent /\ table'[p] = [f \in Families |-> Sorted(file.vrps[f])]
    BY <1>1, <1>3 DEF ReadCache
  <2>3. table'[p] = Build(sent'[p])
    BY <2>1, <2>2, BuildFacts DEF Whole
  <2>4. \A q \in Dashboards \ {p} :
          pc'[q] = pc[q] /\ sent'[q] = sent[q] /\ table'[q] = table[q]
    BY <1>1, <1>3 DEF ReadCache
  <2>5. pc'[p] = "running"
    BY <1>1, <1>3 DEF ReadCache
  <2> QED BY <2>1, <2>3, <2>4, <2>5
<1>4. CASE ReadFails(p)
  BY <1>1, <1>4 DEF ReadFails
<1>5. CASE SessionFails(p)
  BY <1>1, <1>5 DEF SessionFails
<1>6. CASE EndOfData(p)
  BY <1>1, <1>6 DEF EndOfData
<1>7. CASE Save(p)
  <2>1. CASE CreateTemp(p)
    BY <1>1, <2>1 DEF CreateTemp
  <2>2. CASE WriteTemp(p)
    BY <1>1, <2>2 DEF WriteTemp
  <2>3. CASE SyncTemp(p)
    BY <1>1, <2>3 DEF SyncTemp
  <2>4. CASE Rename(p)
    <3>1. file' = [vrps |-> table[p], sent |-> sent[p]] /\ table[p] = Build(sent[p])
      BY <2>4 DEF Rename, Saved
    <3>2. file'.sent = sent[p] /\ file'.vrps = table[p]
      BY <3>1
    <3>3. Whole(file')
      BY <1>1, <3>1, <3>2 DEF Whole
    <3>4. file'.vrps = Build(file'.sent)
      BY <3>1, <3>2
    <3> QED BY <1>1, <2>4, <3>1, <3>3, <3>4 DEF Rename
  <2>5. CASE SaveFails(p)
    BY <1>1, <2>5 DEF SaveFails
  <2> QED BY <1>7, <2>1, <2>2, <2>3, <2>4, <2>5 DEF Save
<1>8. CASE Stop(p)
  BY <1>1, <1>8 DEF Stop
<1>9. CASE \E m \in Pdus : PrefixPdu(p, m)
  BY <1>1, <1>9 DEF PrefixPdu
<1> QED BY <1>2, <1>3, <1>4, <1>5, <1>6, <1>7, <1>8, <1>9

LEMMA NextInv == IInv /\ [Next]_vars => IInv'
<1> SUFFICES ASSUME IInv, [Next]_vars PROVE IInv'
  OBVIOUS
<1>1. CASE Age
  BY <1>1 DEF Age, IInv, TypeOK, OfOneSession, CacheIsOneSession, FileIsWhole
<1>2. CASE UNCHANGED vars
  BY <1>2 DEF vars, IInv, TypeOK, OfOneSession, CacheIsOneSession, FileIsWhole
<1> QED BY <1>1, <1>2, StepType, StepTables DEF Next, IInv

-----------------------------------------------------------------------------
(* Verdicts.                                                               *)
LEMMA CoveringFacts ==
  ASSUME NEW s \in Seq(Vrp), Ascending(s), NEW r \in Route
  PROVE  Covering(s, r) = {i \in DOMAIN s : Covers(s[i], r)}
<1>1. \A len : Exactly(s, r.addr, len) =
                 {i \in DOMAIN s : s[i].addr = Network(r.addr, len) /\ s[i].len = len}
  BY BlockFacts DEF Exactly
<1>2. r.len \in 0..Width /\ Width \in Nat
  BY WidthAssumption DEF Route
<1>3. \A i \in DOMAIN s : s[i].len \in 1..Width
  <2>1. \A v \in Vrp : v.len \in 1..Width
    BY DEF Vrp
  <2> QED BY <2>1, EntryFacts
<1>4. \A i : i \in Covering(s, r) <=>
               \E len \in 0..r.len : i \in DOMAIN s /\ s[i].addr = Network(r.addr, len)
                                     /\ s[i].len = len
  BY <1>1 DEF Covering
<1>5. ASSUME NEW i \in DOMAIN s PROVE i \in Covering(s, r) <=> Covers(s[i], r)
  <2>1. PICK l \in 1..Width : l = s[i].len
    BY <1>3
  <2>2. Covers(s[i], r) <=> l <= r.len /\ Network(r.addr, l) = s[i].addr
    BY <2>1 DEF Covers
  <2>3. i \in Covering(s, r) <=> l \in 0..r.len /\ s[i].addr = Network(r.addr, l)
    BY <1>4, <2>1
  <2>4. l \in 0..r.len <=> l <= r.len
    BY <1>2
  <2> QED BY <2>2, <2>3, <2>4
<1> QED BY <1>4, <1>5

(* What is told about a route with a table that was made from vrps.        *)
From(s, vrps) ==
  /\ s \in Seq(Vrp) /\ Ascending(s)
  /\ Values(s) \subseteq vrps
  /\ \A v \in vrps : \E w \in Values(s) : Same(w, v)

LEMMA JudgedFacts ==
  ASSUME IInv, NEW x \in Judged
  PROVE  /\ x[2] \in Route /\ x[2].family \in Families
         /\ From(table[x[1]][x[2].family], About(x[1], x[2]))
         /\ About(x[1], x[2]) \subseteq Vrp
<1> DEFINE p == x[1]
           r == x[2]
<1>1. p \in Dashboards /\ r \in Routes /\ pc[p] = "running" /\ r.family # NoValue
  BY DEF Judged
<1>2. r \in Route /\ r.family \in Families
  BY <1>1, InputAssumption DEF Route
<1>3. table[p] = Build(sent[p]) /\ sent[p] \in Tables
  BY <1>1 DEF IInv, CacheIsOneSession, TypeOK
<1>4. About(p, r) = Values(sent[p][r.family])
  BY DEF About, Values
<1>5. sent[p][r.family] \in Seq(Vrp)
  BY <1>2, <1>3 DEF Tables
<1>6. About(p, r) \subseteq Vrp
  BY <1>4, <1>5, EntryFacts DEF Values
<1> HIDE DEF p, r
<1>7. From(table[p][r.family], About(p, r))
  <2>1. Build(sent[p])[r.family] \in Seq(Vrp)
    BY <1>2, <1>3, BuildFacts DEF Tables
  <2> QED BY <1>2, <1>3, <1>4, <2>1, BuildFacts DEF From
<1> QED BY <1>2, <1>6, <1>7 DEF p, r

LEMMA CoveredBy ==
  ASSUME NEW vrps \in SUBSET Vrp, NEW s, From(s, vrps), NEW r \in Route
  PROVE  /\ \A i \in Covering(s, r) : i \in DOMAIN s /\ s[i] \in vrps /\ Covers(s[i], r)
         /\ \A v \in vrps : Covers(v, r) => \E i \in Covering(s, r) : Same(s[i], v)
<1>1. Covering(s, r) = {i \in DOMAIN s : Covers(s[i], r)}
  BY CoveringFacts DEF From
<1>2. \A i \in DOMAIN s : s[i] \in vrps
  BY DEF From, Values
<1>3. ASSUME NEW v \in vrps, Covers(v, r)
      PROVE  \E i \in Covering(s, r) : Same(s[i], v)
  <2>1. PICK i \in DOMAIN s : Same(s[i], v)
    BY DEF From, Values
  <2>2. Covers(s[i], r)
    BY <1>3, <2>1 DEF Same, Covers
  <2> QED BY <1>1, <2>1, <2>2
<1> QED BY <1>1, <1>2, <1>3

(* The expected origin is that of a VRP which authorises the prefix.       *)
LEMMA ExpectedFacts ==
  ASSUME NEW s \in Seq(Vrp), Ascending(s), NEW r \in Route, ExpectedAsn(s, r) # NoValue
  PROVE  \E i \in Covering(s, r) : s[i].max >= r.len /\ ExpectedAsn(s, r) = s[i].asn
<1> DEFINE long == {j \in Covering(s, r) : s[j].max >= r.len}
           asns == {s[i].asn : i \in long}
<1>1. ExpectedAsn(s, r) = IF Cardinality(asns) = 1 THEN CHOOSE a \in asns : TRUE
                                                   ELSE NoValue
  BY DEF ExpectedAsn
<1>2. Cardinality(asns) = 1 /\ ExpectedAsn(s, r) = CHOOSE a \in asns : TRUE
  BY <1>1
<1>3. asns # {}
  <2> HIDE DEF asns
  <2> QED BY <1>2, FS_EmptySet
<1>4. ExpectedAsn(s, r) \in asns
  <2> HIDE DEF asns
  <2> QED BY <1>2, <1>3
<1> QED BY <1>4

(* The maximal length shown is that of some covering VRP.                  *)
LEMMA MaxLenFacts ==
  ASSUME NEW s \in Seq(Vrp), Ascending(s), NEW r \in Route, Covering(s, r) # {}
  PROVE  \E i \in Covering(s, r) : FoundMaxLen(s, r) = s[i].max
<1> DEFINE lens == {len \in 0..r.len : Exactly(s, r.addr, len) # {}}
           most == CHOOSE len \in lens : \A other \in lens : other <= len
           here == Exactly(s, r.addr, most)
           i    == CHOOSE j \in here : \A k \in here : j <= k
<1>1. r.len \in Nat
  BY WidthAssumption DEF Route
<1>2. \A l \in 0..r.len : Exactly(s, r.addr, l) \subseteq Covering(s, r)
  BY DEF Covering
<1>3. lens # {}
  BY DEF Covering
<1>4. most \in lens
  <2> DEFINE T == {r.len - l : l \in lens}
  <2>1. T \subseteq Nat /\ T # {}
    <3>1. \A n \in Nat : \A l \in 0..n : n - l \in Nat
      OBVIOUS
    <3>2. lens \subseteq 0..r.len
      OBVIOUS
    <3> HIDE DEF lens
    <3> QED BY <1>1, <1>3, <3>1, <3>2
  <2>2. PICK n \in T : \A m \in T : n <= m
    <3> HIDE DEF T
    <3> QED BY <2>1, LeastMember
  <2>3. PICK l \in lens : n = r.len - l
    BY <2>2
  <2>4. \A other \in lens : other <= l
    <3> SUFFICES ASSUME NEW other \in lens PROVE other <= l
      OBVIOUS
    <3>1. r.len - l <= r.len - other
      BY <2>2, <2>3
    <3>2. l \in Nat /\ other \in Nat
      BY <1>1
    <3> HIDE DEF lens
    <3> QED BY <1>1, <3>1, <3>2
  <2> HIDE DEF lens
  <2> QED BY <2>3, <2>4
<1>5. here # {} /\ here \subseteq Covering(s, r)
  <2> HIDE DEF most
  <2> QED BY <1>2, <1>4
<1>6. Covering(s, r) \subseteq Nat
  <2>1. Covering(s, r) \subseteq DOMAIN s
    BY CoveringFacts
  <2> QED BY <2>1, EntryFacts
<1>7. i \in here
  <2> HIDE DEF here
  <2>1. here \subseteq Nat
    BY <1>5, <1>6
  <2>2. \E j \in here : \A k \in here : j <= k
    BY <1>5, <2>1, LeastMember
  <2> QED BY <2>2
<1>8. FoundMaxLen(s, r) = s[i].max
  BY <1>3 DEF FoundMaxLen
<1> HIDE DEF i, here
<1> QED BY <1>5, <1>7, <1>8

LEMMA VerdictsHold ==
  ASSUME IInv, NEW x \in Judged
  PROVE  LET r    == x[2]
             told == Validated(table[x[1]], r)
             vrps == {v \in About(x[1], r) : Covers(v, r)}
         IN  /\ told.status = "Valid" => \E v \in vrps : Authorizes(v, r)
             /\ told.status = "NotFound" <=> vrps = {}
             /\ told.status = "InvalidWrongAsn" =>
                  \E v \in vrps : v.asn # r.asn /\ r.len <= v.max
             /\ told.asn # NoValue =>
                  \E v \in vrps : told.asn = v.asn /\ v.asn # r.asn /\ r.len <= v.max
             /\ told.status = "InvalidTooLong" =>
                  \E v \in vrps : told.maxLen = v.max /\ v.max < r.len
<1> DEFINE r     == x[2]
           told  == Validated(table[x[1]], r)
           about == About(x[1], r)
           vrps  == {v \in about : Covers(v, r)}
           s     == table[x[1]][r.family]
           C     == Covering(s, r)
           long  == {i \in C : s[i].max >= r.len}
<1>1. /\ r \in Route /\ r.family \in Families /\ r.family # NoValue
      /\ From(s, about) /\ about \in SUBSET Vrp
  BY JudgedFacts, NoneAssumption
<1>2. /\ told.status = Verdict(s, r)
      /\ told.asn = IF told.status = "InvalidWrongAsn" THEN ExpectedAsn(s, r) ELSE NoValue
      /\ told.maxLen = IF told.status = "InvalidTooLong" THEN FoundMaxLen(s, r)
                                                         ELSE NoValue
  BY <1>1 DEF Validated
<1> HIDE DEF told, s, r, about
<1>3. /\ \A i \in C : i \in DOMAIN s /\ s[i] \in about /\ Covers(s[i], r)
      /\ \A v \in about : Covers(v, r) => \E i \in C : Same(s[i], v)
  BY <1>1, CoveredBy
<1>4. Verdict(s, r) = IF \E i \in long : s[i].asn = r.asn THEN "Valid"
                      ELSE IF long # {} THEN "InvalidWrongAsn"
                      ELSE IF C # {} THEN "InvalidTooLong"
                      ELSE "NotFound"
  BY DEF Verdict
<1> HIDE DEF C
<1>5. \A i \in C : s[i] \in vrps /\ s[i].max \in Nat
  <2>1. \A v \in Vrp : v.max \in Nat
    BY DEF Vrp
  <2> QED BY <1>1, <1>3, <2>1
<1>6. r.len \in Nat
  BY <1>1, WidthAssumption DEF Route
<1>7. \A i \in long : i \in C /\ r.len <= s[i].max
  BY <1>5, <1>6
<1>8. told.status = "Valid" => \E v \in vrps : Authorizes(v, r)
  <2> SUFFICES ASSUME told.status = "Valid" PROVE \E v \in vrps : Authorizes(v, r)
    OBVIOUS
  <2>1. PICK i \in long : s[i].asn = r.asn
    BY <1>2, <1>4
  <2>2. s[i] \in vrps /\ Authorizes(s[i], r)
    BY <1>3, <1>5, <1>7, <2>1 DEF Authorizes
  <2> QED BY <2>2
<1>9. told.status = "NotFound" <=> vrps = {}
  <2>1. told.status = "NotFound" <=> C = {}
    BY <1>2, <1>4
  <2>2. C = {} <=> vrps = {}
    BY <1>3, <1>5
  <2> QED BY <2>1, <2>2
<1>10. told.status = "InvalidWrongAsn" =>
         \E v \in vrps : v.asn # r.asn /\ r.len <= v.max
  <2> SUFFICES ASSUME told.status = "InvalidWrongAsn"
               PROVE  \E v \in vrps : v.asn # r.asn /\ r.len <= v.max
    OBVIOUS
  <2>1. long # {} /\ \A i \in long : s[i].asn # r.asn
    BY <1>2, <1>4
  <2>2. PICK i \in long : TRUE
    BY <2>1
  <2>3. s[i] \in vrps /\ s[i].asn # r.asn /\ r.len <= s[i].max
    BY <1>5, <1>7, <2>1
  <2> QED BY <2>3
<1>11. told.asn # NoValue =>
         \E v \in vrps : told.asn = v.asn /\ v.asn # r.asn /\ r.len <= v.max
  <2> SUFFICES ASSUME told.asn # NoValue
               PROVE  \E v \in vrps : told.asn = v.asn /\ v.asn # r.asn /\ r.len <= v.max
    OBVIOUS
  <2>1. told.status = "InvalidWrongAsn" /\ told.asn = ExpectedAsn(s, r)
    BY <1>2
  <2>2. \A i \in long : s[i].asn # r.asn
    BY <1>2, <1>4, <2>1
  <2>3. PICK i \in C : s[i].max >= r.len /\ told.asn = s[i].asn
    BY <1>1, <2>1, ExpectedFacts DEF C, From
  <2>4. i \in long
    BY <2>3
  <2>5. s[i] \in vrps /\ s[i].asn # r.asn /\ r.len <= s[i].max
    BY <1>5, <1>7, <2>2, <2>4
  <2> QED BY <2>3, <2>5
<1>12. told.status = "InvalidTooLong" =>
         \E v \in vrps : told.maxLen = v.max /\ v.max < r.len
  <2> SUFFICES ASSUME told.status = "InvalidTooLong"
               PROVE  \E v \in vrps : told.maxLen = v.max /\ v.max < r.len
    OBVIOUS
  <2>1. C # {} /\ long = {} /\ told.maxLen = FoundMaxLen(s, r)
    BY <1>2, <1>4
  <2>2. PICK i \in C : told.maxLen = s[i].max
    BY <1>1, <2>1, MaxLenFacts DEF C, From
  <2>3. ~(s[i].max >= r.len)
    BY <2>1
  <2>4. s[i] \in vrps /\ s[i].max < r.len
    BY <1>5, <1>6, <2>3
  <2> QED BY <2>2, <2>4
<1> HIDE DEF vrps
<1> QED BY <1>8, <1>9, <1>10, <1>11, <1>12 DEF told, r, vrps, about

LEMMA ShadowedHolds ==
  ASSUME IInv, NEW x \in Judged, NEW v \in About(x[1], x[2]), Authorizes(v, x[2])
  PROVE  \/ Validated(table[x[1]], x[2]).status = "Valid"
         \/ \E w \in About(x[1], x[2]) : Same(w, v) /\ w.max < x[2].len
<1> DEFINE r     == x[2]
           about == About(x[1], r)
           s     == table[x[1]][r.family]
<1>1. /\ r \in Route /\ r.family \in Families /\ r.family # NoValue
      /\ From(s, about) /\ about \in SUBSET Vrp
  BY JudgedFacts, NoneAssumption
<1>2. Validated(table[x[1]], r).status = Verdict(s, r)
  BY <1>1 DEF Validated
<1> HIDE DEF s, r, about
<1>3. v \in about /\ Covers(v, r) /\ v.asn = r.asn
  BY DEF Authorizes, r, about
<1>4. PICK i \in Covering(s, r) : Same(s[i], v) /\ s[i] \in about
  BY <1>1, <1>3, CoveredBy
<1>5. s[i].max \in Nat /\ r.len \in Nat
  <2>1. \A w \in Vrp : w.max \in Nat
    BY DEF Vrp
  <2> QED BY <1>1, <1>4, <2>1, WidthAssumption DEF Route
<1>6. CASE s[i].max >= r.len
  <2>1. Verdict(s, r) = "Valid"
    BY <1>3, <1>4, <1>6 DEF Verdict, Same
  <2> QED BY <1>2, <2>1 DEF r
<1>7. CASE ~(s[i].max >= r.len)
  <2>1. s[i].max < r.len
    BY <1>5, <1>7
  <2> QED BY <1>4, <2>1 DEF r, about
<1> QED BY <1>6, <1>7

-----------------------------------------------------------------------------
(* For any number of dashboards that refresh the shared cache at the same  *)
(* time, every variable keeps its type, and no session or file brings more *)
(* VRPs than the limit (rpki.rs:643, 672).                                 *)
THEOREM TypeCorrect == Spec => []TypeOK
<1>1. IInv => TypeOK
  BY DEF IInv
<1> QED BY InitInv, NextInv, <1>1, PTL DEF Spec

(* However many dashboards share the file and wherever they fail or die,   *)
(* it is never a mixture of sessions or a part of one, and nobody who      *)
(* validates does so with such a table (rpki.rs:485-523).                  *)
THEOREM OneSession == Spec => []CacheIsOneSession
<1>1. IInv => CacheIsOneSession
  BY DEF IInv
<1> QED BY InitInv, NextInv, <1>1, PTL DEF Spec

(* For every server, every number of VRPs and every width of an address, a *)
(* verdict and what is shown with it say what the accepted VRPs say:       *)
(* sorting, deduplication, the binary search and the walk from its result  *)
(* lose and invent nothing that matters (rpki.rs:188-319, 700-703).        *)
THEOREM VerdictsCorrect == Spec => []VerdictsSound
<1>1. IInv => VerdictsSound
  BY VerdictsHold DEF VerdictsSound
<1> QED BY InitInv, NextInv, <1>1, PTL DEF Spec

(* The only way an authorised route misses its Valid is that duplicates    *)
(* are recognised without their maximal length (rpki.rs:701).              *)
THEOREM OnlyDuplicatesDeny == Spec => []OnlyShadowedDenied
<1>1. IInv => OnlyShadowedDenied
  BY ShadowedHolds DEF OnlyShadowedDenied
<1> QED BY InitInv, NextInv, <1>1, PTL DEF Spec
=============================================================================
