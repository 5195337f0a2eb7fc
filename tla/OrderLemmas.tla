----------------------------- MODULE OrderLemmas -----------------------------
(* Lemmas that the proofs of several components rest on: induction and     *)
(* recursion over the naturals, the members of a finite ordered set one    *)
(* after the other, and sequences put one behind the other.                *)
EXTENDS Integers, Sequences, FiniteSets, SequencesExt, FiniteSetTheorems,
        SequenceTheorems, WellFoundedInduction, TLAPS

-----------------------------------------------------------------------------
(* Induction over the naturals, for a set instead of a predicate.          *)
LEMMA LeastMember ==
  ASSUME NEW T, T \subseteq Nat, T # {}
  PROVE  \E n \in T : \A m \in T : n <= m
<1> DEFINE R == OpToRel(<, Nat)
<1>1. IsWellFoundedOn(R, Nat)
  BY NatLessThanWellFounded
<1>2. \A x, y \in Nat : <<x, y>> \in R <=> x < y
  BY DEF OpToRel
<1> HIDE DEF R
<1>3. PICK n \in T : \A m \in T : <<m, n>> \notin R
  BY <1>1, WFMin
<1>4. ASSUME NEW m \in T PROVE n <= m
  <2>1. n \in Nat /\ m \in Nat /\ ~(m < n)
    BY <1>2, <1>3
  <2> QED BY <2>1
<1> QED BY <1>4

LEMMA SetInduction ==
  ASSUME NEW N \in Nat, NEW T, 0 \in T,
         \A n \in 1..N : n - 1 \in T => n \in T
  PROVE  0..N \subseteq T
<1> SUFFICES ASSUME (0..N) \ T # {} PROVE FALSE
  OBVIOUS
<1>1. (0..N) \ T \subseteq Nat
  OBVIOUS
<1>2. PICK n \in (0..N) \ T : \A m \in (0..N) \ T : n <= m
  BY <1>1, LeastMember
<1>3. n \in 1..N
  BY <1>2
<1>4. n - 1 \in 0..N /\ ~(n <= n - 1)
  BY <1>3
<1>5. n - 1 \in T
  BY <1>2, <1>4
<1> QED BY <1>2, <1>3, <1>5

(* Two functions on 0..N that start alike and continue alike are alike.    *)
SameUpTo(f, g, N) == \A n \in 0..N : f[n] = g[n]

LEMMA Agree ==
  ASSUME NEW N \in Nat, NEW f, NEW g, f[0] = g[0],
         \A n \in 1..N : f[n-1] = g[n-1] => f[n] = g[n]
  PROVE  SameUpTo(f, g, N)
<1> DEFINE T == {n \in 0..N : f[n] = g[n]}
<1>1. 0 \in T /\ \A n \in 1..N : n - 1 \in T => n \in T
  OBVIOUS
<1> HIDE DEF T
<1>2. 0..N \subseteq T
  BY <1>1, SetInduction
<1> QED BY <1>2 DEF T, SameUpTo

(* A recursion over 0..N whose steps are functions on S has a solution.    *)
Solves(f, N, base, step) ==
  f[0] = base /\ \A n \in 1..N : f[n] = step[n][f[n-1]]

LEMMA Recursion ==
  ASSUME NEW N \in Nat, NEW S, NEW base \in S, NEW step \in [1..N -> [S -> S]]
  PROVE  \E f \in [0..N -> S] : Solves(f, N, base, step)
<1> DEFINE T == {k \in 0..N : \E f \in [0..k -> S] : Solves(f, k, base, step)}
<1>1. 0 \in T
  <2> DEFINE g == [n \in 0..0 |-> base]
  <2>1. g \in [0..0 -> S] /\ Solves(g, 0, base, step)
    BY DEF Solves
  <2> HIDE DEF g
  <2>2. \E f \in [0..0 -> S] : Solves(f, 0, base, step)
    BY <2>1
  <2> QED BY <2>2
<1>2. ASSUME NEW k \in 1..N, k - 1 \in T PROVE k \in T
  <2>1. PICK f \in [0..(k-1) -> S] : Solves(f, k - 1, base, step)
    BY <1>2
  <2> DEFINE g == [n \in 0..k |-> IF n = k THEN step[k][f[k-1]] ELSE f[n]]
  <2>2. k - 1 \in 0..(k-1) /\ f[k-1] \in S
    BY <2>1
  <2>3. step[k][f[k-1]] \in S
    BY <2>2
  <2>4. g \in [0..k -> S]
    BY <2>1, <2>3
  <2>5. g[0] = base
    BY <2>1 DEF Solves
  <2>6. ASSUME NEW n \in 1..k PROVE g[n] = step[n][g[n-1]]
    <3>1. CASE n = k
      BY <3>1
    <3>2. CASE n # k
      <4>1. n \in 1..(k-1) /\ n \in 0..k /\ n - 1 \in 0..k /\ n - 1 # k
        BY <3>2
      <4>2. g[n] = f[n] /\ g[n-1] = f[n-1]
        BY <4>1, <3>2
      <4> QED BY <2>1, <4>1, <4>2 DEF Solves
    <3> QED BY <3>1, <3>2
  <2> HIDE DEF g
  <2>7. Solves(g, k, base, step)
    BY <2>5, <2>6 DEF Solves
  <2> QED BY <2>4, <2>7
<1> HIDE DEF T
<1>3. 0..N \subseteq T
  BY <1>1, <1>2, SetInduction
<1>4. N \in T
  BY <1>3
<1> QED BY <1>4 DEF T

(* It is the only one: what starts and continues as it does equals it.     *)
Continues(h, N, S, step) ==
  \A n \in 1..N : h[n-1] \in S => h[n] = step[n][h[n-1]]

LEMMA OnlySolution ==
  ASSUME NEW N \in Nat, NEW S, NEW base \in S, NEW step \in [1..N -> [S -> S]],
         NEW f \in [0..N -> S], Solves(f, N, base, step), NEW h,
         h[0] = base, Continues(h, N, S, step)
  PROVE  SameUpTo(h, f, N)
<1>1. f[0] = h[0]
  BY DEF Solves
<1>2. ASSUME NEW n \in 1..N, f[n-1] = h[n-1] PROVE f[n] = h[n]
  <2>1. n - 1 \in 0..N
    OBVIOUS
  <2>2. f[n-1] \in S
    BY <2>1
  <2>3. h[n] = step[n][h[n-1]]
    BY <1>2, <2>2 DEF Continues
  <2> QED BY <1>2, <2>3 DEF Solves
<1>3. SameUpTo(f, h, N)
  BY <1>1, <1>2, Agree
<1> QED BY <1>3 DEF SameUpTo

-----------------------------------------------------------------------------
(* The first k of a finite ordered set are k of them, or all.              *)
Orders(before, S) ==
  /\ before \in [S -> SUBSET S]
  /\ \A x \in S : x \notin before[x]
  /\ \A x \in S : \A y \in before[x] : before[y] \subseteq before[x]
  /\ \A x, y \in S : x # y => x \in before[y] \/ y \in before[x]

LEMMA RankGrows ==
  ASSUME NEW S, IsFiniteSet(S), NEW before, Orders(before, S)
  PROVE  /\ \A x \in S : Cardinality(before[x]) \in Nat
         /\ \A x \in S : Cardinality(before[x]) < Cardinality(S)
         /\ \A x \in S : \A y \in before[x] :
              Cardinality(before[y]) < Cardinality(before[x])
<1>1. /\ \A x \in S : before[x] \subseteq S /\ x \notin before[x]
      /\ \A x \in S : \A y \in before[x] : before[y] \subseteq before[x]
  BY DEF Orders
<1>2. \A x \in S : IsFiniteSet(before[x]) /\ Cardinality(before[x]) \in Nat
  BY <1>1, FS_Subset, FS_CardinalityType
<1>3. ASSUME NEW T, IsFiniteSet(T), NEW U, U \subseteq T, U # T
      PROVE  Cardinality(U) < Cardinality(T)
  <2>1. Cardinality(U) <= Cardinality(T) /\ Cardinality(T) # Cardinality(U)
    BY <1>3, FS_Subset
  <2>2. Cardinality(U) \in Nat /\ Cardinality(T) \in Nat
    BY <1>3, FS_Subset, FS_CardinalityType
  <2> QED BY <2>1, <2>2
<1>4. ASSUME NEW x \in S PROVE Cardinality(before[x]) < Cardinality(S)
  <2>1. before[x] # S
    BY <1>1
  <2> QED BY <1>1, <1>3, <2>1
<1>5. ASSUME NEW x \in S, NEW y \in before[x]
      PROVE  Cardinality(before[y]) < Cardinality(before[x])
  <2>1. y \in S /\ y \notin before[y]
    BY <1>1
  <2>2. before[y] # before[x]
    BY <2>1
  <2> QED BY <1>1, <1>2, <1>3, <2>2
<1> QED BY <1>2, <1>4, <1>5

(* The number of members in front of one: each of 0..n-1 once.             *)
LEMMA Ranks ==
  ASSUME NEW S, IsFiniteSet(S), NEW before, Orders(before, S)
  PROVE  LET n    == Cardinality(S)
             rank == [x \in S |-> Cardinality(before[x])]
         IN  /\ n \in Nat
             /\ rank \in [S -> 0..(n-1)]
             /\ \A x \in S : \A y \in before[x] : rank[y] < rank[x]
             /\ \A x, y \in S : rank[x] = rank[y] => x = y
             /\ \A r \in 0..(n-1) : \E x \in S : rank[x] = r
<1> DEFINE n    == Cardinality(S)
           rank == [x \in S |-> Cardinality(before[x])]
<1>1. /\ \A x \in S : rank[x] \in Nat /\ rank[x] < n
      /\ \A x \in S : \A y \in before[x] : rank[y] < rank[x]
  <2>1. \A x \in S : \A y \in before[x] : y \in S
    BY DEF Orders
  <2> QED BY <2>1, RankGrows
<1>2. n \in Nat
  BY FS_CardinalityType
<1>3. \A x, y \in S : rank[x] = rank[y] => x = y
  <2> SUFFICES ASSUME NEW x \in S, NEW y \in S, rank[x] = rank[y], x # y PROVE FALSE
    OBVIOUS
  <2>1. x \in before[y] \/ y \in before[x]
    BY DEF Orders
  <2>2. rank[x] < rank[y] \/ rank[y] < rank[x]
    BY <1>1, <2>1
  <2> HIDE DEF rank
  <2> QED BY <1>1, <2>2
<1>5. rank \in [S -> 0..(n-1)] /\ DOMAIN rank = S
  <2>1. \A x \in S : Cardinality(before[x]) \in 0..(n-1)
    BY <1>1, <1>2
  <2> QED BY <2>1
<1> HIDE DEF n, rank
<1>6. IsFiniteSet(0..(n-1)) /\ Cardinality(0..(n-1)) = n
  <2>1. n - 1 \in Int
    BY <1>2
  <2>2. /\ IsFiniteSet(0..(n-1))
        /\ Cardinality(0..(n-1)) = IF 0 > n - 1 THEN 0 ELSE (n - 1) - 0 + 1
    BY <2>1, FS_Interval
  <2>3. (IF 0 > n - 1 THEN 0 ELSE (n - 1) - 0 + 1) = n
    BY <1>2
  <2> QED BY <2>2, <2>3
<1>7. \A r \in 0..(n-1) : \E x \in S : rank[x] = r
  <2>1. rank \in Injection(S, 0..(n-1))
    BY <1>3, <1>5 DEF Injection, IsInjective
  <2>2. rank \in Surjection(S, 0..(n-1))
    BY <1>6, <2>1, FS_Injection DEF n
  <2> QED BY <2>2 DEF Surjection
<1> QED BY <1>1, <1>2, <1>3, <1>5, <1>7 DEF n, rank

(* Every rank is taken, and the first member has nothing in front of it.   *)
LEMMA EveryRank ==
  ASSUME NEW S, IsFiniteSet(S), NEW before, Orders(before, S)
  PROVE  \A r \in 0..(Cardinality(S) - 1) : \E x \in S : Cardinality(before[x]) = r
<1> DEFINE n    == Cardinality(S)
           rank == [x \in S |-> Cardinality(before[x])]
<1>1. /\ n \in Nat /\ rank \in [S -> 0..(n-1)]
      /\ \A x, y \in S : rank[x] = rank[y] => x = y
      /\ \A r \in 0..(n-1) : \E x \in S : rank[x] = r
  BY Ranks
<1> HIDE DEF n
<1>2. \A r \in 0..(n-1) : \E x \in S : Cardinality(before[x]) = r
  BY <1>1
<1> QED BY <1>2 DEF n

LEMMA FirstMember ==
  ASSUME NEW S, IsFiniteSet(S), S # {}, NEW before, Orders(before, S)
  PROVE  /\ \E x \in S : Cardinality(before[x]) = 0
         /\ \A x \in S : Cardinality(before[x]) = 0 => before[x] = {}
<1>1. Cardinality(S) \in Nat /\ Cardinality(S) # 0
  BY FS_CardinalityType, FS_EmptySet
<1>2. 0 \in 0..(Cardinality(S) - 1)
  BY <1>1
<1>3. ASSUME NEW x \in S, Cardinality(before[x]) = 0 PROVE before[x] = {}
  <2>1. before[x] \subseteq S
    BY DEF Orders
  <2>2. IsFiniteSet(before[x])
    BY <2>1, FS_Subset
  <2> QED BY <1>3, <2>2, FS_EmptySet
<1> QED BY <1>2, <1>3, EveryRank

LEMMA FirstRanked ==
  ASSUME NEW S, IsFiniteSet(S), NEW before, Orders(before, S), NEW k \in Nat
  PROVE  Cardinality({x \in S : Cardinality(before[x]) < k})
           = IF Cardinality(S) <= k THEN Cardinality(S) ELSE k
<1> DEFINE n    == Cardinality(S)
           rank == [x \in S |-> Cardinality(before[x])]
<1>1. /\ n \in Nat /\ rank \in [S -> 0..(n-1)]
      /\ \A x, y \in S : rank[x] = rank[y] => x = y
      /\ \A r \in 0..(n-1) : \E x \in S : rank[x] = r
  BY Ranks
<1>2. n \in Nat
  BY <1>1
<1>3. \A x, y \in S : rank[x] = rank[y] => x = y
  BY <1>1
<1>4. {x \in S : Cardinality(before[x]) < k} = {x \in S : rank[x] < k}
  OBVIOUS
<1>5. \A x \in S : rank[x] \in Nat /\ rank[x] < n
  BY <1>1
<1> HIDE DEF n, rank
<1>7. \A r \in 0..(n-1) : \E x \in S : rank[x] = r
  BY <1>1
<1> DEFINE first == {x \in S : rank[x] < k}
           m     == IF n <= k THEN n ELSE k
<1>8. /\ m \in Nat /\ \A r \in Nat : r < m <=> r < n /\ r < k
  BY <1>2
<1>9. ExistsBijection(first, 0..(m-1))
  <2> DEFINE f == [x \in first |-> rank[x]]
  <2>1. \A x \in first : rank[x] \in 0..(m-1)
    BY <1>5, <1>8
  <2>2. f \in [first -> 0..(m-1)]
    BY <2>1
  <2>3. \A x, y \in first : f[x] = f[y] => x = y
    BY <1>3
  <2>4. \A r \in 0..(m-1) : \E x \in first : f[x] = r
    <3> SUFFICES ASSUME NEW r \in 0..(m-1) PROVE \E x \in first : f[x] = r
      OBVIOUS
    <3>1. r \in 0..(n-1) /\ r < k
      <4> HIDE DEF m
      <4> QED BY <1>2, <1>8
    <3>2. PICK x \in S : rank[x] = r
      BY <1>7, <3>1
    <3>3. x \in first
      BY <3>1, <3>2
    <3> QED BY <3>2, <3>3
  <2> HIDE DEF f, first, m
  <2>5. f \in Bijection(first, 0..(m-1))
    BY <2>2, <2>3, <2>4 DEF Bijection, Injection, Surjection, IsInjective
  <2> QED BY <2>5 DEF ExistsBijection
<1>10. Cardinality(first) = m
  <2>1. IsFiniteSet(first)
    BY FS_Subset
  <2> HIDE DEF first, m
  <2>2. Cardinality(0..(m-1)) = Cardinality(first)
    BY <1>9, <2>1, FS_Bijection
  <2>3. m - 1 \in Int
    BY <1>8
  <2>4. Cardinality(0..(m-1)) = IF 0 > m - 1 THEN 0 ELSE (m - 1) - 0 + 1
    BY <2>3, FS_Interval
  <2>5. (IF 0 > m - 1 THEN 0 ELSE (m - 1) - 0 + 1) = m
    BY <1>8
  <2> QED BY <2>2, <2>4, <2>5
<1> QED BY <1>4, <1>10 DEF n

-----------------------------------------------------------------------------
(* The recursion in FlattenSeq, unfolded.                                  *)
Joins(e, s, n) == e[1] = s[1] /\ \A i \in 2..n : e[i] = e[i-1] \o s[i]

LEMMA FlattenUnfold ==
  ASSUME NEW S, NEW s \in Seq(Seq(S)), Len(s) > 0
  PROVE  \E e \in [1..Len(s) -> Seq(S)] :
           FlattenSeq(s) = e[Len(s)] /\ Joins(e, s, Len(s))
<1> DEFINE N    == Len(s)
           T    == Seq(S)
           step == [i \in 1..N |-> [v \in T |-> v \o s[i]]]
           Def(g) == [i \in 1..N |-> IF i = 1 THEN s[i] ELSE g[i-1] \o s[i]]
           e    == CHOOSE g : g = Def(g)
<1>1. N \in Nat /\ N > 0 /\ \A i \in 1..N : s[i] \in T
  BY LenProperties, ElementOfSeq
<1>2. FlattenSeq(s) = e[N]
  BY <1>1 DEF FlattenSeq
<1>3. <<>> \in T
  BY EmptySeq
<1>4. \A i \in 1..N : \A v \in T : step[i][v] = v \o s[i]
  OBVIOUS
<1>5. step \in [1..N -> [T -> T]]
  <2>1. \A i \in 1..N : \A v \in T : v \o s[i] \in T
    BY <1>1, ConcatProperties
  <2> QED BY <2>1
<1> HIDE DEF T, step, N
<1>6. PICK f \in [0..N -> T] : Solves(f, N, <<>>, step)
  BY <1>1, <1>3, <1>5, Recursion
<1>7. ASSUME NEW i \in 1..N PROVE f[i-1] \in T /\ f[i] = f[i-1] \o s[i]
  <2>1. i - 1 \in 0..N
    BY <1>1
  <2>2. f[i-1] \in T /\ f[i] = step[i][f[i-1]]
    BY <1>6, <2>1 DEF Solves
  <2> QED BY <1>4, <2>2
<1>8. f[1] = s[1]
  <2>1. 1 \in 1..N
    BY <1>1
  <2>2. f[1] = <<>> \o s[1]
    <3>1. f[1] = f[1 - 1] \o s[1]
      BY <1>7, <2>1
    <3>2. 1 - 1 = 0
      OBVIOUS
    <3> QED BY <1>6, <3>1, <3>2 DEF Solves
  <2>3. s[1] \in Seq(S)
    BY <1>1, <2>1 DEF T
  <2> QED BY <2>2, <2>3, ConcatEmptySeq
<1> DEFINE h == [i \in 1..N |-> f[i]]
<1>9. h = Def(h)
  <2>1. ASSUME NEW i \in 1..N
        PROVE  f[i] = IF i = 1 THEN s[i] ELSE h[i-1] \o s[i]
    <3>1. CASE i = 1
      BY <1>8, <3>1
    <3>2. CASE i # 1
      <4>1. i - 1 \in 1..N
        BY <1>1, <3>2
      <4>2. h[i-1] = f[i-1]
        BY <4>1
      <4> QED BY <1>7, <3>2, <4>2
    <3> QED BY <3>1, <3>2
  <2> QED BY <2>1
<1>10. e = Def(e)
  BY <1>9
<1> HIDE DEF e, h
<1>11. ASSUME NEW i \in 1..N PROVE e[i] = IF i = 1 THEN s[i] ELSE e[i-1] \o s[i]
  BY <1>10
<1>12. SameUpTo([k \in 0..(N-1) |-> e[k+1]], [k \in 0..(N-1) |-> f[k+1]], N - 1)
  <2> DEFINE a == [k \in 0..(N-1) |-> e[k+1]]
             b == [k \in 0..(N-1) |-> f[k+1]]
  <2>1. a[0] = e[1] /\ b[0] = f[1] /\ 1 \in 1..N /\ N - 1 \in Nat
    BY <1>1
  <2>2. a[0] = b[0]
    BY <1>8, <1>11, <2>1
  <2>3. ASSUME NEW n \in 1..(N-1), a[n-1] = b[n-1] PROVE a[n] = b[n]
    <3>1. n \in 0..(N-1) /\ n - 1 \in 0..(N-1) /\ n + 1 \in 1..N /\ n + 1 # 1
          /\ (n - 1) + 1 = n /\ (n + 1) - 1 = n
      BY <1>1
    <3>2. a[n] = e[n+1] /\ b[n] = f[n+1] /\ a[n-1] = e[n] /\ b[n-1] = f[n]
      BY <3>1
    <3>3. e[n+1] = e[n] \o s[n+1] /\ f[n+1] = f[n] \o s[n+1]
      BY <1>7, <1>11, <3>1
    <3> QED BY <2>3, <3>2, <3>3
  <2> HIDE DEF a, b
  <2>4. SameUpTo(a, b, N - 1)
    BY <2>1, <2>2, <2>3, Agree
  <2> QED BY <2>4 DEF a, b
<1>13. \A i \in 1..N : e[i] = f[i]
  <2> SUFFICES ASSUME NEW i \in 1..N PROVE e[i] = f[i]
    OBVIOUS
  <2>1. i - 1 \in 0..(N-1) /\ (i - 1) + 1 = i
    BY <1>1
  <2> QED BY <1>12, <2>1 DEF SameUpTo
<1>14. e \in [1..N -> T]
  BY <1>6, <1>10, <1>13
<1>15. Joins(e, s, N)
  <2>1. 1 \in 1..N /\ \A i \in 2..N : i \in 1..N /\ i # 1
    BY <1>1
  <2> QED BY <1>11, <2>1 DEF Joins
<1> QED BY <1>2, <1>14, <1>15 DEF N, T

(* One more sequence is appended.                                          *)
LEMMA FlattenStep ==
  ASSUME NEW S, NEW s \in Seq(Seq(S)), NEW n \in 1..Len(s)
  PROVE  /\ FlattenSeq(SubSeq(s, 1, n - 1)) \in Seq(S)
         /\ FlattenSeq(SubSeq(s, 1, n)) = FlattenSeq(SubSeq(s, 1, n - 1)) \o s[n]
<1>1. /\ Len(s) \in Nat /\ \A i \in 1..Len(s) : s[i] \in Seq(S)
  BY LenProperties, ElementOfSeq
<1>2. ASSUME NEW m \in 0..Len(s)
      PROVE  /\ SubSeq(s, 1, m) \in Seq(Seq(S)) /\ Len(SubSeq(s, 1, m)) = m
             /\ \A i \in 1..m : SubSeq(s, 1, m)[i] = s[i]
  <2>1. m \in Int /\ \A i \in 1..m : s[i] \in Seq(S)
    BY <1>1
  <2>2. /\ SubSeq(s, 1, m) \in Seq(Seq(S))
        /\ Len(SubSeq(s, 1, m)) = IF 1 <= m THEN m - 1 + 1 ELSE 0
        /\ \A i \in 1..(m - 1 + 1) : SubSeq(s, 1, m)[i] = s[1 + i - 1]
    BY <2>1, SubSeqProperties
  <2>3. (IF 1 <= m THEN m - 1 + 1 ELSE 0) = m /\ m - 1 + 1 = m
    OBVIOUS
  <2>4. \A i \in 1..m : 1 + i - 1 = i
    OBVIOUS
  <2> QED BY <2>2, <2>3, <2>4
<1>3. PICK e \in [1..n -> Seq(S)] :
        FlattenSeq(SubSeq(s, 1, n)) = e[n] /\ Joins(e, s, n)
  <2>1. n \in 0..Len(s) /\ n > 0
    BY <1>1
  <2> DEFINE t == SubSeq(s, 1, n)
  <2>2. t \in Seq(Seq(S)) /\ Len(t) = n /\ \A i \in 1..n : t[i] = s[i]
    BY <1>2, <2>1
  <2> HIDE DEF t
  <2>3. PICK e \in [1..n -> Seq(S)] : FlattenSeq(t) = e[n] /\ Joins(e, t, n)
    BY <2>1, <2>2, FlattenUnfold
  <2>4. 1 \in 1..n /\ \A i \in 2..n : i \in 1..n
    BY <2>1
  <2>5. Joins(e, s, n)
    BY <2>2, <2>3, <2>4 DEF Joins
  <2> QED BY <2>3, <2>5 DEF t
<1>4. CASE n = 1
  <2>1. SubSeq(s, 1, n - 1) = <<>>
    BY <1>4, SubSeqEmpty
  <2>2. FlattenSeq(<<>>) = <<>>
    BY DEF FlattenSeq
  <2>3. s[1] \in Seq(S) /\ <<>> \o s[1] = s[1] /\ <<>> \in Seq(S)
    BY <1>1, <1>4, ConcatEmptySeq, EmptySeq
  <2> QED BY <1>3, <1>4, <2>1, <2>2, <2>3 DEF Joins
<1>5. CASE n # 1
  <2> DEFINE m == n - 1
             t == SubSeq(s, 1, m)
  <2>1. m \in 0..Len(s) /\ m > 0 /\ m \in Nat /\ n = m + 1
    BY <1>1, <1>5
  <2>2. t \in Seq(Seq(S)) /\ Len(t) = m /\ \A i \in 1..m : t[i] = s[i]
    BY <1>2, <2>1
  <2> HIDE DEF t, m
  <2>3. PICK d \in [1..m -> Seq(S)] : FlattenSeq(t) = d[m] /\ Joins(d, t, m)
    BY <2>1, <2>2, FlattenUnfold
  <2> DEFINE a == [k \in 0..(m-1) |-> d[k+1]]
             b == [k \in 0..(m-1) |-> e[k+1]]
  <2>4. a[0] = b[0] /\ m - 1 \in Nat
    <3>1. 1 \in 1..m /\ 0 \in 0..(m-1) /\ m - 1 \in Nat
      BY <2>1
    <3>2. a[0] = d[1] /\ b[0] = e[1]
      BY <3>1
    <3> QED BY <1>3, <2>2, <2>3, <3>1, <3>2 DEF Joins
  <2>5. ASSUME NEW k \in 1..(m-1), a[k-1] = b[k-1] PROVE a[k] = b[k]
    <3>1. k \in 0..(m-1) /\ k - 1 \in 0..(m-1) /\ k + 1 \in 2..m /\ k + 1 \in 2..n
          /\ (k - 1) + 1 = k /\ (k + 1) - 1 = k /\ k + 1 \in 1..m
      BY <2>1
    <3>2. a[k] = d[k+1] /\ b[k] = e[k+1] /\ a[k-1] = d[k] /\ b[k-1] = e[k]
      BY <3>1
    <3>3. d[k+1] = d[k] \o t[k+1] /\ e[k+1] = e[k] \o s[k+1] /\ t[k+1] = s[k+1]
      BY <1>3, <2>2, <2>3, <3>1 DEF Joins
    <3> QED BY <2>5, <3>2, <3>3
  <2> HIDE DEF a, b
  <2>6. SameUpTo(a, b, m - 1)
    BY <2>4, <2>5, Agree
  <2>7. d[m] = e[m]
    <3>1. m - 1 \in 0..(m-1) /\ (m - 1) + 1 = m
      BY <2>1
    <3> QED BY <2>6, <3>1 DEF SameUpTo, a, b
  <2>8. e[n] = e[m] \o s[n] /\ d[m] \in Seq(S)
    <3>1. n \in 2..n /\ n - 1 = m /\ m \in 1..m
      BY <2>1
    <3> QED BY <1>3, <2>3, <3>1 DEF Joins
  <2> QED BY <1>3, <2>3, <2>7, <2>8 DEF t, m
<1> QED BY <1>4, <1>5
=============================================================================
