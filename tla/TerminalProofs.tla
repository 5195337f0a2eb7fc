---------------------------- MODULE TerminalProofs ----------------------------
(***************************************************************************)
(* The two screens of the program, for every list of collectors, every     *)
(* stream of messages, whatever the caps and the size of the terminal.     *)
(* Dashboard: the bounded maps hold exact counts, the panels lead with     *)
(* what they claim to, and the terminal is given back.  Stream browser,    *)
(* from "The browser's model" on: the two panes agree until a collector is *)
(* clicked, a selected row is in its pane, and what was clicked is what    *)
(* opens.                                                                  *)
(***************************************************************************)
EXTENDS Dashboard, Browser, OrderLemmas, SequenceTheorems, TLAPS

-----------------------------------------------------------------------------
(* Bounded maps.                                                           *)

BoundedMaps(K, V, cap) ==
  {map \in UNION {[D -> V] : D \in SUBSET K} :
     IsFiniteSet(DOMAIN map) /\ Cardinality(DOMAIN map) <= cap}

LEMMA MapFacts ==
  ASSUME NEW K, NEW V, NEW cap, NEW map
  PROVE  map \in BoundedMaps(K, V, cap) <=>
           /\ DOMAIN map \subseteq K /\ map \in [DOMAIN map -> V]
           /\ IsFiniteSet(DOMAIN map) /\ Cardinality(DOMAIN map) <= cap
<1>1. ASSUME map \in BoundedMaps(K, V, cap)
      PROVE  /\ DOMAIN map \subseteq K /\ map \in [DOMAIN map -> V]
             /\ IsFiniteSet(DOMAIN map) /\ Cardinality(DOMAIN map) <= cap
  <2>1. PICK D \in SUBSET K : map \in [D -> V]
    BY <1>1 DEF BoundedMaps
  <2> QED BY <1>1, <2>1 DEF BoundedMaps
<1>2. ASSUME DOMAIN map \subseteq K, map \in [DOMAIN map -> V],
             IsFiniteSet(DOMAIN map), Cardinality(DOMAIN map) <= cap
      PROVE  map \in BoundedMaps(K, V, cap)
  BY <1>2 DEF BoundedMaps
<1> QED BY <1>1, <1>2

LEMMA NoKeys ==
  ASSUME NEW K, NEW V, NEW cap \in Nat
  PROVE  <<>> \in BoundedMaps(K, V, cap) /\ DOMAIN <<>> = {}
<1>1. DOMAIN <<>> = {} /\ <<>> \in [{} -> V]
  OBVIOUS
<1>2. IsFiniteSet({}) /\ Cardinality({}) <= cap
  BY FS_EmptySet
<1> QED BY <1>1, <1>2, MapFacts

(* One key is inserted, unless the map is full.                            *)
LEMMA Inserted ==
  ASSUME NEW K, NEW V, NEW cap \in Nat, NEW map \in BoundedMaps(K, V, cap),
         NEW k \in K, NEW v \in V
  PROVE  LET new == InsertBounded(map, k, v, cap)
         IN  /\ new \in BoundedMaps(K, V, cap)
             /\ DOMAIN map \subseteq DOMAIN new
             /\ DOMAIN new \subseteq DOMAIN map \cup {k}
             /\ \A x \in DOMAIN new : new[x] = IF x = k THEN v ELSE map[x]
             /\ k \in DOMAIN new \/ (new = map /\ Cardinality(DOMAIN map) = cap)
<1> DEFINE new == InsertBounded(map, k, v, cap)
<1>1. /\ DOMAIN map \subseteq K /\ map \in [DOMAIN map -> V]
      /\ IsFiniteSet(DOMAIN map) /\ Cardinality(DOMAIN map) <= cap
  BY MapFacts
<1>2. Cardinality(DOMAIN map) \in Nat
  BY <1>1, FS_CardinalityType
<1>3. CASE Writable(map, k, cap)
  <2>1. new = [x \in DOMAIN map \cup {k} |-> IF x = k THEN v ELSE map[x]]
    BY <1>3 DEF InsertBounded
  <2>2. DOMAIN new = DOMAIN map \cup {k}
    BY <2>1
  <2>3. \A x \in DOMAIN new : new[x] = IF x = k THEN v ELSE map[x]
    BY <2>1
  <2>4. new \in [DOMAIN new -> V]
    BY <1>1, <2>1, <2>2
  <2>5. IsFiniteSet(DOMAIN new) /\ Cardinality(DOMAIN new) <= cap
    <3>1. /\ IsFiniteSet(DOMAIN map \cup {k})
          /\ Cardinality(DOMAIN map \cup {k}) =
               IF k \in DOMAIN map THEN Cardinality(DOMAIN map)
               ELSE Cardinality(DOMAIN map) + 1
      BY <1>1, FS_AddElement
    <3> QED BY <1>1, <1>2, <1>3, <2>2, <3>1 DEF Writable
  <2>6. DOMAIN new \subseteq K
    BY <1>1, <2>2
  <2> HIDE DEF new
  <2>7. new \in BoundedMaps(K, V, cap)
    BY <2>4, <2>5, <2>6, MapFacts
  <2> QED BY <2>2, <2>3, <2>7 DEF new
<1>4. CASE ~Writable(map, k, cap)
  <2>1. new = map /\ k \notin DOMAIN map
    BY <1>4 DEF InsertBounded, Writable
  <2>2. Cardinality(DOMAIN map) = cap
    BY <1>1, <1>2, <1>4 DEF Writable
  <2> HIDE DEF new
  <2> QED BY <2>1, <2>2 DEF new
<1> QED BY <1>3, <1>4

(* What is counted for every key, and what a bounded map holds of it.      *)
Tally(map, count, K, cap) ==
  /\ count \in [K -> Nat]
  /\ map \in BoundedMaps(K, Nat, cap)
  /\ \A x \in DOMAIN map : map[x] = count[x]
  /\ \A x \in K : count[x] > 0 => x \in DOMAIN map \/ Cardinality(DOMAIN map) = cap

LEMMA BumpIsMap ==
  ASSUME NEW K, NEW cap \in Nat, NEW map \in BoundedMaps(K, Nat, cap),
         NEW k \in K, NEW n \in Nat
  PROVE  BumpCount(map, k, n, cap) \in BoundedMaps(K, Nat, cap)
<1> DEFINE v == n + (IF k \in DOMAIN map THEN map[k] ELSE 0)
<1>1. v \in Nat
  <2>1. map \in [DOMAIN map -> Nat]
    BY MapFacts
  <2>2. k \in DOMAIN map => map[k] \in Nat
    BY <2>1
  <2> QED BY <2>2
<1>2. BumpCount(map, k, n, cap) = InsertBounded(map, k, v, cap)
  BY DEF BumpCount
<1> HIDE DEF v
<1> QED BY <1>1, <1>2, Inserted

LEMMA BumpTally ==
  ASSUME NEW K, NEW cap \in Nat, NEW map, NEW count, Tally(map, count, K, cap),
         NEW k \in K, NEW n \in Nat, NEW more \in [K -> Nat],
         \A x \in K : more[x] = count[x] + IF x = k THEN n ELSE 0
  PROVE  Tally(BumpCount(map, k, n, cap), more, K, cap)
<1> DEFINE v   == n + (IF k \in DOMAIN map THEN map[k] ELSE 0)
           new == InsertBounded(map, k, v, cap)
<1>1. /\ count \in [K -> Nat]
      /\ map \in BoundedMaps(K, Nat, cap)
      /\ \A x \in DOMAIN map : map[x] = count[x]
      /\ \A x \in K : count[x] > 0 => x \in DOMAIN map \/ Cardinality(DOMAIN map) = cap
  BY DEF Tally
<1>2. /\ DOMAIN map \subseteq K /\ map \in [DOMAIN map -> Nat]
      /\ IsFiniteSet(DOMAIN map) /\ Cardinality(DOMAIN map) <= cap
  BY <1>1, MapFacts
<1>3. v \in Nat
  BY <1>2
<1>4. BumpCount(map, k, n, cap) = new
  BY DEF BumpCount
<1>5. \A x \in K : count[x] \in Nat
  BY <1>1
<1>6. v = more[k] \/ (k \notin DOMAIN map /\ Cardinality(DOMAIN map) = cap)
  <2>1. CASE k \in DOMAIN map
    BY <1>1, <1>5, <2>1
  <2>2. CASE k \notin DOMAIN map /\ ~(count[k] > 0)
    <3>1. count[k] = 0
      BY <1>5, <2>2
    <3> QED BY <2>2, <3>1
  <2>3. CASE k \notin DOMAIN map /\ count[k] > 0
    BY <1>1, <2>3
  <2> QED BY <2>1, <2>2, <2>3
<1> HIDE DEF v
<1>7. /\ new \in BoundedMaps(K, Nat, cap)
      /\ DOMAIN map \subseteq DOMAIN new
      /\ DOMAIN new \subseteq DOMAIN map \cup {k}
      /\ \A x \in DOMAIN new : new[x] = IF x = k THEN v ELSE map[x]
      /\ k \in DOMAIN new \/ (new = map /\ Cardinality(DOMAIN map) = cap)
  BY <1>1, <1>3, Inserted
<1>8. ASSUME k \notin DOMAIN map, Cardinality(DOMAIN map) = cap
      PROVE  new = map
  <2>1. ~Writable(map, k, cap)
    BY <1>8 DEF Writable
  <2> QED BY <2>1 DEF InsertBounded
<1> HIDE DEF new
<1>9. IsFiniteSet(DOMAIN new) /\ Cardinality(DOMAIN new) <= cap
  BY <1>7, MapFacts
<1>10. Cardinality(DOMAIN map) = cap => Cardinality(DOMAIN new) = cap
  <2>1. Cardinality(DOMAIN map) <= Cardinality(DOMAIN new)
    BY <1>7, <1>9, FS_Subset
  <2>2. Cardinality(DOMAIN new) \in Nat
    BY <1>9, FS_CardinalityType
  <2> QED BY <1>9, <2>1, <2>2
<1>11. ASSUME NEW x \in DOMAIN new PROVE new[x] = more[x]
  <2>1. x \in K
    BY <1>2, <1>7
  <2>2. CASE x = k
    <3>1. CASE v = more[k]
      BY <1>7, <2>2, <3>1
    <3>2. CASE k \notin DOMAIN map /\ Cardinality(DOMAIN map) = cap
      BY <1>8, <2>2, <3>2
    <3> QED BY <1>6, <3>1, <3>2
  <2>3. CASE x # k
    <3>1. x \in DOMAIN map /\ new[x] = map[x]
      BY <1>7, <2>3
    <3>2. more[x] = count[x] + 0
      BY <2>1, <2>3
    <3>3. count[x] \in Nat
      BY <1>5, <2>1
    <3> QED BY <1>1, <3>1, <3>2, <3>3
  <2> QED BY <2>2, <2>3
<1>12. ASSUME NEW x \in K, more[x] > 0
       PROVE  x \in DOMAIN new \/ Cardinality(DOMAIN new) = cap
  <2>1. CASE x = k
    BY <1>7, <1>10, <2>1
  <2>2. CASE x # k
    <3>1. more[x] = count[x] + 0 /\ count[x] \in Nat
      BY <1>5, <2>2
    <3>2. count[x] > 0
      BY <1>12, <3>1
    <3> QED BY <1>1, <1>7, <1>10, <3>2
  <2> QED BY <2>1, <2>2
<1> QED BY <1>4, <1>7, <1>11, <1>12 DEF Tally

(* The recursion in BumpAll, unfolded.                                     *)
LEMMA BumpUnfold ==
  ASSUME NEW K, NEW cap \in Nat, NEW map \in BoundedMaps(K, Nat, cap),
         NEW keys \in Seq(K)
  PROVE  \E after \in [0..Len(keys) -> BoundedMaps(K, Nat, cap)] :
           /\ BumpAll(map, keys, cap) = after[Len(keys)]
           /\ after[0] = map
           /\ \A i \in 1..Len(keys) : after[i] = BumpCount(after[i-1], keys[i], 1, cap)
<1> DEFINE N == Len(keys)
           S == BoundedMaps(K, Nat, cap)
           step == [i \in 1..N |-> [m \in S |-> BumpCount(m, keys[i], 1, cap)]]
           Def(h) == [i \in 0..N |-> IF i = 0 THEN map
                                     ELSE BumpCount(h[i-1], keys[i], 1, cap)]
           e == CHOOSE h : h = Def(h)
<1>1. N \in Nat /\ \A i \in 1..N : keys[i] \in K
  BY LenProperties, ElementOfSeq
<1>2. BumpAll(map, keys, cap) = e[N]
  BY DEF BumpAll
<1>3. \A i \in 1..N : \A m \in S : step[i][m] = BumpCount(m, keys[i], 1, cap)
  OBVIOUS
<1>4. \A i \in 1..N : \A m \in S : BumpCount(m, keys[i], 1, cap) \in S
  BY <1>1, BumpIsMap
<1>5. step \in [1..N -> [S -> S]]
  BY <1>4
<1>6. map \in S
  OBVIOUS
<1> HIDE DEF S, step, N
<1>7. PICK f \in [0..N -> S] : Solves(f, N, map, step)
  BY <1>1, <1>5, <1>6, Recursion
<1>8. f = Def(f)
  <2>1. ASSUME NEW i \in 0..N
        PROVE  f[i] = IF i = 0 THEN map ELSE BumpCount(f[i-1], keys[i], 1, cap)
    <3>1. CASE i = 0
      BY <1>7, <3>1 DEF Solves
    <3>2. CASE i # 0
      <4>1. i \in 1..N /\ i - 1 \in 0..N
        BY <1>1, <3>2
      <4>2. f[i] = step[i][f[i-1]] /\ f[i-1] \in S
        BY <1>7, <4>1 DEF Solves
      <4> QED BY <1>3, <3>2, <4>1, <4>2
    <3> QED BY <3>1, <3>2
  <2> QED BY <1>7, <2>1
<1>9. e = Def(e)
  BY <1>8
<1> HIDE DEF e
<1>10. /\ \A i \in 1..N : e[i] = BumpCount(e[i-1], keys[i], 1, cap)
       /\ e[0] = map /\ DOMAIN e = 0..N
  <2>1. DOMAIN e = 0..N
    BY <1>9
  <2>2. \A i \in 0..N :
          e[i] = IF i = 0 THEN map ELSE BumpCount(e[i-1], keys[i], 1, cap)
    BY <1>9
  <2>3. 0 \in 0..N /\ \A i \in 1..N : i \in 0..N /\ i # 0
    BY <1>1
  <2> QED BY <2>1, <2>2, <2>3
<1>11. Continues(e, N, S, step)
  BY <1>3, <1>10 DEF Continues
<1>12. \A i \in 0..N : e[i] = f[i]
  <2>1. e[0] = map
    BY <1>10
  <2>2. /\ N \in Nat /\ f \in [0..N -> S] /\ Solves(f, N, map, step)
    BY <1>1, <1>7
  <2>3. SameUpTo(e, f, N)
    BY <1>5, <1>6, <1>11, <2>1, <2>2, OnlySolution
  <2> QED BY <2>3 DEF SameUpTo
<1>13. e \in [0..N -> S]
  BY <1>7, <1>9, <1>12
<1> QED BY <1>2, <1>10, <1>13 DEF N, S

(* How often a key is among the first n of some keys.                      *)
Among(x, keys, n) == {j \in 1..n : keys[j] = x}

LEMMA AmongGrows ==
  ASSUME NEW x, NEW keys, NEW n \in Nat
  PROVE  /\ IsFiniteSet(Among(x, keys, n)) /\ Cardinality(Among(x, keys, n)) \in Nat
         /\ Cardinality(Among(x, keys, n + 1))
              = Cardinality(Among(x, keys, n)) + IF keys[n+1] = x THEN 1 ELSE 0
         /\ Cardinality(Among(x, keys, 0)) = 0
<1>1. \A k \in Nat : IsFiniteSet(Among(x, keys, k))
  <2> SUFFICES ASSUME NEW k \in Nat PROVE IsFiniteSet(Among(x, keys, k))
    OBVIOUS
  <2>1. IsFiniteSet(1..k)
    BY FS_Interval
  <2> QED BY <2>1, FS_Subset DEF Among
<1>2. Cardinality(Among(x, keys, n)) \in Nat
  BY <1>1, FS_CardinalityType
<1>3. Cardinality(Among(x, keys, 0)) = 0
  <2>1. Among(x, keys, 0) = {}
    BY DEF Among
  <2> QED BY <2>1, FS_EmptySet
<1>4. CASE keys[n+1] = x
  <2>1. Among(x, keys, n + 1) = Among(x, keys, n) \cup {n + 1}
    BY <1>4 DEF Among
  <2>2. n + 1 \notin Among(x, keys, n)
    BY DEF Among
  <2>3. Cardinality(Among(x, keys, n + 1)) = Cardinality(Among(x, keys, n)) + 1
    BY <1>1, <2>1, <2>2, FS_AddElement
  <2> QED BY <1>1, <1>2, <1>3, <1>4, <2>3
<1>5. CASE keys[n+1] # x
  <2>1. Among(x, keys, n + 1) = Among(x, keys, n)
    BY <1>5 DEF Among
  <2> QED BY <1>1, <1>2, <1>3, <1>5, <2>1
<1> QED BY <1>4, <1>5

(* A tally of all keys, one after the other.                               *)
LEMMA BumpAllTally ==
  ASSUME NEW K, NEW cap \in Nat, NEW map, NEW count, Tally(map, count, K, cap),
         NEW keys \in Seq(K)
  PROVE  Tally(BumpAll(map, keys, cap),
               [x \in K |-> count[x] + Cardinality(Among(x, keys, Len(keys)))], K, cap)
<1> DEFINE N == Len(keys)
           S == BoundedMaps(K, Nat, cap)
           now(i) == [x \in K |-> count[x] + Cardinality(Among(x, keys, i))]
<1>1. N \in Nat /\ \A i \in 1..N : keys[i] \in K
  BY LenProperties, ElementOfSeq
<1>2. map \in S /\ count \in [K -> Nat] /\ \A x \in K : count[x] \in Nat
  BY DEF Tally
<1>3. PICK after \in [0..N -> S] :
        /\ BumpAll(map, keys, cap) = after[N]
        /\ after[0] = map
        /\ \A i \in 1..N : after[i] = BumpCount(after[i-1], keys[i], 1, cap)
  BY <1>2, BumpUnfold
<1>4. \A i \in Nat : now(i) \in [K -> Nat]
  <2>1. \A i \in Nat : \A x \in K : Cardinality(Among(x, keys, i)) \in Nat
    BY AmongGrows
  <2>2. \A i \in Nat : \A x \in K : count[x] + Cardinality(Among(x, keys, i)) \in Nat
    BY <1>2, <2>1
  <2> QED BY <2>2
<1> DEFINE T == {i \in 0..N : Tally(after[i], now(i), K, cap)}
<1>5. 0 \in T
  <2>1. now(0) = count
    <3>1. \A x \in K : count[x] + Cardinality(Among(x, keys, 0)) = count[x]
      BY <1>2, AmongGrows
    <3> QED BY <1>2, <3>1
  <2> HIDE DEF now
  <2>2. Tally(after[0], now(0), K, cap)
    BY <1>3, <2>1
  <2> QED BY <1>1, <2>2
<1>6. ASSUME NEW i \in 1..N, i - 1 \in T PROVE i \in T
  <2>1. i \in 0..N /\ i - 1 \in Nat /\ i \in Nat /\ (i - 1) + 1 = i
    BY <1>1
  <2>2. Tally(after[i-1], now(i-1), K, cap)
    BY <1>6
  <2>3. \A x \in K : now(i)[x] = now(i-1)[x] + IF x = keys[i] THEN 1 ELSE 0
    <3> SUFFICES ASSUME NEW x \in K
                 PROVE  now(i)[x] = now(i-1)[x] + IF x = keys[i] THEN 1 ELSE 0
      OBVIOUS
    <3>1. /\ Cardinality(Among(x, keys, i))
               = Cardinality(Among(x, keys, i-1)) + IF keys[i] = x THEN 1 ELSE 0
          /\ Cardinality(Among(x, keys, i-1)) \in Nat
      <4> DEFINE n == i - 1
      <4>1. n \in Nat /\ n + 1 = i
        BY <2>1
      <4> HIDE DEF n
      <4>2. /\ Cardinality(Among(x, keys, n + 1))
                 = Cardinality(Among(x, keys, n)) + IF keys[n+1] = x THEN 1 ELSE 0
            /\ Cardinality(Among(x, keys, n)) \in Nat
        BY <4>1, AmongGrows
      <4>3. /\ Cardinality(Among(x, keys, i))
                 = Cardinality(Among(x, keys, n)) + IF keys[i] = x THEN 1 ELSE 0
            /\ Cardinality(Among(x, keys, n)) \in Nat
        BY <4>1, <4>2
      <4> QED BY <4>3 DEF n
    <3>2. /\ now(i)[x] = count[x] + Cardinality(Among(x, keys, i))
          /\ now(i-1)[x] = count[x] + Cardinality(Among(x, keys, i-1))
      OBVIOUS
    <3> HIDE DEF now
    <3>3. PICK a \in Nat : a = Cardinality(Among(x, keys, i-1))
      BY <3>1
    <3>4. count[x] \in Nat
      BY <1>2
    <3> QED BY <3>1, <3>2, <3>3, <3>4
  <2>4. now(i) \in [K -> Nat]
    BY <1>4, <2>1
  <2> HIDE DEF now
  <2>5. Tally(BumpCount(after[i-1], keys[i], 1, cap), now(i), K, cap)
    BY <1>1, <2>2, <2>3, <2>4, BumpTally
  <2> QED BY <1>3, <2>1, <2>5
<1>7. 0..N \subseteq T
  <2> HIDE DEF T
  <2> QED BY <1>1, <1>5, <1>6, SetInduction
<1>8. Tally(after[N], now(N), K, cap)
  <2>1. N \in T
    BY <1>1, <1>7
  <2> HIDE DEF now
  <2> QED BY <2>1
<1> QED BY <1>3, <1>8

(* The recursion in InsertAll, unfolded.                                   *)
LEMMA InsertUnfold ==
  ASSUME NEW K, NEW V, NEW cap \in Nat, NEW map \in BoundedMaps(K, V, cap),
         NEW keys \in Seq(K), NEW v \in V
  PROVE  \E after \in [0..Len(keys) -> BoundedMaps(K, V, cap)] :
           /\ InsertAll(map, keys, v, cap) = after[Len(keys)]
           /\ after[0] = map
           /\ \A i \in 1..Len(keys) :
                after[i] = InsertBounded(after[i-1], keys[i], v, cap)
<1> DEFINE N == Len(keys)
           S == BoundedMaps(K, V, cap)
           step == [i \in 1..N |-> [m \in S |-> InsertBounded(m, keys[i], v, cap)]]
           Def(h) == [i \in 0..N |-> IF i = 0 THEN map
                                     ELSE InsertBounded(h[i-1], keys[i], v, cap)]
           e == CHOOSE h : h = Def(h)
<1>1. N \in Nat /\ \A i \in 1..N : keys[i] \in K
  BY LenProperties, ElementOfSeq
<1>2. InsertAll(map, keys, v, cap) = e[N]
  BY DEF InsertAll
<1>3. \A i \in 1..N : \A m \in S : step[i][m] = InsertBounded(m, keys[i], v, cap)
  OBVIOUS
<1>4. \A i \in 1..N : \A m \in S : InsertBounded(m, keys[i], v, cap) \in S
  BY <1>1, Inserted
<1>5. step \in [1..N -> [S -> S]]
  BY <1>4
<1>6. map \in S
  OBVIOUS
<1> HIDE DEF S, step, N
<1>7. PICK f \in [0..N -> S] : Solves(f, N, map, step)
  BY <1>1, <1>5, <1>6, Recursion
<1>8. f = Def(f)
  <2>1. ASSUME NEW i \in 0..N
        PROVE  f[i] = IF i = 0 THEN map ELSE InsertBounded(f[i-1], keys[i], v, cap)
    <3>1. CASE i = 0
      BY <1>7, <3>1 DEF Solves
    <3>2. CASE i # 0
      <4>1. i \in 1..N /\ i - 1 \in 0..N
        BY <1>1, <3>2
      <4>2. f[i] = step[i][f[i-1]] /\ f[i-1] \in S
        BY <1>7, <4>1 DEF Solves
      <4> QED BY <1>3, <3>2, <4>1, <4>2
    <3> QED BY <3>1, <3>2
  <2> QED BY <1>7, <2>1
<1>9. e = Def(e)
  BY <1>8
<1> HIDE DEF e
<1>10. /\ \A i \in 1..N : e[i] = InsertBounded(e[i-1], keys[i], v, cap)
       /\ e[0] = map /\ DOMAIN e = 0..N
  <2>1. DOMAIN e = 0..N
    BY <1>9
  <2>2. \A i \in 0..N :
          e[i] = IF i = 0 THEN map ELSE InsertBounded(e[i-1], keys[i], v, cap)
    BY <1>9
  <2>3. 0 \in 0..N /\ \A i \in 1..N : i \in 0..N /\ i # 0
    BY <1>1
  <2> QED BY <2>1, <2>2, <2>3
<1>11. Continues(e, N, S, step)
  BY <1>3, <1>10 DEF Continues
<1>12. \A i \in 0..N : e[i] = f[i]
  <2>1. e[0] = map
    BY <1>10
  <2>2. SameUpTo(e, f, N)
    BY <1>1, <1>5, <1>6, <1>7, <1>11, <2>1, OnlySolution
  <2> QED BY <2>2 DEF SameUpTo
<1>13. e \in [0..N -> S]
  BY <1>7, <1>9, <1>12
<1> QED BY <1>2, <1>10, <1>13 DEF N, S

(* All keys that the map takes have the new value, the others their old.   *)
LEMMA AllInserted ==
  ASSUME NEW K, NEW V, NEW cap \in Nat, NEW map \in BoundedMaps(K, V, cap),
         NEW keys \in Seq(K), NEW v \in V
  PROVE  LET new == InsertAll(map, keys, v, cap)
         IN  /\ new \in BoundedMaps(K, V, cap)
             /\ \A x \in DOMAIN new :
                  \/ x \in ToSet(keys) /\ new[x] = v
                  \/ x \notin ToSet(keys) /\ x \in DOMAIN map /\ new[x] = map[x]
<1> DEFINE N == Len(keys)
           S == BoundedMaps(K, V, cap)
           Till(i) == {keys[j] : j \in 1..i}
           Written(m, i) == \A x \in DOMAIN m :
                            \/ x \in Till(i) /\ m[x] = v
                            \/ x \notin Till(i) /\ x \in DOMAIN map /\ m[x] = map[x]
<1>1. N \in Nat /\ \A i \in 1..N : keys[i] \in K
  BY LenProperties, ElementOfSeq
<1>2. PICK after \in [0..N -> S] :
        /\ InsertAll(map, keys, v, cap) = after[N]
        /\ after[0] = map
        /\ \A i \in 1..N : after[i] = InsertBounded(after[i-1], keys[i], v, cap)
  BY InsertUnfold
<1> DEFINE T == {i \in 0..N : Written(after[i], i)}
<1>3. 0 \in T
  BY <1>1, <1>2
<1>4. ASSUME NEW i \in 1..N, i - 1 \in T PROVE i \in T
  <2>1. i \in 0..N /\ i - 1 \in 0..N /\ after[i-1] \in S /\ keys[i] \in K
    BY <1>1
  <2>2. Till(i) = Till(i-1) \cup {keys[i]}
    <3>1. 1..i = (1..(i-1)) \cup {i}
      BY <2>1
    <3> QED BY <3>1
  <2>3. Written(after[i-1], i - 1)
    BY <1>4
  <2> DEFINE old == after[i-1]
             new == after[i]
  <2>4. /\ DOMAIN new \subseteq DOMAIN old \cup {keys[i]}
        /\ \A x \in DOMAIN new : new[x] = IF x = keys[i] THEN v ELSE old[x]
    <3>1. new = InsertBounded(old, keys[i], v, cap)
      BY <1>2
    <3> HIDE DEF old, new
    <3> QED BY <2>1, <3>1, Inserted DEF old
  <2>5. Written(new, i)
    <3> HIDE DEF old, new, Till
    <3> QED BY <2>2, <2>3, <2>4 DEF old
  <2> QED BY <2>1, <2>5
<1>5. 0..N \subseteq T
  <2> HIDE DEF T
  <2> QED BY <1>1, <1>3, <1>4, SetInduction
<1>6. Written(after[N], N)
  BY <1>1, <1>5
<1>7. Till(N) = ToSet(keys)
  BY <1>1 DEF ToSet
<1>8. after[N] \in S
  BY <1>1
<1> QED BY <1>2, <1>6, <1>7, <1>8

-----------------------------------------------------------------------------
(* What the counters stand for.                                            *)

LEMMA PlacesOfAppend ==
  ASSUME NEW K, NEW lists \in Seq(Seq(K)), NEW keys \in Seq(K), NEW x
  PROVE  Places(x, Append(lists, keys))
           = Places(x, lists) \cup ({Len(lists) + 1} \X Among(x, keys, Len(keys)))
<1> DEFINE n == Len(lists)
           new == Append(lists, keys)
<1>1. n \in Nat /\ DOMAIN lists = 1..n /\ DOMAIN keys = 1..Len(keys)
  BY LenProperties
<1>2. /\ DOMAIN new = 1..(n+1) /\ new[n+1] = keys
      /\ \A i \in 1..n : new[i] = lists[i]
  BY AppendProperties, <1>1
<1>3. 1..(n+1) = (1..n) \cup {n+1}
  BY <1>1
<1> HIDE DEF new, n
<1> DEFINE at(s, i) == {i} \X {j \in DOMAIN s[i] : s[i][j] = x}
<1>4. Places(x, new) = UNION {at(new, i) : i \in 1..(n+1)}
  BY <1>2 DEF Places
<1>5. Places(x, lists) = UNION {at(lists, i) : i \in 1..n}
  BY <1>1 DEF Places
<1>6. \A i \in 1..n : at(new, i) = at(lists, i)
  BY <1>2
<1>7. at(new, n+1) = {n+1} \X Among(x, keys, Len(keys))
  BY <1>1, <1>2 DEF Among
<1> HIDE DEF at
<1>8. UNION {at(new, i) : i \in 1..(n+1)}
        = (UNION {at(new, i) : i \in 1..n}) \cup at(new, n+1)
  BY <1>3
<1>9. UNION {at(new, i) : i \in 1..n} = UNION {at(lists, i) : i \in 1..n}
  BY <1>6
<1> QED BY <1>4, <1>5, <1>7, <1>8, <1>9 DEF new, n

LEMMA CountOfAppend ==
  ASSUME NEW K, NEW lists \in Seq(Seq(K)), NEW keys \in Seq(K), NEW x,
         IsFiniteSet(Places(x, lists))
  PROVE  /\ IsFiniteSet(Places(x, Append(lists, keys)))
         /\ Cardinality(Places(x, Append(lists, keys)))
              = Cardinality(Places(x, lists)) + Cardinality(Among(x, keys, Len(keys)))
<1> DEFINE n == Len(lists)
           A == Among(x, keys, Len(keys))
           B == {n + 1} \X A
           P == Places(x, lists)
<1>1. n \in Nat /\ DOMAIN lists = 1..n /\ Len(keys) \in Nat
  BY LenProperties
<1>2. IsFiniteSet(A) /\ Cardinality(A) \in Nat
  BY <1>1, AmongGrows
<1>3. IsFiniteSet(B) /\ Cardinality(B) = Cardinality(A)
  <2> DEFINE f == [a \in A |-> <<n + 1, a>>]
  <2>1. f \in Bijection(A, B)
    <3>1. f \in [A -> B]
      OBVIOUS
    <3>2. \A a, b \in A : f[a] = f[b] => a = b
      OBVIOUS
    <3>3. \A y \in B : \E a \in A : f[a] = y
      OBVIOUS
    <3> HIDE DEF f, A, B
    <3> QED BY <3>1, <3>2, <3>3 DEF Bijection, Injection, Surjection, IsInjective
  <2> HIDE DEF f, A, B
  <2>2. ExistsBijection(A, B)
    BY <2>1 DEF ExistsBijection
  <2> QED BY <1>2, <2>2, FS_Bijection
<1>4. P \cap B = {}
  <2>1. \A y \in P : y[1] \in 1..n
    BY <1>1 DEF Places
  <2>2. \A y \in B : y[1] = n + 1
    OBVIOUS
  <2> HIDE DEF P, B, n
  <2> QED BY <1>1, <2>1, <2>2
<1>5. Places(x, Append(lists, keys)) = P \cup B
  BY PlacesOfAppend
<1>6. IsFiniteSet(P) /\ Cardinality(P) \in Nat
  BY FS_CardinalityType
<1> HIDE DEF A, B, P
<1>7. /\ IsFiniteSet(P \cup B)
      /\ Cardinality(P \cup B) = Cardinality(P) + Cardinality(B) - Cardinality(P \cap B)
  BY <1>3, <1>6, FS_Union
<1>8. Cardinality(P \cap B) = 0
  BY <1>4, FS_EmptySet
<1>9. Cardinality(P \cup B) = Cardinality(P) + Cardinality(A)
  BY <1>2, <1>3, <1>6, <1>7, <1>8
<1> QED BY <1>5, <1>7, <1>9 DEF A, P

(* A map that counts the keys in the lists.                                *)
Occurs(K, lists) == [x \in K |-> Cardinality(Places(x, lists))]

Follows(map, K, lists, cap) ==
  /\ lists \in Seq(Seq(K))
  /\ \A x \in K : IsFiniteSet(Places(x, lists))
  /\ Tally(map, Occurs(K, lists), K, cap)

LEMMA FollowsNothing ==
  ASSUME NEW K, NEW cap \in Nat
  PROVE  Follows(<<>>, K, <<>>, cap)
<1>1. <<>> \in Seq(Seq(K))
  BY EmptySeq
<1>2. \A x \in K : Places(x, <<>>) = {}
  <2>1. DOMAIN <<>> = {}
    BY NoKeys
  <2> QED BY <2>1 DEF Places
<1>3. \A x \in K : IsFiniteSet(Places(x, <<>>)) /\ Cardinality(Places(x, <<>>)) = 0
  BY <1>2, FS_EmptySet
<1>4. Occurs(K, <<>>) \in [K -> Nat] /\ \A x \in K : Occurs(K, <<>>)[x] = 0
  BY <1>3 DEF Occurs
<1>5. <<>> \in BoundedMaps(K, Nat, cap) /\ DOMAIN <<>> = {}
  BY NoKeys
<1>6. Tally(<<>>, Occurs(K, <<>>), K, cap)
  BY <1>4, <1>5 DEF Tally
<1> QED BY <1>1, <1>3, <1>6 DEF Follows

LEMMA FollowsExact ==
  ASSUME NEW map, NEW K, NEW lists, NEW cap \in Nat, Follows(map, K, lists, cap)
  PROVE  Exact(map, lists, cap) /\ Cardinality(DOMAIN map) <= cap
<1>1. /\ lists \in Seq(Seq(K))
      /\ \A x \in K : IsFiniteSet(Places(x, lists))
      /\ map \in BoundedMaps(K, Nat, cap)
      /\ \A x \in DOMAIN map : map[x] = Occurs(K, lists)[x]
      /\ \A x \in K : Occurs(K, lists)[x] > 0 =>
           x \in DOMAIN map \/ Cardinality(DOMAIN map) = cap
  BY DEF Follows, Tally
<1>2. DOMAIN map \subseteq K /\ Cardinality(DOMAIN map) <= cap
  BY <1>1, MapFacts
<1>3. \A x \in K : Occurs(K, lists)[x] = Cardinality(Places(x, lists))
  BY DEF Occurs
<1>4. ASSUME NEW i \in DOMAIN lists, NEW j \in DOMAIN lists[i]
      PROVE  lists[i][j] \in DOMAIN map \/ Cardinality(DOMAIN map) = cap
  <2> DEFINE x == lists[i][j]
  <2>1. lists[i] \in Seq(K)
    BY <1>1, LenProperties, ElementOfSeq
  <2>2. x \in K
    BY <2>1, LenProperties, ElementOfSeq
  <2>3. <<i, j>> \in Places(x, lists)
    BY DEF Places
  <2> HIDE DEF x
  <2>4. Cardinality(Places(x, lists)) # 0 /\ Cardinality(Places(x, lists)) \in Nat
    BY <1>1, <2>2, <2>3, FS_EmptySet, FS_CardinalityType
  <2>5. Occurs(K, lists)[x] > 0
    BY <1>3, <2>2, <2>4
  <2>6. x \in DOMAIN map \/ Cardinality(DOMAIN map) = cap
    BY <1>1, <2>2, <2>5
  <2> QED BY <2>6 DEF x
<1> QED BY <1>1, <1>2, <1>3, <1>4 DEF Exact

LEMMA OccursAppend ==
  ASSUME NEW K, NEW lists \in Seq(Seq(K)), NEW keys \in Seq(K),
         \A x \in K : IsFiniteSet(Places(x, lists))
  PROVE  /\ Append(lists, keys) \in Seq(Seq(K))
         /\ \A x \in K : IsFiniteSet(Places(x, Append(lists, keys)))
         /\ Occurs(K, Append(lists, keys))
              = [x \in K |-> Occurs(K, lists)[x] + Cardinality(Among(x, keys, Len(keys)))]
<1>1. Append(lists, keys) \in Seq(Seq(K))
  BY AppendProperties
<1>2. \A x \in K :
        /\ IsFiniteSet(Places(x, Append(lists, keys)))
        /\ Cardinality(Places(x, Append(lists, keys)))
             = Cardinality(Places(x, lists)) + Cardinality(Among(x, keys, Len(keys)))
  BY CountOfAppend
<1>3. \A x \in K : Cardinality(Places(x, Append(lists, keys)))
                     = Occurs(K, lists)[x] + Cardinality(Among(x, keys, Len(keys)))
  BY <1>2 DEF Occurs
<1>4. Occurs(K, Append(lists, keys))
        = [x \in K |-> Cardinality(Places(x, Append(lists, keys)))]
  BY DEF Occurs
<1> QED BY <1>1, <1>2, <1>3, <1>4

(* One message more, whose keys are counted one after the other.           *)
LEMMA FollowsAll ==
  ASSUME NEW map, NEW K, NEW lists, NEW cap \in Nat, Follows(map, K, lists, cap),
         NEW keys \in Seq(K)
  PROVE  Follows(BumpAll(map, keys, cap), K, Append(lists, keys), cap)
<1>1. /\ lists \in Seq(Seq(K))
      /\ \A x \in K : IsFiniteSet(Places(x, lists))
      /\ Tally(map, Occurs(K, lists), K, cap)
  BY DEF Follows
<1>2. /\ Append(lists, keys) \in Seq(Seq(K))
      /\ \A x \in K : IsFiniteSet(Places(x, Append(lists, keys)))
      /\ Occurs(K, Append(lists, keys))
           = [x \in K |-> Occurs(K, lists)[x] + Cardinality(Among(x, keys, Len(keys)))]
  BY <1>1, OccursAppend
<1>3. Tally(BumpAll(map, keys, cap),
            [x \in K |-> Occurs(K, lists)[x] + Cardinality(Among(x, keys, Len(keys)))],
            K, cap)
  BY <1>1, BumpAllTally
<1> QED BY <1>2, <1>3 DEF Follows

(* One message more, that counts n for a single key.                       *)
LEMMA FollowsBump ==
  ASSUME NEW map, NEW K, NEW lists, NEW cap \in Nat, Follows(map, K, lists, cap),
         NEW k \in K, NEW n \in Nat, NEW keys \in Seq(K),
         Len(keys) = n, \A j \in 1..n : keys[j] = k
  PROVE  Follows(BumpCount(map, k, n, cap), K, Append(lists, keys), cap)
<1> DEFINE more == Occurs(K, Append(lists, keys))
<1>1. /\ lists \in Seq(Seq(K))
      /\ \A x \in K : IsFiniteSet(Places(x, lists))
      /\ Tally(map, Occurs(K, lists), K, cap)
      /\ Occurs(K, lists) \in [K -> Nat]
  BY DEF Follows, Tally
<1>3. \A x \in K : Cardinality(Among(x, keys, n)) = IF x = k THEN n ELSE 0
  <2> SUFFICES ASSUME NEW x \in K
               PROVE  Cardinality(Among(x, keys, n)) = IF x = k THEN n ELSE 0
    OBVIOUS
  <2>1. CASE x = k
    <3>1. Among(x, keys, n) = 1..n
      BY <2>1 DEF Among
    <3>2. Cardinality(1..n) = n
      BY FS_Interval
    <3> QED BY <2>1, <3>1, <3>2
  <2>2. CASE x # k
    <3>1. Among(x, keys, n) = {}
      BY <2>2 DEF Among
    <3> QED BY <2>2, <3>1, FS_EmptySet
  <2> QED BY <2>1, <2>2
<1>4. /\ Append(lists, keys) \in Seq(Seq(K))
      /\ \A x \in K : IsFiniteSet(Places(x, Append(lists, keys)))
      /\ more = [x \in K |-> Occurs(K, lists)[x] + Cardinality(Among(x, keys, n))]
  BY <1>1, OccursAppend
<1>5. \A x \in K : more[x] = Occurs(K, lists)[x] + IF x = k THEN n ELSE 0
  BY <1>3, <1>4
<1>6. more \in [K -> Nat]
  <2>1. \A x \in K : Occurs(K, lists)[x] + Cardinality(Among(x, keys, n)) \in Nat
    <3> SUFFICES ASSUME NEW x \in K
                 PROVE  Occurs(K, lists)[x] + Cardinality(Among(x, keys, n)) \in Nat
      OBVIOUS
    <3>1. Occurs(K, lists)[x] \in Nat /\ Cardinality(Among(x, keys, n)) \in Nat
      BY <1>1, <1>3
    <3> QED BY <3>1
  <2> QED BY <1>4, <2>1
<1> HIDE DEF more
<1>7. Tally(BumpCount(map, k, n, cap), more, K, cap)
  BY <1>1, <1>5, <1>6, BumpTally
<1> QED BY <1>4, <1>7 DEF Follows, more

LEMMA FollowsNone ==
  ASSUME NEW map, NEW K, NEW lists, NEW cap \in Nat, Follows(map, K, lists, cap)
  PROVE  Follows(map, K, Append(lists, <<>>), cap)
<1>1. <<>> \in Seq(K) /\ Len(<<>>) = 0
  BY EmptySeq
<1>2. map \in BoundedMaps(K, Nat, cap)
  BY DEF Follows, Tally
<1>3. BumpAll(map, <<>>, cap) = map
  <2>1. PICK keys : keys = <<>>
    OBVIOUS
  <2>2. keys \in Seq(K)
    BY <1>1, <2>1
  <2>3. PICK after \in [0..Len(keys) -> BoundedMaps(K, Nat, cap)] :
          /\ BumpAll(map, keys, cap) = after[Len(keys)]
          /\ after[0] = map
          /\ \A i \in 1..Len(keys) : after[i] = BumpCount(after[i-1], keys[i], 1, cap)
    BY <1>2, <2>2, BumpUnfold
  <2> QED BY <1>1, <2>1, <2>3
<1> QED BY <1>1, <1>3, FollowsAll

-----------------------------------------------------------------------------
(* What is counted of a message.                                           *)

LEMMA SmallerOfTwo ==
  ASSUME NEW a \in Int, NEW b \in Int
  PROVE  /\ Min({a, b}) = IF a <= b THEN a ELSE b
         /\ Max({a, b}) = IF a >= b THEN a ELSE b
<1>1. Min({a, b}) = IF a <= b THEN a ELSE b
  <2> DEFINE x == IF a <= b THEN a ELSE b
  <2>1. x \in {a, b} /\ \A y \in {a, b} : x <= y
    OBVIOUS
  <2>2. \A z \in {a, b} : (\A y \in {a, b} : z <= y) => z = x
    OBVIOUS
  <2> HIDE DEF x
  <2> QED BY <2>1, <2>2 DEF Min, x
<1>2. Max({a, b}) = IF a >= b THEN a ELSE b
  <2> DEFINE x == IF a >= b THEN a ELSE b
  <2>1. x \in {a, b} /\ \A y \in {a, b} : x >= y
    OBVIOUS
  <2>2. \A z \in {a, b} : (\A y \in {a, b} : z >= y) => z = x
    OBVIOUS
  <2> HIDE DEF x
  <2> QED BY <2>1, <2>2 DEF Max, x
<1> QED BY <1>1, <1>2

LEMMA UpdateFacts ==
  ASSUME NEW u \in Updates
  PROVE  /\ u.announced \in Seq(Nat) /\ u.withdrawn \in Seq(Nat)
         /\ Changed(u) \in Seq(Nat) /\ StoredPath(u) \in Seq(Nat)
         /\ Pairs(StoredPath(u)) \in Seq(Nat \X Nat)
         /\ Origin(u) \in Nat
<1>1. u.announced \in Seq(Nat) /\ u.withdrawn \in Seq(Nat) /\ u.path \in Seq(Nat)
  BY DEF Updates
<1>2. Changed(u) \in Seq(Nat)
  BY <1>1, ConcatProperties DEF Changed
<1>3. Len(u.path) \in Nat /\ \A i \in 1..Len(u.path) : u.path[i] \in Nat
  BY <1>1, LenProperties, ElementOfSeq
<1>4. StoredPath(u) \in Seq(Nat)
  <2> DEFINE n == Min({MaxPath, Len(u.path)})
  <2>1. n \in Int /\ n <= Len(u.path)
    <3>1. MaxPath \in Int /\ Len(u.path) \in Int
      BY <1>3, CapAssumption
    <3> QED BY <3>1, SmallerOfTwo
  <2> HIDE DEF n
  <2>2. \A i \in 1..n : u.path[i] \in Nat
    BY <1>3, <2>1
  <2>3. SubSeq(u.path, 1, n) \in Seq(Nat)
    BY <1>1, <2>1, <2>2, SubSeqProperties
  <2> QED BY <2>3 DEF StoredPath, n
<1>5. Pairs(StoredPath(u)) \in Seq(Nat \X Nat)
  <2> DEFINE s == StoredPath(u)
  <2>1. s \in Seq(Nat) /\ Len(s) \in Nat /\ \A i \in 1..Len(s) : s[i] \in Nat
    BY <1>4, LenProperties, ElementOfSeq
  <2> HIDE DEF s
  <2>4. ASSUME s = <<>> PROVE Pairs(s) \in Seq(Nat \X Nat)
    <3>1. Pairs(s) = <<>>
      BY <2>4 DEF Pairs
    <3> QED BY <3>1, EmptySeq
  <2>5. ASSUME s # <<>> PROVE Pairs(s) \in Seq(Nat \X Nat)
    <3>1. Len(s) # 0
      BY <2>1, <2>5, EmptySeq
    <3>2. Len(s) - 1 \in Nat
      BY <2>1, <3>1
    <3>3. \A i \in 1..(Len(s) - 1) : s[i] \in Nat /\ s[i+1] \in Nat
      BY <2>1
    <3> QED BY <2>5, <3>2, <3>3 DEF Pairs
  <2>6. Pairs(s) \in Seq(Nat \X Nat)
    BY <2>4, <2>5
  <2> QED BY <2>6 DEF s
<1>6. Origin(u) \in Nat
  <2>1. CASE u.path # <<>>
    <3>1. Len(u.path) \in 1..Len(u.path)
      BY <1>1, <1>3, <2>1, EmptySeq
    <3> QED BY <1>3, <2>1, <3>1 DEF Origin, Last
  <2>2. CASE u.path = <<>>
    BY <2>2 DEF Origin
  <2> QED BY <2>1, <2>2
<1> QED BY <1>1, <1>2, <1>4, <1>5, <1>6

Senders == {m.peer : m \in Messages}

LEMMA MessageFacts ==
  ASSUME NEW m \in Messages
  PROVE  /\ m.frame \in BOOLEAN /\ m.version \in BOOLEAN /\ m.meta \in BOOLEAN
         /\ m.peer \in Senders
         /\ m.update # NoUpdate => m.update \in Updates
         /\ PrefixKeys(m) \in Seq(Nat) /\ PathKeys(m) \in Seq(Nat)
         /\ PairKeys(m) \in Seq(Nat \X Nat)
         /\ PeerKeys(m) \in Seq(Senders) /\ WarningKeys(m) \in Seq(Senders)
         /\ Cardinality(Findings(m)) \in Nat
         /\ Findings(m) = {} => Cardinality(Findings(m)) = 0
<1>1. /\ m.frame \in BOOLEAN /\ m.version \in BOOLEAN /\ m.meta \in BOOLEAN
      /\ m.update # NoUpdate => m.update \in Updates
  BY MessageAssumption
<1>2. m.peer \in Senders
  BY DEF Senders
<1>3. PrefixKeys(m) \in Seq(Nat) /\ PathKeys(m) \in Seq(Nat)
      /\ PairKeys(m) \in Seq(Nat \X Nat)
  <2>1. CASE Logged(m) /\ m.update # NoUpdate
    BY <1>1, <2>1, UpdateFacts DEF PrefixKeys, PathKeys, PairKeys
  <2>2. CASE ~(Logged(m) /\ m.update # NoUpdate)
    <3>1. PrefixKeys(m) = <<>> /\ PathKeys(m) = <<>>
      BY <2>2 DEF PrefixKeys, PathKeys
    <3>2. PairKeys(m) = <<>>
      BY <3>1 DEF PairKeys, Pairs
    <3> QED BY <3>1, <3>2, EmptySeq
  <2> QED BY <2>1, <2>2
<1>4. IsFiniteSet(Findings(m))
  <2>1. IsFiniteSet({"invalid_bmp_version"})
    BY FS_Singleton
  <2>2. IsFiniteSet({"invalid_bmp_version"} \cup {"unknown_bmp_type"})
    BY <2>1, FS_AddElement
  <2>3. Findings(m) \subseteq {"invalid_bmp_version"} \cup {"unknown_bmp_type"}
    BY DEF Findings
  <2> QED BY <2>2, <2>3, FS_Subset
<1>5. /\ Cardinality(Findings(m)) \in Nat
      /\ Findings(m) = {} => Cardinality(Findings(m)) = 0
  BY <1>4, FS_CardinalityType, FS_EmptySet
<1>6. PeerKeys(m) \in Seq(Senders)
  BY <1>2 DEF PeerKeys
<1>7. WarningKeys(m) \in Seq(Senders)
  <2> DEFINE n == Cardinality(Findings(m))
  <2> HIDE DEF n
  <2>1. [i \in 1..n |-> m.peer] \in Seq(Senders)
    BY <1>2, <1>5 DEF n
  <2> QED BY <2>1, EmptySeq DEF WarningKeys, n
<1> QED BY <1>1, <1>2, <1>3, <1>5, <1>6, <1>7

-----------------------------------------------------------------------------
(* The counters follow the messages.                                       *)

Counting ==
  /\ history \in Seq(Messages)
  /\ Follows(churn, Nat, KeysSeen(PrefixKeys), MaxPrefixes)
  /\ Follows(frequency, Nat, KeysSeen(PathKeys), MaxAsns)
  /\ Follows(adjacency, Nat \X Nat, KeysSeen(PairKeys), MaxPairs)
  /\ Follows(peerMsgs, Senders, KeysSeen(PeerKeys), MaxPeers)
  /\ Follows(peerWarnings, Senders, KeysSeen(WarningKeys), MaxPeers)

Emptied ==
  /\ history = <<>> /\ peerMsgs = <<>> /\ peerWarnings = <<>> /\ churn = <<>>
  /\ origins = <<>> /\ lastPath = <<>> /\ adjacency = <<>> /\ frequency = <<>>
  /\ log = <<>> /\ seen = 0 /\ keepalives = 0 /\ metadata = FALSE

LEMMA CountingEmptied ==
  ASSUME Emptied
  PROVE  Counting
<1>1. DOMAIN history = {} /\ history \in Seq(Messages)
  BY NoKeys, EmptySeq DEF Emptied
<1>2. /\ KeysSeen(PrefixKeys) = <<>> /\ KeysSeen(PathKeys) = <<>>
      /\ KeysSeen(PairKeys) = <<>> /\ KeysSeen(PeerKeys) = <<>>
      /\ KeysSeen(WarningKeys) = <<>>
  BY <1>1 DEF KeysSeen
<1>3. /\ MaxPrefixes \in Nat /\ MaxAsns \in Nat /\ MaxPairs \in Nat /\ MaxPeers \in Nat
  BY CapAssumption
<1>4. /\ Follows(churn, Nat, KeysSeen(PrefixKeys), MaxPrefixes)
      /\ Follows(frequency, Nat, KeysSeen(PathKeys), MaxAsns)
      /\ Follows(adjacency, Nat \X Nat, KeysSeen(PairKeys), MaxPairs)
  BY <1>2, <1>3, FollowsNothing DEF Emptied
<1>5. /\ Follows(peerMsgs, Senders, KeysSeen(PeerKeys), MaxPeers)
      /\ Follows(peerWarnings, Senders, KeysSeen(WarningKeys), MaxPeers)
  BY <1>2, <1>3, FollowsNothing DEF Emptied
<1> QED BY <1>1, <1>4, <1>5 DEF Counting

(* A function over one more place is one more entry.                       *)
LEMMA OneMore ==
  ASSUME NEW S, NEW s \in Seq(S), NEW x \in S, NEW new,
         new = [i \in 1..(Len(s) + 1) |-> IF i = Len(s) + 1 THEN x ELSE s[i]]
  PROVE  new = Append(s, x)
<1>1. /\ Append(s, x) \in Seq(S) /\ Len(Append(s, x)) = Len(s) + 1
      /\ \A i \in 1..Len(s) : Append(s, x)[i] = s[i]
      /\ Append(s, x)[Len(s) + 1] = x
  BY AppendProperties
<1>2. DOMAIN Append(s, x) = 1..(Len(s) + 1)
  BY <1>1, LenProperties
<1>3. Len(s) \in Nat
  BY LenProperties
<1>4. \A i \in 1..(Len(s) + 1) :
        Append(s, x)[i] = IF i = Len(s) + 1 THEN x ELSE s[i]
  BY <1>1, <1>3
<1>5. PICK t : t = Append(s, x)
  OBVIOUS
<1>6. t = [i \in 1..(Len(s) + 1) |-> t[i]]
  <2>1. t \in Seq(S) /\ DOMAIN t = 1..(Len(s) + 1)
    BY <1>1, <1>2, <1>5
  <2>2. t \in [1..Len(t) -> S]
    BY <2>1, SeqDef, LenProperties
  <2> QED BY <2>1, <2>2
<1>7. \A i \in 1..(Len(s) + 1) : t[i] = IF i = Len(s) + 1 THEN x ELSE s[i]
  BY <1>4, <1>5
<1>8. t = new
  BY <1>6, <1>7
<1> QED BY <1>5, <1>8

Each(h, F) == [i \in DOMAIN h |-> F[h[i]]]

OneLonger(h, g, m) ==
  \E n \in Nat : /\ DOMAIN h = 1..n /\ DOMAIN g = 1..(n+1)
                 /\ g[n+1] = m /\ \A i \in 1..n : g[i] = h[i]

LEMMA SeenGrows ==
  ASSUME NEW h, NEW g, NEW m, OneLonger(h, g, m),
         NEW F, NEW K, Each(h, F) \in Seq(Seq(K)), F[m] \in Seq(K)
  PROVE  Each(g, F) = Append(Each(h, F), F[m])
<1>1. PICK n \in Nat : /\ DOMAIN h = 1..n /\ DOMAIN g = 1..(n+1)
                       /\ g[n+1] = m /\ \A i \in 1..n : g[i] = h[i]
  BY DEF OneLonger
<1> DEFINE lists == Each(h, F)
<1>2. lists \in Seq(Seq(K)) /\ lists = [i \in 1..n |-> F[h[i]]]
  BY <1>1 DEF Each
<1> HIDE DEF lists
<1>3. Len(lists) = n
  BY <1>1, <1>2, LenProperties
<1>4. \A i \in 1..(n+1) : F[g[i]] = IF i = n + 1 THEN F[m] ELSE lists[i]
  BY <1>1, <1>2
<1>5. Each(g, F) = [i \in 1..(n+1) |-> IF i = n + 1 THEN F[m] ELSE lists[i]]
  BY <1>1, <1>4 DEF Each
<1>6. Each(g, F) = Append(lists, F[m])
  BY <1>1, <1>2, <1>3, <1>5, OneMore
<1> QED BY <1>6 DEF lists

LEMMA KeysSeenGrow ==
  ASSUME Counting, NEW m \in Messages, history' = Append(history, m)
  PROVE  /\ history' \in Seq(Messages)
         /\ KeysSeen(PrefixKeys)' = Append(KeysSeen(PrefixKeys), PrefixKeys(m))
         /\ KeysSeen(PathKeys)' = Append(KeysSeen(PathKeys), PathKeys(m))
         /\ KeysSeen(PairKeys)' = Append(KeysSeen(PairKeys), PairKeys(m))
         /\ KeysSeen(PeerKeys)' = Append(KeysSeen(PeerKeys), PeerKeys(m))
         /\ KeysSeen(WarningKeys)' = Append(KeysSeen(WarningKeys), WarningKeys(m))
<1> DEFINE n == Len(history)
<1>0. PICK h, g : h = history /\ g = history'
  OBVIOUS
<1>1. /\ n \in Nat /\ DOMAIN h = 1..n /\ DOMAIN g = 1..(n+1)
      /\ g[n+1] = m /\ (\A i \in 1..n : g[i] = h[i]) /\ g \in Seq(Messages)
      /\ (\A i \in 1..n : h[i] \in Messages) /\ (\A i \in 1..(n+1) : g[i] \in Messages)
  <2>1. h \in Seq(Messages)
    BY <1>0 DEF Counting
  <2>2. /\ g \in Seq(Messages) /\ Len(g) = n + 1 /\ g[n+1] = m
        /\ \A i \in 1..n : g[i] = h[i]
    BY <1>0, <2>1, AppendProperties
  <2>3. n = Len(h)
    BY <1>0
  <2> QED BY <2>1, <2>2, <2>3, LenProperties, ElementOfSeq
<1>2. OneLonger(h, g, m)
  BY <1>1 DEF OneLonger
<1>3. /\ KeysSeen(PrefixKeys) \in Seq(Seq(Nat)) /\ KeysSeen(PathKeys) \in Seq(Seq(Nat))
      /\ KeysSeen(PairKeys) \in Seq(Seq(Nat \X Nat))
      /\ KeysSeen(PeerKeys) \in Seq(Seq(Senders))
      /\ KeysSeen(WarningKeys) \in Seq(Seq(Senders))
  BY DEF Counting, Follows
<1>4. KeysSeen(PrefixKeys)' = Append(KeysSeen(PrefixKeys), PrefixKeys(m))
  <2>0. PICK F : F = [x \in Messages |-> PrefixKeys(x)]
    OBVIOUS
  <2>1. F[m] = PrefixKeys(m) /\ F[m] \in Seq(Nat)
    BY <2>0, MessageFacts
  <2>2. KeysSeen(PrefixKeys) = Each(h, F)
    BY <1>0, <1>1, <2>0 DEF KeysSeen, Each
  <2>3. KeysSeen(PrefixKeys)' = Each(g, F)
    BY <1>0, <1>1, <2>0 DEF KeysSeen, Each
  <2>4. Each(h, F) \in Seq(Seq(Nat))
    BY <1>3, <2>2
  <2>5. Each(g, F) = Append(Each(h, F), F[m])
    <3>1. OneLonger(h, g, m)
      BY <1>2
    <3>2. F[m] \in Seq(Nat)
      BY <2>1
    <3>3. Each(h, F) \in Seq(Seq(Nat))
      BY <2>4
    <3> QED BY ONLY <3>1, <3>2, <3>3, SeenGrows
  <2> QED BY <2>1, <2>2, <2>3, <2>5
<1>5. KeysSeen(PathKeys)' = Append(KeysSeen(PathKeys), PathKeys(m))
  <2>0. PICK F : F = [x \in Messages |-> PathKeys(x)]
    OBVIOUS
  <2>1. F[m] = PathKeys(m) /\ F[m] \in Seq(Nat)
    BY <2>0, MessageFacts
  <2>2. KeysSeen(PathKeys) = Each(h, F)
    BY <1>0, <1>1, <2>0 DEF KeysSeen, Each
  <2>3. KeysSeen(PathKeys)' = Each(g, F)
    BY <1>0, <1>1, <2>0 DEF KeysSeen, Each
  <2>4. Each(h, F) \in Seq(Seq(Nat))
    BY <1>3, <2>2
  <2>5. Each(g, F) = Append(Each(h, F), F[m])
    <3>1. OneLonger(h, g, m)
      BY <1>2
    <3>2. F[m] \in Seq(Nat)
      BY <2>1
    <3>3. Each(h, F) \in Seq(Seq(Nat))
      BY <2>4
    <3> QED BY ONLY <3>1, <3>2, <3>3, SeenGrows
  <2> QED BY <2>1, <2>2, <2>3, <2>5
<1>6. KeysSeen(PairKeys)' = Append(KeysSeen(PairKeys), PairKeys(m))
  <2> DEFINE K == Nat \X Nat
  <2>0. PICK F : F = [x \in Messages |-> PairKeys(x)]
    OBVIOUS
  <2>1. F[m] = PairKeys(m) /\ F[m] \in Seq(K)
    BY <2>0, MessageFacts
  <2>2. KeysSeen(PairKeys) = Each(h, F)
    BY <1>0, <1>1, <2>0 DEF KeysSeen, Each
  <2>3. KeysSeen(PairKeys)' = Each(g, F)
    BY <1>0, <1>1, <2>0 DEF KeysSeen, Each
  <2>4. Each(h, F) \in Seq(Seq(K))
    BY <1>3, <2>2
  <2> HIDE DEF K
  <2>5. Each(g, F) = Append(Each(h, F), F[m])
    <3>1. OneLonger(h, g, m)
      BY <1>2
    <3>2. F[m] \in Seq(K)
      BY <2>1
    <3>3. Each(h, F) \in Seq(Seq(K))
      BY <2>4
    <3> QED BY ONLY <3>1, <3>2, <3>3, SeenGrows
  <2> QED BY <2>1, <2>2, <2>3, <2>5
<1>7. KeysSeen(PeerKeys)' = Append(KeysSeen(PeerKeys), PeerKeys(m))
  <2>0. PICK F : F = [x \in Messages |-> PeerKeys(x)]
    OBVIOUS
  <2>1. F[m] = PeerKeys(m) /\ F[m] \in Seq(Senders)
    BY <2>0, MessageFacts
  <2>2. KeysSeen(PeerKeys) = Each(h, F)
    BY <1>0, <1>1, <2>0 DEF KeysSeen, Each
  <2>3. KeysSeen(PeerKeys)' = Each(g, F)
    BY <1>0, <1>1, <2>0 DEF KeysSeen, Each
  <2>4. Each(h, F) \in Seq(Seq(Senders))
    BY <1>3, <2>2
  <2>5. Each(g, F) = Append(Each(h, F), F[m])
    <3>1. OneLonger(h, g, m)
      BY <1>2
    <3>2. F[m] \in Seq(Senders)
      BY <2>1
    <3>3. Each(h, F) \in Seq(Seq(Senders))
      BY <2>4
    <3> QED BY ONLY <3>1, <3>2, <3>3, SeenGrows
  <2> QED BY <2>1, <2>2, <2>3, <2>5
<1>8. KeysSeen(WarningKeys)' = Append(KeysSeen(WarningKeys), WarningKeys(m))
  <2>0. PICK F : F = [x \in Messages |-> WarningKeys(x)]
    OBVIOUS
  <2>1. F[m] = WarningKeys(m) /\ F[m] \in Seq(Senders)
    BY <2>0, MessageFacts
  <2>2. KeysSeen(WarningKeys) = Each(h, F)
    BY <1>0, <1>1, <2>0 DEF KeysSeen, Each
  <2>3. KeysSeen(WarningKeys)' = Each(g, F)
    BY <1>0, <1>1, <2>0 DEF KeysSeen, Each
  <2>4. Each(h, F) \in Seq(Seq(Senders))
    BY <1>3, <2>2
  <2>5. Each(g, F) = Append(Each(h, F), F[m])
    <3>1. OneLonger(h, g, m)
      BY <1>2
    <3>2. F[m] \in Seq(Senders)
      BY <2>1
    <3>3. Each(h, F) \in Seq(Seq(Senders))
      BY <2>4
    <3> QED BY ONLY <3>1, <3>2, <3>3, SeenGrows
  <2> QED BY <2>1, <2>2, <2>3, <2>5
<1> QED BY <1>0, <1>1, <1>4, <1>5, <1>6, <1>7, <1>8

LEMMA CountingStep ==
  ASSUME Counting, NEW m \in Messages, ProcessMessage(m)
  PROVE  Counting'
<1>1. history' = Append(history, m)
  BY DEF ProcessMessage
<1>2. /\ history' \in Seq(Messages)
      /\ KeysSeen(PrefixKeys)' = Append(KeysSeen(PrefixKeys), PrefixKeys(m))
      /\ KeysSeen(PathKeys)' = Append(KeysSeen(PathKeys), PathKeys(m))
      /\ KeysSeen(PairKeys)' = Append(KeysSeen(PairKeys), PairKeys(m))
      /\ KeysSeen(PeerKeys)' = Append(KeysSeen(PeerKeys), PeerKeys(m))
      /\ KeysSeen(WarningKeys)' = Append(KeysSeen(WarningKeys), WarningKeys(m))
  BY <1>1, KeysSeenGrow
<1>3. /\ MaxPrefixes \in Nat /\ MaxAsns \in Nat /\ MaxPairs \in Nat /\ MaxPeers \in Nat
  BY CapAssumption
<1>4. /\ Follows(churn, Nat, KeysSeen(PrefixKeys), MaxPrefixes)
      /\ Follows(frequency, Nat, KeysSeen(PathKeys), MaxAsns)
      /\ Follows(adjacency, Nat \X Nat, KeysSeen(PairKeys), MaxPairs)
      /\ Follows(peerMsgs, Senders, KeysSeen(PeerKeys), MaxPeers)
      /\ Follows(peerWarnings, Senders, KeysSeen(WarningKeys), MaxPeers)
  BY DEF Counting
<1>5. /\ Follows(churn', Nat, KeysSeen(PrefixKeys)', MaxPrefixes)
      /\ Follows(frequency', Nat, KeysSeen(PathKeys)', MaxAsns)
      /\ Follows(adjacency', Nat \X Nat, KeysSeen(PairKeys)', MaxPairs)
  <2>1. ASSUME Logged(m), m.update # NoUpdate
        PROVE  /\ churn' = BumpAll(churn, PrefixKeys(m), MaxPrefixes)
               /\ frequency' = BumpAll(frequency, PathKeys(m), MaxAsns)
               /\ adjacency' = BumpAll(adjacency, PairKeys(m), MaxPairs)
    BY <2>1 DEF ProcessMessage, Track, PrefixKeys, PathKeys, PairKeys
  <2>2. ASSUME Logged(m), m.update # NoUpdate
        PROVE  <1>5
    BY <1>2, <1>3, <1>4, <2>1, <2>2, FollowsAll, MessageFacts
  <2>3. ASSUME ~(Logged(m) /\ m.update # NoUpdate)
        PROVE  <1>5
    <3>1. PrefixKeys(m) = <<>> /\ PathKeys(m) = <<>>
      BY <2>3 DEF PrefixKeys, PathKeys
    <3>2. PairKeys(m) = <<>>
      BY <3>1 DEF PairKeys, Pairs
    <3>3. churn' = churn /\ frequency' = frequency /\ adjacency' = adjacency
      BY <2>3 DEF ProcessMessage
    <3> QED BY <1>2, <1>3, <1>4, <3>1, <3>2, <3>3, FollowsNone
  <2> QED BY <2>2, <2>3
<1>6. ASSUME m.frame /\ m.peer # NoPeer
      PROVE  /\ Follows(peerMsgs', Senders, KeysSeen(PeerKeys)', MaxPeers)
             /\ Follows(peerWarnings', Senders, KeysSeen(WarningKeys)', MaxPeers)
  <2> DEFINE n == Cardinality(Findings(m))
  <2>1. /\ PeerKeys(m) = <<m.peer>>
        /\ WarningKeys(m) = [i \in 1..n |-> m.peer]
        /\ m.peer \in Senders /\ n \in Nat
        /\ Findings(m) = {} => n = 0
    <3>1. PeerKeys(m) = <<m.peer>>
      BY <1>6 DEF PeerKeys
    <3>2. <<m.peer>> # <<>>
      OBVIOUS
    <3>3. WarningKeys(m) = [i \in 1..n |-> m.peer]
      BY <3>1, <3>2 DEF WarningKeys
    <3> QED BY <3>1, <3>3, MessageFacts
  <2>2. /\ peerMsgs' = BumpCount(peerMsgs, m.peer, 1, MaxPeers)
        /\ peerWarnings' = IF Findings(m) = {} THEN peerWarnings
                           ELSE BumpCount(peerWarnings, m.peer, n, MaxPeers)
    BY <1>6 DEF ProcessMessage, CountPeer
  <2> HIDE DEF n
  <2>3. Follows(peerMsgs', Senders, KeysSeen(PeerKeys)', MaxPeers)
    <3>1. /\ PeerKeys(m) \in Seq(Senders) /\ Len(PeerKeys(m)) = 1
          /\ \A j \in 1..1 : PeerKeys(m)[j] = m.peer
      BY <2>1, MessageFacts
    <3>2. Follows(BumpCount(peerMsgs, m.peer, 1, MaxPeers), Senders,
                  Append(KeysSeen(PeerKeys), PeerKeys(m)), MaxPeers)
      BY <1>3, <1>4, <2>1, <3>1, FollowsBump
    <3> QED BY <1>2, <2>2, <3>2
  <2>4. Follows(peerWarnings', Senders, KeysSeen(WarningKeys)', MaxPeers)
    <3>1. CASE Findings(m) = {}
      <4>1. WarningKeys(m) = <<>>
        <5>1. n = 0 /\ WarningKeys(m) \in Seq(Senders)
          BY <2>1, <3>1, MessageFacts
        <5>2. Len(WarningKeys(m)) = 0
          BY <2>1, <5>1
        <5> QED BY <5>1, <5>2, EmptySeq
      <4>2. peerWarnings' = peerWarnings
        BY <2>2, <3>1
      <4> QED BY <1>2, <1>3, <1>4, <4>1, <4>2, FollowsNone
    <3>2. CASE Findings(m) # {}
      <4>1. Follows(BumpCount(peerWarnings, m.peer, n, MaxPeers), Senders,
                    Append(KeysSeen(WarningKeys), WarningKeys(m)), MaxPeers)
        <5>1. /\ WarningKeys(m) \in Seq(Senders) /\ Len(WarningKeys(m)) = n
              /\ \A j \in 1..n : WarningKeys(m)[j] = m.peer
          BY <2>1, MessageFacts
        <5> QED BY <1>3, <1>4, <2>1, <5>1, FollowsBump
      <4>2. peerWarnings' = BumpCount(peerWarnings, m.peer, n, MaxPeers)
        BY <2>2, <3>2
      <4> QED BY <1>2, <2>1, <4>1, <4>2
    <3> QED BY <3>1, <3>2
  <2> QED BY <2>3, <2>4
<1>7. ASSUME ~(m.frame /\ m.peer # NoPeer)
      PROVE  /\ Follows(peerMsgs', Senders, KeysSeen(PeerKeys)', MaxPeers)
             /\ Follows(peerWarnings', Senders, KeysSeen(WarningKeys)', MaxPeers)
  <2>1. PeerKeys(m) = <<>>
    BY <1>7 DEF PeerKeys
  <2>2. WarningKeys(m) = <<>>
    BY <2>1 DEF WarningKeys
  <2>3. peerMsgs' = peerMsgs /\ peerWarnings' = peerWarnings
    BY <1>7 DEF ProcessMessage, CountPeer
  <2> QED BY <1>2, <1>3, <1>4, <2>1, <2>2, <2>3, FollowsNone
<1>8. /\ Follows(peerMsgs', Senders, KeysSeen(PeerKeys)', MaxPeers)
      /\ Follows(peerWarnings', Senders, KeysSeen(WarningKeys)', MaxPeers)
  BY <1>6, <1>7
<1> QED BY <1>2, <1>5, <1>8 DEF Counting

-----------------------------------------------------------------------------
(* The greatest member of a finite set of numbers.                         *)
LEMMA Greatest ==
  ASSUME NEW S \in SUBSET Nat, IsFiniteSet(S), S # {}
  PROVE  Max(S) \in S /\ \A y \in S : y <= Max(S)
<1> DEFINE above == [x \in S |-> {y \in S : y > x}]
<1>1. above \in [S -> SUBSET S] /\ S \subseteq Nat
  OBVIOUS
<1>2. \A x \in S : above[x] = {y \in S : y > x}
  OBVIOUS
<1> HIDE DEF above
<1>3. Orders(above, S)
  <2>1. ASSUME NEW x \in S, NEW y \in S PROVE y \in above[x] <=> y > x
    BY <1>2
  <2>2. ASSUME NEW x \in S PROVE x \notin above[x]
    BY <1>1, <2>1
  <2>3. ASSUME NEW x \in S, NEW y \in above[x], NEW z \in above[y]
        PROVE  z \in above[x]
    <3>1. y \in S /\ z \in S
      BY <1>1
    <3>2. y > x /\ z > y
      BY <2>1, <3>1
    <3>3. z > x
      BY <1>1, <3>1, <3>2
    <3> QED BY <2>1, <3>1, <3>3
  <2>4. ASSUME NEW x \in S, NEW y \in S, x # y PROVE x \in above[y] \/ y \in above[x]
    <3>1. x > y \/ y > x
      BY <1>1, <2>4
    <3> QED BY <2>1, <3>1
  <2> QED BY <1>1, <2>2, <2>3, <2>4 DEF Orders
<1>4. PICK x \in S : above[x] = {}
  BY <1>3, FirstMember
<1>5. \A y \in S : x >= y
  BY <1>1, <1>2, <1>4
<1>6. Max(S) \in S /\ \A y \in S : Max(S) >= y
  BY <1>5 DEF Max
<1> QED BY <1>1, <1>6

(* The origin of a prefix is that of the latest message that gave one.     *)
Named(p) ==
  {i \in DOMAIN history : /\ p \in ToSet(PrefixKeys(history[i]))
                          /\ Origin(history[i].update) # 0}

Grouping ==
  /\ origins \in BoundedMaps(Nat, Nat, MaxPrefixes)
  /\ lastPath \in BoundedMaps(Nat, Seq(Nat), MaxPrefixes)
  /\ \A p \in DOMAIN origins :
       Named(p) # {} /\ origins[p] = Last(history[Max(Named(p))].update.path)

LEMMA GroupingEmptied ==
  ASSUME Emptied
  PROVE  Grouping
<1>1. /\ origins \in BoundedMaps(Nat, Nat, MaxPrefixes) /\ DOMAIN origins = {}
      /\ lastPath \in BoundedMaps(Nat, Seq(Nat), MaxPrefixes)
  BY NoKeys, CapAssumption DEF Emptied
<1> QED BY <1>1 DEF Grouping

LEMMA NamedGrows ==
  ASSUME history \in Seq(Messages), NEW m \in Messages,
         history' = Append(history, m), NEW p
  PROVE  /\ Named(p) \subseteq 1..Len(history) /\ IsFiniteSet(Named(p))
         /\ Len(history) \in Nat
         /\ history'[Len(history) + 1] = m
         /\ \A i \in 1..Len(history) : history'[i] = history[i]
         /\ Named(p)' = IF p \in ToSet(PrefixKeys(m)) /\ Origin(m.update) # 0
                        THEN Named(p) \cup {Len(history) + 1} ELSE Named(p)
<1> DEFINE n == Len(history)
<1>1. /\ n \in Nat /\ DOMAIN history = 1..n
      /\ DOMAIN history' = 1..(n+1) /\ history'[n+1] = m
      /\ \A i \in 1..n : history'[i] = history[i]
  <2>1. n \in Nat /\ DOMAIN history = 1..n
    BY LenProperties
  <2>2. /\ history' \in Seq(Messages) /\ Len(history') = n + 1
        /\ history'[n+1] = m /\ \A i \in 1..n : history'[i] = history[i]
    BY AppendProperties
  <2> QED BY <2>1, <2>2, LenProperties
<1>2. Named(p) \subseteq 1..n
  BY <1>1 DEF Named
<1>3. IsFiniteSet(Named(p))
  <2>1. IsFiniteSet(1..n)
    BY <1>1, FS_Interval
  <2> QED BY <1>2, <2>1, FS_Subset
<1>4. 1..(n+1) = (1..n) \cup {n+1} /\ n + 1 \notin 1..n
  BY <1>1
<1>5. Named(p)' = {i \in DOMAIN history' : /\ p \in ToSet(PrefixKeys(history'[i]))
                                          /\ Origin(history'[i].update) # 0}
  BY DEF Named
<1> HIDE DEF n
<1>6. Named(p)' = IF p \in ToSet(PrefixKeys(m)) /\ Origin(m.update) # 0
                  THEN Named(p) \cup {n + 1} ELSE Named(p)
  <2> DEFINE Names(x) == p \in ToSet(PrefixKeys(x)) /\ Origin(x.update) # 0
  <2>1. Named(p) = {i \in 1..n : Names(history[i])}
    BY <1>1 DEF Named
  <2>2. Named(p)' = {i \in 1..(n+1) : Names(history'[i])}
    BY <1>1, <1>5
  <2> HIDE DEF Names
  <2>3. CASE Names(m)
    <3>1. Named(p)' = Named(p) \cup {n + 1}
      BY <1>1, <1>4, <2>1, <2>2, <2>3
    <3> QED BY <2>3, <3>1 DEF Names
  <2>4. CASE ~Names(m)
    <3>1. Named(p)' = Named(p)
      BY <1>1, <1>4, <2>1, <2>2, <2>4
    <3> QED BY <2>4, <3>1 DEF Names
  <2> QED BY <2>3, <2>4
<1> QED BY <1>1, <1>2, <1>3, <1>6 DEF n

LEMMA GroupingStep ==
  ASSUME Grouping, history \in Seq(Messages), NEW m \in Messages, ProcessMessage(m)
  PROVE  Grouping'
<1> DEFINE n == Len(history)
<1>1. history' = Append(history, m) /\ MaxPrefixes \in Nat
  BY CapAssumption DEF ProcessMessage
<1>2. /\ origins \in BoundedMaps(Nat, Nat, MaxPrefixes)
      /\ lastPath \in BoundedMaps(Nat, Seq(Nat), MaxPrefixes)
      /\ \A p \in DOMAIN origins :
           Named(p) # {} /\ origins[p] = Last(history[Max(Named(p))].update.path)
  BY DEF Grouping
<1>3. /\ n \in Nat /\ history'[n + 1] = m
      /\ \A i \in 1..n : history'[i] = history[i]
      /\ \A p : /\ Named(p) \subseteq 1..n /\ IsFiniteSet(Named(p))
                /\ Named(p)' = IF p \in ToSet(PrefixKeys(m)) /\ Origin(m.update) # 0
                               THEN Named(p) \cup {n + 1} ELSE Named(p)
  BY <1>1, NamedGrows
<1> HIDE DEF n
<1>4. ASSUME NEW p \in DOMAIN origins,
             ~(p \in ToSet(PrefixKeys(m)) /\ Origin(m.update) # 0)
      PROVE  /\ Named(p)' # {}
             /\ origins[p] = Last(history'[Max(Named(p)')].update.path)
  <2>1. Named(p)' = Named(p)
    BY <1>3, <1>4
  <2>2. Max(Named(p)) \in Named(p)
    <3>1. 1..n \subseteq Nat
      BY <1>3
    <3> QED BY <1>2, <1>3, <3>1, Greatest
  <2>3. history'[Max(Named(p))] = history[Max(Named(p))]
    BY <1>3, <2>2
  <2> QED BY <1>2, <2>1, <2>3
<1>5. CASE Logged(m) /\ m.update # NoUpdate
  <2>1. m.update \in Updates /\ PrefixKeys(m) = Changed(m.update)
    BY <1>5, MessageFacts DEF PrefixKeys
  <2>2. /\ origins' = IF Origin(m.update) = 0 THEN origins
                      ELSE InsertAll(origins, Changed(m.update), Origin(m.update), MaxPrefixes)
        /\ lastPath' = InsertAll(lastPath, m.update.announced, StoredPath(m.update),
                                 MaxPrefixes)
    BY <1>5 DEF ProcessMessage, Track
  <2>3. /\ m.update.announced \in Seq(Nat) /\ Changed(m.update) \in Seq(Nat)
        /\ StoredPath(m.update) \in Seq(Nat) /\ Origin(m.update) \in Nat
    BY <2>1, UpdateFacts
  <2>4. lastPath' \in BoundedMaps(Nat, Seq(Nat), MaxPrefixes)
    BY <1>1, <1>2, <2>2, <2>3, AllInserted
  <2>5. CASE Origin(m.update) = 0
    <3>1. origins' = origins
      BY <2>2, <2>5
    <3>2. \A p \in DOMAIN origins' :
            Named(p)' # {} /\ origins'[p] = Last(history'[Max(Named(p)')].update.path)
      BY <1>4, <2>5, <3>1
    <3> QED BY <1>2, <2>4, <3>1, <3>2 DEF Grouping
  <2>6. CASE Origin(m.update) # 0
    <3> DEFINE o   == Origin(m.update)
               new == InsertAll(origins, Changed(m.update), o, MaxPrefixes)
    <3>1. o = Last(m.update.path)
      BY <2>6 DEF Origin
    <3>2. /\ new \in BoundedMaps(Nat, Nat, MaxPrefixes)
          /\ \A x \in DOMAIN new :
               \/ x \in ToSet(Changed(m.update)) /\ new[x] = o
               \/ x \notin ToSet(Changed(m.update)) /\ x \in DOMAIN origins
                  /\ new[x] = origins[x]
      BY <1>1, <1>2, <2>3, AllInserted
    <3>3. origins' = new
      BY <2>2, <2>6
    <3> HIDE DEF new, o
    <3>4. ASSUME NEW p \in DOMAIN new
          PROVE  /\ Named(p)' # {}
                 /\ new[p] = Last(history'[Max(Named(p)')].update.path)
      <4>1. CASE p \in ToSet(Changed(m.update))
        <5>1. Named(p)' = Named(p) \cup {n + 1}
          BY <1>3, <2>1, <2>6, <4>1
        <5>2. Max(Named(p)') = n + 1
          <6> DEFINE N == Named(p)'
          <6>1. n + 1 \in N /\ (\A y \in N : y \in Nat /\ n + 1 >= y)
                /\ \A z \in N : z >= n + 1 => z = n + 1
            <7>1. \A y \in 1..n : y \in Nat /\ n + 1 >= y /\ ~(y >= n + 1)
              BY <1>3
            <7> QED BY <1>3, <5>1, <7>1
          <6> HIDE DEF N
          <6>2. Max(N) = n + 1
            BY <6>1 DEF Max
          <6> QED BY <6>2 DEF N
        <5> QED BY <1>3, <3>1, <3>2, <4>1, <5>1, <5>2
      <4>2. CASE p \notin ToSet(Changed(m.update))
        <5>1. p \in DOMAIN origins /\ new[p] = origins[p]
          BY <3>2, <4>2
        <5> QED BY <1>4, <2>1, <4>2, <5>1
      <4> QED BY <4>1, <4>2
    <3> QED BY <2>4, <3>2, <3>3, <3>4 DEF Grouping
  <2> QED BY <2>5, <2>6
<1>6. CASE ~(Logged(m) /\ m.update # NoUpdate)
  <2>1. origins' = origins /\ lastPath' = lastPath
    BY <1>6 DEF ProcessMessage
  <2>2. PrefixKeys(m) = <<>>
    BY <1>6 DEF PrefixKeys
  <2>3. \A p : p \notin ToSet(PrefixKeys(m))
    BY <2>2 DEF ToSet
  <2>4. \A p \in DOMAIN origins' :
          Named(p)' # {} /\ origins'[p] = Last(history'[Max(Named(p)')].update.path)
    BY <1>4, <2>1, <2>3
  <2> QED BY <1>2, <2>1, <2>4 DEF Grouping
<1> QED BY <1>5, <1>6

-----------------------------------------------------------------------------
(* The Prefix Flaps panel.                                                 *)

(* By a greater key first, then by the smaller number.                     *)
LEMMA KeyOrders ==
  ASSUME NEW S \in SUBSET Nat, NEW key \in [S -> Nat], NEW ahead \in [S -> SUBSET S],
         \A x \in S : ahead[x] =
           {q \in S : key[q] > key[x] \/ (key[q] = key[x] /\ q < x)}
  PROVE  Orders(ahead, S)
<1>1. S \subseteq Nat /\ \A x \in S : key[x] \in Nat
  OBVIOUS
<1>2. ASSUME NEW x \in S, NEW y \in S
      PROVE  y \in ahead[x] <=> key[y] > key[x] \/ (key[y] = key[x] /\ y < x)
  OBVIOUS
<1>3. ASSUME NEW x \in S PROVE x \notin ahead[x]
  <2>1. ~(key[x] > key[x]) /\ ~(x < x)
    BY <1>1
  <2> QED BY <1>2, <2>1
<1>4. ASSUME NEW x \in S, NEW y \in ahead[x], NEW z \in ahead[y] PROVE z \in ahead[x]
  <2>1. y \in S /\ z \in S
    OBVIOUS
  <2>2. /\ key[y] > key[x] \/ (key[y] = key[x] /\ y < x)
        /\ key[z] > key[y] \/ (key[z] = key[y] /\ z < y)
    BY <1>2, <2>1
  <2>3. /\ x \in Nat /\ y \in Nat /\ z \in Nat
        /\ key[x] \in Nat /\ key[y] \in Nat /\ key[z] \in Nat
    BY <1>1, <2>1
  <2>4. key[z] > key[x] \/ (key[z] = key[x] /\ z < x)
    BY <2>2, <2>3
  <2> QED BY <1>2, <2>1, <2>4
<1>5. ASSUME NEW x \in S, NEW y \in S, x # y PROVE x \in ahead[y] \/ y \in ahead[x]
  <2>1. /\ x \in Nat /\ y \in Nat /\ key[x] \in Nat /\ key[y] \in Nat
    BY <1>1
  <2>2. \/ key[x] > key[y] \/ (key[x] = key[y] /\ x < y)
        \/ key[y] > key[x] \/ (key[y] = key[x] /\ y < x)
    BY <1>5, <2>1
  <2> QED BY <1>2, <2>2
<1> QED BY <1>3, <1>4, <1>5 DEF Orders

(* The ranking begins with the one that has none ahead.                    *)
LEMMA RankedOrder ==
  ASSUME NEW S, IsFiniteSet(S), S # {}, NEW ahead, Orders(ahead, S)
  PROVE  /\ Ranked(S, ahead) \in Seq(S)
         /\ Len(Ranked(S, ahead)) \in Nat /\ Len(Ranked(S, ahead)) >= 1
         /\ Ranked(S, ahead)[1] \in S
         /\ ahead[Ranked(S, ahead)[1]] = {}
<1> DEFINE n == Cardinality(S)
           r == [k \in 1..n |-> CHOOSE x \in S : Cardinality(ahead[x]) = k - 1]
<1>1. \A i \in 0..(Cardinality(S) - 1) : \E x \in S : Cardinality(ahead[x]) = i
  BY EveryRank
<1>2. n \in Nat /\ n # 0
  BY FS_CardinalityType, FS_EmptySet
<1>3. Ranked(S, ahead) = r
  BY DEF Ranked
<1>4. \A x \in S : Cardinality(ahead[x]) = 0 => ahead[x] = {}
  BY FirstMember
<1>5. \A k \in 1..n : \E x \in S : Cardinality(ahead[x]) = k - 1
  <2>1. \A k \in 1..n : k - 1 \in 0..(n - 1)
    BY <1>2
  <2> QED BY <1>1, <2>1
<1> HIDE DEF n
<1>6. \A k \in 1..n : r[k] \in S /\ Cardinality(ahead[r[k]]) = k - 1
  BY <1>5
<1>7. r \in [1..n -> S]
  BY <1>6
<1>8. 1 \in 1..n /\ n >= 1
  BY <1>2
<1> HIDE DEF r
<1>9. r \in Seq(S) /\ Len(r) = n
  BY <1>2, <1>7, IsASeq
<1>10. r[1] \in S /\ ahead[r[1]] = {}
  <2>1. Cardinality(ahead[r[1]]) = 0
    BY <1>6, <1>8
  <2> QED BY <1>4, <1>6, <1>8, <2>1
<1> QED BY <1>2, <1>3, <1>8, <1>9, <1>10

(* The first in the ranking has the greatest key.                          *)
LEMMA RankedFirst ==
  ASSUME NEW S \in SUBSET Nat, IsFiniteSet(S), S # {}, NEW key \in [S -> Nat],
         NEW ahead \in [S -> SUBSET S],
         \A x \in S : ahead[x] =
           {q \in S : key[q] > key[x] \/ (key[q] = key[x] /\ q < x)}
  PROVE  /\ Ranked(S, ahead) \in Seq(S)
         /\ Len(Ranked(S, ahead)) \in Nat /\ Len(Ranked(S, ahead)) >= 1
         /\ Ranked(S, ahead)[1] \in S
         /\ \A x \in S : key[x] <= key[Ranked(S, ahead)[1]]
<1> DEFINE r == Ranked(S, ahead)
<1>1. Orders(ahead, S)
  BY KeyOrders
<1>2. /\ r \in Seq(S) /\ Len(r) \in Nat /\ Len(r) >= 1
      /\ r[1] \in S /\ ahead[r[1]] = {}
  BY <1>1, RankedOrder
<1> HIDE DEF r
<1>3. ASSUME NEW x \in S PROVE key[x] <= key[r[1]]
  <2>1. ~(key[x] > key[r[1]])
    BY <1>2
  <2>2. key[x] \in Nat /\ key[r[1]] \in Nat
    BY <1>2
  <2> QED BY <2>1, <2>2
<1> QED BY <1>2, <1>3 DEF r

(* How often a prefix changed is a number, and so is an origin's rank.     *)
LEMMA ChurnFacts ==
  ASSUME Counting, Grouping
  PROVE  /\ \A p : ChurnOf(p) \in Nat
         /\ DOMAIN origins \in SUBSET Nat /\ IsFiniteSet(DOMAIN origins)
         /\ origins \in [DOMAIN origins -> Nat]
         /\ \A o : PrefixesOf(o) \subseteq DOMAIN origins /\ IsFiniteSet(PrefixesOf(o))
         /\ Grouped \in SUBSET Nat /\ IsFiniteSet(Grouped)
         /\ \A o \in Grouped : PrefixesOf(o) # {}
<1>1. churn \in BoundedMaps(Nat, Nat, MaxPrefixes)
  <2>1. Follows(churn, Nat, KeysSeen(PrefixKeys), MaxPrefixes)
    BY DEF Counting
  <2> QED BY <2>1 DEF Follows, Tally
<1>2. churn \in [DOMAIN churn -> Nat]
  BY <1>1, MapFacts
<1>3. \A p : ChurnOf(p) \in Nat
  BY <1>2 DEF ChurnOf
<1>4. /\ DOMAIN origins \subseteq Nat /\ IsFiniteSet(DOMAIN origins)
      /\ origins \in [DOMAIN origins -> Nat]
  BY MapFacts DEF Grouping
<1>5. ASSUME NEW o
      PROVE  PrefixesOf(o) \subseteq DOMAIN origins /\ IsFiniteSet(PrefixesOf(o))
  <2>1. PrefixesOf(o) \subseteq DOMAIN origins
    BY DEF PrefixesOf
  <2> QED BY <1>4, <2>1, FS_Subset
<1>6. Grouped \subseteq Nat /\ \A o \in Grouped : PrefixesOf(o) # {}
  BY <1>4 DEF Grouped, PrefixesOf
<1>7. IsFiniteSet(Grouped)
  <2>1. \A o \in Grouped : \E p \in DOMAIN origins : origins[p] = o
    BY DEF Grouped
  <2>2. \A p \in DOMAIN origins : origins[p] \in Grouped
    BY DEF Grouped
  <2>3. origins \in Surjection(DOMAIN origins, Grouped)
    BY <1>4, <2>1, <2>2 DEF Surjection
  <2> QED BY <1>4, <2>3, FS_Surjection
<1> QED BY <1>3, <1>4, <1>5, <1>6, <1>7

(* The rows that may stand in the panel.                                   *)
RestRow(o) ==
  <<"rest", MapThenSumSet(ChurnOf, ToSet(SubSeq(RankedPrefixes(o), MaxShow + 1,
                                                Len(RankedPrefixes(o)))))>>

RowsOf(o) == (PrefixesOf(o) \X Nat) \cup {RestRow(o), <<"blank", 0>>}

LEMMA FirstRow ==
  ASSUME Counting, Grouping, NEW o \in Grouped
  PROVE  /\ GroupRows(o) \in Seq(RowsOf(o))
         /\ Len(GroupRows(o)) >= 1 /\ Len(GroupRows(o)) \in Nat
         /\ \E p \in PrefixesOf(o) :
              /\ GroupRows(o)[1] = <<p, ChurnOf(p)>>
              /\ \A q \in PrefixesOf(o) : ChurnOf(q) <= ChurnOf(p)
<1> DEFINE S     == PrefixesOf(o)
           key   == [p \in S |-> ChurnOf(p)]
           ahead == [p \in S |-> {q \in S : \/ ChurnOf(q) > ChurnOf(p)
                                            \/ ChurnOf(q) = ChurnOf(p) /\ q < p}]
           ps    == RankedPrefixes(o)
           row   == [i \in 1..Min({MaxShow, Len(ps)}) |-> <<ps[i], ChurnOf(ps[i])>>]
           rest  == SubSeq(ps, MaxShow + 1, Len(ps))
           tail  == IF rest = <<>> THEN <<>> ELSE <<RestRow(o)>>
<1>1. /\ S \in SUBSET Nat /\ IsFiniteSet(S) /\ S # {} /\ \A p : ChurnOf(p) \in Nat
  BY ChurnFacts
<1>2. key \in [S -> Nat] /\ ahead \in [S -> SUBSET S]
  BY <1>1
<1>3. \A p \in S : ahead[p] = {q \in S : key[q] > key[p] \/ (key[q] = key[p] /\ q < p)}
  OBVIOUS
<1>4. ps = Ranked(S, ahead)
  BY DEF RankedPrefixes
<1>5. GroupRows(o) = row \o tail \o << <<"blank", 0>> >>
  BY DEF GroupRows, RestRow
<1>6. \A p \in S : key[p] = ChurnOf(p)
  OBVIOUS
<1>7. MaxShow \in Nat /\ MaxShow >= 1
  BY CapAssumption
<1> HIDE DEF key, ahead, S
<1>8. /\ ps \in Seq(S) /\ Len(ps) \in Nat /\ Len(ps) >= 1 /\ ps[1] \in S
      /\ \A p \in S : key[p] <= key[ps[1]]
  BY <1>1, <1>2, <1>3, <1>4, RankedFirst
<1>9. \A i \in 1..Len(ps) : ps[i] \in S
  BY <1>8, ElementOfSeq
<1> HIDE DEF ps, rest
<1>10. row \in Seq(RowsOf(o)) /\ Len(row) >= 1 /\ Len(row) \in Nat
       /\ row[1] = <<ps[1], ChurnOf(ps[1])>>
  <2> DEFINE n == Min({MaxShow, Len(ps)})
  <2>1. n \in Nat /\ n >= 1 /\ n <= Len(ps)
    BY <1>7, <1>8, SmallerOfTwo
  <2> HIDE DEF n
  <2>2. \A i \in 1..n : <<ps[i], ChurnOf(ps[i])>> \in RowsOf(o)
    <3> SUFFICES ASSUME NEW i \in 1..n PROVE <<ps[i], ChurnOf(ps[i])>> \in RowsOf(o)
      OBVIOUS
    <3>1. i \in 1..Len(ps)
      BY <1>8, <2>1
    <3> QED BY <1>1, <1>9, <3>1 DEF RowsOf, S
  <2>3. row \in [1..n -> RowsOf(o)]
    BY <2>2 DEF n
  <2>4. 1 \in 1..n
    BY <2>1
  <2>5. row[1] = <<ps[1], ChurnOf(ps[1])>>
    BY <2>4 DEF n
  <2> HIDE DEF row
  <2>6. row \in Seq(RowsOf(o)) /\ Len(row) = n
    BY <2>1, <2>3, IsASeq
  <2> QED BY <2>1, <2>5, <2>6
<1> HIDE DEF row
<1>11. tail \in Seq(RowsOf(o)) /\ << <<"blank", 0>> >> \in Seq(RowsOf(o))
  <2>1. RestRow(o) \in RowsOf(o) /\ <<"blank", 0>> \in RowsOf(o)
    BY DEF RowsOf
  <2> HIDE DEF RestRow, RowsOf
  <2> QED BY <2>1
<1> HIDE DEF tail
<1>12. /\ GroupRows(o) \in Seq(RowsOf(o))
       /\ Len(GroupRows(o)) >= 1 /\ Len(GroupRows(o)) \in Nat
       /\ GroupRows(o)[1] = row[1]
  <2> DEFINE a == row \o tail
             b == << <<"blank", 0>> >>
  <2>1. a \in Seq(RowsOf(o)) /\ Len(a) = Len(row) + Len(tail) /\ Len(tail) \in Nat
        /\ \A i \in 1..Len(row) : a[i] = row[i]
    BY <1>10, <1>11, ConcatProperties, LenProperties
  <2>2. Len(a) \in Nat /\ Len(a) >= 1 /\ a[1] = row[1]
    BY <1>10, <2>1
  <2> HIDE DEF a
  <2>3. a \o b \in Seq(RowsOf(o)) /\ Len(a \o b) = Len(a) + Len(b) /\ Len(b) \in Nat
        /\ \A i \in 1..Len(a) : (a \o b)[i] = a[i]
    BY <1>11, <2>1, ConcatProperties, LenProperties
  <2>4. GroupRows(o) = a \o b
    BY <1>5 DEF a
  <2> HIDE DEF b
  <2> QED BY <2>2, <2>3, <2>4
<1> QED BY <1>6, <1>8, <1>10, <1>12 DEF S

(* The panel begins with the first group in the ranking.                   *)
LEMMA FlapsBegin ==
  ASSUME Counting, Grouping, Grouped # {}, NEW height \in Nat, height >= 2
  PROVE  \E o \in Grouped :
           /\ PrefixFlaps(height)[1] = GroupRows(o)[1]
           /\ \A q \in Grouped : Rank(q) <= Rank(o)
<1> DEFINE key   == [o \in Grouped |-> Rank(o)]
           ahead == [o \in Grouped |->
             {q \in Grouped : Rank(q) > Rank(o) \/ (Rank(q) = Rank(o) /\ q < o)}]
           leading == RankedOrigins
<1>1. \A o \in Grouped : Rank(o) \in Nat
  <2> SUFFICES ASSUME NEW o \in Grouped PROVE Rank(o) \in Nat
    OBVIOUS
  <2> DEFINE C == {ChurnOf(p) : p \in PrefixesOf(o)}
  <2>1. C \subseteq Nat /\ C # {}
    BY ChurnFacts
  <2>2. IsFiniteSet(C)
    <3>1. IsFiniteSet(PrefixesOf(o))
      BY ChurnFacts
    <3>2. [p \in PrefixesOf(o) |-> ChurnOf(p)] \in Surjection(PrefixesOf(o), C)
      BY DEF Surjection
    <3> QED BY <3>1, <3>2, FS_Surjection
  <2>3. Rank(o) = Max(C)
    BY DEF Rank
  <2> HIDE DEF C
  <2> QED BY <2>1, <2>2, <2>3, Greatest
<1>2. /\ Grouped \in SUBSET Nat /\ IsFiniteSet(Grouped)
      /\ key \in [Grouped -> Nat] /\ ahead \in [Grouped -> SUBSET Grouped]
  BY <1>1, ChurnFacts
<1>3. \A o \in Grouped : ahead[o] =
        {q \in Grouped : key[q] > key[o] \/ (key[q] = key[o] /\ q < o)}
  OBVIOUS
<1>4. leading = Ranked(Grouped, ahead)
  BY DEF RankedOrigins
<1>5. \A o \in Grouped : key[o] = Rank(o)
  OBVIOUS
<1> HIDE DEF key, ahead
<1>6. /\ leading \in Seq(Grouped) /\ Len(leading) \in Nat /\ Len(leading) >= 1
      /\ leading[1] \in Grouped /\ \A q \in Grouped : key[q] <= key[leading[1]]
  BY <1>2, <1>3, <1>4, RankedFirst
<1> HIDE DEF leading
<1> DEFINE R == UNION {RowsOf(o) : o \in Grouped}
           S == Seq(R)
           g == Min({height \div 2, Len(leading)})
           step == [i \in 1..g |-> [v \in S |-> IF Len(v) >= height THEN v
                                                ELSE v \o GroupRows(leading[i])]]
           Def(h) == [i \in 0..g |-> IF i = 0 THEN <<>>
                                     ELSE IF Len(h[i-1]) >= height THEN h[i-1]
                                     ELSE h[i-1] \o GroupRows(leading[i])]
           e == CHOOSE h : h = Def(h)
<1>7. g \in Nat /\ g >= 1 /\ g <= Len(leading)
  <2>1. height \div 2 \in Nat /\ height \div 2 >= 1
    OBVIOUS
  <2> QED BY <1>6, <2>1, SmallerOfTwo
<1>8. PrefixFlaps(height) = e[g]
  BY DEF PrefixFlaps, leading
<1>9. \A i \in 1..g : leading[i] \in Grouped
  <2>1. \A i \in 1..g : i \in 1..Len(leading)
    BY <1>6, <1>7
  <2> QED BY <1>6, <2>1, ElementOfSeq
<1>10. \A o \in Grouped : GroupRows(o) \in S /\ Len(GroupRows(o)) >= 1
  <2> SUFFICES ASSUME NEW o \in Grouped PROVE GroupRows(o) \in S /\ Len(GroupRows(o)) >= 1
    OBVIOUS
  <2>1. GroupRows(o) \in Seq(RowsOf(o)) /\ Len(GroupRows(o)) >= 1
    BY FirstRow
  <2>2. RowsOf(o) \subseteq R
    OBVIOUS
  <2> QED BY <2>1, <2>2
<1> HIDE DEF R, g
<1>11. <<>> \in S /\ \A i \in 1..g : \A v \in S :
         step[i][v] = IF Len(v) >= height THEN v ELSE v \o GroupRows(leading[i])
  BY EmptySeq
<1>12. step \in [1..g -> [S -> S]]
  <2>1. \A i \in 1..g : \A v \in S : v \o GroupRows(leading[i]) \in S
    BY <1>9, <1>10, ConcatProperties
  <2> QED BY <2>1
<1>13. \A v \in S : Len(v) \in Nat
  BY LenProperties
<1>14. \A v \in S : \A w \in S : v \o w \in S /\ Len(v \o w) = Len(v) + Len(w)
                                 /\ (Len(v) >= 1 => (v \o w)[1] = v[1])
                                 /\ (Len(v) = 0 => v \o w = w)
  <2> SUFFICES ASSUME NEW v \in S, NEW w \in S
               PROVE  /\ v \o w \in S /\ Len(v \o w) = Len(v) + Len(w)
                      /\ (Len(v) >= 1 => (v \o w)[1] = v[1])
                      /\ (Len(v) = 0 => v \o w = w)
    OBVIOUS
  <2>1. /\ v \o w \in S /\ Len(v \o w) = Len(v) + Len(w)
        /\ \A i \in 1..Len(v) : (v \o w)[i] = v[i]
    BY ConcatProperties
  <2>2. Len(v) >= 1 => 1 \in 1..Len(v)
    BY <1>13
  <2>3. Len(v) = 0 => v = <<>>
    BY EmptySeq
  <2> QED BY <2>1, <2>2, <2>3, ConcatEmptySeq
<1> HIDE DEF S, step
<1>15. PICK f \in [0..g -> S] : Solves(f, g, <<>>, step)
  BY <1>7, <1>11, <1>12, Recursion
<1>16. \A i \in 1..g : /\ f[i-1] \in S
                       /\ f[i] = IF Len(f[i-1]) >= height THEN f[i-1]
                                 ELSE f[i-1] \o GroupRows(leading[i])
  <2> SUFFICES ASSUME NEW i \in 1..g
               PROVE  /\ f[i-1] \in S
                      /\ f[i] = IF Len(f[i-1]) >= height THEN f[i-1]
                                ELSE f[i-1] \o GroupRows(leading[i])
    OBVIOUS
  <2>1. i - 1 \in 0..g
    BY <1>7
  <2>2. f[i] = step[i][f[i-1]] /\ f[i-1] \in S
    BY <1>15, <2>1 DEF Solves
  <2> QED BY <1>11, <2>2
<1>17. f = Def(f)
  <2>1. ASSUME NEW i \in 0..g
        PROVE  f[i] = IF i = 0 THEN <<>>
                      ELSE IF Len(f[i-1]) >= height THEN f[i-1]
                      ELSE f[i-1] \o GroupRows(leading[i])
    <3>1. CASE i = 0
      BY <1>15, <3>1 DEF Solves
    <3>2. CASE i # 0
      <4>1. i \in 1..g
        BY <1>7, <3>2
      <4> QED BY <1>16, <3>2, <4>1
    <3> QED BY <3>1, <3>2
  <2> QED BY <1>15, <2>1
<1>18. e = Def(e)
  BY <1>17
<1> HIDE DEF e
<1>19. /\ e[0] = <<>>
       /\ \A i \in 1..g : e[i] = IF Len(e[i-1]) >= height THEN e[i-1]
                                 ELSE e[i-1] \o GroupRows(leading[i])
  <2>1. \A i \in 0..g : e[i] = IF i = 0 THEN <<>>
                               ELSE IF Len(e[i-1]) >= height THEN e[i-1]
                               ELSE e[i-1] \o GroupRows(leading[i])
    BY <1>18
  <2>2. 0 \in 0..g /\ \A i \in 1..g : i \in 0..g /\ i # 0
    BY <1>7
  <2> QED BY <2>1, <2>2
<1>20. e[g] = f[g]
  <2>1. Continues(e, g, S, step)
    BY <1>11, <1>19 DEF Continues
  <2>2. /\ g \in Nat /\ f \in [0..g -> S] /\ Solves(f, g, <<>>, step) /\ e[0] = <<>>
    BY <1>7, <1>15, <1>19
  <2>3. SameUpTo(e, f, g)
    BY <1>11, <1>12, <2>1, <2>2, OnlySolution
  <2>4. g \in 0..g
    BY <1>7
  <2> QED BY <2>3, <2>4 DEF SameUpTo
<1> DEFINE first == GroupRows(leading[1])
           T == {i \in 0..g : i >= 1 => Len(f[i]) >= 1 /\ f[i][1] = first[1]}
<1>21. 0 \in T
  BY <1>7
<1>22. ASSUME NEW i \in 1..g, i - 1 \in T PROVE i \in T
  <2>1. /\ f[i-1] \in S /\ leading[i] \in Grouped /\ i \in 0..g
        /\ GroupRows(leading[i]) \in S /\ Len(GroupRows(leading[i])) >= 1
    BY <1>7, <1>9, <1>10, <1>16
  <2>2. CASE i = 1
    <3>1. f[i-1] = <<>>
      BY <1>15, <2>2 DEF Solves
    <3>2. Len(f[i-1]) = 0 /\ ~(Len(f[i-1]) >= height)
      BY <3>1
    <3>3. f[i] = first
      BY <1>14, <1>16, <2>1, <2>2, <3>2
    <3>4. Len(first) >= 1
      BY <2>1, <2>2
    <3> QED BY <2>1, <3>3, <3>4
  <2>3. CASE i # 1
    <3>1. i - 1 >= 1
      BY <2>3
    <3>2. Len(f[i-1]) >= 1 /\ f[i-1][1] = first[1]
      BY <1>22, <3>1
    <3> DEFINE w == GroupRows(leading[i])
               v == f[i-1]
    <3>3. v \in S /\ w \in S /\ Len(v) >= 1 /\ v[1] = first[1]
      BY <2>1, <3>2
    <3>4. f[i] = v \/ f[i] = v \o w
      BY <1>16
    <3> HIDE DEF v, w, first
    <3>5. Len(v) \in Nat /\ Len(w) \in Nat
      BY <1>13, <3>3
    <3>6. Len(v \o w) >= 1 /\ (v \o w)[1] = first[1]
      BY <1>14, <3>3, <3>5
    <3>7. Len(f[i]) >= 1 /\ f[i][1] = first[1]
      BY <3>3, <3>4, <3>6
    <3> QED BY <2>1, <3>7
  <2> QED BY <2>2, <2>3
<1> HIDE DEF T
<1>23. g \in T
  <2>1. 0..g \subseteq T
    BY <1>7, <1>21, <1>22, SetInduction
  <2> QED BY <1>7, <2>1
<1>24. f[g][1] = first[1]
  BY <1>7, <1>23 DEF T
<1> QED BY <1>5, <1>6, <1>8, <1>20, <1>24

LEMMA LeaderLeads ==
  ASSUME Counting, Grouping, NEW height \in Nat, height >= 2, origins # <<>>
  PROVE  PrefixFlaps(height)[1][2] = Max({ChurnOf(p) : p \in DOMAIN origins})
<1> DEFINE Churns == {ChurnOf(p) : p \in DOMAIN origins}
<1>1. /\ \A p : ChurnOf(p) \in Nat
      /\ DOMAIN origins \in SUBSET Nat /\ IsFiniteSet(DOMAIN origins)
      /\ origins \in [DOMAIN origins -> Nat]
      /\ \A o : PrefixesOf(o) \subseteq DOMAIN origins /\ IsFiniteSet(PrefixesOf(o))
      /\ Grouped \in SUBSET Nat /\ IsFiniteSet(Grouped)
      /\ \A o \in Grouped : PrefixesOf(o) # {}
  BY ChurnFacts
<1>2. DOMAIN origins # {}
  <2>1. \A f, g \in [{} -> Nat] : f = g
    OBVIOUS
  <2>2. <<>> \in [{} -> Nat] /\ origins \in [DOMAIN origins -> Nat]
    BY <1>1
  <2> HIDE DEF Churns
  <2>3. CASE DOMAIN origins = {}
    <3>1. origins \in [{} -> Nat]
      BY ONLY <2>2, <2>3
    <3> QED BY ONLY <2>1, <2>2, <3>1, origins # <<>>
  <2> QED BY <2>3
<1>3. Grouped # {}
  BY <1>2 DEF Grouped
<1>4. PICK o \in Grouped :
        /\ PrefixFlaps(height)[1] = GroupRows(o)[1]
        /\ \A q \in Grouped : Rank(q) <= Rank(o)
  <2> QED BY <1>3, FlapsBegin
<1>5. PICK p \in PrefixesOf(o) :
        /\ GroupRows(o)[1] = <<p, ChurnOf(p)>>
        /\ \A q \in PrefixesOf(o) : ChurnOf(q) <= ChurnOf(p)
  BY FirstRow
<1>6. PrefixFlaps(height)[1][2] = ChurnOf(p)
  BY <1>4, <1>5
<1>7. \A q \in Grouped :
        /\ Rank(q) \in {ChurnOf(x) : x \in PrefixesOf(q)}
        /\ \A x \in PrefixesOf(q) : ChurnOf(x) <= Rank(q)
  <2> SUFFICES ASSUME NEW q \in Grouped
               PROVE  /\ Rank(q) \in {ChurnOf(x) : x \in PrefixesOf(q)}
                      /\ \A x \in PrefixesOf(q) : ChurnOf(x) <= Rank(q)
    OBVIOUS
  <2> DEFINE C == {ChurnOf(x) : x \in PrefixesOf(q)}
  <2>1. C \subseteq Nat /\ C # {}
    BY <1>1
  <2>2. IsFiniteSet(C)
    <3>1. [x \in PrefixesOf(q) |-> ChurnOf(x)] \in Surjection(PrefixesOf(q), C)
      BY DEF Surjection
    <3> QED BY <1>1, <3>1, FS_Surjection
  <2>3. Rank(q) = Max(C)
    BY DEF Rank
  <2>4. \A x \in PrefixesOf(q) : ChurnOf(x) \in C
    OBVIOUS
  <2> HIDE DEF C
  <2>5. Max(C) \in C /\ \A y \in C : y <= Max(C)
    BY <2>1, <2>2, Greatest
  <2> QED BY <2>3, <2>4, <2>5 DEF C
<1>8. ASSUME NEW x \in DOMAIN origins PROVE ChurnOf(x) <= ChurnOf(p)
  <2>1. origins[x] \in Grouped /\ x \in PrefixesOf(origins[x])
    BY DEF Grouped, PrefixesOf
  <2>2. ChurnOf(x) <= Rank(origins[x]) /\ Rank(origins[x]) <= Rank(o)
    BY <1>4, <1>7, <2>1
  <2>3. PICK y \in PrefixesOf(o) : Rank(o) = ChurnOf(y)
    BY <1>7
  <2>4. Rank(o) <= ChurnOf(p)
    BY <1>5, <2>3
  <2>5. /\ ChurnOf(x) \in Nat /\ ChurnOf(p) \in Nat /\ Rank(o) \in Nat
        /\ Rank(origins[x]) \in Nat
    BY <1>1, <1>7, <2>1, <2>3
  <2> QED BY <2>2, <2>4, <2>5
<1>9. ChurnOf(p) \in Churns /\ \A y \in Churns : ChurnOf(p) >= y
  <2>1. p \in DOMAIN origins
    BY <1>1
  <2> QED BY <1>1, <1>8, <2>1
<1>10. Churns \subseteq Nat
  BY <1>1
<1> HIDE DEF Churns
<1>11. \E z \in Churns : \A y \in Churns : z >= y
  BY <1>9
<1>12. Max(Churns) \in Churns /\ \A y \in Churns : Max(Churns) >= y
  BY <1>11 DEF Max
<1>13. Max(Churns) = ChurnOf(p)
  <2> DEFINE m == Max(Churns)
             c == ChurnOf(p)
  <2>1. m >= c /\ c >= m
    BY <1>9, <1>12
  <2>2. m \in Nat /\ c \in Nat
    BY <1>9, <1>10, <1>12
  <2> HIDE DEF m, c
  <2>3. m = c
    BY <2>1, <2>2
  <2> QED BY <2>3 DEF m, c
<1> QED BY <1>6, <1>13 DEF Churns

-----------------------------------------------------------------------------
(* The verdict of a message.                                               *)

(* The verdict after the first i prefixes.                                 *)
Judged(w, vs, i) ==
  /\ vs[1] = "Valid" => w = "Valid"
  /\ vs[1] # "Valid" /\ (\E j \in 1..i : vs[j] \in Invalids) => w \in Invalids
  /\ vs[1] # "Valid" /\ ~(\E j \in 1..i : vs[j] \in Invalids) => w = "NotFound"

LEMMA JudgedNext ==
  ASSUME NEW vs, NEW i \in Nat, i >= 2, NEW w, Judged(w, vs, i - 1),
         vs[1] \in Statuses, vs[i] \in Statuses
  PROVE  Judged(Worse(w, vs[i]), vs, i)
<1>1. NoVerdict \notin Statuses
  BY NoneAssumption
<1>2. (\E j \in 1..i : vs[j] \in Invalids)
        <=> (\E j \in 1..(i-1) : vs[j] \in Invalids) \/ vs[i] \in Invalids
  OBVIOUS
<1>3. CASE vs[1] = "Valid"
  <2>1. w = "Valid"
    BY <1>3 DEF Judged
  <2>2. Worse(w, vs[i]) = "Valid"
    BY <1>1, <2>1 DEF Worse, Statuses
  <2> QED BY <1>3, <2>2 DEF Judged
<1>4. CASE vs[1] # "Valid" /\ \E j \in 1..(i-1) : vs[j] \in Invalids
  <2>1. w \in Invalids
    BY <1>4 DEF Judged
  <2>2. Worse(w, vs[i]) = w
    BY <1>1, <2>1 DEF Worse, Statuses, Invalids
  <2> QED BY <1>2, <1>4, <2>1, <2>2 DEF Judged
<1>5. CASE vs[1] # "Valid" /\ ~\E j \in 1..(i-1) : vs[j] \in Invalids
  <2>1. w = "NotFound"
    BY <1>5 DEF Judged
  <2>2. Worse(w, vs[i]) = IF vs[i] \in Invalids THEN vs[i] ELSE w
    BY <1>1, <2>1 DEF Worse, Statuses
  <2> QED BY <1>2, <1>5, <2>1, <2>2 DEF Judged
<1> QED BY <1>3, <1>4, <1>5

LEMMA JudgedFirst ==
  ASSUME NEW vs, vs[1] \in Statuses
  PROVE  Judged(Worse(NoVerdict, vs[1]), vs, 1)
<1>1. Worse(NoVerdict, vs[1]) = vs[1]
  BY DEF Worse
<1>2. (\E j \in 1..1 : vs[j] \in Invalids) <=> vs[1] \in Invalids
  OBVIOUS
<1> QED BY <1>1, <1>2 DEF Judged, Statuses, Invalids

LEMMA VerdictJudged ==
  ASSUME NEW u, u.announced \in Seq(Nat),
         \A i \in DOMAIN u.announced : Verdicts(u)[i] \in Statuses
  PROVE  LET n == Len(u.announced)
         IN  /\ n \in Nat /\ DOMAIN u.announced = 1..n
             /\ ~rpki \/ n = 0 => MessageVerdict(u) = NoVerdict
             /\ rpki /\ n > 0 => Judged(MessageVerdict(u), Verdicts(u), n)
<1> DEFINE n  == Len(u.announced)
           vs == Verdicts(u)
           S  == Statuses \cup {NoVerdict}
           step == [i \in 1..n |-> [w \in S |-> Worse(w, vs[i])]]
           Def(h) == [i \in 0..n |-> IF i = 0 THEN NoVerdict ELSE Worse(h[i-1], vs[i])]
           e == CHOOSE h : h = Def(h)
<1>1. n \in Nat /\ DOMAIN u.announced = 1..n
  BY LenProperties
<1>2. vs \in [1..n -> Statuses] /\ Len(vs) = n
  <2>1. DOMAIN vs = 1..n /\ vs \in [1..n -> Statuses]
    BY <1>1 DEF Verdicts
  <2> HIDE DEF vs, n
  <2>2. vs \in Seq(Statuses) /\ Len(vs) = n
    BY <1>1, <2>1, IsASeq
  <2> QED BY <2>1, <2>2
<1>3. MessageVerdict(u) = IF rpki THEN e[n] ELSE NoVerdict
  <2> DEFINE Def2(h) == [i \in 0..Len(vs) |-> IF i = 0 THEN NoVerdict
                                              ELSE Worse(h[i-1], vs[i])]
             e2 == CHOOSE h : h = Def2(h)
  <2>1. MessageVerdict(u) = IF rpki THEN e2[Len(vs)] ELSE NoVerdict
    BY DEF MessageVerdict
  <2>2. e2 = e
    BY <1>2
  <2> HIDE DEF e2, e, vs, n
  <2> QED BY <1>2, <2>1, <2>2
<1> HIDE DEF vs, n
<1>4. \A i \in 1..n : \A w \in S : step[i][w] = Worse(w, vs[i])
  OBVIOUS
<1>5. step \in [1..n -> [S -> S]]
  <2>1. \A i \in 1..n : \A w \in S : Worse(w, vs[i]) \in S
    BY <1>2 DEF Worse
  <2> QED BY <2>1
<1>6. NoVerdict \in S
  OBVIOUS
<1> HIDE DEF S, step
<1>7. PICK f \in [0..n -> S] : Solves(f, n, NoVerdict, step)
  BY <1>1, <1>5, <1>6, Recursion
<1>8. \A i \in 1..n : f[i-1] \in S /\ f[i] = Worse(f[i-1], vs[i])
  <2> SUFFICES ASSUME NEW i \in 1..n PROVE f[i-1] \in S /\ f[i] = Worse(f[i-1], vs[i])
    OBVIOUS
  <2>1. i - 1 \in 0..n
    BY <1>1
  <2> QED BY <1>4, <1>7, <2>1 DEF Solves
<1>9. f = Def(f)
  <2>1. ASSUME NEW i \in 0..n
        PROVE  f[i] = IF i = 0 THEN NoVerdict ELSE Worse(f[i-1], vs[i])
    <3>1. CASE i = 0
      BY <1>7, <3>1 DEF Solves
    <3>2. CASE i # 0
      <4>1. i \in 1..n
        BY <1>1, <3>2
      <4> QED BY <1>8, <3>2, <4>1
    <3> QED BY <3>1, <3>2
  <2> QED BY <1>7, <2>1
<1>10. e = Def(e)
  BY <1>9
<1> HIDE DEF e
<1>11. /\ e[0] = NoVerdict
       /\ \A i \in 1..n : e[i] = Worse(e[i-1], vs[i])
  <2>1. \A i \in 0..n : e[i] = IF i = 0 THEN NoVerdict ELSE Worse(e[i-1], vs[i])
    BY <1>10
  <2>2. 0 \in 0..n /\ \A i \in 1..n : i \in 0..n /\ i # 0
    BY <1>1
  <2> QED BY <2>1, <2>2
<1> DEFINE T == {i \in 0..n : i >= 1 => Judged(e[i], vs, i)}
<1>12. 0 \in T
  BY <1>1
<1>13. ASSUME NEW i \in 1..n, i - 1 \in T PROVE i \in T
  <2>1. i \in 0..n /\ i \in Nat
    BY <1>1
  <2>2. CASE i = 1
    <3>1. e[1] = Worse(NoVerdict, vs[1]) /\ vs[1] \in Statuses
      BY <1>2, <1>11, <2>2
    <3>2. Judged(e[1], vs, 1)
      BY <3>1, JudgedFirst
    <3> QED BY <2>1, <2>2, <3>2
  <2>3. CASE i # 1
    <3>1. i - 1 >= 1 /\ i >= 2 /\ 1 \in 1..n
      BY <1>1, <2>3
    <3>2. Judged(e[i-1], vs, i - 1) /\ vs[i] \in Statuses /\ vs[1] \in Statuses
      BY <1>2, <1>13, <3>1
    <3>3. Judged(Worse(e[i-1], vs[i]), vs, i)
      BY <2>1, <3>1, <3>2, JudgedNext
    <3> QED BY <1>11, <2>1, <3>3
  <2> QED BY <2>2, <2>3
<1> HIDE DEF T
<1>14. n \in T
  <2>1. 0..n \subseteq T
    BY <1>1, <1>12, <1>13, SetInduction
  <2> QED BY <1>1, <2>1
<1>15. n > 0 => Judged(e[n], vs, n)
  BY <1>1, <1>14 DEF T
<1>16. n = 0 => e[n] = NoVerdict
  BY <1>11
<1> QED BY <1>1, <1>3, <1>15, <1>16 DEF n, vs

-----------------------------------------------------------------------------
(* The message log.                                                        *)

Honest(e) ==
  e.update # NoUpdate /\ e.verdict # NoVerdict =>
    LET vs  == Verdicts(e.update)
        bad == {j \in DOMAIN vs : vs[j] \in Invalids}
    IN  /\ e.verdict \in Invalids <=> bad # {} /\ vs[1] # "Valid"
        /\ e.hint # NoHint <=> bad # {}

(* An entry that names an update names a prefix.                           *)
Displayed(e) ==
  e.update # NoUpdate =>
    e.update \in Updates /\ (e.update.announced # <<>> \/ e.update.withdrawn # <<>>)

Kinds == {m.type : m \in Messages}
Bare  == [type : Kinds, update : {NoUpdate}]
Full  == [type : Kinds, update : Updates, verdict : Statuses \cup {NoVerdict},
          hint : Nat \cup {NoHint}]

Entries == {e \in Bare \cup Full : Honest(e) /\ Displayed(e)}

LEMMA HintFacts ==
  ASSUME NEW u \in Updates
  PROVE  /\ MessageHint(u) \in Nat \cup {NoHint}
         /\ MessageHint(u) # NoHint
              <=> rpki /\ {j \in DOMAIN u.announced : Verdicts(u)[j] \in Invalids} # {}
<1> DEFINE bad == {j \in DOMAIN u.announced : Verdicts(u)[j] \in Invalids}
<1>1. MessageHint(u) = IF rpki /\ bad # {} THEN u.announced[Min(bad)] ELSE NoHint
  BY DEF MessageHint
<1>2. /\ Len(u.announced) \in Nat /\ DOMAIN u.announced = 1..Len(u.announced)
      /\ \A i \in 1..Len(u.announced) : u.announced[i] \in Nat
  BY LenProperties, ElementOfSeq DEF Updates
<1>3. bad \subseteq Nat /\ bad \subseteq 1..Len(u.announced)
  BY <1>2
<1> HIDE DEF bad
<1>4. ASSUME bad # {} PROVE u.announced[Min(bad)] \in Nat
  <2>1. \E n \in bad : \A m \in bad : n <= m
    BY <1>3, <1>4, LeastMember
  <2>2. Min(bad) \in bad
    BY <2>1 DEF Min
  <2> QED BY <1>2, <1>3, <2>2
<1>5. NoHint \notin Nat
  BY NoneAssumption
<1> QED BY <1>1, <1>4, <1>5 DEF bad

LEMMA LineFacts ==
  ASSUME NEW m \in Messages, Logged(m)
  PROVE  LogLine(m) \in Entries
<1>1. CASE m.update = NoUpdate
  <2> DEFINE e == [type |-> m.type, update |-> NoUpdate]
  <2>1. LogLine(m) = e
    BY <1>1 DEF LogLine
  <2>2. Honest(e) /\ Displayed(e)
    BY DEF Honest, Displayed
  <2>3. e \in Bare
    BY DEF Bare, Kinds
  <2> HIDE DEF e
  <2> QED BY <2>1, <2>2, <2>3 DEF Entries
<1>2. CASE m.update # NoUpdate
  <2> DEFINE u  == m.update
             v  == MessageVerdict(u)
             h  == MessageHint(u)
             n  == Len(u.announced)
             vs == Verdicts(u)
             e  == [type |-> m.type, update |-> u, verdict |-> v, hint |-> h]
             bad == {j \in DOMAIN u.announced : vs[j] \in Invalids}
  <2>1. u \in Updates /\ u.announced \in Seq(Nat)
        /\ \A i \in DOMAIN u.announced : vs[i] \in Statuses
    BY <1>2, MessageAssumption, VerdictAssumption DEF Updates
  <2>2. LogLine(m) = e
    BY <1>2 DEF LogLine
  <2>3. u.announced # <<>> \/ u.withdrawn # <<>>
    BY <1>2 DEF Logged, Keepalive
  <2>4. /\ h \in Nat \cup {NoHint}
        /\ h # NoHint <=> rpki /\ bad # {}
    BY <2>1, HintFacts
  <2>5. DOMAIN vs = DOMAIN u.announced
    BY DEF Verdicts
  <2>6. /\ n \in Nat /\ DOMAIN u.announced = 1..n
        /\ ~rpki \/ n = 0 => v = NoVerdict
        /\ rpki /\ n > 0 => Judged(v, vs, n)
    BY <2>1, VerdictJudged
  <2> HIDE DEF v, vs, h, n
  <2>7. ASSUME rpki, n > 0
        PROVE  /\ v \in Statuses
               /\ v \in Invalids <=> bad # {} /\ vs[1] # "Valid"
    <3>1. bad # {} <=> \E j \in 1..n : vs[j] \in Invalids
      BY <2>6
    <3>2. Judged(v, vs, n)
      BY <2>6, <2>7
    <3> HIDE DEF bad
    <3> QED BY <3>1, <3>2 DEF Judged, Statuses, Invalids
  <2>8. v \in Statuses \cup {NoVerdict}
    BY <2>6, <2>7
  <2>9. ASSUME v # NoVerdict
        PROVE  /\ v \in Invalids <=> bad # {} /\ vs[1] # "Valid"
               /\ h # NoHint <=> bad # {}
    <3>1. rpki /\ n > 0
      BY <2>6, <2>9
    <3> QED BY <2>4, <2>7, <3>1
  <2>10. bad = {j \in DOMAIN vs : vs[j] \in Invalids}
    BY <2>5
  <2>11. Honest(e)
    BY <2>9, <2>10 DEF Honest, vs
  <2>12. Displayed(e)
    BY <2>1, <2>3 DEF Displayed
  <2>13. e \in Full
    <3>1. m.type \in Kinds
      BY DEF Kinds
    <3> QED BY <2>1, <2>4, <2>8, <3>1 DEF Full
  <2> HIDE DEF e
  <2> QED BY <2>2, <2>11, <2>12, <2>13 DEF Entries
<1> QED BY <1>1, <1>2

(* The last n of a sequence.                                               *)
LEMMA NewestFacts ==
  ASSUME NEW S, NEW s \in Seq(S), NEW n \in Nat
  PROVE  /\ Newest(s, n) \in Seq(S)
         /\ Len(s) \in Nat /\ Len(Newest(s, n)) \in Nat
         /\ Len(Newest(s, n)) = IF n <= Len(s) THEN n ELSE Len(s)
         /\ \A i \in 1..Len(Newest(s, n)) :
              Newest(s, n)[i] = s[Len(s) - Len(Newest(s, n)) + i]
<1> DEFINE L == Len(s)
           a == Max({1, L - n + 1})
           w == Newest(s, n)
<1>1. L \in Nat /\ \A i \in 1..L : s[i] \in S
  BY LenProperties, ElementOfSeq
<1>2. a = IF 1 >= L - n + 1 THEN 1 ELSE L - n + 1
  <2>1. 1 \in Int /\ L - n + 1 \in Int
    BY <1>1
  <2> QED BY <2>1, SmallerOfTwo
<1>3. w = SubSeq(s, a, L)
  BY DEF Newest
<1> HIDE DEF a, L, w
<1>4. a \in Int /\ L \in Int /\ a >= 1 /\ \A i \in a..L : s[i] \in S
  BY <1>1, <1>2
<1>5. /\ w \in Seq(S)
      /\ Len(w) = IF a <= L THEN L - a + 1 ELSE 0
      /\ \A i \in 1..(L - a + 1) : w[i] = s[a + i - 1]
  BY <1>3, <1>4, SubSeqProperties
<1>6. Len(w) = IF n <= L THEN n ELSE L
  BY <1>1, <1>2, <1>5
<1>7. ASSUME NEW i \in 1..Len(w) PROVE w[i] = s[L - Len(w) + i]
  <2>1. i \in 1..(L - a + 1) /\ a + i - 1 = L - Len(w) + i
    BY <1>1, <1>2, <1>5, <1>6
  <2> QED BY <1>5, <2>1
<1>8. Len(w) \in Nat
  BY <1>1, <1>6
<1> QED BY <1>1, <1>5, <1>6, <1>7, <1>8 DEF w, L

Logging == log \in Seq(Entries) /\ Len(log) <= MaxLog

LEMMA LoggingEmptied ==
  ASSUME Emptied
  PROVE  Logging
<1>1. log = <<>> /\ MaxLog \in Nat
  BY CapAssumption DEF Emptied
<1> QED BY <1>1, EmptySeq DEF Logging

LEMMA LoggingStep ==
  ASSUME Logging, NEW m \in Messages, ProcessMessage(m)
  PROVE  Logging'
<1> DEFINE s == Append(log, LogLine(m))
<1>1. log' = IF Logged(m) THEN Newest(s, MaxLog) ELSE log
  BY DEF ProcessMessage
<1>2. CASE Logged(m)
  <2>1. s \in Seq(Entries) /\ MaxLog \in Nat
    BY <1>2, LineFacts, AppendProperties, CapAssumption DEF Logging
  <2> HIDE DEF s
  <2>2. Newest(s, MaxLog) \in Seq(Entries) /\ Len(Newest(s, MaxLog)) <= MaxLog
    BY <2>1, NewestFacts
  <2>3. log' \in Seq(Entries) /\ Len(log') <= MaxLog
    BY <1>1, <1>2, <2>2
  <2>4. Entries' = Entries
    BY DEF Entries, Honest, Displayed, Verdicts, Origin
  <2> QED BY <2>3, <2>4 DEF Logging
<1>3. CASE ~Logged(m)
  <2>1. log' = log
    BY <1>1, <1>3
  <2>2. Entries' = Entries
    BY DEF Entries, Honest, Displayed, Verdicts, Origin
  <2> QED BY <2>1, <2>2 DEF Logging
<1> QED BY <1>2, <1>3

LEMMA LogHonest ==
  ASSUME Logging
  PROVE  OnlyValidFirstHides
<1>1. \A i \in DOMAIN log : Honest(log[i])
  <2>1. \A i \in DOMAIN log : log[i] \in Entries
    BY LenProperties, ElementOfSeq DEF Logging
  <2> QED BY <2>1 DEF Entries
<1> QED BY <1>1 DEF OnlyValidFirstHides, Honest

-----------------------------------------------------------------------------
(* The message pane.                                                       *)

PlusLine(e, i) ==
  [type |-> e.type, verdict |-> e.verdict, hint |-> e.hint, sign |-> "+",
   prefix |-> e.update.announced[i], path |-> StripKnownPrefix(StoredPath(e.update))]

MinusLine(e, i) ==
  [type |-> e.type, verdict |-> e.verdict, sign |-> "-", prefix |-> e.update.withdrawn[i],
   path |-> IF e.update.withdrawn[i] \in DOMAIN lastPath
            THEN StripKnownPrefix(lastPath[e.update.withdrawn[i]]) ELSE <<>>]

BareLine(e) == [type |-> e.type, sign |-> "", prefix |-> NoUpdate]

LinesFrom(e) ==
  {PlusLine(e, i) : i \in DOMAIN e.update.announced}
    \cup {MinusLine(e, i) : i \in DOMAIN e.update.withdrawn} \cup {BareLine(e)}

Lines == UNION {LinesFrom(e) : e \in Entries}

LEMMA EntryLines ==
  ASSUME NEW e \in Entries
  PROVE  LinesOf(e) \in Seq(Lines) /\ Len(LinesOf(e)) \in Nat /\ Len(LinesOf(e)) >= 1
<1>1. LinesFrom(e) \subseteq Lines
  BY DEF Lines
<1>2. CASE e.update = NoUpdate
  <2>1. LinesOf(e) = <<BareLine(e)>>
    BY <1>2 DEF LinesOf, BareLine
  <2>2. BareLine(e) \in Lines
    BY <1>1 DEF LinesFrom
  <2> HIDE DEF BareLine
  <2> QED BY <2>1, <2>2
<1>3. CASE e.update # NoUpdate
  <2> DEFINE u == e.update
             a == [i \in DOMAIN u.announced |-> PlusLine(e, i)]
             b == [i \in DOMAIN u.withdrawn |-> MinusLine(e, i)]
             m == Len(u.announced)
             n == Len(u.withdrawn)
  <2>1. u \in Updates /\ (u.announced # <<>> \/ u.withdrawn # <<>>)
    BY <1>3 DEF Entries, Displayed
  <2>2. LinesOf(e) = a \o b
    BY <1>3 DEF LinesOf, PlusLine, MinusLine
  <2>3. /\ m \in Nat /\ n \in Nat
        /\ DOMAIN u.announced = 1..m /\ DOMAIN u.withdrawn = 1..n
        /\ m # 0 \/ n # 0
    BY <2>1, EmptySeq, LenProperties DEF Updates
  <2>4. /\ \A i \in DOMAIN u.announced : PlusLine(e, i) \in Lines
        /\ \A i \in DOMAIN u.withdrawn : MinusLine(e, i) \in Lines
    BY <1>1 DEF LinesFrom
  <2> HIDE DEF u, m, n
  <2>5. a \in [1..m -> Lines] /\ b \in [1..n -> Lines]
    BY <2>3, <2>4
  <2> HIDE DEF a, b
  <2>6. a \in Seq(Lines) /\ Len(a) = m /\ b \in Seq(Lines) /\ Len(b) = n
    BY <2>3, <2>5, IsASeq
  <2>7. a \o b \in Seq(Lines) /\ Len(a \o b) = m + n
    BY <2>6, ConcatProperties
  <2> QED BY <2>2, <2>3, <2>7
<1> QED BY <1>2, <1>3

(* The newest of a sequence are those of its end.                          *)
LEMMA NewestOfEnd ==
  ASSUME NEW S, NEW a \in Seq(S), NEW b \in Seq(S), NEW n \in Nat,
         n <= Len(b) \/ a = <<>>
  PROVE  Newest(a \o b, n) = Newest(b, n)
<1>1. CASE a = <<>>
  <2>1. a \o b = b
    BY <1>1, ConcatEmptySeq
  <2> QED BY <2>1
<1>2. CASE n <= Len(b)
  <2>1. /\ a \o b \in Seq(S) /\ Len(a \o b) = Len(a) + Len(b)
        /\ Len(a) \in Nat /\ Len(b) \in Nat
        /\ \A i \in 1..(Len(a) + Len(b)) :
             (a \o b)[i] = IF i <= Len(a) THEN a[i] ELSE b[i - Len(a)]
    BY ConcatProperties, LenProperties
  <2> DEFINE c == a \o b
             x == Newest(c, n)
             y == Newest(b, n)
  <2>2. /\ c \in Seq(S) /\ Len(c) = Len(a) + Len(b)
    BY <2>1
  <2> HIDE DEF c
  <2>3. /\ x \in Seq(S) /\ Len(x) = IF n <= Len(c) THEN n ELSE Len(c)
        /\ \A i \in 1..Len(x) : x[i] = c[Len(c) - Len(x) + i]
    BY <2>2, NewestFacts
  <2>4. /\ y \in Seq(S) /\ Len(y) = IF n <= Len(b) THEN n ELSE Len(b)
        /\ \A i \in 1..Len(y) : y[i] = b[Len(b) - Len(y) + i]
    BY NewestFacts
  <2> HIDE DEF x, y
  <2>5. Len(x) = n /\ Len(y) = n
    BY <1>2, <2>1, <2>2, <2>3, <2>4
  <2>6. ASSUME NEW i \in 1..n PROVE x[i] = y[i]
    <3> DEFINE j == Len(a) + Len(b) - n + i
    <3>1. j \in 1..(Len(a) + Len(b)) /\ ~(j <= Len(a)) /\ j - Len(a) = Len(b) - n + i
      BY <1>2, <2>1
    <3>2. x[i] = c[Len(c) - Len(x) + i] /\ y[i] = b[Len(b) - Len(y) + i]
      BY <2>3, <2>4, <2>5
    <3>3. Len(c) - Len(x) + i = j /\ Len(b) - Len(y) + i = Len(b) - n + i
      BY <2>2, <2>5
    <3> HIDE DEF j
    <3>4. c[j] = b[j - Len(a)]
      BY <2>1, <3>1 DEF c
    <3> QED BY <3>1, <3>2, <3>3, <3>4
  <2>7. x = y
    BY <2>3, <2>4, <2>5, <2>6, SeqEqual
  <2> QED BY <2>7 DEF x, y, c
<1> QED BY <1>1, <1>2

(* The sequences at the end, put one behind the other.                     *)
LEMMA FlattenEnd ==
  ASSUME NEW S, NEW s \in Seq(Seq(S)), NEW t \in Seq(Seq(S)), NEW d \in Nat,
         Len(s) = d + Len(t), \A i \in 1..Len(t) : t[i] = s[d + i],
         \A i \in 1..Len(t) : Len(t[i]) >= 1
  PROVE  \E a \in Seq(S) :
           /\ FlattenSeq(s) = a \o FlattenSeq(t)
           /\ FlattenSeq(t) \in Seq(S) /\ Len(FlattenSeq(t)) >= Len(t)
           /\ d = 0 => a = <<>>
<1> DEFINE n    == Len(t)
           a    == FlattenSeq(SubSeq(s, 1, d))
           F(i) == FlattenSeq(SubSeq(s, 1, d + i))
           G(i) == FlattenSeq(SubSeq(t, 1, i))
<1>1. n \in Nat /\ Len(s) \in Nat /\ Len(s) = d + n
      /\ \A i \in 1..n : t[i] \in Seq(S)
  BY LenProperties, ElementOfSeq
<1>2. SubSeq(s, 1, d + n) = s /\ SubSeq(t, 1, n) = t
  <2>1. SubSeq(s, 1, Len(s)) = s /\ SubSeq(t, 1, Len(t)) = t
    BY SubSeqFull
  <2> QED BY <1>1, <2>1
<1>3. FlattenSeq(<<>>) = <<>>
  BY DEF FlattenSeq
<1>4. a \in Seq(S) /\ (d = 0 => a = <<>>)
  <2>1. CASE d = 0
    <3>1. SubSeq(s, 1, 0) = <<>>
      BY SubSeqEmpty
    <3> QED BY <1>3, <2>1, <3>1, EmptySeq
  <2>2. CASE d # 0 /\ n > 0
    <3>1. d + 1 \in 1..Len(s) /\ (d + 1) - 1 = d
      BY <1>1, <2>2
    <3>2. FlattenSeq(SubSeq(s, 1, (d + 1) - 1)) \in Seq(S)
      BY <3>1, FlattenStep
    <3> QED BY <2>2, <3>1, <3>2
  <2>3. CASE d # 0 /\ n = 0
    <3>1. d \in 1..Len(s) /\ s[d] \in Seq(S)
      BY <1>1, <2>3, ElementOfSeq
    <3>2. /\ FlattenSeq(SubSeq(s, 1, d - 1)) \in Seq(S)
          /\ FlattenSeq(SubSeq(s, 1, d)) = FlattenSeq(SubSeq(s, 1, d - 1)) \o s[d]
      BY <3>1, FlattenStep
    <3>3. a \in Seq(S)
      <4> DEFINE c == FlattenSeq(SubSeq(s, 1, d - 1))
      <4>1. c \in Seq(S) /\ a = c \o s[d]
        BY <3>2
      <4> HIDE DEF c, a
      <4> QED BY <3>1, <4>1, ConcatProperties
    <3> QED BY <2>3, <3>3
  <2> QED BY <1>1, <2>1, <2>2, <2>3
<1> HIDE DEF n, a
<1> DEFINE T == {i \in 0..n : /\ F(i) = a \o G(i) /\ G(i) \in Seq(S)
                              /\ Len(G(i)) \in Nat /\ Len(G(i)) >= i}
<1>5. 0 \in T
  <2>1. G(0) = <<>>
    <3>1. SubSeq(t, 1, 0) = <<>>
      BY SubSeqEmpty
    <3> QED BY <1>3, <3>1
  <2>2. F(0) = a
    <3>1. d + 0 = d
      OBVIOUS
    <3> QED BY <3>1 DEF a
  <2>3. a \o <<>> = a /\ <<>> \in Seq(S) /\ Len(<<>>) = 0
    BY <1>4, ConcatEmptySeq, EmptySeq
  <2>4. /\ F(0) = a \o G(0) /\ G(0) \in Seq(S)
        /\ Len(G(0)) \in Nat /\ Len(G(0)) >= 0
    <3> DEFINE f == F(0)
               g == G(0)
    <3>1. f = a /\ g = <<>>
      BY <2>1, <2>2
    <3> HIDE DEF f, g
    <3>2. f = a \o g /\ g \in Seq(S) /\ Len(g) \in Nat /\ Len(g) >= 0
      BY <2>3, <3>1
    <3> QED BY <3>2 DEF f, g
  <2>5. 0 \in 0..n
    BY <1>1
  <2> QED BY <2>4, <2>5
<1>6. ASSUME NEW i \in 1..n, i - 1 \in T PROVE i \in T
  <2>1. d + i \in 1..Len(s) /\ i \in 1..Len(t) /\ (d + i) - 1 = d + (i - 1) /\ i \in 0..n
    <3>1. d \in Nat /\ n \in Nat /\ Len(s) = d + n /\ n = Len(t)
      BY <1>1 DEF n
    <3>2. i \in Int /\ 1 <= i /\ i <= n
      BY <3>1
    <3>3. d + i \in 1..(d + n) /\ (d + i) - 1 = d + (i - 1) /\ i \in 0..n
      BY <3>1, <3>2
    <3> QED BY <3>1, <3>3
  <2>2. F(i) = F(i-1) \o s[d + i]
    <3>1. FlattenSeq(SubSeq(s, 1, d + i))
            = FlattenSeq(SubSeq(s, 1, (d + i) - 1)) \o s[d + i]
      BY <2>1, FlattenStep
    <3> QED BY <2>1, <3>1
  <2>3. G(i) = G(i-1) \o t[i]
    BY <2>1, FlattenStep
  <2>4. t[i] \in Seq(S) /\ t[i] = s[d + i] /\ Len(t[i]) >= 1 /\ Len(t[i]) \in Nat
    BY <1>1, <2>1, LenProperties
  <2>5. /\ F(i-1) = a \o G(i-1) /\ G(i-1) \in Seq(S)
        /\ Len(G(i-1)) \in Nat /\ Len(G(i-1)) >= i - 1
    BY <1>6
  <2> DEFINE x == G(i-1)
             y == G(i)
             z == t[i]
  <2>6. /\ y = x \o z /\ F(i) = (a \o x) \o z
        /\ x \in Seq(S) /\ Len(x) \in Nat /\ Len(x) >= i - 1
        /\ z \in Seq(S) /\ Len(z) \in Nat /\ Len(z) >= 1
    BY <2>2, <2>3, <2>4, <2>5
  <2> HIDE DEF x, z
  <2>7. /\ F(i) = a \o y /\ y \in Seq(S)
        /\ Len(y) \in Nat /\ Len(y) >= i
    <3> HIDE DEF F, y
    <3>1. (a \o x) \o z = a \o (x \o z)
      <4>1. a \in Seq(S) /\ x \in Seq(S) /\ z \in Seq(S)
        BY <1>4, <2>6
      <4> QED BY ONLY <4>1, ConcatAssociative, SMTT(60)
    <3>2. y \in Seq(S) /\ Len(y) = Len(x) + Len(z)
      BY <2>6, ConcatProperties
    <3>3. i \in Nat
      BY <2>1, <1>1
    <3>4. Len(y) \in Nat /\ Len(y) >= i
      BY <2>6, <3>2, <3>3
    <3> QED BY <2>6, <3>1, <3>2, <3>4
  <2> QED BY <2>1, <2>7
<1> HIDE DEF T
<1>7. n \in T
  <2>1. 0..n \subseteq T
    BY <1>1, <1>5, <1>6, SetInduction
  <2> QED BY <1>1, <2>1
<1>8. F(n) = a \o G(n) /\ G(n) \in Seq(S) /\ Len(G(n)) >= n
  <2> HIDE DEF F, G
  <2> QED BY <1>7 DEF T
<1>9. F(n) = FlattenSeq(s) /\ G(n) = FlattenSeq(t)
  BY <1>2
<1> QED BY <1>4, <1>8, <1>9 DEF n

LEMMA PaneShowsNewest ==
  ASSUME Logging, NEW height \in Nat
  PROVE  Ticker(height) = Newest(AllLines(log), height)
<1> DEFINE l == Newest(log, height)
           s == [i \in DOMAIN log |-> LinesOf(log[i])]
           t == [i \in DOMAIN l |-> LinesOf(l[i])]
           d == Len(log) - Len(l)
<1>1. log \in Seq(Entries) /\ height \in Nat
  BY DEF Logging
<1>2. /\ l \in Seq(Entries) /\ Len(log) \in Nat /\ Len(l) \in Nat
      /\ Len(l) = IF height <= Len(log) THEN height ELSE Len(log)
      /\ \A i \in 1..Len(l) : l[i] = log[Len(log) - Len(l) + i]
  BY <1>1, NewestFacts
<1> HIDE DEF l
<1>3. ASSUME NEW x \in Seq(Entries)
      PROVE  LET y == [i \in DOMAIN x |-> LinesOf(x[i])]
             IN  /\ y \in Seq(Seq(Lines)) /\ Len(y) = Len(x)
                 /\ \A i \in 1..Len(x) : y[i] = LinesOf(x[i]) /\ Len(y[i]) >= 1
  <2> DEFINE y == [i \in DOMAIN x |-> LinesOf(x[i])]
             n == Len(x)
  <2>1. n \in Nat /\ DOMAIN x = 1..n /\ \A i \in 1..n : x[i] \in Entries
    BY LenProperties, ElementOfSeq
  <2>2. \A i \in 1..n : LinesOf(x[i]) \in Seq(Lines) /\ Len(LinesOf(x[i])) >= 1
    BY <2>1, EntryLines
  <2> HIDE DEF n
  <2>3. y \in [1..n -> Seq(Lines)] /\ \A i \in 1..n : y[i] = LinesOf(x[i])
    BY <2>1, <2>2
  <2> HIDE DEF y
  <2>4. y \in Seq(Seq(Lines)) /\ Len(y) = n
    BY <2>1, <2>3, IsASeq
  <2>5. \A i \in 1..n : y[i] = LinesOf(x[i]) /\ Len(y[i]) >= 1
    BY <2>2, <2>3
  <2> QED BY <2>4, <2>5 DEF y, n
<1>4. /\ s \in Seq(Seq(Lines)) /\ Len(s) = Len(log)
      /\ \A i \in 1..Len(log) : s[i] = LinesOf(log[i]) /\ Len(s[i]) >= 1
  BY <1>1, <1>3
<1>5. /\ t \in Seq(Seq(Lines)) /\ Len(t) = Len(l)
      /\ \A i \in 1..Len(l) : t[i] = LinesOf(l[i]) /\ Len(t[i]) >= 1
  BY <1>2, <1>3
<1>6. AllLines(log) = FlattenSeq(s) /\ Ticker(height) = Newest(FlattenSeq(t), height)
  BY DEF AllLines, Ticker, l
<1> HIDE DEF s, t
<1>7. d \in Nat /\ Len(s) = d + Len(t) /\ (d # 0 => Len(t) = height)
  BY <1>1, <1>2, <1>4, <1>5
<1>8. \A i \in 1..Len(t) : t[i] = s[d + i] /\ Len(t[i]) >= 1
  <2> SUFFICES ASSUME NEW i \in 1..Len(t) PROVE t[i] = s[d + i] /\ Len(t[i]) >= 1
    OBVIOUS
  <2>1. i \in 1..Len(l) /\ d + i \in 1..Len(log)
    BY <1>2, <1>5
  <2>2. l[i] = log[d + i]
    BY <1>2, <2>1
  <2> HIDE DEF d
  <2> QED BY <1>4, <1>5, <2>1, <2>2
<1> HIDE DEF d
<1>9. PICK a \in Seq(Lines) :
        /\ FlattenSeq(s) = a \o FlattenSeq(t)
        /\ FlattenSeq(t) \in Seq(Lines) /\ Len(FlattenSeq(t)) >= Len(t)
        /\ d = 0 => a = <<>>
  <2>1. s \in Seq(Seq(Lines)) /\ t \in Seq(Seq(Lines)) /\ d \in Nat
    BY <1>4, <1>5, <1>7
  <2>2. Len(s) = d + Len(t)
    BY <1>7
  <2>3. \A i \in 1..Len(t) : t[i] = s[d + i]
    BY <1>8
  <2>4. \A i \in 1..Len(t) : Len(t[i]) >= 1
    BY <1>8
  <2> QED BY ONLY <2>1, <2>2, <2>3, <2>4, FlattenEnd
<1>10. height <= Len(FlattenSeq(t)) \/ a = <<>>
  BY <1>7, <1>9
<1>11. Newest(a \o FlattenSeq(t), height) = Newest(FlattenSeq(t), height)
  BY <1>1, <1>9, <1>10, NewestOfEnd
<1> QED BY <1>6, <1>9, <1>11

-----------------------------------------------------------------------------
(* The invariant: what the messages left behind, and where the program is. *)

Tallied == seen = Len(history) /\ keepalives \in 0..seen /\ metadata \in BOOLEAN

Data == Counting /\ Grouping /\ Logging /\ Tallied

Placed ==
  /\ screen \in Screens /\ topicArg \in Topics \cup {NoTopic}
  /\ offered \subseteq Topics
  /\ chosen \in Topics \cup {NoTopic} /\ {tui, failed} \subseteq BOOLEAN
  /\ pending \in KeyCodes \cup {NoKey} /\ {paused, browse, rpki} \subseteq BOOLEAN
  /\ RestoredUnlessFailed

IInv == Placed /\ Data

LEMMA DataEmptied == Emptied => Data
<1> SUFFICES ASSUME Emptied PROVE Data
  OBVIOUS
<1>1. Counting /\ Grouping /\ Logging
  BY CountingEmptied, GroupingEmptied, LoggingEmptied
<1>2. Tallied
  <2>1. metadata \in BOOLEAN
    BY Zenon DEF Emptied
  <2>2. seen = Len(history) /\ keepalives \in 0..seen
    <3>1. history = <<>> /\ seen = 0 /\ keepalives = 0
      BY DEF Emptied
    <3>2. Len(<<>>) = 0
      BY EmptySeq
    <3> QED BY <3>1, <3>2
  <2> QED BY <2>1, <2>2 DEF Tallied
<1> QED BY <1>1, <1>2 DEF Data

LEMMA DataRenewed == Emptied' => Data'
<1>1. Emptied => Data
  BY DataEmptied
<1> QED BY <1>1, PTL

LEMMA DataStays ==
  ASSUME Data, UNCHANGED dataVars
  PROVE  Data'
<1>1. /\ history' = history /\ seen' = seen /\ peerMsgs' = peerMsgs
      /\ peerWarnings' = peerWarnings /\ churn' = churn /\ origins' = origins
      /\ lastPath' = lastPath /\ adjacency' = adjacency /\ frequency' = frequency
      /\ keepalives' = keepalives /\ metadata' = metadata /\ log' = log
  BY DEF dataVars
<1>2. Counting'
  <2>1. /\ KeysSeen(PrefixKeys)' = KeysSeen(PrefixKeys)
        /\ KeysSeen(PathKeys)' = KeysSeen(PathKeys)
        /\ KeysSeen(PairKeys)' = KeysSeen(PairKeys)
        /\ KeysSeen(PeerKeys)' = KeysSeen(PeerKeys)
        /\ KeysSeen(WarningKeys)' = KeysSeen(WarningKeys)
    BY <1>1 DEF KeysSeen
  <2> QED BY <1>1, <2>1 DEF Data, Counting
<1>3. Grouping'
  <2>1. \A p : Named(p)' = Named(p)
    BY <1>1 DEF Named
  <2> QED BY <1>1, <2>1 DEF Data, Grouping
<1>4. Logging'
  <2>1. Entries' = Entries
    BY DEF Entries, Honest, Displayed, Verdicts, Origin
  <2> QED BY <1>1, <2>1 DEF Data, Logging
<1>5. Tallied'
  BY <1>1 DEF Data, Tallied
<1> QED BY <1>2, <1>3, <1>4, <1>5 DEF Data

LEMMA DataStep ==
  ASSUME Data, NEW m \in Messages, ProcessMessage(m)
  PROVE  Data'
<1>1. history \in Seq(Messages)
  BY DEF Data, Counting
<1>2. Counting' /\ Grouping' /\ Logging'
  BY <1>1, CountingStep, GroupingStep, LoggingStep DEF Data
<1>3. Tallied'
  <2>1. /\ history' = Append(history, m) /\ seen' = seen + 1
        /\ keepalives' = keepalives \/ keepalives' = keepalives + 1
        /\ metadata' \in BOOLEAN
    BY DEF ProcessMessage
  <2>2. Len(history') = Len(history) + 1 /\ Len(history) \in Nat
    BY <1>1, <2>1, AppendProperties, LenProperties
  <2> QED BY <2>1, <2>2 DEF Data, Tallied
<1> QED BY <1>2, <1>3 DEF Data

LEMMA Invariant == Spec => []IInv
<1>1. Init => IInv
  <2> SUFFICES ASSUME Init PROVE IInv
    OBVIOUS
  <2>1. Emptied
    BY DEF Init, Emptied
  <2>2. Placed
    BY PeeringAssumption DEF Init, Placed, Screens, RestoredUnlessFailed
  <2> QED BY <2>1, <2>2, DataEmptied DEF IInv
<1>2. IInv /\ [Next]_vars => IInv'
  <2> SUFFICES ASSUME IInv, [Next]_vars PROVE IInv'
    OBVIOUS
  <2>a. Placed /\ Data
    BY DEF IInv
  <2>b. \A topics, active : FilterActive(ApplyFilters(Topics, NoFilter, NoFilter), active)
                              \subseteq Topics
    BY DEF FilterActive, ApplyFilters
  <2>1. CASE Choose
    <3>1. Data'
      BY <2>a, <2>1, DataStays DEF Choose
    <3>2. Placed'
      <4>1. CASE topicArg # NoTopic /\ screen' = "connecting" /\ chosen' = topicArg
                 /\ UNCHANGED <<topicArg, offered, tui, failed>>
        BY <2>a, <2>1, <4>1 DEF Choose, Placed, Screens, RestoredUnlessFailed, keyVars
      <4>2. CASE End(TRUE, FALSE)
        BY <2>a, <2>1, <4>2 DEF Choose, Placed, Screens, RestoredUnlessFailed, keyVars, End
      <4>3. ASSUME NEW active \in ActiveSets, NEW collector \in CollectorArgs,
                   NEW asn \in AsnArgs,
                   LET left == FilterActive(ApplyFilters(Topics, collector, asn), active)
                   IN  CASE left = {} -> \E drawn \in BOOLEAN : End(TRUE, drawn)
                         [] Cardinality(left) = 1 ->
                              /\ screen' = "connecting"
                              /\ chosen' \in left
                              /\ UNCHANGED <<topicArg, offered, tui, failed>>
                         [] OTHER ->
                              /\ screen' = "browser"
                              /\ offered' = left
                              /\ UNCHANGED <<topicArg, chosen, tui, failed>>
            PROVE  Placed'
        <5> DEFINE left == FilterActive(ApplyFilters(Topics, collector, asn), active)
        <5>1. left \subseteq Topics
          BY DEF FilterActive, ApplyFilters
        <5> HIDE DEF left
        <5>2. left = {} => Cardinality(left) = 0
          BY FS_EmptySet
        <5>3. CASE left = {}
          <6>1. PICK drawn \in BOOLEAN : End(TRUE, drawn)
            BY <4>3, <5>2, <5>3 DEF left
          <6> QED BY <2>a, <2>1, <6>1
                  DEF Choose, Placed, Screens, RestoredUnlessFailed, keyVars, End
        <5>4. CASE left # {} /\ Cardinality(left) = 1
          <6>1. /\ screen' = "connecting" /\ chosen' \in left
                /\ UNCHANGED <<topicArg, offered, tui, failed>>
            BY <4>3, <5>4 DEF left
          <6> QED BY <2>a, <2>1, <5>1, <6>1
                  DEF Choose, Placed, Screens, RestoredUnlessFailed, keyVars
        <5>5. CASE left # {} /\ Cardinality(left) # 1
          <6>1. /\ screen' = "browser" /\ offered' = left
                /\ UNCHANGED <<topicArg, chosen, tui, failed>>
            BY <4>3, <5>5 DEF left
          <6> QED BY <2>a, <2>1, <5>1, <6>1
                  DEF Choose, Placed, Screens, RestoredUnlessFailed, keyVars
        <5> QED BY <5>3, <5>4, <5>5
      <4> QED BY <2>1, <4>1, <4>2, <4>3 DEF Choose
    <3> QED BY <3>1, <3>2 DEF IInv
  <2>2. CASE Browse
    <3>1. Data'
      BY <2>a, <2>2, DataStays DEF Browse
    <3>2. Placed'
      BY <2>a, <2>2 DEF Browse, End, Placed, Screens, RestoredUnlessFailed
    <3> QED BY <3>1, <3>2 DEF IInv
  <2>3. CASE Connect
    <3>1. Data'
      BY <2>a, <2>3, DataStays DEF Connect
    <3>2. Placed'
      BY <2>a, <2>3 DEF Connect, End, Placed, Screens, RestoredUnlessFailed, keyVars
    <3> QED BY <3>1, <3>2 DEF IInv
  <2>4. CASE ServeKeys
    <3>1. Data'
      BY <2>a, <2>4, DataStays DEF ServeKeys
    <3>2. Placed'
      BY <2>a, <2>4 DEF ServeKeys, HandleKey, Goto, Reads, Placed, Screens, KeyCodes,
                        RestoredUnlessFailed, keyVars
    <3> QED BY <3>1, <3>2 DEF IInv
  <2>5. CASE LoopFails
    <3>1. Data'
      BY <2>a, <2>5, DataStays DEF LoopFails
    <3>2. Placed'
      BY <2>a, <2>5 DEF LoopFails, End, Placed, Screens, RestoredUnlessFailed, keyVars
    <3> QED BY <3>1, <3>2 DEF IInv
  <2>6. CASE PollNothing \/ DrainEnds
    <3>1. Data'
      BY <2>a, <2>6, DataStays DEF PollNothing, DrainEnds
    <3>2. Placed'
      BY <2>a, <2>6 DEF PollNothing, DrainEnds, Goto, Placed, Screens,
                        RestoredUnlessFailed, keyVars
    <3> QED BY <3>1, <3>2 DEF IInv
  <2>7. CASE Leave
    <3>1. CASE UNCHANGED dataVars /\ UNCHANGED <<paused, browse, rpki, pending>>
               /\ \/ End(FALSE, TRUE)
                  \/ End(TRUE, FALSE)
      <4>1. Data'
        BY <2>a, <3>1, DataStays
      <4>2. Placed'
        BY <2>a, <3>1 DEF End, Placed, Screens, RestoredUnlessFailed
      <4> QED BY <4>1, <4>2 DEF IInv
    <3>2. ASSUME NEW active \in ActiveSets,
                 offered' = FilterActive(ApplyFilters(Topics, NoFilter, NoFilter), active),
                 screen' = "browser", chosen' = NoTopic, Renew,
                 UNCHANGED <<topicArg, tui, failed, pending>>
          PROVE  IInv'
      <4>1. Data'
        <5>1. Emptied'
          BY <3>2 DEF Renew, Emptied
        <5> QED BY <5>1, DataRenewed
      <4>2. offered' \subseteq Topics
        BY <2>b, <3>2
      <4>3. Placed'
        BY <2>a, <3>2, <4>2 DEF Renew, Placed, Screens, RestoredUnlessFailed
      <4> QED BY <4>1, <4>3 DEF IInv
    <3> QED BY <2>7, <3>1, <3>2 DEF Leave
  <2>8. ASSUME NEW m \in Messages, PollMessage(m) \/ DrainMessage(m)
        PROVE  IInv'
    <3>1. ProcessMessage(m) /\ UNCHANGED <<keyVars, rpki>>
      BY <2>8 DEF PollMessage, DrainMessage
    <3>2. Data'
      BY <2>a, <3>1, DataStep
    <3>3. Placed'
      BY <2>a, <2>8, <3>1 DEF PollMessage, DrainMessage, Goto, Placed, Screens,
                        RestoredUnlessFailed, keyVars, tuiVars
    <3> QED BY <3>2, <3>3 DEF IInv
  <2>9. ASSUME NEW k \in KeyCodes, PressKey(k)
        PROVE  IInv'
    <3>1. Data'
      BY <2>a, <2>9, DataStays DEF PressKey
    <3>2. Placed'
      BY <2>a, <2>9 DEF PressKey, Placed, Screens, RestoredUnlessFailed, tuiVars
    <3> QED BY <3>1, <3>2 DEF IInv
  <2>10. CASE UNCHANGED vars
    <3>1. Data'
      BY <2>a, <2>10, DataStays DEF vars
    <3>2. Placed'
      BY <2>a, <2>10 DEF vars, Placed, Screens, RestoredUnlessFailed, tuiVars, keyVars
    <3> QED BY <3>1, <3>2 DEF IInv
  <2> QED BY <2>1, <2>2, <2>3, <2>4, <2>5, <2>6, <2>7, <2>8, <2>9, <2>10 DEF Next
<1> QED BY <1>1, <1>2, PTL DEF Spec

-----------------------------------------------------------------------------
(* The theorems.                                                           *)

LEMMA CountsHold ==
  ASSUME Counting
  PROVE  /\ TrackedCountsExact
         /\ \A keys \in {DOMAIN peerMsgs, DOMAIN peerWarnings} : Cardinality(keys) <= MaxPeers
         /\ Cardinality(DOMAIN churn) <= MaxPrefixes
         /\ Cardinality(DOMAIN frequency) <= MaxAsns
         /\ Cardinality(DOMAIN adjacency) <= MaxPairs
<1>1. /\ MaxPrefixes \in Nat /\ MaxAsns \in Nat /\ MaxPairs \in Nat /\ MaxPeers \in Nat
  BY CapAssumption
<1>2. /\ Exact(churn, KeysSeen(PrefixKeys), MaxPrefixes)
      /\ Cardinality(DOMAIN churn) <= MaxPrefixes
  BY <1>1, FollowsExact DEF Counting
<1>3. /\ Exact(frequency, KeysSeen(PathKeys), MaxAsns)
      /\ Cardinality(DOMAIN frequency) <= MaxAsns
  BY <1>1, FollowsExact DEF Counting
<1>4. /\ Exact(adjacency, KeysSeen(PairKeys), MaxPairs)
      /\ Cardinality(DOMAIN adjacency) <= MaxPairs
  BY <1>1, FollowsExact DEF Counting
<1>5. /\ Exact(peerMsgs, KeysSeen(PeerKeys), MaxPeers)
      /\ Cardinality(DOMAIN peerMsgs) <= MaxPeers
  BY <1>1, FollowsExact DEF Counting
<1>6. /\ Exact(peerWarnings, KeysSeen(WarningKeys), MaxPeers)
      /\ Cardinality(DOMAIN peerWarnings) <= MaxPeers
  BY <1>1, FollowsExact DEF Counting
<1> QED BY <1>2, <1>3, <1>4, <1>5, <1>6 DEF TrackedCountsExact

(* Whatever the stream brings, nothing the dashboard keeps outgrows its    *)
(* cap.                                                                    *)
THEOREM TypeCorrect == Spec => []TypeOK
<1>1. IInv => TypeOK
  <2> SUFFICES ASSUME IInv PROVE TypeOK
    OBVIOUS
  <2>1. Placed /\ Counting /\ Grouping /\ Logging /\ Tallied
    BY DEF IInv, Data
  <2>2. history \in Seq(Messages)
    BY <2>1 DEF Counting
  <2>3. /\ \A keys \in {DOMAIN peerMsgs, DOMAIN peerWarnings} :
             Cardinality(keys) <= MaxPeers
        /\ Cardinality(DOMAIN churn) <= MaxPrefixes
        /\ Cardinality(DOMAIN frequency) <= MaxAsns
        /\ Cardinality(DOMAIN adjacency) <= MaxPairs
    BY <2>1, CountsHold
  <2>4. /\ Cardinality(DOMAIN origins) <= MaxPrefixes
        /\ Cardinality(DOMAIN lastPath) <= MaxPrefixes
    BY <2>1, MapFacts DEF Grouping
  <2> QED BY <2>1, <2>2, <2>3, <2>4 DEF TypeOK, Placed, Logging, Tallied
<1> QED BY <1>1, Invariant, PTL

(* Each count that a bounded map holds is exact, for every stream and all  *)
(* caps, and a key is missing only from a map that is full.                *)
THEOREM CountsCorrect == Spec => []TrackedCountsExact
<1>1. IInv => TrackedCountsExact
  BY CountsHold DEF IInv, Data
<1> QED BY <1>1, Invariant, PTL

(* A prefix is always grouped under the origin of the latest message that  *)
(* gave it one, however long the paths and however small the caps.         *)
THEOREM GroupingCorrect == Spec => []GroupedUnderLatest
<1>1. IInv => GroupedUnderLatest
  BY DEF IInv, Data, Grouping, GroupedUnderLatest, Named
<1> QED BY <1>1, Invariant, PTL

(* The panel begins with a prefix than which none changed more often.      *)
THEOREM LeaderCorrect == Spec => []MostChurnedLeads
<1>1. IInv => MostChurnedLeads
  <2> SUFFICES ASSUME IInv, NEW height \in 2..5, origins # <<>>
               PROVE  PrefixFlaps(height)[1][2] = Max({ChurnOf(p) : p \in DOMAIN origins})
    BY DEF MostChurnedLeads
  <2>1. height \in Nat /\ height >= 2
    OBVIOUS
  <2> QED BY <2>1, LeaderLeads DEF IInv, Data
<1> QED BY <1>1, Invariant, PTL

(* A line of the log hides an invalid prefix only behind a valid first     *)
(* one, and never its hint.                                                *)
THEOREM VerdictsCorrect == Spec => []OnlyValidFirstHides
<1>1. IInv => OnlyValidFirstHides
  BY LogHonest DEF IInv, Data
<1> QED BY <1>1, Invariant, PTL

(* The pane shows the newest rows of the whole log.                        *)
THEOREM TickerCorrect == Spec => []TickerShowsNewest
<1>1. IInv => TickerShowsNewest
  BY PaneShowsNewest DEF IInv, Data, TickerShowsNewest
<1> QED BY <1>1, Invariant, PTL

(* Both panels keep their promise on a terminal of any height.             *)
THEOREM AnyHeight ==
  Spec => [](\A height \in Nat :
    /\ Ticker(height) = Newest(AllLines(log), height)
    /\ height >= 2 /\ origins # <<>> =>
         PrefixFlaps(height)[1][2] = Max({ChurnOf(p) : p \in DOMAIN origins}))
<1> DEFINE Kept == \A height \in Nat :
      /\ Ticker(height) = Newest(AllLines(log), height)
      /\ height >= 2 /\ origins # <<>> =>
           PrefixFlaps(height)[1][2] = Max({ChurnOf(p) : p \in DOMAIN origins})
<1>1. IInv => Kept
  BY LeaderLeads, PaneShowsNewest DEF IInv, Data
<1> QED BY <1>1, Invariant, PTL

(* The terminal is given back unless the program failed.                   *)
THEOREM TerminalCorrect == Spec => []RestoredUnlessFailed
<1>1. IInv => RestoredUnlessFailed
  BY DEF IInv, Placed
<1> QED BY <1>1, Invariant, PTL

-----------------------------------------------------------------------------
(* The browser's model.                                                    *)
Models ==
  [filter: Filters, listed: Seq(DOMAIN Collectors), collector: Nat, stream: Nat,
   pane: Panes, cScroll: Nat, sScroll: Nat,
   filtered: {All} \cup {Only(s) : s \in Seq(Nat \ {0})}]

(* The collectors listed are those the filter finds, and both selections   *)
(* exist as soon as one is listed.                                         *)
Listing(m) ==
  /\ m \in Models
  /\ m.listed = Ascending({c \in DOMAIN Collectors : Listed(m.filter, c)})
  /\ m.collector \in 0..Len(m.listed)
  /\ m.collector = None <=> m.listed = <<>>
  /\ m.stream = None <=> m.listed = <<>>

Held(m) ==
  /\ Listing(m)
  /\ m.listed = <<>> => Shown(m) = <<>>
  /\ m.filter = <<>> => m.filtered = All

(* The streams shown are those of the selected collector.                  *)
InStep(m) ==
  /\ m.filtered = StreamFilter(m)
  /\ m.stream \in DOMAIN Streams(m) \cup {None}

(* What was clicked last is still selected.                                *)
Pointing(m, t) == t # Nothing => /\ m.pane = t[1]
                                 /\ t[1] = "Streams" => m.stream = t[2]

BrowserInv ==
  /\ ui \in {"open", "quit", "opened", "panicked"}
  /\ opened = Nothing \/ (/\ opened[1] \in DOMAIN Collectors
                       /\ opened[2] \in DOMAIN Collectors[opened[1]].streams)
  /\ Held(model) /\ model.cScroll <= Len(model.listed)
  /\ ~clicked => InStep(model) /\ ui # "panicked"
  /\ ui = "panicked" => model.filtered # All
  /\ tracker \in {Nothing} \cup (Panes \X (Nat \ {0})) /\ Pointing(model, tracker)
  /\ rows \in Heights
  /\ clicked \in BOOLEAN

-----------------------------------------------------------------------------
(* Lists.                                                                  *)

LEMMA FiltersGrow ==
  ASSUME NEW f \in Filters
  PROVE  /\ f \in Seq(Chars) /\ Len(f) \in 0..MaxFilter
         /\ \A c \in Chars : Len(f) < MaxFilter => Append(f, c) \in Filters
         /\ f # <<>> => Front(f) \in Filters
         /\ <<>> \in Filters
<1>1. MaxFilter \in Nat
  BY LimitAssumption
<1>2. PICK n \in 0..MaxFilter : f \in [1..n -> Chars]
  BY DEF Filters
<1>3. f \in Seq(Chars) /\ Len(f) = n
  BY <1>1, <1>2, IsASeq
<1>4. ASSUME NEW c \in Chars, Len(f) < MaxFilter PROVE Append(f, c) \in Filters
  <2>1. Append(f, c) \in [1..(n + 1) -> Chars]
    <3>1. Append(f, c) \in Seq(Chars) /\ Len(Append(f, c)) = n + 1
      BY <1>3, AppendProperties
    <3> QED BY <3>1, LenProperties
  <2>2. n + 1 \in 0..MaxFilter
    BY <1>1, <1>3, <1>4
  <2> QED BY <2>1, <2>2 DEF Filters
<1>5. ASSUME f # <<>> PROVE Front(f) \in Filters
  <2>1. n # 0
    BY <1>3, <1>5, EmptySeq
  <2>2. Front(f) = SubSeq(f, 1, n - 1)
    BY <1>3 DEF Front
  <2>3. Front(f) \in [1..(n - 1) -> Chars]
    <3>1. Front(f) \in Seq(Chars) /\ Len(Front(f)) = n - 1
      BY <1>3, <2>1, <2>2, SubSeqProperties
    <3> QED BY <3>1, LenProperties
  <2>4. n - 1 \in 0..MaxFilter
    BY <1>1, <2>1
  <2> QED BY <2>3, <2>4 DEF Filters
<1>6. <<>> \in Filters
  <2>1. <<>> \in [1..0 -> Chars] /\ 0 \in 0..MaxFilter
    BY <1>1
  <2> QED BY <2>1 DEF Filters
<1> QED BY <1>2, <1>3, <1>4, <1>5, <1>6

LEMMA PlacesTaken ==
  ASSUME NEW S, IsFiniteSet(S), NEW before, Orders(before, S),
         \A x \in S : before[x] = {y \in S : y < x}
  PROVE  \A k \in 1..Cardinality(S) :
           (CHOOSE i \in S : Cardinality({j \in S : j < i}) = k - 1) \in S
<1>1. \A r \in 0..(Cardinality(S) - 1) : \E x \in S : Cardinality(before[x]) = r
  BY EveryRank
<1>2. Cardinality(S) \in Nat
  BY FS_CardinalityType
<1> SUFFICES ASSUME NEW k \in 1..Cardinality(S)
             PROVE  (CHOOSE i \in S : Cardinality({j \in S : j < i}) = k - 1) \in S
  OBVIOUS
<1>3. k - 1 \in 0..(Cardinality(S) - 1)
  BY <1>2
<1>4. \E i \in S : Cardinality(before[i]) = k - 1
  BY <1>1, <1>3
<1>5. \E i \in S : Cardinality({j \in S : j < i}) = k - 1
  BY <1>4
<1> QED BY <1>5

LEMMA AscendingFacts ==
  ASSUME NEW n \in Nat, NEW S \in SUBSET (1..n)
  PROVE  /\ Ascending(S) \in Seq(S)
         /\ Ascending(S) = <<>> <=> S = {}
         /\ \A i \in DOMAIN Ascending(S) : Ascending(S)[i] \in S
<1> DEFINE before == [x \in S |-> {y \in S : y < x}]
           a == Ascending(S)
<1>1. before \in [S -> SUBSET S] /\ S \subseteq Nat
  OBVIOUS
<1>2. \A x \in S : before[x] = {y \in S : y < x}
  OBVIOUS
<1> HIDE DEF before
<1>3. Orders(before, S)
  <2>1. ASSUME NEW x \in S, NEW y \in S PROVE y \in before[x] <=> y < x
    BY <1>2
  <2>2. ASSUME NEW x \in S PROVE x \notin before[x]
    BY <1>1, <2>1
  <2>3. ASSUME NEW x \in S, NEW y \in before[x] PROVE before[y] \subseteq before[x]
    <3>1. y \in S
      BY <1>1
    <3>2. ASSUME NEW z \in before[y] PROVE z \in before[x]
      <4>1. z \in S
        BY <1>1, <3>1
      <4>2. z < y /\ y < x
        BY <2>1, <3>1, <4>1
      <4> QED BY <1>1, <2>1, <3>1, <4>1, <4>2
    <3> QED BY <3>2
  <2>4. ASSUME NEW x \in S, NEW y \in S, x # y PROVE x \in before[y] \/ y \in before[x]
    <3>1. x < y \/ y < x
      BY <1>1, <2>4
    <3> QED BY <2>1, <3>1
  <2> QED BY <1>1, <2>2, <2>3, <2>4 DEF Orders
<1>4. IsFiniteSet(S) /\ Cardinality(S) \in Nat
  <2>1. IsFiniteSet(1..n)
    BY FS_Interval
  <2> QED BY <2>1, FS_Subset, FS_CardinalityType
<1>5. IsFiniteSet(S)
  BY <1>4
<1>6. \A k \in 1..Cardinality(S) :
        (CHOOSE i \in S : Cardinality({j \in S : j < i}) = k - 1) \in S
  <2> HIDE DEF a
  <2> QED BY ONLY <1>2, <1>3, <1>5, PlacesTaken
<1>7. a \in [1..Cardinality(S) -> S]
  BY <1>6 DEF Ascending
<1> HIDE DEF a
<1>8. a \in Seq(S) /\ Len(a) = Cardinality(S)
  BY <1>4, <1>7, IsASeq
<1>9. a = <<>> <=> Cardinality(S) = 0
  BY <1>4, <1>8, EmptySeq
<1>10. Cardinality(S) = 0 <=> S = {}
  BY <1>4, FS_EmptySet
<1>11. \A i \in DOMAIN a : a[i] \in S
  BY <1>7
<1> QED BY <1>8, <1>9, <1>10, <1>11 DEF a

(* The one before and the one after are the selection or of the list.      *)
LEMMA AfterFacts ==
  ASSUME NEW sel \in Nat, NEW list \in Seq(Nat)
  PROVE  \/ After(sel, list) = sel
         \/ \E i \in DOMAIN list : After(sel, list) = list[i] /\ list[i] > sel
<1> DEFINE more == {i \in DOMAIN list : list[i] > sel}
<1>1. CASE more = {}
  BY <1>1 DEF After
<1>2. CASE more # {}
  <2>1. DOMAIN list = 1..Len(list) /\ Len(list) \in Nat
    BY LenProperties
  <2>2. more \subseteq Nat
    BY <2>1
  <2>3. \E i \in more : \A j \in more : i <= j
    BY <1>2, <2>2, LeastMember
  <2>4. PICK i \in more : i = CHOOSE k \in more : \A j \in more : k <= j
    BY <2>3
  <2>5. After(sel, list) = list[i]
    BY <1>2, <2>4 DEF After
  <2> QED BY <2>4, <2>5
<1> QED BY <1>1, <1>2

LEMMA BeforeFacts ==
  ASSUME NEW sel \in Nat, NEW list \in Seq(Nat)
  PROVE  Before(sel, list) = sel \/ \E i \in DOMAIN list : Before(sel, list) = list[i]
<1> DEFINE less == {i \in DOMAIN list : list[i] < sel}
           N    == Len(list)
<1>1. DOMAIN list = 1..N /\ N \in Nat /\ (list # <<>> => N # 0)
  BY LenProperties, EmptySeq
<1>2. CASE sel = None /\ list # <<>>
  <2>1. Before(sel, list) = list[N] /\ N \in DOMAIN list
    BY <1>1, <1>2 DEF Before, Last
  <2> QED BY <2>1
<1>3. CASE ~(sel = None /\ list # <<>>) /\ less = {}
  BY <1>3 DEF Before
<1>4. CASE ~(sel = None /\ list # <<>>) /\ less # {}
  <2> DEFINE down == {N - i : i \in less}
  <2>1. down \subseteq Nat /\ down # {}
    BY <1>1, <1>4
  <2>2. PICK d \in down : \A e \in down : d <= e
    <3> HIDE DEF down
    <3> QED BY <2>1, LeastMember
  <2>3. PICK k \in less : d = N - k
    OBVIOUS
  <2>4. \A j \in less : j <= k
    <3> SUFFICES ASSUME NEW j \in less PROVE j <= k
      OBVIOUS
    <3>1. N - k <= N - j
      BY <2>2, <2>3
    <3> QED BY <1>1, <3>1
  <2>5. PICK i \in less : i = CHOOSE x \in less : \A j \in less : j <= x
    BY <2>4
  <2>6. Before(sel, list) = list[i]
    BY <1>4, <2>5 DEF Before
  <2> QED BY <2>5, <2>6
<1> QED BY <1>2, <1>3, <1>4

-----------------------------------------------------------------------------
(* What a collector shows.                                                 *)

LEMMA CollectorFacts ==
  /\ Len(Collectors) \in Nat /\ DOMAIN Collectors = 1..Len(Collectors)
  /\ \A c \in DOMAIN Collectors :
       LET ss == Collectors[c].streams
       IN  /\ ss \in Seq(StreamType) /\ Len(ss) \in Nat \ {0}
           /\ DOMAIN ss = 1..Len(ss)
<1>1. Collectors \in Seq(CollectorType)
  BY CollectorsAssumption
<1>2. Len(Collectors) \in Nat /\ DOMAIN Collectors = 1..Len(Collectors)
  BY <1>1, LenProperties
<1>3. ASSUME NEW c \in DOMAIN Collectors
      PROVE  LET ss == Collectors[c].streams
             IN  /\ ss \in Seq(StreamType) /\ Len(ss) \in Nat \ {0}
                 /\ DOMAIN ss = 1..Len(ss)
  <2>1. Collectors[c] \in CollectorType
    BY <1>1, <1>2, ElementOfSeq
  <2>2. Collectors[c].streams \in Seq(StreamType)
    BY <2>1 DEF CollectorType
  <2>3. Collectors[c].streams # <<>>
    BY CollectorsAssumption
  <2> QED BY <2>2, <2>3, LenProperties, EmptySeq
<1> QED BY <1>2, <1>3

(* Where nothing is listed nothing is selected, and a selected collector   *)
(* has streams.                                                            *)
LEMMA CurrentFacts ==
  ASSUME NEW m, m.listed \in Seq(DOMAIN Collectors),
         m.collector \in 0..Len(m.listed), m.collector = None <=> m.listed = <<>>
  PROVE  /\ m.listed = <<>> => Current(m) = None /\ Streams(m) = <<>>
         /\ m.listed # <<>> => /\ Current(m) \in DOMAIN Collectors
                              /\ Current(m) = m.listed[m.collector]
                              /\ Current(m) # None
                              /\ Streams(m) = Collectors[Current(m)].streams
         /\ Streams(m) = <<>> <=> m.listed = <<>>
         /\ Streams(m) \in Seq(StreamType) /\ Len(Streams(m)) \in Nat
         /\ DOMAIN Streams(m) = 1..Len(Streams(m))
<1>1. DOMAIN m.listed = 1..Len(m.listed) /\ Len(m.listed) \in Nat
  BY LenProperties
<1>2. CASE m.listed = <<>>
  <2>1. Len(m.listed) = 0
    BY <1>2, EmptySeq
  <2>2. Current(m) = None
    BY <1>1, <2>1 DEF Current
  <2>3. Streams(m) = <<>>
    BY <2>2 DEF Streams
  <2>4. <<>> \in Seq(StreamType) /\ Len(<<>>) = 0
    BY EmptySeq
  <2>5. DOMAIN <<>> = 1..0
    BY EmptySeq
  <2> QED BY <1>2, <2>2, <2>3, <2>4, <2>5
<1>3. CASE m.listed # <<>>
  <2>1. m.collector \in 1..Len(m.listed)
    BY <1>1, <1>3 DEF None
  <2>2. Current(m) = m.listed[m.collector]
    BY <1>1, <2>1 DEF Current
  <2>3. Current(m) \in DOMAIN Collectors
    BY <1>1, <2>1, <2>2, ElementOfSeq
  <2>4. Current(m) # None
    BY <2>3, CollectorFacts DEF None
  <2>5. Streams(m) = Collectors[Current(m)].streams
    BY <2>4 DEF Streams
  <2>6. Streams(m) \in Seq(StreamType) /\ Len(Streams(m)) \in Nat \ {0}
        /\ DOMAIN Streams(m) = 1..Len(Streams(m))
    BY <2>3, <2>5, CollectorFacts
  <2>7. Streams(m) # <<>>
    BY <2>6, EmptySeq
  <2> QED BY <1>3, <2>2, <2>3, <2>4, <2>5, <2>6, <2>7
<1> QED BY <1>2, <1>3

(* The filter shows only streams that are there, and never hides all of a  *)
(* collector that it lists.                                                *)
LEMMA FilterFacts ==
  ASSUME NEW m, Listing(m), m.filtered = StreamFilter(m)
  PROVE  /\ m.filtered \in {All} \cup {Only(s) : s \in Seq(Nat \ {0})}
         /\ Visible(m) \subseteq DOMAIN Streams(m)
         /\ \A i \in DOMAIN Shown(m) : Shown(m)[i] \in DOMAIN Streams(m)
         /\ Shown(m) = <<>> <=> m.listed = <<>>
<1> DEFINE ss == Streams(m)
           N  == Len(ss)
           F  == {s \in DOMAIN ss : m.filter \in ss[s].hits}
<1>1. /\ m.listed \in Seq(DOMAIN Collectors)
      /\ m.collector \in 0..Len(m.listed) /\ (m.collector = None <=> m.listed = <<>>)
  BY DEF Listing, Models
<1>2. /\ m.listed = <<>> => Current(m) = None
      /\ m.listed # <<>> => /\ Current(m) \in DOMAIN Collectors
                           /\ Current(m) = m.listed[m.collector]
                           /\ Current(m) # None
                           /\ ss = Collectors[Current(m)].streams
      /\ ss = <<>> <=> m.listed = <<>>
      /\ ss \in Seq(StreamType) /\ N \in Nat /\ DOMAIN ss = 1..N
  BY <1>1, CurrentFacts
<1>3. CASE m.filtered = All
  <2>1. Shown(m) = [i \in 1..N |-> i]
    BY <1>2, <1>3 DEF Shown, Positions
  <2>2. Shown(m) = <<>> <=> N = 0
    BY <1>2, <2>1
  <2>3. N = 0 <=> ss = <<>>
    BY <1>2, EmptySeq
  <2>4. \A i \in DOMAIN Shown(m) : Shown(m)[i] \in DOMAIN ss
    BY <1>2, <2>1
  <2> HIDE DEF ss, N
  <2> QED BY <1>2, <1>3, <2>2, <2>3, <2>4 DEF Visible, ss
<1>4. CASE m.filtered # All
  <2>1. m.filtered = Only(Ascending(F)) /\ m.filter # <<>>
        /\ ~(Current(m) # None /\ m.filter \in Collectors[Current(m)].hits)
    BY <1>4 DEF StreamFilter
  <2>2. Shown(m) = Ascending(F)
    BY <1>4, <2>1 DEF Shown, Only
  <2>3. F \in SUBSET (1..N)
    BY <1>2
  <2>4. /\ Ascending(F) \in Seq(F)
        /\ Ascending(F) = <<>> <=> F = {}
        /\ \A i \in DOMAIN Ascending(F) : Ascending(F)[i] \in F
    <3> HIDE DEF F, N
    <3> QED BY <1>2, <2>3, AscendingFacts
  <2>5. Ascending(F) \in Seq(Nat \ {0})
    <3>1. F \subseteq Nat \ {0}
      BY <1>2, <2>3
    <3> HIDE DEF F
    <3>2. Len(Ascending(F)) \in Nat /\ Ascending(F) \in [1..Len(Ascending(F)) -> F]
      BY <2>4, LenProperties
    <3>3. Ascending(F) \in [1..Len(Ascending(F)) -> Nat \ {0}]
      BY <3>1, <3>2
    <3> QED BY <3>2, <3>3, IsASeq
  <2>6. F = {} <=> m.listed = <<>>
    <3>1. CASE m.listed = <<>>
      BY <1>2, <3>1
    <3>2. CASE m.listed # <<>>
      <4> DEFINE W == {c \in DOMAIN Collectors : Listed(m.filter, c)}
      <4>1. W \in SUBSET (1..Len(Collectors)) /\ Len(Collectors) \in Nat
        BY CollectorFacts
      <4>2. m.listed = Ascending(W)
        BY DEF Listing
      <4>3. m.collector \in DOMAIN m.listed
        BY <1>1, <3>2, LenProperties DEF None
      <4>4. Current(m) \in W
        <5> HIDE DEF W
        <5>1. \A i \in DOMAIN Ascending(W) : Ascending(W)[i] \in W
          BY <4>1, AscendingFacts
        <5> QED BY <1>2, <3>2, <4>2, <4>3, <5>1
      <4>5. Listed(m.filter, Current(m))
        BY <4>4
      <4>6. \E s \in DOMAIN ss : m.filter \in ss[s].hits
        BY <1>2, <2>1, <3>2, <4>5 DEF Listed
      <4> QED BY <3>2, <4>6
    <3> QED BY <3>1, <3>2
  <2>7. \A i \in DOMAIN Shown(m) : Shown(m)[i] \in DOMAIN ss
    BY <2>2, <2>4
  <2> HIDE DEF F
  <2> QED BY <2>1, <2>2, <2>4, <2>5, <2>6, <2>7 DEF Visible
<1> QED BY <1>3, <1>4

-----------------------------------------------------------------------------
(* The actions of the model.                                               *)

(* What is seen of a model depends on its lists and the collector.         *)
LEMMA SameView ==
  ASSUME NEW m, NEW n, n.filter = m.filter, n.listed = m.listed,
         n.collector = m.collector
  PROVE  /\ Current(n) = Current(m) /\ Streams(n) = Streams(m)
         /\ StreamFilter(n) = StreamFilter(m)
         /\ n.filtered = m.filtered => Shown(n) = Shown(m) /\ Visible(n) = Visible(m)
<1>1. Current(n) = Current(m)
  BY DEF Current
<1>2. Streams(n) = Streams(m)
  BY <1>1 DEF Streams
<1>3. StreamFilter(n) = StreamFilter(m)
  BY <1>1, <1>2 DEF StreamFilter
<1>4. n.filtered = m.filtered => Shown(n) = Shown(m)
  BY <1>2 DEF Shown
<1> QED BY <1>1, <1>2, <1>3, <1>4 DEF Visible

(* What an action puts into a model.                                       *)
Framed(m, pane, c, s)    == [m EXCEPT !.pane = pane, !.cScroll = c, !.sScroll = s]
AtStream(m, x, pane)     == [m EXCEPT !.stream = x, !.pane = pane]
AtCollector(m, c, pane)  == [m EXCEPT !.collector = c, !.pane = pane]

(* Pane and scrolling matter to nothing else.                              *)
LEMMA PaneIsFree ==
  ASSUME NEW m, Listing(m), NEW pane \in Panes, NEW c \in Nat, NEW s \in Nat
  PROVE  LET n == Framed(m, pane, c, s)
         IN  /\ Listing(n) /\ (Held(m) => Held(n)) /\ (InStep(m) => InStep(n))
             /\ Shown(n) = Shown(m) /\ Streams(n) = Streams(m)
<1> DEFINE n == Framed(m, pane, c, s)
<1>1. m \in Models
  BY DEF Listing
<1>2. /\ n \in Models
      /\ n.filter = m.filter /\ n.listed = m.listed /\ n.collector = m.collector
      /\ n.filtered = m.filtered /\ n.stream = m.stream
  BY <1>1 DEF Models, Framed
<1> HIDE DEF n
<1>3. /\ Streams(n) = Streams(m) /\ StreamFilter(n) = StreamFilter(m)
      /\ Shown(n) = Shown(m)
  BY <1>2, SameView
<1>4. Listing(n)
  BY <1>2 DEF Listing
<1>5. (Held(m) => Held(n)) /\ (InStep(m) => InStep(n))
  BY <1>2, <1>3, <1>4 DEF Held, InStep
<1> QED BY <1>3, <1>4, <1>5 DEF n

(* recompute_stream_filter brings the streams in step.                     *)
LEMMA RecomputeFacts ==
  ASSUME NEW m, Listing(m)
  PROVE  LET n == Recompute(m)
         IN  /\ Held(n) /\ InStep(n)
             /\ n.listed = m.listed /\ n.pane = m.pane /\ n.cScroll = m.cScroll
<1> DEFINE f == [m EXCEPT !.filtered = StreamFilter(m)]
           n == Recompute(m)
<1>1. m \in Models
  BY DEF Listing
<1>2. /\ f.filter = m.filter /\ f.listed = m.listed /\ f.collector = m.collector
      /\ f.stream = m.stream /\ f.pane = m.pane /\ f.cScroll = m.cScroll
      /\ f.filtered = StreamFilter(m)
  BY <1>1 DEF Models
<1>3. StreamFilter(f) = StreamFilter(m) /\ Streams(f) = Streams(m)
  <2> HIDE DEF f
  <2> QED BY <1>2, SameView
<1>4. /\ m.listed \in Seq(DOMAIN Collectors) /\ m.collector \in 0..Len(m.listed)
      /\ m.collector = None <=> m.listed = <<>>
      /\ m.stream = None <=> m.listed = <<>>
      /\ m.listed = Ascending({c \in DOMAIN Collectors : Listed(m.filter, c)})
  BY <1>1 DEF Listing, Models
<1>5. StreamFilter(m) \in {All} \cup {Only(s) : s \in Seq(Nat \ {0})}
  <2> DEFINE F == {s \in DOMAIN Streams(m) : m.filter \in Streams(m)[s].hits}
             N == Len(Streams(m))
  <2>1. N \in Nat /\ DOMAIN Streams(m) = 1..N
    BY <1>4, CurrentFacts
  <2>2. F \in SUBSET (1..N) /\ F \subseteq Nat \ {0}
    BY <2>1
  <2>3. Ascending(F) \in Seq(F)
    <3> HIDE DEF F, N
    <3> QED BY <2>1, <2>2, AscendingFacts
  <2>4. StreamFilter(m) \in {All, Only(Ascending(F))}
    BY DEF StreamFilter
  <2> HIDE DEF F
  <2>5. Len(Ascending(F)) \in Nat /\ Ascending(F) \in [1..Len(Ascending(F)) -> F]
    BY <2>3, LenProperties
  <2>6. Ascending(F) \in [1..Len(Ascending(F)) -> Nat \ {0}]
    BY <2>2, <2>5
  <2>7. Ascending(F) \in Seq(Nat \ {0})
    BY <2>5, <2>6, IsASeq
  <2> QED BY <2>4, <2>7
<1>6. f \in Models
  BY <1>1, <1>5 DEF Models
<1>7. Listing(f)
  BY <1>2, <1>4, <1>6 DEF Listing
<1>8. /\ Visible(f) \subseteq DOMAIN Streams(f)
      /\ Shown(f) = <<>> <=> f.listed = <<>>
  <2> HIDE DEF f
  <2> QED BY <1>2, <1>3, <1>7, FilterFacts
<1> HIDE DEF f
<1>9. f.filter = <<>> => f.filtered = All
  BY <1>2 DEF StreamFilter
<1>10. CASE f.stream = None \/ f.stream \in Visible(f)
  <2>1. n = f
    BY <1>10 DEF Recompute, f
  <2>2. InStep(f)
    BY <1>2, <1>3, <1>8, <1>10 DEF InStep
  <2> HIDE DEF n
  <2>3. Held(f)
    BY <1>7, <1>8, <1>9 DEF Held
  <2> QED BY <1>2, <2>1, <2>2, <2>3 DEF n
<1>11. CASE ~(f.stream = None \/ f.stream \in Visible(f))
  <2>1. f.listed # <<>> /\ Shown(f) # <<>>
    BY <1>2, <1>4, <1>8, <1>11
  <2>2. n = [f EXCEPT !.stream = 1]
    BY <1>11, <2>1 DEF Recompute, f
  <2> HIDE DEF n
  <2>3. /\ n \in Models /\ n.stream = 1 /\ n.filter = f.filter
        /\ n.listed = f.listed /\ n.collector = f.collector
        /\ n.filtered = f.filtered /\ n.pane = f.pane /\ n.cScroll = f.cScroll
    BY <1>6, <2>2 DEF Models
  <2>4. /\ StreamFilter(n) = StreamFilter(f) /\ Streams(n) = Streams(f)
        /\ Shown(n) = Shown(f)
    BY <2>3, SameView
  <2>5. Listing(n)
    BY <1>7, <2>1, <2>3 DEF Listing, None
  <2>6. 1 \in DOMAIN Streams(f)
    <3>1. /\ f.listed \in Seq(DOMAIN Collectors) /\ f.collector \in 0..Len(f.listed)
          /\ f.collector = None <=> f.listed = <<>>
      BY <1>2, <1>4
    <3>2. Streams(f) # <<>> /\ DOMAIN Streams(f) = 1..Len(Streams(f))
          /\ Len(Streams(f)) \in Nat /\ Streams(f) \in Seq(StreamType)
      BY <2>1, <3>1, CurrentFacts
    <3> QED BY <3>2, EmptySeq
  <2>7. InStep(n)
    BY <1>2, <1>3, <2>3, <2>4, <2>6 DEF InStep
  <2>8. Held(n)
    BY <1>9, <2>1, <2>3, <2>5 DEF Held
  <2> QED BY <1>2, <2>3, <2>7, <2>8 DEF n
<1> QED BY <1>10, <1>11

(* So does a new filter, after which both selections exist where they can. *)
LEMMA RebuildFacts ==
  ASSUME NEW m \in Models
  PROVE  /\ Held(Rebuild(m)) /\ InStep(Rebuild(m))
         /\ Rebuild(m).cScroll = m.cScroll
<1> DEFINE W == {c \in DOMAIN Collectors : Listed(m.filter, c)}
           searched == [m EXCEPT !.listed = Ascending(W)]
           picked   == [searched EXCEPT !.collector = Clamp(@, Len(searched.listed))]
           settled  == [picked EXCEPT !.stream = Clamp(@, Len(Streams(picked)))]
           n        == Recompute(settled)
           k        == Clamp(m.collector, Len(Ascending(W)))
<1>1. \A sel \in Nat : \A len \in Nat :
        /\ Clamp(sel, len) \in 0..len
        /\ Clamp(sel, len) = None <=> len = 0
  BY DEF Clamp, None
<1>2. Ascending(W) \in Seq(DOMAIN Collectors) /\ Len(Ascending(W)) \in Nat
      /\ (Ascending(W) = <<>> <=> Len(Ascending(W)) = 0)
  <2>1. W \in SUBSET (1..Len(Collectors)) /\ W \subseteq DOMAIN Collectors
        /\ Len(Collectors) \in Nat
    BY CollectorFacts
  <2> HIDE DEF W
  <2>2. Ascending(W) \in Seq(W)
    BY <2>1, AscendingFacts
  <2>3. Len(Ascending(W)) \in Nat /\ Ascending(W) \in [1..Len(Ascending(W)) -> W]
    BY <2>2, LenProperties
  <2>4. Ascending(W) \in [1..Len(Ascending(W)) -> DOMAIN Collectors]
    BY <2>1, <2>3
  <2> QED BY <2>2, <2>3, <2>4, IsASeq, EmptySeq
<1>3. /\ searched \in Models /\ searched.listed = Ascending(W)
      /\ searched.cScroll = m.cScroll
      /\ searched.collector = m.collector /\ searched.filter = m.filter
  <2> HIDE DEF W
  <2> QED BY <1>2 DEF Models
<1>4. k \in 0..Len(Ascending(W)) /\ (k = None <=> Ascending(W) = <<>>)
  <2>1. m.collector \in Nat
    BY DEF Models
  <2> HIDE DEF W
  <2> QED BY <1>1, <1>2, <2>1
<1>5. /\ picked \in Models /\ picked.listed = Ascending(W) /\ picked.collector = k
      /\ picked.cScroll = m.cScroll
      /\ picked.filter = m.filter
  <2> HIDE DEF W
  <2>1. picked = [searched EXCEPT !.collector = k]
    BY <1>3 DEF Models
  <2> HIDE DEF searched, picked
  <2>2. k \in Nat
    BY <1>2, <1>4
  <2> HIDE DEF k
  <2> QED BY <1>3, <2>1, <2>2 DEF Models
<1> HIDE DEF W, searched, picked, k
<1>6. /\ Streams(picked) = <<>> <=> Ascending(W) = <<>>
      /\ Len(Streams(picked)) \in Nat
      /\ Streams(picked) = <<>> <=> Len(Streams(picked)) = 0
  <2>1. /\ picked.listed \in Seq(DOMAIN Collectors)
        /\ picked.collector \in 0..Len(picked.listed)
        /\ picked.collector = None <=> picked.listed = <<>>
    BY <1>2, <1>4, <1>5
  <2> QED BY <1>5, <2>1, CurrentFacts, EmptySeq
<1>7. /\ settled \in Models /\ settled.listed = Ascending(W)
      /\ settled.cScroll = m.cScroll
      /\ settled.collector = k /\ settled.filter = m.filter
      /\ settled.stream = None <=> Ascending(W) = <<>>
  <2>1. picked.stream \in Nat
    BY <1>5 DEF Models
  <2>2. Clamp(picked.stream, Len(Streams(picked))) \in Nat
        /\ (Clamp(picked.stream, Len(Streams(picked))) = None <=> Ascending(W) = <<>>)
    <3> DEFINE len == Len(Streams(picked))
               sel == picked.stream
    <3>1. len \in Nat /\ (Ascending(W) = <<>> <=> len = 0)
      BY <1>6
    <3> HIDE DEF len, sel
    <3>2. Clamp(sel, len) \in 0..len /\ (Clamp(sel, len) = None <=> len = 0)
      BY <1>1, <2>1, <3>1 DEF sel
    <3>3. Clamp(sel, len) \in Nat /\ (Clamp(sel, len) = None <=> Ascending(W) = <<>>)
      BY <3>1, <3>2
    <3> QED BY <3>3 DEF len, sel
  <2> QED BY <1>5, <2>2 DEF Models
<1> HIDE DEF settled
<1>8. Listing(settled)
  BY <1>4, <1>7 DEF Listing, W
<1>9. Held(n) /\ InStep(n) /\ n.cScroll = m.cScroll
  BY <1>7, <1>8, RecomputeFacts
<1>10. Rebuild(m) = [n EXCEPT !.pane = IF Shown(n) = <<>> THEN "Collectors"
                                       ELSE IF n.listed = <<>> THEN "Streams" ELSE @]
  BY DEF Rebuild, settled, picked, searched, W
<1> HIDE DEF n
<1>11. PICK pane \in Panes : Rebuild(m) = [n EXCEPT !.pane = pane]
  <2>1. n \in Models
    BY <1>9 DEF Held, Listing
  <2> QED BY <1>10, <2>1 DEF Panes, Models
<1>12. /\ n.cScroll \in Nat /\ n.sScroll \in Nat /\ n \in Models
       /\ Listing(n)
  BY <1>9 DEF Held, Listing, Models
<1>13. Rebuild(m) = Framed(n, pane, n.cScroll, n.sScroll)
  BY <1>11, <1>12 DEF Models, Framed
<1>14. Rebuild(m).cScroll = m.cScroll
  BY <1>9, <1>11, <1>12 DEF Models
<1> QED BY <1>9, <1>12, <1>13, <1>14, PaneIsFree

(* The right pane is a list of positions.                                  *)
LEMMA ShownFacts ==
  ASSUME NEW m, Listing(m)
  PROVE  /\ Shown(m) \in Seq(Nat \ {0}) /\ Shown(m) \in Seq(Nat)
         /\ Len(Shown(m)) \in Nat /\ DOMAIN Shown(m) = 1..Len(Shown(m))
         /\ \A i \in DOMAIN Shown(m) : Shown(m)[i] \in Nat \ {0}
<1>1. /\ m.listed \in Seq(DOMAIN Collectors) /\ m.collector \in 0..Len(m.listed)
      /\ m.collector = None <=> m.listed = <<>>
      /\ m.filtered \in {All} \cup {Only(s) : s \in Seq(Nat \ {0})}
  BY DEF Listing, Models
<1>2. Shown(m) \in Seq(Nat \ {0})
  <2>1. CASE m.filtered = All
    <3> DEFINE N == Len(Streams(m))
    <3>1. N \in Nat /\ DOMAIN Streams(m) = 1..N
      BY <1>1, CurrentFacts
    <3>2. Shown(m) = [i \in 1..N |-> i]
      BY <2>1, <3>1 DEF Shown, Positions
    <3> HIDE DEF N
    <3>3. Shown(m) \in [1..N -> Nat \ {0}]
      BY <3>1, <3>2
    <3> QED BY <3>1, <3>3, IsASeq
  <2>2. CASE m.filtered # All
    <3>1. PICK s \in Seq(Nat \ {0}) : m.filtered = Only(s)
      BY <1>1, <2>2
    <3>2. Shown(m) = s
      BY <2>2, <3>1 DEF Shown, Only
    <3> QED BY <3>1, <3>2
  <2> QED BY <2>1, <2>2
<1> DEFINE w == Shown(m)
<1> HIDE DEF w
<1>3. w \in Seq(Nat \ {0})
  BY <1>2 DEF w
<1>4. Len(w) \in Nat /\ DOMAIN w = 1..Len(w) /\ w \in [1..Len(w) -> Nat \ {0}]
  BY <1>3, LenProperties
<1>5. w \in [1..Len(w) -> Nat]
  BY <1>4
<1>6. w \in Seq(Nat)
  BY <1>4, <1>5, IsASeq
<1>7. \A i \in DOMAIN w : w[i] \in Nat \ {0}
  BY <1>4
<1> QED BY <1>3, <1>4, <1>6, <1>7 DEF w

(* A stream that is selected instead of another.                           *)
LEMMA StreamMoves ==
  ASSUME NEW m, Held(m), NEW x \in Nat, x = None <=> m.listed = <<>>,
         InStep(m) => x \in DOMAIN Streams(m) \cup {None},
         NEW pane \in Panes
  PROVE  LET n == AtStream(m, x, pane)
         IN  /\ Held(n) /\ (InStep(m) => InStep(n))
             /\ n.listed = m.listed /\ n.pane = pane /\ n.stream = x
             /\ n.cScroll = m.cScroll
<1> DEFINE n == AtStream(m, x, pane)
<1>1. m \in Models /\ Listing(m)
  BY DEF Held, Listing
<1>2. /\ n \in Models
      /\ n.filter = m.filter /\ n.listed = m.listed /\ n.collector = m.collector
      /\ n.filtered = m.filtered /\ n.stream = x /\ n.pane = pane
      /\ n.cScroll = m.cScroll
  BY <1>1 DEF Models, AtStream
<1> HIDE DEF n
<1>3. /\ Streams(n) = Streams(m) /\ StreamFilter(n) = StreamFilter(m)
      /\ Shown(n) = Shown(m)
  BY <1>2, SameView
<1>4. Listing(n)
  BY <1>1, <1>2 DEF Listing
<1>5. Held(n) /\ (InStep(m) => InStep(n))
  BY <1>2, <1>3, <1>4 DEF Held, InStep
<1> QED BY <1>2, <1>5 DEF n

(* A collector that is selected instead of another, before the stream      *)
(* filter is computed.                                                     *)
LEMMA CollectorMoves ==
  ASSUME NEW m, Held(m), NEW c \in 0..Len(m.listed), c = None <=> m.listed = <<>>,
         NEW pane \in Panes
  PROVE  LET n == AtCollector(m, c, pane)
         IN  /\ Listing(n) /\ n.listed = m.listed /\ n.pane = pane
             /\ n.cScroll = m.cScroll /\ n.stream = m.stream
             /\ m.listed # <<>> => Held(n)
<1> DEFINE n == AtCollector(m, c, pane)
<1>1. m \in Models /\ Listing(m)
  BY DEF Held, Listing
<1>2. Len(m.listed) \in Nat
  BY <1>1, LenProperties DEF Models
<1>3. c \in Nat
  BY <1>2
<1>4. /\ n \in Models
      /\ n.filter = m.filter /\ n.listed = m.listed /\ n.collector = c
      /\ n.stream = m.stream /\ n.pane = pane /\ n.cScroll = m.cScroll
      /\ n.filtered = m.filtered
  BY <1>1, <1>3 DEF Models, AtCollector
<1> HIDE DEF n
<1>5. Listing(n)
  BY <1>1, <1>4 DEF Listing
<1>6. m.listed # <<>> => Held(n)
  BY <1>4, <1>5 DEF Held
<1> QED BY <1>4, <1>5, <1>6 DEF n

(* Up, down and the wheel.                                                 *)
LEMMA MoveFacts ==
  ASSUME NEW m, Held(m), NEW n \in {MoveUp(m), MoveDown(m)}
  PROVE  /\ Held(n) /\ n.listed = m.listed /\ n.pane = m.pane
         /\ (m.pane = "Collectors" \/ InStep(m)) => InStep(n)
<1> DEFINE N == Len(m.listed)
           w == Shown(m)
<1>1. m \in Models /\ Listing(m)
  BY DEF Held, Listing
<1>2. /\ m.listed \in Seq(DOMAIN Collectors) /\ N \in Nat
      /\ DOMAIN m.listed = 1..N /\ (m.listed = <<>> <=> N = 0)
      /\ m.collector \in 0..N /\ (m.collector = None <=> m.listed = <<>>)
      /\ m.stream \in Nat /\ (m.stream = None <=> m.listed = <<>>)
      /\ m.pane \in Panes
  BY <1>1, LenProperties, EmptySeq DEF Listing, Models
<1>3. CASE m.pane = "Collectors"
  <2>1. PICK c : /\ c \in {Dec(m.collector), After(m.collector, Positions(m.listed))}
                 /\ n = Recompute([m EXCEPT !.collector = c])
    BY <1>1, <1>3 DEF MoveUp, MoveDown, Models
  <2>2. c \in 0..N /\ (c = None <=> m.listed = <<>>)
    <3> DEFINE ps == Positions(m.listed)
               a  == After(m.collector, ps)
    <3>1. ps = [i \in 1..N |-> i]
      BY <1>2 DEF Positions
    <3>2. ps \in Seq(Nat) /\ DOMAIN ps = 1..N /\ \A i \in 1..N : ps[i] = i
      <4>1. ps \in [1..N -> Nat]
        BY <1>2, <3>1
      <4>2. \A i \in 1..N : ps[i] = i
        BY <3>1
      <4> HIDE DEF ps, N
      <4> QED BY <1>2, <4>1, <4>2, IsASeq
    <3>3. m.collector \in Nat
      BY <1>2
    <3> HIDE DEF ps
    <3>4. \/ a = m.collector
          \/ \E i \in DOMAIN ps : a = ps[i] /\ ps[i] > m.collector
      BY <3>2, <3>3, AfterFacts
    <3>5. a \in 0..N /\ (a = None <=> m.listed = <<>>)
      <4> HIDE DEF a, N
      <4> QED BY <1>2, <3>2, <3>4 DEF None
    <3>6. Dec(m.collector) \in 0..N /\ (Dec(m.collector) = None <=> m.listed = <<>>)
      BY <1>2 DEF Dec, None
    <3> QED BY <2>1, <3>5, <3>6 DEF ps
  <2> DEFINE p == [m EXCEPT !.collector = c]
  <2>3. p = AtCollector(m, c, m.pane)
    BY <1>1 DEF Models, AtCollector
  <2> HIDE DEF p
  <2>4. Listing(p) /\ p.listed = m.listed /\ p.pane = m.pane
    <3>1. Held(m) /\ m.pane \in Panes /\ c \in 0..Len(m.listed)
          /\ (c = None <=> m.listed = <<>>)
      BY <1>2, <2>2
    <3> QED BY ONLY <2>3, <3>1, CollectorMoves
  <2>5. n = Recompute(p)
    BY <2>1 DEF p
  <2> QED BY <2>4, <2>5, RecomputeFacts
<1>4. CASE m.pane # "Collectors"
  <2>1. PICK x : /\ x \in {Dec(m.stream), Before(m.stream, w), After(m.stream, w)}
                 /\ n = [m EXCEPT !.stream = x]
    BY <1>1, <1>4 DEF MoveUp, MoveDown, Models
  <2>2. w \in Seq(Nat) /\ \A i \in DOMAIN w : w[i] \in Nat \ {0}
    BY <1>1, ShownFacts
  <2>3. \/ x \in {m.stream, m.stream - 1} /\ x \in Nat /\ (x = 0 => m.stream = 0)
        \/ \E i \in DOMAIN w : x = w[i]
    <3> HIDE DEF w
    <3>1. Before(m.stream, w) = m.stream \/ \E i \in DOMAIN w : Before(m.stream, w) = w[i]
      BY <1>2, <2>2, BeforeFacts
    <3>2. After(m.stream, w) = m.stream \/ \E i \in DOMAIN w : After(m.stream, w) = w[i]
      BY <1>2, <2>2, AfterFacts
    <3>3. /\ Dec(m.stream) \in {m.stream, m.stream - 1} /\ Dec(m.stream) \in Nat
          /\ Dec(m.stream) = 0 => m.stream = 0
      BY <1>2 DEF Dec
    <3> QED BY <1>2, <2>1, <3>1, <3>2, <3>3
  <2>4. w = <<>> \/ m.listed # <<>>
    BY DEF Held
  <2>5. x \in Nat /\ (x = None <=> m.listed = <<>>)
    <3>1. ASSUME NEW i \in DOMAIN w PROVE w[i] \in Nat \ {0} /\ m.listed # <<>>
      BY <2>2, <2>4
    <3> HIDE DEF w
    <3> QED BY <1>2, <2>3, <3>1 DEF None
  <2>6. ASSUME InStep(m) PROVE x \in DOMAIN Streams(m) \cup {None}
    <3>1. \A i \in DOMAIN w : w[i] \in DOMAIN Streams(m)
      BY <1>1, <2>6, FilterFacts DEF InStep
    <3>2. m.stream \in DOMAIN Streams(m) \cup {None}
      BY <2>6 DEF InStep
    <3>3. DOMAIN Streams(m) = 1..Len(Streams(m)) /\ Len(Streams(m)) \in Nat
      BY <1>2, CurrentFacts
    <3> HIDE DEF w
    <3> QED BY <1>2, <2>3, <3>1, <3>2, <3>3 DEF None
  <2>7. n = AtStream(m, x, m.pane)
    BY <1>1, <2>1 DEF Models, AtStream
  <2>8. Held(m) /\ m.pane \in Panes /\ (x = None <=> m.listed = <<>>) /\ x \in Nat
    BY <1>2, <2>5
  <2>9. /\ Held(n) /\ (InStep(m) => InStep(n))
        /\ n.listed = m.listed /\ n.pane = m.pane
    BY ONLY <2>6, <2>7, <2>8, StreamMoves
  <2> QED BY <1>4, <2>9
<1> QED BY <1>3, <1>4

(* Tab, the arrows and Enter change the pane only: where there is a stream *)
(* to go to, one is selected.                                              *)
LEMMA FocusFacts ==
  ASSUME NEW m, Held(m),
         NEW n \in {SwitchPane(m), FocusStreams(m), FocusCollectors(m),
                    EnterCollector(m)}
  PROVE  Held(n) /\ n.listed = m.listed /\ (InStep(m) => InStep(n))
<1>1. m \in Models /\ Listing(m)
  BY DEF Held, Listing
<1>2. /\ m.listed \in Seq(DOMAIN Collectors) /\ m.collector \in 0..Len(m.listed)
      /\ m.collector = None <=> m.listed = <<>>
      /\ m.stream \in Nat /\ (m.stream = None <=> m.listed = <<>>)
      /\ m.pane \in Panes
  BY <1>1 DEF Listing, Models
<1>3. Streams(m) = <<>> <=> m.listed = <<>>
  BY <1>2, CurrentFacts
<1>4. PICK pane \in Panes : n = [m EXCEPT !.pane = pane]
  <2>1. ASSUME Shown(m) # <<>> \/ Streams(m) # <<>>
        PROVE  ToStreams(m) = [m EXCEPT !.pane = "Streams"]
    <3>1. m.listed # <<>>
      BY <1>3, <2>1 DEF Held
    <3>2. m.stream # None
      BY <1>2, <3>1
    <3> QED BY <1>1, <3>2 DEF ToStreams, Models
  <2>2. m = [m EXCEPT !.pane = m.pane]
    BY <1>1 DEF Models
  <2>3. {"Collectors", "Streams"} \subseteq Panes
    BY DEF Panes
  <2>4. n \in {m, [m EXCEPT !.pane = "Collectors"], [m EXCEPT !.pane = "Streams"]}
    BY <2>1 DEF SwitchPane, FocusStreams, FocusCollectors, EnterCollector
  <2> QED BY <1>2, <2>2, <2>3, <2>4
<1>5. m.cScroll \in Nat /\ m.sScroll \in Nat
  BY <1>1 DEF Models
<1>6. n = Framed(m, pane, m.cScroll, m.sScroll)
  BY <1>1, <1>4 DEF Models, Framed
<1>7. n.listed = m.listed
  BY <1>1, <1>4 DEF Models
<1> QED BY <1>1, <1>5, <1>6, <1>7, PaneIsFree

(* ensure_visible.                                                         *)
LEMMA ScrolledFacts ==
  ASSUME NEW sel \in Nat, NEW scroll \in Nat, NEW total \in Nat, NEW height \in Nat
  PROVE  LET r == Scrolled(sel, scroll, total, height)
         IN  /\ r \in Nat
             /\ sel <= total => r <= total
             /\ sel \in 1..total /\ height > 0 => sel \in (r + 1)..(r + height)
BY DEF Scrolled, None

LEMMA EnsureFacts ==
  ASSUME NEW m, Held(m), NEW height \in Nat
  PROVE  LET n == EnsureVisible(m, height)
         IN  /\ Held(n) /\ (InStep(m) => InStep(n))
             /\ n.cScroll <= Len(n.listed)
             /\ n.listed = m.listed /\ n.collector = m.collector
             /\ n.stream = m.stream /\ n.pane = m.pane /\ n.filtered = m.filtered
             /\ Shown(n) = Shown(m) /\ Streams(n) = Streams(m)
             /\ n.cScroll = Scrolled(m.collector, m.cScroll, Len(m.listed), height)
             /\ n.sScroll = Scrolled(m.stream, m.sScroll, Len(Shown(m)), height)
<1> DEFINE c == Scrolled(m.collector, m.cScroll, Len(m.listed), height)
           s == Scrolled(m.stream, m.sScroll, Len(Shown(m)), height)
           n == EnsureVisible(m, height)
<1>1. m \in Models /\ Listing(m)
  BY DEF Held, Listing
<1>2. /\ m.collector \in Nat /\ m.cScroll \in Nat /\ m.stream \in Nat
      /\ m.sScroll \in Nat /\ m.pane \in Panes
  BY <1>1 DEF Models
<1>3. m.listed \in Seq(DOMAIN Collectors) /\ m.collector \in 0..Len(m.listed)
  BY <1>1 DEF Listing, Models
<1>4. Len(m.listed) \in Nat /\ Len(Shown(m)) \in Nat /\ m.collector <= Len(m.listed)
  BY <1>1, <1>3, LenProperties, ShownFacts
<1>5. c \in Nat /\ c <= Len(m.listed) /\ s \in Nat
  BY <1>2, <1>4, ScrolledFacts
<1>6. n = Framed(m, m.pane, c, s)
  BY <1>1 DEF EnsureVisible, Models, Framed
<1> HIDE DEF c, s, n
<1>7. /\ n.listed = m.listed /\ n.collector = m.collector /\ n.stream = m.stream
      /\ n.pane = m.pane /\ n.filtered = m.filtered
      /\ n.cScroll = c /\ n.sScroll = s
  BY <1>1, <1>6 DEF Models, Framed
<1>8. /\ Held(n) /\ (InStep(m) => InStep(n))
      /\ Shown(n) = Shown(m) /\ Streams(n) = Streams(m)
  <2>1. Listing(m) /\ Held(m) /\ m.pane \in Panes /\ c \in Nat /\ s \in Nat
    BY <1>1, <1>2, <1>5
  <2> QED BY ONLY <1>6, <2>1, PaneIsFree
<1> QED BY <1>5, <1>7, <1>8 DEF n, c, s

(* Drawing streams that are in step, or all of them, does not panic.       *)
LEMMA DrawnExist ==
  ASSUME NEW m, Held(m), InStep(m) \/ m.filtered = All, NEW height
  PROVE  ~Panics(m, height)
<1>1. \A i \in DOMAIN Shown(m) : Shown(m)[i] \in DOMAIN Streams(m)
  <2>1. CASE InStep(m)
    BY <2>1, FilterFacts DEF Held, InStep
  <2>2. CASE m.filtered = All
    <3>1. Shown(m) = [i \in DOMAIN Streams(m) |-> i]
      BY <2>2 DEF Shown, Positions
    <3> QED BY <3>1
  <2> QED BY <2>1, <2>2
<1> QED BY <1>1 DEF Panics, Drawn

-----------------------------------------------------------------------------
(* The turns of the event loop.                                            *)

(* A turn that ends in drawing the model m, scrolled for the rows before   *)
(* it, and one that returns the stream selected in m.                      *)
Redrawn(m) ==
  /\ Held(m) /\ (~clicked' => InStep(m)) /\ Pointing(m, tracker')
  /\ model' = EnsureVisible(m, rows) /\ rows' \in Heights
  /\ ui = "open" /\ ui' = IF Panics(model', rows') THEN "panicked" ELSE "open"
  /\ opened' = opened

Returned(m) ==
  /\ Held(m) /\ (~clicked' => InStep(m)) /\ Pointing(m, tracker')
  /\ m.cScroll <= Len(m.listed)
  /\ Selected(m) # Nothing /\ Return(m)
  /\ Selected(model) = Selected(m)
  /\ tracker # Nothing => tracker = <<"Streams", model.stream>>

LEMMA InvFacts ==
  ASSUME BrowserInv
  PROVE  /\ Held(model) /\ Listing(model) /\ model \in Models
         /\ model.filter \in Filters /\ model.pane \in Panes
         /\ model.listed \in Seq(DOMAIN Collectors) /\ Len(model.listed) \in Nat
         /\ DOMAIN model.listed = 1..Len(model.listed)
         /\ model.cScroll \in Nat /\ model.sScroll \in Nat /\ model.stream \in Nat
         /\ ~clicked => InStep(model)
         /\ rows \in Heights /\ rows \in Nat
<1>1. Held(model) /\ Listing(model) /\ model \in Models /\ rows \in Heights
  BY DEF BrowserInv, Held, Listing
<1>2. rows \in Nat
  BY <1>1, LimitAssumption
<1> QED BY <1>1, <1>2, LenProperties DEF Models, BrowserInv

LEMMA TypeStep ==
  ASSUME BrowserInv, NEW c \in Chars, Type(c)
  PROVE  /\ \E m : Redrawn(m)
         /\ tracker' = Nothing /\ clicked' = FALSE
<1> DEFINE g == [model EXCEPT !.filter = Append(@, c)]
<1>1. g \in Models
  <2>1. model \in Models /\ model.filter \in Filters /\ Len(model.filter) < MaxFilter
    BY InvFacts DEF Type
  <2>2. Append(model.filter, c) \in Filters
    BY <2>1, FiltersGrow
  <2> QED BY <2>1, <2>2 DEF Models
<1>2. Key(Rebuild(g)) /\ clicked' = FALSE
  BY DEF Type
<1> HIDE DEF g
<1>3. Redrawn(Rebuild(g))
  BY <1>1, <1>2, RebuildFacts, InvFacts DEF Key, Turn, Redrawn, Pointing
<1> QED BY <1>2, <1>3 DEF Key

LEMMA BackspaceStep ==
  ASSUME BrowserInv, Backspace
  PROVE  /\ \E m : Redrawn(m)
         /\ tracker' = Nothing /\ clicked' = FALSE
<1> DEFINE g == [model EXCEPT !.filter = IF @ = <<>> THEN @ ELSE Front(@)]
<1>1. g \in Models
  <2>1. model \in Models /\ model.filter \in Filters
    BY InvFacts
  <2>2. model.filter # <<>> => Front(model.filter) \in Filters
    BY <2>1, FiltersGrow
  <2> QED BY <2>1, <2>2 DEF Models
<1>2. Key(Rebuild(g)) /\ clicked' = FALSE
  BY DEF Backspace
<1> HIDE DEF g
<1>3. Redrawn(Rebuild(g))
  BY <1>1, <1>2, RebuildFacts, InvFacts DEF Key, Turn, Redrawn, Pointing
<1> QED BY <1>2, <1>3 DEF Key

(* A move in a pane of what the model shows, by key or by wheel.           *)
LEMMA MoveStep ==
  ASSUME BrowserInv, NEW m, Held(m), InStep(model) => InStep(m),
         NEW n \in {MoveUp(m), MoveDown(m)}, Key(n), ClickedAfterMove(m.pane)
  PROVE  /\ \E k : Redrawn(k)
         /\ tracker' = Nothing /\ clicked' \in BOOLEAN
<1>1. Held(n) /\ ((m.pane = "Collectors" \/ InStep(m)) => InStep(n))
  BY MoveFacts
<1>2. clicked \in BOOLEAN /\ m.pane \in Panes
  BY DEF BrowserInv, Held, Listing, Models
<1>3. clicked' \in BOOLEAN /\ (~clicked' => (~clicked \/ m.pane = "Collectors"))
  BY <1>2 DEF ClickedAfterMove, Panes
<1>4. ~clicked' => InStep(n)
  BY <1>1, <1>3, InvFacts
<1>5. Redrawn(n)
  BY <1>1, <1>4, InvFacts DEF Key, Turn, Redrawn, Pointing
<1> QED BY <1>3, <1>5 DEF Key

LEMMA FocusStep ==
  ASSUME BrowserInv,
         NEW n \in {model, SwitchPane(model), FocusStreams(model),
                    FocusCollectors(model), EnterCollector(model)},
         Key(n), UNCHANGED clicked
  PROVE  /\ \E k : Redrawn(k)
         /\ tracker' = Nothing /\ clicked' \in BOOLEAN
<1>1. Held(n) /\ (InStep(model) => InStep(n))
  <2>1. Held(model)
    BY InvFacts
  <2>2. CASE n = model
    BY <2>1, <2>2
  <2>3. CASE n # model
    BY <2>1, <2>3, FocusFacts
  <2> QED BY <2>2, <2>3
<1>2. Redrawn(n)
  BY <1>1, InvFacts DEF Key, Turn, Redrawn, Pointing
<1> QED BY <1>2 DEF Key, BrowserInv

LEMMA EnterStep ==
  ASSUME BrowserInv, Enter
  PROVE  /\ (\E m : Redrawn(m)) \/ \E m : Returned(m)
         /\ tracker' = Nothing /\ clicked' \in BOOLEAN
<1>1. CASE model.pane = "Collectors" /\ Key(EnterCollector(model))
  BY <1>1, FocusStep DEF Enter
<1>2. CASE Key(model)
  BY <1>2, FocusStep DEF Enter
<1>3. CASE /\ model.pane = "Streams" /\ Selected(model) # Nothing
           /\ Return(model) /\ tracker' = Nothing
  <2>1. tracker # Nothing => tracker = <<"Streams", model.stream>>
    <3>1. tracker \in {Nothing} \cup (Panes \X (Nat \ {0})) /\ Pointing(model, tracker)
      BY DEF BrowserInv
    <3> QED BY <1>3, <3>1 DEF Pointing
  <2>2. Returned(model)
    BY <1>3, <2>1, InvFacts DEF Enter, Returned, Pointing, BrowserInv
  <2> QED BY <1>3, <2>2 DEF Enter, BrowserInv
<1> QED BY <1>1, <1>2, <1>3 DEF Enter

LEMMA ClickStep ==
  ASSUME BrowserInv, NEW pane \in Panes, NEW k \in 1..rows, NEW quick \in BOOLEAN,
         Click(pane, k, quick)
  PROVE  /\ (\E m : Redrawn(m)) \/ \E m : Returned(m)
         /\ tracker' \in {Nothing} \cup (Panes \X (Nat \ {0}))
         /\ clicked' \in BOOLEAN
<1> DEFINE at     == Target(pane, k)
           m      == Pointed(pane, at)
           double == DoubleClick(pane, at, quick)
<1>1. /\ ui = "open" /\ at # None
      /\ IF double /\ pane = "Streams" /\ Selected(m) # Nothing THEN Return(m)
                                                             ELSE Turn(m)
      /\ tracker' = IF double THEN Nothing ELSE <<pane, at>>
      /\ clicked' = (clicked \/ pane = "Collectors")
  BY DEF Click
<1>2. /\ Held(model) /\ Listing(model) /\ model \in Models /\ model.pane \in Panes
      /\ model.listed \in Seq(DOMAIN Collectors) /\ Len(model.listed) \in Nat
      /\ DOMAIN model.listed = 1..Len(model.listed)
      /\ ~clicked => InStep(model)
  BY InvFacts
<1>3. clicked' \in BOOLEAN /\ (~clicked' => ~clicked /\ pane # "Collectors")
  BY <1>1 DEF BrowserInv
<1>4. /\ Held(m) /\ m.listed = model.listed /\ m.cScroll = model.cScroll
      /\ m.pane = pane /\ (pane = "Streams" => m.stream = at)
      /\ at \in Nat \ {0}
      /\ ~clicked' => InStep(m)
  <2>1. CASE pane = "Collectors"
    <3>1. at \in DOMAIN model.listed
      BY <1>1, <2>1 DEF Target
    <3>2. at \in 0..Len(model.listed) /\ at \in Nat \ {0}
          /\ model.listed # <<>> /\ (at = None <=> model.listed = <<>>)
      <4> HIDE DEF at
      <4> QED BY <1>2, <3>1, EmptySeq DEF None
    <3>3. m = AtCollector(model, at, pane)
      BY <2>1 DEF Pointed, AtCollector
    <3> HIDE DEF at, m
    <3> QED BY <1>2, <1>3, <2>1, <3>2, <3>3, CollectorMoves
  <2>2. CASE pane # "Collectors"
    <3>1. pane = "Streams"
      BY <2>2 DEF Panes
    <3>2. PICK i \in DOMAIN Shown(model) : at = Shown(model)[i]
      BY <1>1, <2>2 DEF Target
    <3>3. at \in Nat \ {0} /\ model.listed # <<>>
      BY <1>2, <3>2, ShownFacts DEF Held
    <3>4. InStep(model) => at \in DOMAIN Streams(model) \cup {None}
      BY <1>2, <3>2, FilterFacts DEF InStep
    <3>5. m = AtStream(model, at, pane)
      BY <2>2, <3>1 DEF Pointed, AtStream
    <3>6. at \in Nat /\ (at = None <=> model.listed = <<>>)
      BY <3>3 DEF None
    <3> HIDE DEF at, m
    <3>7. /\ Held(m) /\ (InStep(model) => InStep(m)) /\ m.listed = model.listed
          /\ m.pane = pane /\ m.stream = at /\ m.cScroll = model.cScroll
      <4>1. Held(model)
        BY <1>2
      <4> QED BY ONLY <3>4, <3>5, <3>6, <4>1, StreamMoves
    <3> QED BY <1>2, <1>3, <3>3, <3>7
  <2> QED BY <2>1, <2>2
<1>5. /\ tracker' \in {Nothing} \cup (Panes \X (Nat \ {0}))
      /\ Pointing(m, tracker')
  <2>1. CASE double
    BY <1>1, <2>1 DEF Pointing
  <2>2. CASE ~double
    <3>1. tracker' = <<pane, at>>
      BY <1>1, <2>2
    <3> HIDE DEF at, m
    <3> QED BY <1>4, <3>1 DEF Pointing
  <2> QED BY <2>1, <2>2
<1>6. CASE double /\ pane = "Streams" /\ Selected(m) # Nothing
  <2>1. tracker = <<"Streams", at>>
    BY <1>6 DEF DoubleClick
  <2>2. model.pane = "Streams" /\ model.stream = at
    <3> HIDE DEF at
    <3>1. tracker # Nothing /\ tracker[1] = "Streams" /\ tracker[2] = at
      BY <2>1 DEF Nothing
    <3> QED BY <3>1 DEF BrowserInv, Pointing
  <2>3. m = model
    BY <1>2, <1>6, <2>2 DEF Pointed, Models
  <2>4. Return(m)
    BY <1>1, <1>6
  <2>5. m.cScroll <= Len(m.listed)
    BY <2>3 DEF BrowserInv
  <2>6. Selected(m) # Nothing
    BY <1>6
  <2> HIDE DEF m, at, double
  <2>7. Returned(m)
    BY <1>4, <1>5, <2>1, <2>2, <2>3, <2>4, <2>5, <2>6 DEF Returned
  <2> QED BY <1>3, <1>5, <2>7
<1>7. CASE ~(double /\ pane = "Streams" /\ Selected(m) # Nothing)
  <2>1. Turn(m) /\ ui = "open"
    BY <1>1, <1>7
  <2> HIDE DEF m, at, double
  <2>2. Redrawn(m)
    BY <1>4, <1>5, <2>1, InvFacts DEF Turn, Redrawn
  <2> QED BY <1>3, <1>5, <2>2
<1> QED BY <1>6, <1>7

LEMMA WheelStep ==
  ASSUME BrowserInv, NEW pane \in Panes, NEW up \in BOOLEAN, Wheel(pane, up)
  PROVE  /\ \E m : Redrawn(m)
         /\ tracker' = Nothing /\ clicked' \in BOOLEAN
<1> DEFINE m == [model EXCEPT !.pane = pane]
           n == IF up THEN MoveUp(m) ELSE MoveDown(m)
<1>1. Key(n) /\ ClickedAfterMove(pane)
  BY DEF Wheel
<1>2. n \in {MoveUp(m), MoveDown(m)}
  OBVIOUS
<1>3. m = Framed(model, pane, model.cScroll, model.sScroll) /\ m.pane = pane
  BY InvFacts DEF Framed, Models
<1> HIDE DEF m, n
<1>4. Held(m) /\ (InStep(model) => InStep(m))
  BY <1>3, InvFacts, PaneIsFree
<1> QED BY <1>1, <1>2, <1>3, <1>4, MoveStep

(* Resizing, waiting and clicking nothing leave what was clicked selected. *)
LEMMA IdleStep ==
  ASSUME BrowserInv, ClickNothing \/ Idle \/ \E height \in Heights : Resize(height)
  PROVE  /\ Redrawn(model)
         /\ tracker' \in {tracker, Nothing} /\ clicked' = clicked
<1>1. Pointing(model, tracker) /\ Pointing(model, Nothing)
  BY DEF BrowserInv, Pointing
<1>2. CASE ClickNothing
  BY <1>1, <1>2, InvFacts DEF ClickNothing, Turn, Redrawn
<1>3. CASE Idle
  BY <1>1, <1>3, InvFacts DEF Idle, Turn, Redrawn
<1>4. ASSUME NEW height \in Heights, Resize(height)
      PROVE  Redrawn(model) /\ tracker' = tracker /\ clicked' = clicked
  BY <1>1, <1>4, InvFacts DEF Resize, Redrawn
<1> QED BY <1>2, <1>3, <1>4

(* Every turn but quitting draws or returns a model that is well formed.   *)
LEMMA EveryTurn ==
  ASSUME BrowserInv, BrowserNext
  PROVE  \/ Quit
         \/ /\ (\E m : Redrawn(m)) \/ \E m : Returned(m)
            /\ tracker' \in {Nothing} \cup (Panes \X (Nat \ {0}))
            /\ clicked' \in BOOLEAN
<1>1. /\ tracker \in {Nothing} \cup (Panes \X (Nat \ {0})) /\ clicked \in BOOLEAN
      /\ Held(model)
  BY DEF BrowserInv
<1>2. ASSUME NEW c \in Chars, Type(c)
      PROVE  (\E m : Redrawn(m)) /\ tracker' = Nothing /\ clicked' = FALSE
  BY <1>2, TypeStep
<1>3. CASE Backspace
  BY <1>3, BackspaceStep
<1>4. CASE Up \/ Down
  <2>1. PICK n \in {MoveUp(model), MoveDown(model)} :
          Key(n) /\ ClickedAfterMove(model.pane)
    BY <1>4 DEF Up, Down
  <2> QED BY <1>1, <2>1, MoveStep
<1>5. CASE Tab \/ Left \/ Right
  <2>1. PICK n \in {SwitchPane(model), FocusStreams(model), FocusCollectors(model)} :
          Key(n) /\ UNCHANGED clicked
    BY <1>5 DEF Tab, Left, Right
  <2> QED BY <2>1, FocusStep
<1>6. CASE Enter
  BY <1>6, EnterStep
<1>7. ASSUME NEW pane \in Panes, NEW k \in 1..rows, NEW quick \in BOOLEAN,
             Click(pane, k, quick)
      PROVE  /\ (\E m : Redrawn(m)) \/ \E m : Returned(m)
             /\ tracker' \in {Nothing} \cup (Panes \X (Nat \ {0}))
             /\ clicked' \in BOOLEAN
  BY <1>7, ClickStep
<1>8. ASSUME NEW pane \in Panes, NEW up \in BOOLEAN, Wheel(pane, up)
      PROVE  (\E m : Redrawn(m)) /\ tracker' = Nothing /\ clicked' \in BOOLEAN
  BY <1>8, WheelStep
<1>9. CASE ClickNothing \/ Idle \/ \E height \in Heights : Resize(height)
  BY <1>1, <1>9, IdleStep
<1> QED BY <1>2, <1>3, <1>4, <1>5, <1>6, <1>7, <1>8, <1>9 DEF BrowserNext

LEMMA SelectedFacts ==
  ASSUME NEW m, Listing(m), Selected(m) # Nothing
  PROVE  /\ Selected(m) = <<Current(m), m.stream>>
         /\ Current(m) \in DOMAIN Collectors
         /\ m.stream \in DOMAIN Collectors[Current(m)].streams
<1>1. /\ m.listed \in Seq(DOMAIN Collectors) /\ m.collector \in 0..Len(m.listed)
      /\ m.collector = None <=> m.listed = <<>>
  BY DEF Listing, Models
<1>2. m.stream \in DOMAIN Streams(m) /\ Selected(m) = <<Current(m), m.stream>>
  BY DEF Selected
<1>3. Streams(m) # <<>>
  BY <1>2
<1>4. m.listed # <<>>
  BY <1>1, <1>3, CurrentFacts
<1>5. /\ Current(m) \in DOMAIN Collectors
      /\ Streams(m) = Collectors[Current(m)].streams
  BY <1>1, <1>4, CurrentFacts
<1> QED BY <1>2, <1>5

LEMMA NewIsAModel == BrowserInit => BrowserInv
<1> DEFINE r == [filter |-> <<>>, listed |-> <<>>, collector |-> None, stream |-> None,
                 pane |-> "Collectors", cScroll |-> 0, sScroll |-> 0, filtered |-> All]
<1>1. r \in Models /\ r.cScroll = 0
  <2>1. <<>> \in Filters
    <3>1. <<>> \in [1..0 -> Chars] /\ 0 \in 0..MaxFilter
      BY LimitAssumption
    <3> QED BY <3>1 DEF Filters
  <2>2. <<>> \in Seq(DOMAIN Collectors) /\ "Collectors" \in Panes
    BY EmptySeq DEF Panes
  <2> QED BY <2>1, <2>2 DEF Models, None
<1>2. New = Rebuild(r)
  BY DEF New
<1> HIDE DEF r
<1>3. Held(New) /\ InStep(New) /\ New.cScroll = 0
  BY <1>1, <1>2, RebuildFacts
<1>4. Len(New.listed) \in Nat
  BY <1>3, LenProperties DEF Held, Listing, Models
<1> SUFFICES ASSUME BrowserInit PROVE BrowserInv
  OBVIOUS
<1>5. model = New /\ ui = "open" /\ opened = Nothing /\ rows \in Heights
      /\ tracker = Nothing /\ clicked = FALSE
  BY DEF BrowserInit
<1> HIDE DEF New
<1>6. /\ Held(model) /\ InStep(model) /\ model.cScroll <= Len(model.listed)
      /\ Pointing(model, tracker)
  BY <1>3, <1>4, <1>5 DEF Pointing
<1> QED BY <1>5, <1>6 DEF BrowserInv

LEMMA BrowserInvKept == BrowserInv /\ [BrowserNext]_browserVars => BrowserInv'
<1> SUFFICES ASSUME BrowserInv, [BrowserNext]_browserVars PROVE BrowserInv'
  OBVIOUS
<1>1. CASE UNCHANGED browserVars
  BY <1>1 DEF browserVars, BrowserInv, Held, Listing, Shown, Streams, Current, InStep,
              StreamFilter, Pointing
<1>2. CASE Quit
  BY <1>2 DEF Quit, BrowserInv, Held, Listing, Shown, Streams, Current, InStep,
              StreamFilter, Pointing
<1>3. ASSUME /\ tracker' \in {Nothing} \cup (Panes \X (Nat \ {0}))
             /\ clicked' \in BOOLEAN,
             NEW m, Redrawn(m)
      PROVE  BrowserInv'
  <2>1. /\ Held(m) /\ (~clicked' => InStep(m)) /\ Pointing(m, tracker')
        /\ model' = EnsureVisible(m, rows) /\ rows' \in Heights /\ rows \in Nat
        /\ ui' = IF Panics(model', rows') THEN "panicked" ELSE "open"
        /\ opened' = opened
    BY <1>3, InvFacts DEF Redrawn
  <2>2. /\ Held(model') /\ (InStep(m) => InStep(model'))
        /\ model'.cScroll <= Len(model'.listed)
        /\ model'.stream = m.stream /\ model'.pane = m.pane
    BY <2>1, EnsureFacts
  <2>3. InStep(model') \/ model'.filtered = All => ~Panics(model', rows')
    BY <2>2, DrawnExist
  <2>4. Pointing(model', tracker')
    BY <2>1, <2>2 DEF Pointing
  <2>5. ui' \in {"open", "panicked"} /\ (~clicked' => InStep(model') /\ ui' # "panicked")
        /\ (ui' = "panicked" => model'.filtered # All)
    BY <2>1, <2>2, <2>3
  <2>6. opened' = Nothing \/ (/\ opened'[1] \in DOMAIN Collectors
                             /\ opened'[2] \in DOMAIN Collectors[opened'[1]].streams)
    BY <2>1 DEF BrowserInv
  <2>7. Held(model)' /\ InStep(model)' = InStep(model') /\ Pointing(model, tracker)'
    BY <2>2, <2>4
  <2> QED BY <1>3, <2>1, <2>2, <2>5, <2>6, <2>7 DEF BrowserInv
<1>4. ASSUME /\ tracker' \in {Nothing} \cup (Panes \X (Nat \ {0}))
             /\ clicked' \in BOOLEAN,
             NEW m, Returned(m)
      PROVE  BrowserInv'
  <2>1. /\ Held(m) /\ (~clicked' => InStep(m)) /\ Pointing(m, tracker')
        /\ m.cScroll <= Len(m.listed) /\ Selected(m) # Nothing
        /\ model' = m /\ rows' = rows /\ rows \in Heights
        /\ ui' = "opened" /\ opened' = Selected(m)
    BY <1>4, InvFacts DEF Returned, Return
  <2>2. opened'[1] \in DOMAIN Collectors
        /\ opened'[2] \in DOMAIN Collectors[opened'[1]].streams
    BY <2>1, SelectedFacts DEF Held
  <2>3. Held(model') /\ (~clicked' => InStep(model')) /\ Pointing(model', tracker')
    BY <2>1
  <2>4. Held(model)' /\ InStep(model)' = InStep(model') /\ Pointing(model, tracker)'
    BY <2>3
  <2> QED BY <1>4, <2>1, <2>2, <2>3, <2>4 DEF BrowserInv
<1> QED BY <1>1, <1>2, <1>3, <1>4, EveryTurn

(* Through any typing, moving, clicking, scrolling and resizing every      *)
(* variable of the stream browser has its type: the selected collector is  *)
(* one of the list, the list holds collectors, the list's scroll offset    *)
(* does not leave it, and what is returned is a stream of a collector      *)
(* (browser.rs:636-681, 769-775, 797-829, 940-1001).                       *)
THEOREM BrowserTypeCorrect == BrowserSpec => []BrowserTypeOK
<1>1. BrowserInv => BrowserTypeOK
  <2> SUFFICES ASSUME BrowserInv PROVE BrowserTypeOK
    OBVIOUS
  <2>1. /\ model \in Models /\ Listing(model) /\ model.listed \in Seq(DOMAIN Collectors)
        /\ Len(model.listed) \in Nat /\ DOMAIN model.listed = 1..Len(model.listed)
    BY InvFacts
  <2>2. \A i \in DOMAIN model.listed : model.listed[i] \in DOMAIN Collectors
    BY <2>1, ElementOfSeq
  <2>3. /\ model.filter \in Filters /\ model.stream \in Nat /\ model.pane \in Panes
        /\ model.cScroll \in Nat /\ model.sScroll \in Nat
        /\ model.collector \in 0..Len(model.listed)
    BY <2>1 DEF Models, Listing
  <2>4. model.cScroll \in 0..Len(model.listed)
    BY <2>1, <2>3 DEF BrowserInv
  <2>5. tracker = Nothing \/ (tracker[1] \in Panes /\ tracker[2] \in Nat \ {0})
    BY DEF BrowserInv
  <2> QED BY <2>2, <2>3, <2>4, <2>5 DEF BrowserInv, BrowserTypeOK
<1> QED BY <1>1, NewIsAModel, BrowserInvKept, PTL DEF BrowserSpec

(* As long as no collector is clicked the two panes agree whatever is      *)
(* typed and however the selection moves: the streams shown are those the  *)
(* filter finds for the selected collector and there is one, and drawing   *)
(* never indexes a stream that is not there, for every list of collectors, *)
(* every size of the window and every length of the filter                 *)
(* (browser.rs:643-663, 683, 702-712, 1245-1259).                          *)
THEOREM InStepCorrect == BrowserSpec => []InStepUnlessClicked
<1>1. BrowserInv => InStepUnlessClicked
  <2> SUFFICES ASSUME BrowserInv, ~clicked PROVE InStepUnlessClicked
    BY DEF InStepUnlessClicked
  <2>1. /\ ui # "panicked" /\ Listing(model) /\ InStep(model)
        /\ model.listed \in Seq(DOMAIN Collectors)
        /\ model.collector \in 0..Len(model.listed)
        /\ model.collector = None <=> model.listed = <<>>
        /\ model.stream = None <=> model.listed = <<>>
    BY InvFacts DEF BrowserInv, Listing
  <2>2. /\ model.filtered = StreamFilter(model)
        /\ model.stream \in DOMAIN Streams(model) \cup {None}
    BY <2>1 DEF InStep
  <2>3. Shown(model) = <<>> <=> model.listed = <<>>
    BY <2>1, <2>2, FilterFacts
  <2>4. /\ model.listed = <<>> => Current(model) = None
        /\ Streams(model) = <<>> <=> model.listed = <<>>
    BY <2>1, CurrentFacts
  <2> QED BY <2>1, <2>2, <2>3, <2>4 DEF InStepUnlessClicked
<1> QED BY <1>1, NewIsAModel, BrowserInvKept, PTL DEF BrowserSpec

(* The browser draws a stream that is not there only when a collector was  *)
(* clicked while something is typed: a click alone is harmless, and so is  *)
(* a filter alone (browser.rs:435, 683, 1097-1106).                        *)
THEOREM PanicsOnlyClickedAndFiltered ==
  BrowserSpec => [](ui = "panicked" => clicked /\ model.filter # <<>>)
<1>1. BrowserInv => (ui = "panicked" => clicked /\ model.filter # <<>>)
  BY DEF BrowserInv, Held
<1> QED BY <1>1, NewIsAModel, BrowserInvKept, PTL DEF BrowserSpec

(* Without a filter no turn of the loop leaves a selected row outside its  *)
(* pane, for lists and windows of any length: ensure_visible brings it     *)
(* back (browser.rs:142-149, 916-935, 988-1001).                           *)
THEOREM PaneCorrect == BrowserSpec => UnfilteredStaysInPane
<1> DEFINE Kept ==
      ui' = "open" /\ rows' = rows /\ rows > 0 /\ ~clicked' /\ model'.filtered = All
        => /\ model'.collector # None => InPane(model'.collector, model'.cScroll)
           /\ model'.stream # None    => InPane(model'.stream, model'.sScroll)
<1>1. BrowserInv /\ [BrowserNext]_browserVars => [Kept]_browserVars
  <2> SUFFICES ASSUME BrowserInv, BrowserNext,
                      ui' = "open", rows > 0, ~clicked', model'.filtered = All
               PROVE  /\ model'.collector # None => InPane(model'.collector, model'.cScroll)
                      /\ model'.stream # None    => InPane(model'.stream, model'.sScroll)
    OBVIOUS
  <2>1. ~Quit /\ \A m : ~Returned(m)
    BY DEF Quit, Returned, Return
  <2>2. PICK m : Redrawn(m)
    BY <2>1, EveryTurn
  <2>3. /\ Held(m) /\ InStep(m) /\ model' = EnsureVisible(m, rows) /\ rows \in Nat
    BY <2>2, InvFacts DEF Redrawn
  <2> DEFINE s == Len(Shown(m))
  <2>4. /\ model'.collector = m.collector /\ model'.stream = m.stream
        /\ model'.filtered = m.filtered
        /\ model'.cScroll = Scrolled(m.collector, m.cScroll, Len(m.listed), rows)
        /\ model'.sScroll = Scrolled(m.stream, m.sScroll, s, rows)
    BY <2>3, EnsureFacts
  <2>5. /\ m.collector \in 0..Len(m.listed) /\ Len(m.listed) \in Nat
        /\ m.cScroll \in Nat /\ m.sScroll \in Nat /\ m.stream \in Nat
        /\ m.listed \in Seq(DOMAIN Collectors)
        /\ m.collector = None <=> m.listed = <<>>
    BY <2>3, LenProperties DEF Held, Listing, Models
  <2>6. s = Len(Streams(m)) /\ s \in Nat /\ DOMAIN Streams(m) = 1..s
    <3>1. Len(Streams(m)) \in Nat /\ DOMAIN Streams(m) = 1..Len(Streams(m))
      BY <2>5, CurrentFacts
    <3>2. Shown(m) = [i \in 1..Len(Streams(m)) |-> i]
      BY <2>4, <3>1 DEF Shown, Positions
    <3>3. Shown(m) \in Seq(Nat) /\ Len(Shown(m)) = Len(Streams(m))
      <4> DEFINE N == Len(Streams(m))
      <4>1. Shown(m) \in [1..N -> Nat] /\ N \in Nat
        BY <3>1, <3>2
      <4> HIDE DEF N
      <4> QED BY <4>1, IsASeq DEF N
    <3> QED BY <3>1, <3>3
  <2>7. ASSUME m.collector # None PROVE InPane(model'.collector, model'.cScroll)
    <3>1. m.collector \in 1..Len(m.listed) /\ m.collector \in Nat
      BY <2>5, <2>7 DEF None
    <3>2. m.collector \in (model'.cScroll + 1)..(model'.cScroll + rows)
      BY <2>3, <2>4, <2>5, <3>1, ScrolledFacts
    <3> QED BY <2>4, <3>2 DEF InPane
  <2>8. ASSUME m.stream # None PROVE InPane(model'.stream, model'.sScroll)
    <3>1. m.stream \in 1..s
      BY <2>3, <2>6, <2>8 DEF InStep
    <3> HIDE DEF s
    <3>2. m.stream \in (model'.sScroll + 1)..(model'.sScroll + rows)
      BY <2>3, <2>4, <2>5, <2>6, <3>1, ScrolledFacts
    <3> QED BY <2>4, <3>2 DEF InPane
  <2> QED BY <2>4, <2>7, <2>8
<1>2. BrowserInit /\ [][BrowserNext]_browserVars => [][Kept]_browserVars
  BY <1>1, NewIsAModel, BrowserInvKept, PTL
<1> QED BY <1>2 DEF BrowserSpec, UnfilteredStaysInPane

(* Whatever happened between two clicks, a double click opens the stream   *)
(* that the click before it had selected, and Enter, after any click, the  *)
(* stream that was clicked (browser.rs:223-231, 367-374, 431-461).         *)
THEOREM OpensCorrect == BrowserSpec => OpensSelected
<1> DEFINE Opens ==
      ui' = "opened" => /\ opened' = Selected(model)
                        /\ tracker # Nothing => tracker = <<"Streams", model.stream>>
<1>1. BrowserInv /\ [BrowserNext]_browserVars => [Opens]_browserVars
  <2> SUFFICES ASSUME BrowserInv, BrowserNext, ui' = "opened"
               PROVE  /\ opened' = Selected(model)
                      /\ tracker # Nothing => tracker = <<"Streams", model.stream>>
    OBVIOUS
  <2>1. ~Quit /\ \A m : ~Redrawn(m)
    BY DEF Quit, Redrawn
  <2>2. PICK m : Returned(m)
    BY <2>1, EveryTurn
  <2> QED BY <2>2 DEF Returned, Return
<1>2. BrowserInit /\ [][BrowserNext]_browserVars => [][Opens]_browserVars
  BY <1>1, NewIsAModel, BrowserInvKept, PTL
<1> QED BY <1>2 DEF BrowserSpec, OpensSelected
=============================================================================
