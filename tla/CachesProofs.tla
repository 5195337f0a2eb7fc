---------------------------- MODULE CachesProofs ----------------------------
(* Proofs about Caches, for any number of processes, pages, AS numbers and *)
(* starts.                                                                 *)
EXTENDS Caches, OrderLemmas, SequenceTheorems, TLAPS

Domains ==
  /\ DOMAIN pc = Procs /\ DOMAIN active = Procs /\ DOMAIN body = Procs
  /\ DOMAIN offset = Procs /\ DOMAIN query = Procs /\ DOMAIN merged = Procs
  /\ DOMAIN session = Procs /\ DOMAIN shown = Procs /\ DOMAIN seen = Procs

(* What the two files and the user do to one process.                      *)
PageStep(p) ==
  \/ OpenFresh(p) \/ ReadCache(p) \/ CannotRead(p) \/ Fetch(p) \/ FetchFails(p)
  \/ TruncatePage(p) \/ FillPage(p) \/ PageFilled(p) \/ WritePageFails(p)

NameStep(p) ==
  \/ StartRefresh(p) \/ Answer(p) \/ Merge(p) \/ TruncateNames(p)
  \/ FillNames(p) \/ WriteFails(p)

LookUp(p) == LoadSeed(p) \/ \E a \in Asns : Resolve(p, a)

LEMMA Split ==
  ASSUME Next
  PROVE  \/ \E p \in Procs : \/ StartDashboard(p) \/ Reload(p) \/ Stop(p)
                             \/ PageStep(p) \/ NameStep(p) \/ LookUp(p)
         \/ PageAges \/ NamesAge
BY DEF Next, PageStep, NameStep, LookUp

LEMMA InitDomains == Init => Domains
BY DEF Init, Domains

LEMMA NextDomains == Domains /\ [Next]_vars => Domains'
<1> SUFFICES ASSUME Domains, [Next]_vars PROVE Domains'
  OBVIOUS
<1> USE DEF Domains, pageVars, nameVars, runVars, Begin, Goto, Loaded
<1>1. ASSUME NEW p \in Procs, StartDashboard(p) \/ Reload(p) \/ Stop(p) PROVE Domains'
  BY <1>1 DEF StartDashboard, Reload, Stop
<1>2. ASSUME NEW p \in Procs, PageStep(p) PROVE Domains'
  BY <1>2 DEF PageStep, OpenFresh, ReadCache, CannotRead, Fetch,
              FetchFails, TruncatePage, FillPage, PageFilled, WritePageFails, Loaded,
              Written
<1>3. ASSUME NEW p \in Procs, NameStep(p) PROVE Domains'
  BY <1>3 DEF NameStep, StartRefresh, Answer, Merge, TruncateNames, FillNames,
              WriteFails
<1>4. ASSUME NEW p \in Procs, LookUp(p) PROVE Domains'
  BY <1>4 DEF LookUp, LoadSeed, Resolve, CacheName
<1>5. CASE PageAges \/ NamesAge
  BY <1>5 DEF PageAges, NamesAge
<1>6. CASE UNCHANGED vars
  BY <1>6 DEF vars
<1> QED
  BY <1>1, <1>2, <1>3, <1>4, <1>5, <1>6, Split
-----------------------------------------------------------------------------
(* Names on the screen.                                                    *)

LEMMA FiniteAsns ==
  ASSUME NEW S, S \subseteq Asns
  PROVE  IsFiniteSet(S) /\ Cardinality(S) \in Nat
BY AsnAssumption, FS_Subset, FS_CardinalityType

(* What was drawn is what the session holds; what it does not hold is      *)
(* curated or was looked up at the cap, which the session never goes below *)
(* again.                                                                  *)
LabelOf(p) ==
  /\ DOMAIN session[p] \subseteq Asns
  /\ \A a \in DOMAIN Curated :
       /\ a \in DOMAIN session[p] => session[p][a] = Curated[a]
       /\ a \in DOMAIN shown[p] => shown[p][a] = Curated[a]
  /\ \A a \in DOMAIN shown[p] :
       IF a \in DOMAIN session[p] THEN session[p][a] = shown[p][a]
       ELSE a \in DOMAIN Curated \/ Cardinality(DOMAIN session[p]) >= MaxNames

LabelInv == Domains /\ \A p \in Procs : LabelOf(p)

KeptBy(p) ==
  \A a \in DOMAIN shown[p] :
    \/ a \in DOMAIN shown'[p] /\ shown'[p][a] = shown[p][a]
    \/ /\ a \notin DOMAIN Curated \cup DOMAIN session[p]
       /\ Cardinality(DOMAIN session[p]) >= MaxNames

Kept == \A p \in Procs : pc'[p] # "idle" => KeptBy(p)

LEMMA OverFacts ==
  ASSUME NEW f, NEW g
  PROVE  /\ DOMAIN Over(f, g) = DOMAIN f \cup DOMAIN g
         /\ \A a \in DOMAIN f : Over(f, g)[a] = f[a]
         /\ \A a \in DOMAIN g \ DOMAIN f : Over(f, g)[a] = g[a]
BY DEF Over

(* The session grows, and a session at the cap stays there.                *)
LEMMA StaysFull ==
  ASSUME NEW D, NEW E, D \subseteq E, E \subseteq Asns, Cardinality(D) >= MaxNames
  PROVE  Cardinality(E) >= MaxNames
<1>1. IsFiniteSet(E) /\ Cardinality(D) \in Nat /\ Cardinality(E) \in Nat
  BY FiniteAsns
<1>2. Cardinality(D) <= Cardinality(E)
  BY <1>1, FS_Subset
<1> QED
  BY <1>1, <1>2, LimitAssumption

LEMMA SeedLabels ==
  ASSUME LabelInv, NEW p \in Procs, LoadSeed(p)
  PROVE  LabelOf(p)' /\ KeptBy(p)
<1> DEFINE D == DOMAIN session[p]
           C == DOMAIN Curated
<1>1. LabelOf(p) /\ shown' = shown /\ session'[p] = Over(session[p], Curated)
  BY DEF LabelInv, Domains, LoadSeed
<1>2. /\ DOMAIN session'[p] = D \cup C
      /\ \A a \in D : session'[p][a] = session[p][a]
      /\ \A a \in C \ D : session'[p][a] = Curated[a]
  <2>1. /\ DOMAIN Over(session[p], Curated) = D \cup C
        /\ \A a \in D : Over(session[p], Curated)[a] = session[p][a]
        /\ \A a \in C \ D : Over(session[p], Curated)[a] = Curated[a]
    BY OverFacts
  <2> QED
    BY <1>1, <2>1
<1>3. DOMAIN session'[p] \subseteq Asns
  BY <1>1, <1>2, SeedAssumption DEF LabelOf
<1>4. Cardinality(D) >= MaxNames => Cardinality(DOMAIN session'[p]) >= MaxNames
  BY <1>2, <1>3, StaysFull
<1>5. ASSUME NEW a \in DOMAIN shown[p]
      PROVE  IF a \in DOMAIN session'[p] THEN session'[p][a] = shown[p][a]
             ELSE a \in C \/ Cardinality(DOMAIN session'[p]) >= MaxNames
  <2>1. CASE a \in D
    BY <1>1, <1>2, <2>1 DEF LabelOf
  <2>2. CASE a \in C \ D
    BY <1>1, <1>2, <2>2 DEF LabelOf
  <2>3. CASE a \notin D \cup C
    BY <1>1, <1>2, <1>4, <2>3 DEF LabelOf
  <2> QED
    BY <2>1, <2>2, <2>3
<1>6. \A a \in C : /\ a \in DOMAIN session'[p] => session'[p][a] = Curated[a]
                   /\ a \in DOMAIN shown'[p] => shown'[p][a] = Curated[a]
  BY <1>1, <1>2 DEF LabelOf
<1> QED
  BY <1>1, <1>3, <1>5, <1>6 DEF LabelOf, KeptBy

LEMMA ResolveLabels ==
  ASSUME LabelInv, NEW p \in Procs, NEW a \in Asns, Resolve(p, a)
  PROVE  LabelOf(p)' /\ KeptBy(p)
<1> DEFINE D    == DOMAIN session[p]
           C    == DOMAIN Curated
           name == IF a \in D THEN session[p][a] ELSE Chain(p, a)
           one  == [b \in {a} |-> name]
<1>1. LabelOf(p) /\ D \subseteq Asns /\ Cardinality(D) \in Nat /\ MaxNames \in Nat
  BY FiniteAsns, LimitAssumption DEF LabelInv, LabelOf
<1>2. shown'[p] = Over(one, shown[p])
  BY DEF LabelInv, Domains, Resolve, Hit
<1>3. /\ DOMAIN shown'[p] = {a} \cup DOMAIN shown[p] /\ shown'[p][a] = name
      /\ \A b \in DOMAIN shown[p] \ {a} : shown'[p][b] = shown[p][b]
  <2>1. DOMAIN one = {a} /\ one[a] = name
    OBVIOUS
  <2> HIDE DEF one
  <2>2. /\ DOMAIN Over(one, shown[p]) = DOMAIN one \cup DOMAIN shown[p]
        /\ \A b \in DOMAIN one : Over(one, shown[p])[b] = one[b]
        /\ \A b \in DOMAIN shown[p] \ DOMAIN one : Over(one, shown[p])[b] = shown[p][b]
    BY OverFacts
  <2> QED
    BY <1>2, <2>1, <2>2
<1>4. a \in C => name = Curated[a]
  BY <1>1 DEF LabelOf, Chain
<1> HIDE DEF name
<1>5. \/ session'[p] = session[p] /\ a \in D
      \/ session'[p] = session[p] /\ a \notin D /\ Cardinality(D) >= MaxNames
      \/ session'[p] = Over(one, session[p]) /\ a \notin D
  <2>1. CASE a \in D
    BY <2>1 DEF Resolve, Hit
  <2>2. CASE a \notin D
    <3>1. CacheName(p, a, name)
      BY <2>2 DEF Resolve, Hit, name
    <3>2. session'[p] = IF Cardinality(D) < MaxNames THEN Over(one, session[p])
                        ELSE session[p]
      BY <2>2, <3>1 DEF CacheName, LabelInv, Domains
    <3> QED
      BY <1>1, <2>2, <3>2
  <2> QED
    BY <2>1, <2>2
<1>6. KeptBy(p)
  <2> SUFFICES ASSUME a \in DOMAIN shown[p], name # shown[p][a]
               PROVE  a \notin C \cup D /\ Cardinality(D) >= MaxNames
    BY <1>3 DEF KeptBy
  <2>1. a \notin C
    BY <1>1, <1>4 DEF LabelOf
  <2>2. a \notin D
    BY <1>1 DEF LabelOf, name
  <2> QED
    BY <1>1, <2>1, <2>2 DEF LabelOf
<1>7. CASE session'[p] = session[p] /\ a \in D
  <2>1. name = session[p][a]
    BY <1>7 DEF name
  <2> QED
    BY <1>1, <1>3, <1>4, <1>6, <1>7, <2>1 DEF LabelOf
<1>8. CASE session'[p] = session[p] /\ a \notin D /\ Cardinality(D) >= MaxNames
  BY <1>1, <1>3, <1>4, <1>6, <1>8 DEF LabelOf
<1>9. CASE session'[p] = Over(one, session[p]) /\ a \notin D
  <2>1. DOMAIN one = {a} /\ one[a] = name
    OBVIOUS
  <2>2. /\ DOMAIN session'[p] = {a} \cup D /\ session'[p][a] = name
        /\ \A b \in D : session'[p][b] = session[p][b]
    <3> HIDE DEF one
    <3>1. /\ DOMAIN Over(one, session[p]) = DOMAIN one \cup D
          /\ \A b \in DOMAIN one : Over(one, session[p])[b] = one[b]
          /\ \A b \in D \ DOMAIN one : Over(one, session[p])[b] = session[p][b]
      BY OverFacts
    <3> QED
      BY <1>9, <2>1, <3>1
  <2>3. DOMAIN session'[p] \subseteq Asns
    BY <1>1, <2>2
  <2>4. Cardinality(D) >= MaxNames => Cardinality(DOMAIN session'[p]) >= MaxNames
    BY <2>2, <2>3, StaysFull
  <2> HIDE DEF one
  <2>5. \A b \in C : /\ b \in DOMAIN session'[p] => session'[p][b] = Curated[b]
                     /\ b \in DOMAIN shown'[p] => shown'[p][b] = Curated[b]
    BY <1>1, <1>3, <1>4, <2>2 DEF LabelOf
  <2>6. ASSUME NEW b \in DOMAIN shown'[p]
        PROVE  IF b \in DOMAIN session'[p] THEN session'[p][b] = shown'[p][b]
               ELSE b \in C \/ Cardinality(DOMAIN session'[p]) >= MaxNames
    <3>1. CASE b = a
      BY <1>3, <2>2, <3>1
    <3>2. CASE b # a
      BY <1>1, <1>3, <2>2, <2>4, <3>2 DEF LabelOf
    <3> QED
      BY <3>1, <3>2
  <2> QED
    BY <1>6, <2>3, <2>5, <2>6 DEF LabelOf
<1> QED
  BY <1>5, <1>7, <1>8, <1>9

LEMMA InitLabels == Init => LabelInv
<1> SUFFICES ASSUME Init, NEW p \in Procs PROVE LabelOf(p)
  BY InitDomains DEF LabelInv
<1>1. DOMAIN session[p] = {} /\ DOMAIN shown[p] = {}
  BY DEF Init
<1> QED
  BY <1>1 DEF LabelOf

LEMMA NextLabels == LabelInv /\ [Next]_vars => LabelInv' /\ Kept
<1> SUFFICES ASSUME LabelInv, [Next]_vars, NEW q \in Procs
             PROVE  LabelOf(q)' /\ (pc'[q] # "idle" => KeptBy(q))
  BY NextDomains DEF LabelInv, Kept
<1>1. Domains /\ LabelOf(q)
  BY DEF LabelInv
<1>2. CASE session'[q] = session[q] /\ shown'[q] = shown[q]
  BY <1>1, <1>2 DEF LabelOf, KeptBy
<1>3. ASSUME NEW p \in Procs, Stop(p) PROVE LabelOf(q)' /\ (pc'[q] # "idle" => KeptBy(q))
  <2>1. CASE p = q
    <3>1. pc'[q] = "idle" /\ session'[q] = <<>> /\ shown'[q] = <<>>
      BY <1>1, <1>3, <2>1 DEF Stop, Goto, Domains
    <3>2. DOMAIN session'[q] = {} /\ DOMAIN shown'[q] = {}
      BY <3>1
    <3> QED
      BY <3>1, <3>2 DEF LabelOf
  <2>2. CASE p # q
    BY <1>1, <1>2, <1>3, <2>2 DEF Stop, Domains
  <2> QED
    BY <2>1, <2>2
<1>4. ASSUME NEW p \in Procs, LookUp(p)
      PROVE  LabelOf(q)' /\ (pc'[q] # "idle" => KeptBy(q))
  <2>1. CASE p = q
    BY <1>4, <2>1, SeedLabels, ResolveLabels DEF LookUp
  <2>2. CASE p # q
    <3>1. session'[q] = session[q] /\ shown'[q] = shown[q]
      <4>1. CASE LoadSeed(p)
        BY <1>1, <2>2, <4>1 DEF LoadSeed, Domains
      <4>2. ASSUME NEW a \in Asns, Resolve(p, a)
            PROVE  session'[q] = session[q] /\ shown'[q] = shown[q]
        BY <1>1, <2>2, <4>2 DEF Resolve, CacheName, Domains
      <4> QED
        BY <1>4, <4>1, <4>2 DEF LookUp
    <3> QED
      BY <1>2, <3>1
  <2> QED
    BY <2>1, <2>2
<1>5. ASSUME NEW p \in Procs,
             StartDashboard(p) \/ Reload(p) \/ PageStep(p) \/ NameStep(p)
      PROVE  UNCHANGED <<session, shown>>
  BY <1>5 DEF StartDashboard, Reload, PageStep, NameStep, OpenFresh, ReadCache, CannotRead, Fetch,
              FetchFails, TruncatePage, FillPage, PageFilled, WritePageFails, Loaded,
              Written,
              StartRefresh, Answer, Merge, TruncateNames, FillNames, WriteFails,
              runVars
<1>6. CASE PageAges \/ NamesAge \/ UNCHANGED vars
  BY <1>2, <1>6 DEF PageAges, NamesAge, vars, runVars
<1> QED
  BY <1>2, <1>3, <1>4, <1>5, <1>6, Split

(* However many processes refresh and rewrite the file of names: a         *)
(* dashboard does not change the label it draws an AS with, unless the AS  *)
(* is not curated and came when the session held as many names as it keeps *)
(* (dashboard.rs:695-700, 790-824).                                        *)
THEOREM LabelsStay == Spec => LabelsStable
<1>1. LabelInv /\ [Next]_vars => [Kept]_vars
  BY NextLabels
<1>2. LabelInv /\ [Next]_vars => LabelInv'
  BY NextLabels
<1> QED
  BY InitLabels, <1>1, <1>2, PTL DEF Spec, LabelsStable, Kept, KeptBy
-----------------------------------------------------------------------------
(* The file of names.                                                      *)

Entries == UNION {[S -> {"new", "old"}] : S \in SUBSET Asns}

NamesType ==
  /\ Domains
  /\ names \in Entries \cup {NoFile, Torn}
  /\ \A p \in Procs : query[p] \subseteq Asns /\ merged[p] \in Entries

(* Unless the file is hurt, one process at most has merged and not yet     *)
(* written; what it is about to write holds every name written before, and *)
(* while it writes the file is torn.                                       *)
OneMerges ==
  nameHurt \/
    /\ \A p, q \in Merging : p = q
    /\ \A p \in NameWriters : names = Torn
    /\ \A p \in Merging : refreshed \cup query[p] \subseteq DOMAIN merged[p]
    /\ NameWriters = {} => refreshed \subseteq DOMAIN LoadNames

NamesInv == NamesType /\ OneMerges

LEMMA EmptyEntries == <<>> \in Entries
<1>1. <<>> \in [{} -> {"new", "old"}]
  OBVIOUS
<1> QED
  BY <1>1 DEF Entries

LEMMA EntriesNotFiles == NoFile \notin Entries /\ Torn \notin Entries
BY NamesAssumption DEF Entries

LEMMA LoadNamesType ==
  ASSUME NamesType
  PROVE  LoadNames \in Entries /\ DOMAIN LoadNames \subseteq Asns
<1>1. LoadNames \in Entries
  BY EmptyEntries DEF NamesType, LoadNames
<1> QED
  BY <1>1 DEF Entries

LEMMA MergedType ==
  ASSUME NamesType, NEW p \in Procs
  PROVE  /\ Merged(p) \in Entries
         /\ DOMAIN Merged(p) = query[p] \cup DOMAIN LoadNames
<1> DEFINE S == query[p] \cup DOMAIN LoadNames
<1>1. S \in SUBSET Asns /\ LoadNames \in Entries
  BY LoadNamesType DEF NamesType
<1>2. LoadNames \in [DOMAIN LoadNames -> {"new", "old"}]
  BY <1>1 DEF Entries
<1>3. Merged(p) = [a \in S |-> IF a \in query[p] THEN "new" ELSE LoadNames[a]]
  BY DEF Merged, Over
<1>4. Merged(p) \in [S -> {"new", "old"}]
  BY <1>2, <1>3
<1> QED
  BY <1>1, <1>4 DEF Entries

LEMMA InitNames == Init => NamesInv
<1> SUFFICES ASSUME Init PROVE NamesInv
  OBVIOUS
<1>1. NamesType
  BY EmptyEntries, InitDomains DEF Init, NamesType
<1>2. OneMerges
  BY DEF Init, OneMerges, Merging, NameWriters
<1> QED
  BY <1>1, <1>2 DEF NamesInv

(* A step that leaves the names alone and has nobody enter the writing of  *)
(* them.                                                                   *)
LEMMA NamesQuiet ==
  ASSUME NamesInv, Domains', UNCHANGED nameVars, Merging' = Merging,
         NameWriters' = NameWriters
  PROVE  NamesInv'
BY DEF NamesInv, NamesType, OneMerges, LoadNames, nameVars

LEMMA StepNames ==
  ASSUME NamesInv, Domains', NEW p \in Procs, NameStep(p)
  PROVE  NamesInv'
<1> USE DEF NamesInv, NamesType, Merging, NameWriters, Domains, Goto, Begin
<1>1. CASE StartRefresh(p)
  <2>1. \A flags \in SUBSET Asns, stale \in BOOLEAN : Asked(flags, stale) \subseteq Asns
    BY LoadNamesType DEF Asked
  <2>2. NamesType'
    BY <1>1, <2>1 DEF StartRefresh
  <2>3. OneMerges'
    BY <1>1 DEF StartRefresh, OneMerges, LoadNames
  <2> QED
    BY <2>2, <2>3
<1>2. CASE Answer(p)
  <2>1. /\ UNCHANGED <<names, merged, nameHurt, refreshed>>
        /\ \A q \in Procs \ {p} : pc'[q] = pc[q] /\ query'[q] = query[q]
        /\ query'[p] \subseteq query[p]
        /\ pc[p] = "asking" /\ pc'[p] \in {"merging", "idle"}
    BY <1>2 DEF Answer
  <2>2. Merging' = Merging /\ NameWriters' = NameWriters
    BY <2>1
  <2>3. NamesType'
    BY <2>1
  <2>4. OneMerges'
    BY <2>1, <2>2 DEF OneMerges, LoadNames
  <2> QED
    BY <2>3, <2>4
<1>3. CASE Merge(p)
  <2>1. /\ Merged(p) \in Entries
        /\ DOMAIN Merged(p) = query[p] \cup DOMAIN LoadNames
    BY MergedType
  <2>2. NamesType'
    BY <1>3, <2>1 DEF Merge
  <2>3. ASSUME ~nameHurt' PROVE OneMerges'
    <3>1. Merging = {} /\ ~nameHurt
      BY <1>3, <2>3 DEF Merge
    <3>2. refreshed \subseteq DOMAIN LoadNames
      BY <3>1 DEF OneMerges
    <3>3. Merging' = {p} /\ NameWriters' = {} /\ merged'[p] = Merged(p)
      BY <1>3, <3>1 DEF Merge
    <3>4. UNCHANGED <<names, query, refreshed>>
      BY <1>3 DEF Merge
    <3> QED
      BY <2>1, <3>2, <3>3, <3>4 DEF OneMerges, LoadNames
  <2> QED
    BY <2>2, <2>3 DEF OneMerges
<1>4. CASE TruncateNames(p)
  BY <1>4 DEF TruncateNames, OneMerges
<1>5. CASE FillNames(p)
  <2>1. merged[p] \in Entries /\ <<>> \in Entries
    BY EmptyEntries
  <2>2. NamesType'
    BY <1>5, <2>1 DEF FillNames
  <2>3. ASSUME ~nameHurt' PROVE OneMerges'
    <3>1. ~nameHurt /\ pc[p] = "filling names"
      BY <1>5, <2>3 DEF FillNames
    <3>2. Merging = {p} /\ names = Torn
      BY <3>1 DEF OneMerges
    <3>3. names' = merged[p] /\ refreshed' = refreshed \cup query[p]
      BY <1>5, <3>2 DEF FillNames
    <3>4. Merging' = {} /\ NameWriters' = {}
      BY <1>5, <3>2 DEF FillNames
    <3>5. LoadNames' = merged[p]
      BY <2>1, <3>3, EntriesNotFiles DEF LoadNames
    <3>6. refreshed' \subseteq DOMAIN LoadNames'
      BY <3>1, <3>2, <3>3, <3>5 DEF OneMerges
    <3> QED
      BY <3>4, <3>6 DEF OneMerges
  <2> QED
    BY <2>2, <2>3 DEF OneMerges
<1>6. CASE WriteFails(p)
  <2>1. NamesType'
    BY <1>6, EmptyEntries DEF WriteFails
  <2>2. ASSUME ~nameHurt' PROVE OneMerges'
    <3>1. ~nameHurt /\ pc[p] = "truncating names"
      BY <1>6, <2>2 DEF WriteFails
    <3>2. p \in Merging /\ \A q \in Merging : q = p
      BY <3>1 DEF OneMerges
    <3>3. NameWriters = {} /\ Merging = {p}
      BY <3>1, <3>2
    <3>4. /\ UNCHANGED <<names, refreshed>> /\ pc'[p] = "idle"
          /\ \A q \in Procs \ {p} : pc'[q] = pc[q]
      BY <1>6 DEF WriteFails
    <3>5. Merging' = {} /\ NameWriters' = {}
      BY <3>3, <3>4
    <3> QED
      BY <3>1, <3>3, <3>4, <3>5 DEF OneMerges, LoadNames
  <2> QED
    BY <2>1, <2>2 DEF OneMerges
<1> QED
  BY <1>1, <1>2, <1>3, <1>4, <1>5, <1>6 DEF NameStep

LEMMA StopNames ==
  ASSUME NamesInv, Domains', NEW p \in Procs, Stop(p)
  PROVE  NamesInv'
<1> USE DEF NamesInv, NamesType, Merging, NameWriters, Domains, Goto
<1>1. NamesType'
  BY EmptyEntries DEF Stop
<1>2. /\ UNCHANGED <<names, refreshed>> /\ pc'[p] = "idle"
      /\ \A q \in Procs \ {p} : /\ pc'[q] = pc[q] /\ query'[q] = query[q]
                                /\ merged'[q] = merged[q]
      /\ ~nameHurt' => ~nameHurt /\ pc[p] # "filling names"
  BY DEF Stop
<1>3. ASSUME ~nameHurt' PROVE OneMerges'
  <2>1. Merging' \subseteq Merging /\ p \notin Merging'
    BY <1>2
  <2>2. NameWriters' = NameWriters
    BY <1>2, <1>3
  <2> QED
    BY <1>2, <1>3, <2>1, <2>2 DEF OneMerges, LoadNames
<1> QED
  BY <1>1, <1>3 DEF OneMerges

LEMMA AgeNames ==
  ASSUME NamesInv, Domains', NamesAge
  PROVE  NamesInv'
<1>1. names \in Entries /\ names' = [a \in DOMAIN names |-> "old"]
  BY DEF NamesAge, NamesInv, NamesType
<1>2. DOMAIN names \subseteq Asns
  BY <1>1 DEF Entries
<1>3. names' \in [DOMAIN names -> {"new", "old"}]
  BY <1>1
<1>4. names' \in Entries
  BY <1>2, <1>3 DEF Entries
<1>5. UNCHANGED <<pc, query, merged, nameHurt, refreshed>> /\ names # Torn
  BY DEF NamesAge
<1>6. LoadNames = names /\ LoadNames' = names'
  BY <1>1, <1>4, EntriesNotFiles DEF LoadNames
<1>7. DOMAIN LoadNames' = DOMAIN LoadNames
  BY <1>1, <1>6
<1> QED
  BY <1>4, <1>5, <1>7 DEF NamesInv, NamesType, OneMerges, Merging, NameWriters

LEMMA NextNames == NamesInv /\ [Next]_vars => NamesInv'
<1> SUFFICES ASSUME NamesInv, [Next]_vars PROVE NamesInv'
  OBVIOUS
<1>1. Domains /\ Domains'
  BY NextDomains DEF NamesInv, NamesType
<1> USE DEF Domains, Merging, NameWriters, Goto, Begin, Loaded
<1>2. ASSUME NEW p \in Procs, StartDashboard(p) \/ Reload(p) \/ LookUp(p)
      PROVE  UNCHANGED nameVars /\ Merging' = Merging /\ NameWriters' = NameWriters
  BY <1>1, <1>2 DEF StartDashboard, Reload, LookUp, LoadSeed, Resolve
<1>3. ASSUME NEW p \in Procs, PageStep(p)
      PROVE  UNCHANGED nameVars /\ Merging' = Merging /\ NameWriters' = NameWriters
  <2>1. CASE OpenFresh(p) \/ ReadCache(p) \/ CannotRead(p) \/ Fetch(p) \/ FetchFails(p)
    <3>1. UNCHANGED nameVars
      BY <2>1 DEF OpenFresh, ReadCache, CannotRead, Fetch, FetchFails
    <3>2. /\ \A q \in Procs \ {p} : pc'[q] = pc[q]
          /\ {pc[p], pc'[p]} \cap {"truncating names", "filling names"} = {}
      BY <1>1, <2>1
         DEF OpenFresh, ReadCache, CannotRead, Fetch, FetchFails, PageReaders
    <3> QED
      BY <3>1, <3>2
  <2>2. CASE TruncatePage(p) \/ FillPage(p) \/ PageFilled(p) \/ WritePageFails(p)
    BY <1>1, <2>2 DEF TruncatePage, FillPage, PageFilled, WritePageFails, Written
  <2> QED
    BY <1>3, <2>1, <2>2 DEF PageStep
<1>4. CASE PageAges \/ UNCHANGED vars
  BY <1>1, <1>4, NamesQuiet DEF PageAges, vars
<1> QED
  BY <1>1, <1>2, <1>3, <1>4, NamesQuiet, StepNames, StopNames, AgeNames, Split

(* However many refreshes run, fail and die at the same time: a name that  *)
(* one of them has written is only lost when two of them merge at the same *)
(* time or a write is cut short (asnames.rs:157-209).                      *)
THEOREM AnswersStay == Spec => []AnswersKept
<1>1. NamesInv => AnswersKept
  BY DEF NamesInv, OneMerges, AnswersKept
<1> QED
  BY InitNames, NextNames, <1>1, PTL DEF Spec
-----------------------------------------------------------------------------
(* The page of peerings.                                                   *)

Whole == {ParsePeeringStatus(rows) : rows \in Pages} \cup {Bundled}

(* The first rows of some page.                                            *)
IsPart(file) == \E rows \in Pages : \E n \in 0..Len(rows) : file = SubSeq(rows, 1, n)

SeenOf(p) ==
  /\ seen[p] = "none" => active[p] \in Whole
  /\ seen[p] = "partial" => \E set \in Whole : active[p] \subseteq set

PageType ==
  /\ Domains
  /\ \A p \in Procs :
       /\ pc[p] \in {"truncating page", "filling page"} => body[p] \in Pages
       /\ pc[p] = "filling page" => offset[p] \in 0..Len(body[p])
  /\ \A p \in PageReaders : page # NoFile
  /\ damage \in {"none", "partial", "mixed"}

(* Unless two writers overlap, one process at most writes the page, and    *)
(* what is in the file is what that process has written of its page; when  *)
(* nobody writes, it is a whole page, or a part of one after a failure.    *)
OneWrites ==
  damage # "mixed" =>
    /\ \A p, q \in PageWriters : p = q
    /\ \A p \in PageWriters :
         page = SubSeq(body[p], 1, offset[p]) /\ damage = "partial"
    /\ PageWriters = {} =>
         page = NoFile \/ (IF damage = "none" THEN page \in Pages ELSE IsPart(page))

PageInv == PageType /\ OneWrites /\ \A p \in Procs : SeenOf(p)

LEMMA SeqFacts ==
  ASSUME NEW rows \in Pages
  PROVE  /\ Len(rows) \in Nat /\ DOMAIN rows = 1..Len(rows)
         /\ 0 \in 0..Len(rows) /\ Len(rows) \in 0..Len(rows)
         /\ SubSeq(rows, 1, 0) = <<>> /\ SubSeq(rows, 1, Len(rows)) = rows
<1>1. rows \in Seq(ToSet(rows))
  BY PagesAssumption
<1>2. Len(rows) \in Nat /\ DOMAIN rows = 1..Len(rows)
  BY <1>1, LenProperties
<1>3. 0 \in 0..Len(rows) /\ Len(rows) \in 0..Len(rows)
  BY <1>2
<1>4. SubSeq(rows, 1, 0) = <<>>
  BY <1>1
<1>5. SubSeq(rows, 1, Len(rows)) = rows
  BY <1>1, SubSeqFull
<1> QED
  BY <1>2, <1>3, <1>4, <1>5

(* Of a part of a page no peering is read that the page does not hold.     *)
LEMMA PartParsed ==
  ASSUME NEW rows \in Pages, NEW n \in 0..Len(rows)
  PROVE  ParsePeeringStatus(SubSeq(rows, 1, n)) \subseteq ParsePeeringStatus(rows)
<1>1. rows \in Seq(ToSet(rows)) /\ Len(rows) \in Nat /\ DOMAIN rows = 1..Len(rows)
  BY PagesAssumption, SeqFacts
<1>2. SubSeq(rows, 1, n) = [i \in 1..n |-> rows[i]]
  BY <1>1
<1>3. \A i \in 1..n : i \in DOMAIN rows
  BY <1>1
<1>4. ToSet(SubSeq(rows, 1, n)) \subseteq ToSet(rows)
  BY <1>2, <1>3 DEF ToSet
<1> QED
  BY <1>4 DEF ParsePeeringStatus

LEMMA PartNotFile ==
  ASSUME NEW file, IsPart(file)
  PROVE  file # NoFile /\ file # Garbled
BY PagesAssumption DEF IsPart

LEMMA PageIsPart == \A rows \in Pages : IsPart(rows)
BY SeqFacts DEF IsPart

(* What can be read of an undisturbed file is what it is seen as.          *)
LEMMA ReadsRight ==
  ASSUME PageInv, page # NoFile, damage # "mixed"
  PROVE  /\ page # Garbled
         /\ damage = "none" => ParsePeeringStatus(page) \in Whole
         /\ \E set \in Whole : ParsePeeringStatus(page) \subseteq set
<1> USE DEF PageInv, PageType
<1>1. IsPart(page) /\ (damage = "none" => page \in Pages)
  <2>1. CASE PageWriters = {}
    BY <2>1, PageIsPart DEF OneWrites
  <2>2. ASSUME NEW p \in PageWriters PROVE IsPart(page) /\ damage = "partial"
    <3>1. p \in Procs /\ pc[p] = "filling page"
      BY DEF PageWriters
    <3>2. body[p] \in Pages /\ offset[p] \in 0..Len(body[p])
      BY <3>1
    <3>3. page = SubSeq(body[p], 1, offset[p]) /\ damage = "partial"
      BY DEF OneWrites
    <3> QED
      BY <3>2, <3>3 DEF IsPart
  <2> QED
    BY <2>1, <2>2
<1>2. PICK rows \in Pages : ParsePeeringStatus(page) \subseteq ParsePeeringStatus(rows)
  BY <1>1, PartParsed DEF IsPart
<1> QED
  BY <1>1, <1>2, PartNotFile DEF Whole

LEMMA InitPage == Init => PageInv
BY InitDomains
   DEF Init, PageInv, PageType, OneWrites, SeenOf, PageWriters, PageReaders, Whole

(* A step that leaves the file, its writers and what they have written of  *)
(* it alone.                                                               *)
LEMMA FileQuiet ==
  ASSUME OneWrites, UNCHANGED <<page, damage>>, PageWriters' = PageWriters,
         \A p \in PageWriters : body'[p] = body[p] /\ offset'[p] = offset[p]
  PROVE  OneWrites'
BY DEF OneWrites, IsPart

LEMMA PageQuiet ==
  ASSUME PageInv, Domains', UNCHANGED pageVars, PageWriters' = PageWriters,
         PageReaders' = PageReaders,
         \A p \in Procs : pc'[p] = "truncating page" => pc[p] = "truncating page"
  PROVE  PageInv'
BY FileQuiet DEF PageInv, PageType, SeenOf, pageVars, PageWriters

(* What a process does while it reads.                                     *)
LEMMA ReadPage ==
  ASSUME PageInv, Domains', NEW p \in Procs,
         OpenFresh(p) \/ ReadCache(p) \/ CannotRead(p) \/ Fetch(p) \/ FetchFails(p)
  PROVE  PageInv'
<1> USE DEF PageInv, PageType, Domains, Goto, Loaded
<1>1. /\ UNCHANGED <<page, offset, damage>>
      /\ pc[p] \notin {"truncating page", "filling page"}
      /\ \A q \in Procs \ {p} : /\ pc'[q] = pc[q] /\ body'[q] = body[q]
                                /\ active'[q] = active[q] /\ seen'[q] = seen[q]
      /\ pc'[p] # "filling page"
      /\ pc'[p] = "truncating page" => body'[p] \in Pages
      /\ pc'[p] \in {"reading fresh", "reading stale"} => page # NoFile
  <2>1. CASE OpenFresh(p)
    BY <2>1 DEF OpenFresh, pageVars, FreshCache
  <2>2. CASE ReadCache(p) \/ CannotRead(p)
    BY <2>2 DEF ReadCache, CannotRead, PageReaders
  <2>3. CASE Fetch(p)
    BY <2>3 DEF Fetch
  <2>4. CASE FetchFails(p)
    BY <2>4 DEF FetchFails
  <2> QED
    BY <2>1, <2>2, <2>3, <2>4
<1>2. PageWriters' = PageWriters
  BY <1>1 DEF PageWriters
<1>3. PageType'
  BY <1>1 DEF PageReaders
<1>4. OneWrites'
  BY <1>1, <1>2, FileQuiet DEF PageWriters
<1>5. SeenOf(p)'
  <2>1. CASE UNCHANGED <<active, seen>>
    BY <2>1 DEF SeenOf
  <2>2. CASE active'[p] = Bundled
    BY <2>2 DEF SeenOf, Whole
  <2>3. CASE ReadCache(p)
    <3>1. PICK set \in Parsed(p) :
            /\ active'[p] = set
            /\ seen'[p] = IF p \in torn THEN "mixed" ELSE damage
      BY <2>3 DEF ReadCache
    <3>2. page # NoFile
      BY <2>3 DEF ReadCache
    <3>3. CASE p \in torn \/ damage = "mixed"
      BY <3>1, <3>3 DEF SeenOf
    <3>4. CASE p \notin torn /\ damage # "mixed"
      <4>1. page # Garbled
        BY <3>2, <3>4, ReadsRight
      <4>2. active'[p] = ParsePeeringStatus(page) /\ seen'[p] = damage
        BY <3>1, <3>4, <4>1 DEF Parsed
      <4> QED
        BY <3>2, <3>4, <4>2, ReadsRight DEF SeenOf
    <3> QED
      BY <3>3, <3>4
  <2>4. CASE Fetch(p)
    <3>1. PICK rows \in Pages : active' = [active EXCEPT ![p] = ParsePeeringStatus(rows)]
      BY <2>4 DEF Fetch
    <3>2. active'[p] = ParsePeeringStatus(rows)
      BY <3>1
    <3> QED
      BY <3>2 DEF SeenOf, Whole
  <2>5. CASE CannotRead(p) \/ FetchFails(p)
    <3>1. active' = [active EXCEPT ![p] = Bundled] \/ UNCHANGED <<active, seen>>
      <4>1. CASE CannotRead(p)
        BY <4>1 DEF CannotRead
      <4>2. CASE FetchFails(p)
        BY <4>2 DEF FetchFails
      <4> QED
        BY <2>5, <4>1, <4>2
    <3> QED
      BY <2>1, <2>2, <3>1
  <2>6. CASE OpenFresh(p)
    BY <2>1, <2>6 DEF OpenFresh, pageVars
  <2> QED
    BY <2>3, <2>4, <2>5, <2>6
<1>6. \A q \in Procs : SeenOf(q)'
  BY <1>1, <1>5 DEF SeenOf
<1> QED
  BY <1>3, <1>4, <1>6

LEMMA NextRow ==
  ASSUME NEW n \in Nat, NEW k \in 0..n, k + 1 <= n
  PROVE  k + 1 \in 0..n /\ (k + 1) - 1 = k
OBVIOUS

(* A process begins, goes on, and ends to write.                           *)
LEMMA WritePage ==
  ASSUME PageInv, Domains', NEW p \in Procs,
         TruncatePage(p) \/ FillPage(p) \/ PageFilled(p) \/ WritePageFails(p)
  PROVE  PageInv'
<1> USE DEF PageInv, PageType, PageWriters, Domains, Goto
<1>1. /\ UNCHANGED <<active, seen>> /\ \A q \in Procs : SeenOf(q)'
  BY DEF TruncatePage, FillPage, PageFilled, WritePageFails, Written, SeenOf
<1>2. CASE TruncatePage(p)
  <2>1. /\ page' = <<>> /\ offset' = [offset EXCEPT ![p] = 0]
        /\ pc' = [pc EXCEPT ![p] = "filling page"] /\ UNCHANGED body
        /\ pc[p] = "truncating page"
        /\ damage' = IF PageWriters = {} THEN "partial" ELSE "mixed"
    BY <1>2 DEF TruncatePage, Truncated
  <2>2. body[p] \in Pages
    BY <2>1
  <2>3. /\ 0 \in 0..Len(body[p]) /\ SubSeq(body[p], 1, 0) = <<>>
        /\ page' # NoFile
    <3>1. 0 \in 0..Len(body[p]) /\ SubSeq(body[p], 1, 0) = <<>>
      BY <2>2, SeqFacts
    <3> QED
      BY <2>1, <2>2, <3>1, PagesAssumption
  <2>4. PageType'
    BY <2>1, <2>2, <2>3 DEF PageReaders
  <2>5. ASSUME damage' # "mixed" PROVE PageWriters' = {p} /\ damage' = "partial"
    BY <2>1, <2>5
  <2>6. OneWrites'
    BY <2>1, <2>3, <2>5 DEF OneWrites
  <2> QED
    BY <1>1, <2>4, <2>6
<1>3. CASE FillPage(p)
  <2> DEFINE k == offset[p]
             s == body[p]
  <2>1. /\ pc[p] = "filling page" /\ k + 1 <= Len(s)
        /\ page' = IF page = SubSeq(s, 1, (k + 1) - 1) THEN SubSeq(s, 1, k + 1)
                   ELSE Garbled
        /\ offset' = [offset EXCEPT ![p] = k + 1]
        /\ UNCHANGED <<pc, body, damage>>
    BY <1>3 DEF FillPage
  <2>2. s \in Pages /\ k \in 0..Len(s)
    BY <2>1
  <2>3. k + 1 \in 0..Len(s) /\ (k + 1) - 1 = k
    <3>1. Len(s) \in Nat
      BY <2>2, SeqFacts
    <3> HIDE DEF k, s
    <3> QED
      BY ONLY <2>1, <2>2, <3>1, NextRow
  <2>4. page' # NoFile
    <3> HIDE DEF k
    <3> QED
      BY <2>1, <2>2, <2>3, PagesAssumption
  <2>5. PageType'
    BY <2>1, <2>2, <2>3, <2>4 DEF PageReaders
  <2>6. ASSUME damage # "mixed"
        PROVE  PageWriters = {p} /\ page = SubSeq(s, 1, k) /\ damage = "partial"
    BY <2>1, <2>6 DEF OneWrites
  <2>7. OneWrites'
    BY <2>1, <2>3, <2>6 DEF OneWrites
  <2> QED
    BY <1>1, <2>5, <2>7
<1>4. ASSUME pc[p] = "filling page" PROVE body[p] \in Pages /\ offset[p] \in 0..Len(body[p])
  BY <1>4
<1>5. CASE PageFilled(p) \/ WritePageFails(p)
  <2>1. /\ UNCHANGED page /\ pc' = [pc EXCEPT ![p] = "running"]
        /\ pc[p] \in {"truncating page", "filling page"}
        /\ body' = [body EXCEPT ![p] = <<>>] /\ offset' = [offset EXCEPT ![p] = 0]
        /\ \/ UNCHANGED damage
           \/ /\ damage' = IF damage = "partial" THEN "none" ELSE damage
              /\ pc[p] = "filling page" /\ offset[p] = Len(body[p])
    BY <1>5 DEF PageFilled, WritePageFails, Written
  <2>2. PageType'
    BY <2>1 DEF PageReaders
  <2>3. CASE pc[p] = "truncating page"
    <3>1. PageWriters' = PageWriters /\ p \notin PageWriters /\ UNCHANGED damage
      BY <2>1, <2>3
    <3>2. OneWrites'
      BY <2>1, <3>1, FileQuiet
    <3> QED
      BY <1>1, <2>2, <3>2
  <2>4. CASE pc[p] = "filling page"
    <3>1. ASSUME damage' # "mixed"
          PROVE  /\ PageWriters' = {}
                 /\ IF damage' = "none" THEN page \in Pages ELSE IsPart(page)
      <4>1. damage # "mixed"
        BY <2>1, <3>1
      <4>2. PageWriters = {p} /\ page = SubSeq(body[p], 1, offset[p]) /\ damage = "partial"
        BY <2>4, <4>1 DEF OneWrites
      <4>3. IsPart(page)
        BY <1>4, <2>4, <4>2 DEF IsPart
      <4>4. offset[p] = Len(body[p]) => page \in Pages
        BY <1>4, <2>4, <4>2, SeqFacts
      <4>5. PageWriters' = {}
        BY <2>1, <4>2
      <4> QED
        BY <2>1, <4>2, <4>3, <4>4, <4>5
    <3>2. OneWrites'
      BY <2>1, <3>1 DEF OneWrites, IsPart
    <3> QED
      BY <1>1, <2>2, <3>2
  <2> QED
    BY <2>1, <2>3, <2>4
<1> QED
  BY <1>2, <1>3, <1>5

LEMMA StopPage ==
  ASSUME PageInv, Domains', NEW p \in Procs, Stop(p)
  PROVE  PageInv'
<1> USE DEF PageInv, PageType, PageWriters, Domains, Goto
<1>1. /\ UNCHANGED <<page, damage>> /\ pc'[p] = "idle" /\ active'[p] = Bundled
      /\ \A q \in Procs \ {p} : /\ pc'[q] = pc[q] /\ body'[q] = body[q]
                                /\ offset'[q] = offset[q] /\ active'[q] = active[q]
                                /\ seen'[q] = seen[q]
  BY DEF Stop
<1>2. PageType'
  BY <1>1 DEF PageReaders
<1>3. OneWrites'
  <2>1. CASE pc[p] # "filling page"
    <3>1. PageWriters' = PageWriters /\ p \notin PageWriters
      BY <1>1, <2>1
    <3> QED
      BY <1>1, <3>1, FileQuiet
  <2>2. CASE pc[p] = "filling page"
    <3>1. ASSUME damage # "mixed" PROVE PageWriters' = {} /\ damage = "partial" /\ IsPart(page)
      <4>1. /\ PageWriters = {p} /\ damage = "partial"
            /\ page = SubSeq(body[p], 1, offset[p])
        BY <2>2, <3>1 DEF OneWrites
      <4>2. body[p] \in Pages /\ offset[p] \in 0..Len(body[p])
        BY <2>2
      <4> QED
        BY <1>1, <4>1, <4>2 DEF IsPart
    <3> QED
      BY <1>1, <3>1 DEF OneWrites, IsPart
  <2> QED
    BY <2>1, <2>2
<1>4. \A q \in Procs : SeenOf(q)'
  BY <1>1 DEF SeenOf, Whole
<1> QED
  BY <1>2, <1>3, <1>4

LEMMA NextPage == PageInv /\ [Next]_vars => PageInv'
<1> SUFFICES ASSUME PageInv, [Next]_vars PROVE PageInv'
  OBVIOUS
<1>1. Domains /\ Domains'
  BY NextDomains DEF PageInv, PageType
<1> USE DEF Domains, PageWriters, PageReaders, Goto, Begin
<1>2. ASSUME NEW p \in Procs, StartDashboard(p) \/ Reload(p) \/ LookUp(p)
      PROVE  /\ UNCHANGED pageVars /\ PageWriters' = PageWriters
             /\ PageReaders' = PageReaders
             /\ \A q \in Procs : pc'[q] = "truncating page" => pc[q] = "truncating page"
  BY <1>1, <1>2 DEF StartDashboard, Reload, LookUp, LoadSeed, Resolve
<1>3. ASSUME NEW p \in Procs, NameStep(p)
      PROVE  /\ UNCHANGED pageVars /\ PageWriters' = PageWriters
             /\ PageReaders' = PageReaders
             /\ \A q \in Procs : pc'[q] = "truncating page" => pc[q] = "truncating page"
  <2>1. /\ UNCHANGED pageVars
        /\ pc' \in {[pc EXCEPT ![p] = to] :
                      to \in {"asking", "merging", "truncating names",
                             "filling names", "idle"}}
        /\ pc[p] \notin {"filling page", "reading fresh", "reading stale"}
    BY <1>3 DEF NameStep, StartRefresh, Answer, Merge, TruncateNames, FillNames,
                WriteFails
  <2> QED
    BY <1>1, <2>1
<1>4. CASE PageAges
  BY <1>1, <1>4 DEF PageAges, PageInv, PageType, OneWrites, SeenOf, IsPart
<1>5. CASE NamesAge \/ UNCHANGED vars
  BY <1>1, <1>5, PageQuiet DEF NamesAge, vars
<1> QED
  BY <1>1, <1>2, <1>3, <1>4, <1>5, PageQuiet, ReadPage, WritePage,
     StopPage, Split
  DEF PageStep

(* However many dashboards read, fetch and write the page at the same      *)
(* time, and wherever they fail and die: each takes one whole page or what *)
(* is bundled for the active peerings when the last writing of the cache   *)
(* ended undisturbed, and a part of one when it was cut short; and once a  *)
(* writing is alone, what others did to the file before does not matter    *)
(* (peering.rs:110-176).                                                   *)
THEOREM OnePage == Spec => []ActiveIsOnePage
<1>1. PageInv => ActiveIsOnePage
  BY DEF PageInv, SeenOf, Whole, ActiveIsOnePage
<1> QED
  BY InitPage, NextPage, <1>1, PTL DEF Spec
-----------------------------------------------------------------------------
(* Types and caps.                                                         *)
States == {"idle", "loading", "reading fresh", "fetching", "reading stale",
           "truncating page", "filling page", "running", "asking",
           "merging", "truncating names", "filling names"}

OffsetOf(p)  == offset[p] \in 0..Len(body[p])
QueryOf(p)   == query[p] \subseteq Asns /\ Cardinality(query[p]) <= Limit
SessionOf(p) ==
  /\ DOMAIN session[p] \subseteq Asns
  /\ Cardinality(DOMAIN session[p] \ DOMAIN Curated) <= MaxNames

Control ==
  /\ pc \in [Procs -> States] /\ starts \in 0..MaxStarts
  /\ {fresh, nameHurt} \subseteq BOOLEAN
  /\ damage \in {"none", "partial", "mixed"}

(* A page is only written by one who has fetched it, and nothing is left   *)
(* of it when he stops writing.                                            *)
BodyOf(p) ==
  /\ Len(body[p]) \in Nat
  /\ pc[p] \notin {"truncating page", "filling page"} => body[p] = <<>>
  /\ pc[p] # "filling page" => offset[p] = 0

IInv ==
  /\ NamesInv /\ Control
  /\ \A p \in Procs : OffsetOf(p) /\ QueryOf(p) /\ SessionOf(p) /\ BodyOf(p)

LEMMA PageLength == \A rows \in Pages : Len(rows) \in Nat
BY PagesAssumption, LenProperties

(* The first ASNs up to the limit are no more than the limit.              *)
LEMMA AskedFacts ==
  ASSUME NEW flags \in SUBSET Asns, NEW stale \in BOOLEAN,
         DOMAIN LoadNames \subseteq Asns
  PROVE  /\ Asked(flags, stale) \subseteq Asns
         /\ Cardinality(Asked(flags, stale)) <= Limit
<1> DEFINE old    == {a \in DOMAIN LoadNames : LoadNames[a] = "old"}
           all    == IF stale THEN flags \cup old ELSE flags
           before == [a \in all |-> {b \in all : b < a}]
<1>1. all \subseteq Asns /\ all \subseteq Nat /\ IsFiniteSet(all)
  <2>1. all \subseteq Asns
    OBVIOUS
  <2> HIDE DEF all
  <2> QED BY <2>1, AsnAssumption, FiniteAsns
<1>2. Asked(flags, stale) = {a \in all : Cardinality({b \in all : b <= a}) <= Limit}
  BY DEF Asked
<1> HIDE DEF all
<1>3. Orders(before, all)
  <2>1. \A a \in all : a \in Nat
    BY <1>1
  <2>2. \A a \in all : before[a] = {b \in all : b < a}
    OBVIOUS
  <2>3. before \in [all -> SUBSET all]
    OBVIOUS
  <2> HIDE DEF before
  <2>4. \A x \in all : x \notin before[x]
    BY <2>1, <2>2
  <2>5. \A x \in all : \A y \in before[x] : before[y] \subseteq before[x]
    BY <2>1, <2>2
  <2>6. \A x, y \in all : x # y => x \in before[y] \/ y \in before[x]
    BY <2>1, <2>2
  <2> QED BY <2>3, <2>4, <2>5, <2>6 DEF Orders
<1>4. ASSUME NEW a \in all
      PROVE  Cardinality({b \in all : b <= a}) = Cardinality(before[a]) + 1
  <2>1. {b \in all : b <= a} = {b \in all : b < a} \cup {a}
    <3>1. a \in Nat /\ \A b \in all : b \in Nat
      BY <1>1
    <3>2. \A b \in all : b <= a <=> (b < a \/ b = a)
      BY <3>1
    <3> QED BY <3>2
  <2>2. IsFiniteSet({b \in all : b < a}) /\ a \notin {b \in all : b < a}
    BY <1>1, FS_Subset
  <2>3. Cardinality({b \in all : b < a} \cup {a}) = Cardinality({b \in all : b < a}) + 1
    <3> DEFINE S == {b \in all : b < a}
    <3> HIDE DEF S
    <3>1. IsFiniteSet(S) /\ a \notin S => Cardinality(S \cup {a}) = Cardinality(S) + 1
      BY FS_AddElement
    <3> QED BY <2>2, <3>1 DEF S
  <2> QED BY <2>1, <2>3
<1>5. Limit \in Nat
  BY LimitAssumption
<1>6. \A a \in all : Cardinality(before[a]) \in Nat
  BY <1>1, FS_Subset, FS_CardinalityType
<1>7. Asked(flags, stale) = {a \in all : Cardinality(before[a]) < Limit}
  <2> HIDE DEF before
  <2>1. \A n \in Nat : n + 1 <= Limit <=> n < Limit
    BY <1>5
  <2> QED BY <1>2, <1>4, <1>6, <2>1
<1> HIDE DEF before
<1>8. Cardinality({a \in all : Cardinality(before[a]) < Limit})
        = IF Cardinality(all) <= Limit THEN Cardinality(all) ELSE Limit
  BY <1>1, <1>3, <1>5, FirstRanked
<1>9. Cardinality(all) \in Nat
  BY <1>1, FS_CardinalityType
<1>10. Asked(flags, stale) \subseteq Asns
  BY <1>1, <1>7
<1>11. \A n \in Nat : (IF n <= Limit THEN n ELSE Limit) <= Limit
  BY <1>5
<1> QED BY <1>7, <1>8, <1>9, <1>10, <1>11

(* The session's cap: a name comes on top only below it.                   *)
LEMMA SessionFacts ==
  ASSUME IInv, NEW p \in Procs, LookUp(p)
  PROVE  SessionOf(p)'
<1>1. /\ SessionOf(p) /\ DOMAIN session = Procs /\ DOMAIN shown = Procs /\ DOMAIN seen = Procs
      /\ DOMAIN Curated \subseteq Asns /\ MaxNames \in Nat
  BY LimitAssumption, SeedAssumption DEF IInv, NamesInv, NamesType, Domains
<1> DEFINE D == DOMAIN session[p]
           C == DOMAIN Curated
<1>2. \A f, g : DOMAIN Over(f, g) = DOMAIN f \cup DOMAIN g
  BY DEF Over
<1>3. CASE LoadSeed(p)
  <2>1. session'[p] = Over(session[p], Curated)
    BY <1>1, <1>3 DEF LoadSeed
  <2>2. DOMAIN session'[p] = D \cup C
    BY <1>2, <2>1
  <2>3. (D \cup C) \ C = D \ C
    OBVIOUS
  <2> QED BY <1>1, <2>2, <2>3 DEF SessionOf
<1>4. ASSUME NEW a \in Asns, Resolve(p, a) PROVE SessionOf(p)'
  <2> DEFINE one == [b \in {a} |-> IF Hit(p, a) THEN session[p][a] ELSE Chain(p, a)]
  <2>1. \/ session'[p] = session[p]
        \/ a \notin D /\ Cardinality(D) < MaxNames /\ session'[p] = Over(one, session[p])
    BY <1>1, <1>4 DEF Resolve, CacheName, Hit
  <2>2. CASE session'[p] = session[p]
    BY <1>1, <2>2 DEF SessionOf
  <2>3. CASE /\ a \notin D /\ Cardinality(D) < MaxNames
             /\ session'[p] = Over(one, session[p])
    <3>1. DOMAIN session'[p] = D \cup {a}
      <4>1. DOMAIN one = {a}
        OBVIOUS
      <4> HIDE DEF one
      <4>2. DOMAIN Over(one, session[p]) = DOMAIN one \cup D
        BY OverFacts
      <4> QED BY <2>3, <4>1, <4>2
    <3>2. D \subseteq Asns /\ IsFiniteSet(D) /\ Cardinality(D) \in Nat
      BY <1>1, FiniteAsns DEF SessionOf
    <3> HIDE DEF D, C
    <3>3. Cardinality(D \cup {a}) = Cardinality(D) + 1 /\ IsFiniteSet(D \cup {a})
      BY <2>3, <3>2, FS_AddElement
    <3>4. Cardinality((D \cup {a}) \ C) <= Cardinality(D \cup {a})
      BY <3>3, FS_Subset
    <3>5. Cardinality((D \cup {a}) \ C) \in Nat
      BY <3>3, FS_Subset, FS_CardinalityType
    <3>6. Cardinality((D \cup {a}) \ C) <= MaxNames
      BY <1>1, <2>3, <3>2, <3>3, <3>4, <3>5
    <3> QED BY <3>1, <3>2, <3>6 DEF SessionOf, D, C
  <2> QED BY <2>1, <2>2, <2>3
<1> QED BY <1>3, <1>4 DEF LookUp

LEMMA InitTypes == Init => IInv
<1> SUFFICES ASSUME Init PROVE IInv
  OBVIOUS
<1>1. Control
  <2>1. MaxStarts \in Nat
    BY LimitAssumption
  <2>2. starts \in 0..MaxStarts
    BY <2>1 DEF Init
  <2>3. {fresh, nameHurt} \subseteq BOOLEAN /\ damage \in {"none", "partial", "mixed"}
    BY DEF Init
  <2>4. pc \in [Procs -> States]
    BY DEF Init, States
  <2> QED BY <2>2, <2>3, <2>4 DEF Control
<1>2. ASSUME NEW p \in Procs PROVE OffsetOf(p) /\ BodyOf(p)
  BY <1>2 DEF Init, OffsetOf, BodyOf
<1>3. ASSUME NEW p \in Procs PROVE QueryOf(p) /\ SessionOf(p)
  <2>1. query[p] = {} /\ DOMAIN session[p] = {}
    BY DEF Init
  <2> QED BY <2>1, LimitAssumption, FS_EmptySet DEF QueryOf, SessionOf
<1> QED BY <1>1, <1>2, <1>3, InitNames DEF IInv

LEMMA NextControl == IInv /\ [Next]_vars => Control'
<1> SUFFICES ASSUME IInv, [Next]_vars PROVE Control'
  OBVIOUS
<1>1. Control /\ MaxStarts \in Nat
  BY LimitAssumption DEF IInv
<1>0. /\ starts \in 0..MaxStarts
      /\ starts < MaxStarts => starts + 1 \in 0..MaxStarts
  <2>1. MaxStarts \in Nat /\ starts \in 0..MaxStarts
    BY <1>1 DEF Control
  <2> QED BY <2>1
<1> USE DEF Control, States, Begin, Goto, Loaded, pageVars, nameVars, runVars
<1>2. ASSUME NEW p \in Procs, StartDashboard(p) \/ Reload(p) \/ LookUp(p) PROVE Control'
  <2>1. UNCHANGED <<fresh, damage, nameHurt>>
    BY <1>2 DEF StartDashboard, Reload, LookUp, LoadSeed, Resolve
  <2>2. \/ UNCHANGED <<pc, starts>>
        \/ /\ starts < MaxStarts /\ starts' = starts + 1
           /\ pc' = [pc EXCEPT ![p] = "loading"]
    BY <1>2 DEF StartDashboard, Reload, LookUp, LoadSeed, Resolve
  <2>3. starts' \in 0..MaxStarts
    BY <1>0, <2>2
  <2> QED BY <1>1, <2>1, <2>2, <2>3
<1>3. ASSUME NEW p \in Procs, PageStep(p) PROVE Control'
  BY <1>1, <1>3 DEF PageStep, OpenFresh, ReadCache, CannotRead, Fetch,
              FetchFails, TruncatePage, FillPage, PageFilled, WritePageFails, Loaded,
              Written
<1>4. ASSUME NEW p \in Procs, NameStep(p) PROVE Control'
  <2>1. UNCHANGED <<fresh, damage>> /\ nameHurt' \in BOOLEAN
    BY <1>1, <1>4 DEF NameStep, StartRefresh, Answer, Merge, TruncateNames, FillNames,
                      WriteFails
  <2>2. \/ UNCHANGED starts
        \/ starts < MaxStarts /\ starts' = starts + 1
    BY <1>4 DEF NameStep, StartRefresh, Answer, Merge, TruncateNames, FillNames,
                WriteFails
  <2>3. pc' \in {[pc EXCEPT ![p] = to] :
                    to \in {"asking", "merging", "truncating names",
                           "filling names", "idle"}}
    BY <1>4 DEF NameStep, StartRefresh, Answer, Merge, TruncateNames, FillNames,
                WriteFails
  <2>4. starts' \in 0..MaxStarts
    BY <1>0, <2>2
  <2>5. pc' \in [Procs -> States]
    BY <1>1, <2>3
  <2> QED BY <2>1, <2>4, <2>5, <1>1
<1>5. ASSUME NEW p \in Procs, Stop(p) PROVE Control'
  BY <1>1, <1>5 DEF Stop
<1>6. CASE PageAges \/ NamesAge \/ UNCHANGED vars
  BY <1>1, <1>6 DEF PageAges, NamesAge, vars
<1> QED BY <1>2, <1>3, <1>4, <1>5, <1>6, Split

(* What does not write the page leaves what is written of it alone.        *)
LEMMA NextBodies == IInv /\ [Next]_vars => \A p \in Procs : OffsetOf(p)' /\ BodyOf(p)'
<1> SUFFICES ASSUME IInv, [Next]_vars, NEW q \in Procs
             PROVE  OffsetOf(q)' /\ BodyOf(q)'
  OBVIOUS
<1>1. Domains /\ OffsetOf(q) /\ BodyOf(q)
  BY DEF IInv, NamesInv, NamesType
<1>2. ASSUME body'[q] = <<>>, offset'[q] = 0 PROVE OffsetOf(q)' /\ BodyOf(q)'
  <2>1. Len(<<>>) = 0
    OBVIOUS
  <2>2. Len(body'[q]) = 0
    BY <1>2, <2>1
  <2> QED BY <1>2, <2>2 DEF OffsetOf, BodyOf
<1>3. ASSUME body'[q] = body[q], offset'[q] = offset[q],
             pc'[q] \in {"truncating page", "filling page"} => pc'[q] = pc[q],
             pc[q] \in {"truncating page", "filling page"} => pc'[q] = pc[q]
      PROVE  OffsetOf(q)' /\ BodyOf(q)'
  BY <1>1, <1>3 DEF OffsetOf, BodyOf
<1> USE DEF Domains, Begin, Goto, Loaded, pageVars, nameVars, runVars
<1>4. ASSUME NEW p \in Procs, StartDashboard(p) \/ Reload(p) \/ LookUp(p)
      PROVE  OffsetOf(q)' /\ BodyOf(q)'
  BY <1>1, <1>3, <1>4 DEF StartDashboard, Reload, LookUp, LoadSeed, Resolve
<1>5. ASSUME NEW p \in Procs, PageStep(p) PROVE OffsetOf(q)' /\ BodyOf(q)'
  <2>1. CASE OpenFresh(p) \/ ReadCache(p) \/ CannotRead(p) \/ FetchFails(p)
    <3>1. /\ UNCHANGED <<body, offset>>
          /\ \A r \in Procs \ {p} : pc'[r] = pc[r]
          /\ {pc[p], pc'[p]} \cap {"truncating page", "filling page"} = {}
      BY <1>1, <2>1 DEF OpenFresh, ReadCache, CannotRead, FetchFails, PageReaders
    <3> QED BY <1>3, <3>1
  <2>2. CASE Fetch(p)
    <3>1. PICK rows \in Pages : body' = [body EXCEPT ![p] = rows]
      BY <2>2 DEF Fetch
    <3>2. UNCHANGED offset /\ pc' = [pc EXCEPT ![p] = "truncating page"]
          /\ pc[p] = "fetching"
      BY <2>2 DEF Fetch
    <3>3. CASE p # q
      BY <1>1, <1>3, <3>1, <3>2, <3>3
    <3>4. CASE p = q
      <4>1. body'[q] = rows /\ offset'[q] = 0 /\ pc'[q] = "truncating page"
        BY <1>1, <3>1, <3>2, <3>4 DEF BodyOf
      <4>2. Len(body'[q]) \in Nat
        BY <4>1, PageLength
      <4>3. \A n \in Nat : 0 \in 0..n
        OBVIOUS
      <4> QED BY <4>1, <4>2, <4>3 DEF OffsetOf, BodyOf
    <3> QED BY <3>3, <3>4
  <2>3. CASE TruncatePage(p)
    <3>1. /\ pc[p] = "truncating page" /\ UNCHANGED body
          /\ pc' = [pc EXCEPT ![p] = "filling page"]
          /\ offset' = [offset EXCEPT ![p] = 0]
      BY <2>3 DEF TruncatePage
    <3>2. CASE p # q
      BY <1>1, <1>3, <3>1, <3>2
    <3>3. CASE p = q
      <4>1. offset'[q] = 0 /\ body'[q] = body[q] /\ pc'[q] = "filling page"
        BY <1>1, <3>1, <3>3
      <4>2. Len(body'[q]) \in Nat
        BY <1>1, <4>1 DEF BodyOf
      <4>3. \A n \in Nat : 0 \in 0..n
        OBVIOUS
      <4> QED BY <4>1, <4>2, <4>3 DEF OffsetOf, BodyOf
    <3> QED BY <3>2, <3>3
  <2>4. CASE FillPage(p)
    <3>1. /\ UNCHANGED <<pc, body>> /\ pc[p] = "filling page"
          /\ offset[p] + 1 <= Len(body[p])
          /\ offset' = [offset EXCEPT ![p] = offset[p] + 1]
      BY <2>4 DEF FillPage
    <3>2. CASE p # q
      BY <1>1, <1>3, <3>1, <3>2
    <3>3. CASE p = q
      <4>1. PICK n \in Nat : n = Len(body[q])
        BY <1>1 DEF BodyOf
      <4>2. offset'[q] = offset[q] + 1 /\ offset[q] + 1 <= n /\ offset[q] \in 0..n
        BY <1>1, <3>1, <3>3, <4>1 DEF OffsetOf
      <4>3. body'[q] = body[q] /\ pc'[q] = "filling page" /\ offset'[q] \in 0..n
        <5>1. \A k \in 0..n : k + 1 <= n => k + 1 \in 0..n
          OBVIOUS
        <5> QED BY <3>1, <3>3, <4>2, <5>1
      <4> QED BY <1>1, <4>1, <4>3 DEF OffsetOf, BodyOf
    <3> QED BY <3>2, <3>3
  <2>5. CASE PageFilled(p) \/ WritePageFails(p)
    <3>1. /\ pc' = [pc EXCEPT ![p] = "running"] /\ offset' = [offset EXCEPT ![p] = 0]
          /\ body' = [body EXCEPT ![p] = <<>>]
      BY <2>5 DEF PageFilled, WritePageFails, Written
    <3> QED BY <1>1, <1>2, <1>3, <3>1
  <2> QED BY <1>5, <2>1, <2>2, <2>3, <2>4, <2>5 DEF PageStep
<1>6. ASSUME NEW p \in Procs, NameStep(p) PROVE OffsetOf(q)' /\ BodyOf(q)'
  <2>1. /\ UNCHANGED pageVars
        /\ pc' \in {[pc EXCEPT ![p] = to] :
                      to \in {"asking", "merging", "truncating names",
                             "filling names", "idle"}}
        /\ pc[p] \notin {"truncating page", "filling page"}
    BY <1>6 DEF NameStep, StartRefresh, Answer, Merge, TruncateNames, FillNames,
                WriteFails
  <2> QED BY <1>1, <1>3, <2>1
<1>7. ASSUME NEW p \in Procs, Stop(p) PROVE OffsetOf(q)' /\ BodyOf(q)'
  BY <1>1, <1>2, <1>3, <1>7 DEF Stop
<1>8. CASE PageAges \/ NamesAge \/ UNCHANGED vars
  BY <1>1, <1>3, <1>8 DEF PageAges, NamesAge, vars
<1> QED BY <1>4, <1>5, <1>6, <1>7, <1>8, Split

LEMMA NextQueries == IInv /\ [Next]_vars => \A p \in Procs : QueryOf(p)'
<1> SUFFICES ASSUME IInv, [Next]_vars, NEW q \in Procs PROVE QueryOf(q)'
  OBVIOUS
<1>1. Domains /\ QueryOf(q) /\ NamesType
  BY DEF IInv, NamesInv, NamesType
<1>2. DOMAIN LoadNames \subseteq Asns
  BY <1>1, LoadNamesType
<1>3. Limit \in Nat
  BY LimitAssumption
<1>4. CASE UNCHANGED query
  BY <1>1, <1>4 DEF QueryOf
<1>5. ASSUME NEW p \in Procs, NameStep(p) PROVE QueryOf(q)'
  <2> USE DEF Domains
  <2>1. CASE StartRefresh(p)
    <3>1. PICK flags \in SUBSET Asns, stale \in BOOLEAN :
            query' = [query EXCEPT ![p] = Asked(flags, stale)]
      BY <2>1 DEF StartRefresh
    <3>2. query'[q] = query[q] \/ query'[q] = Asked(flags, stale)
      BY <1>1, <3>1
    <3> QED BY <1>1, <1>2, <3>2, AskedFacts DEF QueryOf
  <2>2. ASSUME query'[q] \subseteq query[q] PROVE QueryOf(q)'
    <3>1. IsFiniteSet(query[q]) /\ Cardinality(query[q]) \in Nat
      BY <1>1, FiniteAsns DEF QueryOf
    <3>2. Cardinality(query'[q]) <= Cardinality(query[q]) /\ Cardinality(query'[q]) \in Nat
      BY <2>2, <3>1, FS_Subset, FS_CardinalityType
    <3>3. \A m, n \in Nat : m <= n /\ n <= Limit => m <= Limit
      BY <1>3
    <3>4. Cardinality(query'[q]) <= Limit
      BY <1>1, <3>1, <3>2, <3>3 DEF QueryOf
    <3> QED BY <1>1, <2>2, <3>4 DEF QueryOf
  <2>3. CASE Answer(p)
    BY <1>1, <2>2, <2>3 DEF Answer
  <2>4. CASE Merge(p) \/ TruncateNames(p)
    BY <1>4, <2>4 DEF Merge, TruncateNames
  <2>5. CASE FillNames(p) \/ WriteFails(p)
    BY <1>1, <2>2, <2>5 DEF FillNames, WriteFails
  <2> QED BY <1>5, <2>1, <2>3, <2>4, <2>5 DEF NameStep
<1>6. ASSUME NEW p \in Procs, Stop(p) PROVE QueryOf(q)'
  <2>1. query'[q] = query[q] \/ query'[q] = {}
    BY <1>1, <1>6 DEF Stop, Domains
  <2> QED BY <1>1, <1>3, <2>1, FS_EmptySet DEF QueryOf
<1>7. ASSUME NEW p \in Procs, StartDashboard(p) \/ Reload(p) \/ LookUp(p) \/ PageStep(p)
      PROVE  UNCHANGED query
  BY <1>7 DEF StartDashboard, Reload, LookUp, LoadSeed, Resolve, PageStep, OpenFresh, ReadCache, CannotRead, Fetch,
              FetchFails, TruncatePage, FillPage, PageFilled, WritePageFails, Loaded,
              Written, nameVars
<1>8. CASE PageAges \/ NamesAge \/ UNCHANGED vars
  BY <1>4, <1>8 DEF PageAges, NamesAge, vars, nameVars
<1> QED BY <1>4, <1>5, <1>6, <1>7, <1>8, Split

LEMMA NextSessions == IInv /\ [Next]_vars => \A p \in Procs : SessionOf(p)'
<1> SUFFICES ASSUME IInv, [Next]_vars, NEW q \in Procs PROVE SessionOf(q)'
  OBVIOUS
<1>1. Domains /\ SessionOf(q)
  BY DEF IInv, NamesInv, NamesType
<1>2. CASE session'[q] = session[q]
  BY <1>1, <1>2 DEF SessionOf
<1>3. ASSUME NEW p \in Procs, LookUp(p) PROVE SessionOf(q)'
  <2>1. CASE p = q
    BY <1>3, <2>1, SessionFacts
  <2>2. CASE p # q
    BY <1>1, <1>2, <1>3, <2>2 DEF LookUp, LoadSeed, Resolve, CacheName, Domains
  <2> QED BY <2>1, <2>2
<1>4. ASSUME NEW p \in Procs, Stop(p) PROVE SessionOf(q)'
  <2>1. session'[q] = session[q] \/ session'[q] = <<>>
    BY <1>1, <1>4 DEF Stop, Domains
  <2>2. CASE session'[q] = <<>>
    <3>1. DOMAIN session'[q] = {}
      BY <2>2
    <3> QED BY <3>1, LimitAssumption, FS_EmptySet DEF SessionOf
  <2> QED BY <1>2, <2>1, <2>2
<1>5. ASSUME NEW p \in Procs, StartDashboard(p) \/ Reload(p) \/ PageStep(p) \/ NameStep(p)
      PROVE  UNCHANGED session
  BY <1>5 DEF StartDashboard, Reload, PageStep, OpenFresh, ReadCache, CannotRead, Fetch,
              FetchFails, TruncatePage, FillPage, PageFilled, WritePageFails, Loaded,
              Written, NameStep, StartRefresh,
              Answer, Merge, TruncateNames, FillNames, WriteFails, runVars
<1>6. CASE PageAges \/ NamesAge \/ UNCHANGED vars
  BY <1>2, <1>6 DEF PageAges, NamesAge, vars, runVars
<1> QED BY <1>2, <1>3, <1>4, <1>5, <1>6, Split

LEMMA NextTypes == IInv /\ [Next]_vars => IInv'
<1>1. IInv /\ [Next]_vars => NamesInv'
  BY NextNames DEF IInv
<1> QED BY <1>1, NextControl, NextBodies, NextQueries, NextSessions DEF IInv

(* No process asks for more than the limit of ASNs, keeps more names than  *)
(* the cap besides those it is born with, or writes past the end of the    *)
(* page it fetched, however it is interrupted (asnames.rs:173-180,         *)
(* dashboard.rs:168-177, peering.rs:158-176).                              *)
THEOREM TypeCorrect == Spec => []TypeOK
<1>1. IInv => TypeOK
  BY DEF IInv, Control, States, OffsetOf, QueryOf, SessionOf, TypeOK
<1> QED
  BY InitTypes, NextTypes, <1>1, PTL DEF Spec
=============================================================================
