------------------------------- MODULE Caches -------------------------------
(***************************************************************************)
(* The cache directory shared by the processes of a user: the page of      *)
(* active peerings, which every dashboard reads, fetches and writes        *)
(* (src/src/peering.rs), and the AS names, which refresh-asnames merges    *)
(* into a file (src/src/asnames.rs) and dashboards look up                 *)
(* (as_name_resolve in src/src/dashboard.rs).  Both files are written in   *)
(* place: truncated, then filled.                                          *)
(*                                                                         *)
(* The page is a sequence of rows, written one by one: a row cut at its    *)
(* end parses as no row or, cut in its last number, as the whole row.      *)
(* Where the bytes of two writers meet, or a reader sees the file truncated*)
(* under it, a row may begin or go on in the middle of another: then any   *)
(* peerings may come out, also such as no page lists.  The file of names   *)
(* is JSON and reads as nothing unless it is complete.                     *)
(***************************************************************************)
EXTENDS Integers, Sequences, FiniteSets, FiniteSetsExt, SequencesExt, TLC

CONSTANTS
  Procs,     \* the processes
  Pages,     \* the pages the server may answer with: sequences of rows
  Asns,      \* the AS numbers of interest
  Curated, CymruSeed, \* the names compiled in: ASN to name
  BundledRows, \* routeviews_peers.tsv: a sequence of rows with names
  Whois,     \* the names Team Cymru answers with
  Limit,     \* --limit
  MaxNames,  \* MAX_CACHED_AS_NAMES
  MaxStarts, \* bound on the loads of peerings and the refreshes started
  Strays,    \* peerings of no page that rows run into each other may parse as
  Garbled,   \* a page that the bytes of two writers are in
  NoFile,    \* there is no file
  Torn       \* a file of names that is not complete

ASSUME AsnAssumption == IsFiniteSet(Asns) /\ Asns \subseteq Nat
ASSUME LimitAssumption == {Limit, MaxNames, MaxStarts} \subseteq Nat
ASSUME PagesAssumption ==
  /\ Garbled # NoFile
  /\ \A rows \in Pages :
       /\ rows \in Seq(ToSet(rows))
       /\ \A n \in 0..Len(rows) : SubSeq(rows, 1, n) \notin {NoFile, Garbled}
ASSUME NamesAssumption ==
  \A S \in SUBSET Asns : {NoFile, Torn} \cap [S -> {"new", "old"}] = {}
ASSUME SeedAssumption  ==
  /\ DOMAIN Curated \subseteq Asns /\ DOMAIN CymruSeed \subseteq Asns
  /\ \A i \in DOMAIN BundledRows : BundledRows[i].peering[2] \in Asns

VARIABLES
  pc,       \* per process: what it does next
  starts,   \* how many loads and refreshes have been started
  page,     \* the file of peerings: its rows, Garbled or NoFile
  fresh,    \* it was modified in the last 15 minutes
  body,     \* per process: the page it fetched
  offset,   \* per process: the rows of it written
  active,   \* per process: the active set it loaded
  torn,     \* the processes whose page was truncated while they read it
  names,    \* the file of names: ASN to "new" or "old" entry, NoFile or Torn
  query,    \* per process: the ASNs it asks for, then those answered
  merged,   \* per process: the entries it is about to write
  session,  \* per process: the names resolved in this run, "" for none
  fallback, \* per process: routeviews_asn_fallback, built once
  damage,   \* history: the last writing of the page was complete and
            \* undisturbed ("none"), is not complete ("partial") or was
            \* begun while another went on ("mixed")
  seen,     \* history, per process: the damage of what active comes from
  shown,    \* history, per process: the label each AS was last drawn with
  nameHurt, \* history: a write of the names was disturbed or cut short
  refreshed \* history: the ASNs answered to refreshes that have ended

pageVars == <<page, fresh, body, offset, active, torn, damage, seen>>
nameVars == <<names, query, merged, nameHurt, refreshed>>
runVars  == <<session, fallback, shown>>
vars     == <<pc, starts, pageVars, nameVars, runVars>>

PageWriters == {p \in Procs : pc[p] = "filling page"}
PageReaders == {p \in Procs : pc[p] \in {"reading fresh", "reading stale"}}
NameWriters == {p \in Procs : pc[p] = "filling names"}
Merging     == {p \in Procs : pc[p] \in {"truncating names", "filling names"}}

(* The entries of f inserted into a map g.                                 *)
Over(f, g) == [a \in DOMAIN f \cup DOMAIN g |-> IF a \in DOMAIN f THEN f[a] ELSE g[a]]

Begin(p, from, to) ==
  /\ starts < MaxStarts /\ starts' = starts + 1
  /\ pc[p] = from /\ pc' = [pc EXCEPT ![p] = to]

Goto(p, to) == UNCHANGED starts /\ pc' = [pc EXCEPT ![p] = to]
-----------------------------------------------------------------------------
(* The peers compiled in.  A peering is a collector and an ASN.            *)

(* routeviews_peers: of the rows of a peering, the first with the most     *)
(* prefixes.                                                               *)
Peers ==
  [k \in {BundledRows[i].peering : i \in DOMAIN BundledRows} |->
     LET rows == SelectSeq(BundledRows, LAMBDA r : r.peering = k)
         most == Max({rows[i].prefixes : i \in DOMAIN rows})
     IN  SelectSeq(rows, LAMBDA r : r.prefixes = most)[1]]

(* bundled_active_set *)
Bundled == {k \in DOMAIN Peers : Peers[k].prefixes > 0}

(* routeviews_asn_fallback: the name at the collector with the most        *)
(* prefixes; of several such, whichever the hash map yields first.         *)
Fallbacks ==
  LET of(a)     == {k \in DOMAIN Peers : k[2] = a}
      called(a) == {Peers[k].name : k \in {k \in of(a) :
                      \A j \in of(a) : Peers[j].prefixes <= Peers[k].prefixes}}
      asns      == {k[2] : k \in DOMAIN Peers}
  IN  {f \in [asns -> UNION {called(a) : a \in asns}] :
         \A a \in asns : f[a] \in called(a)}
-----------------------------------------------------------------------------
(* Active peerings.                                                        *)

(* parse_peering_status                                                    *)
ParsePeeringStatus(rows) ==
  {r.peering : r \in {r \in ToSet(rows) : r.prefixes > 0}}

(* The peerings that some page calls active.                               *)
Listed == UNION {ParsePeeringStatus(rows) : rows \in Pages}

StartDashboard(p) ==
  /\ Begin(p, "idle", "loading")
  /\ \E f \in Fallbacks : fallback' = [fallback EXCEPT ![p] = f]
  /\ UNCHANGED <<pageVars, nameVars, session, shown>>

Loaded(p, set, from) ==
  /\ active' = [active EXCEPT ![p] = set] /\ seen' = [seen EXCEPT ![p] = from]
  /\ Goto(p, "running")

(* read_fresh_cache finds one.                                             *)
FreshCache == page # NoFile /\ fresh

OpenFresh(p) ==
  /\ pc[p] = "loading"
  /\ Goto(p, IF FreshCache THEN "reading fresh" ELSE "fetching")
  /\ UNCHANGED <<pageVars, nameVars, runVars>>

(* No answer, or one that is too long or not UTF-8: the cache, however     *)
(* old, or what is bundled.                                                *)
FetchFails(p) ==
  /\ pc[p] = "fetching"
  /\ IF page = NoFile THEN Loaded(p, Bundled, "none")
     ELSE Goto(p, "reading stale") /\ UNCHANGED <<active, seen>>
  /\ UNCHANGED <<page, fresh, body, offset, torn, damage, nameVars, runVars>>

(* What is parsed of the file: a reader that meets one writer sees the     *)
(* rows written so far.                                                    *)
Parsed(p) ==
  IF p \in torn \/ page = Garbled THEN SUBSET (Listed \cup Strays)
  ELSE {ParsePeeringStatus(page)}

ReadCache(p) ==
  /\ p \in PageReaders
  /\ \E set \in Parsed(p) : Loaded(p, set, IF p \in torn THEN "mixed" ELSE damage)
  /\ torn' = torn \ {p}
  /\ UNCHANGED <<page, fresh, body, offset, damage, nameVars, runVars>>

(* The file cannot be read, or what is read of it is not UTF-8.            *)
CannotRead(p) ==
  /\ p \in PageReaders
  /\ IF pc[p] = "reading stale" THEN Loaded(p, Bundled, "none")
     ELSE Goto(p, "fetching") /\ UNCHANGED <<active, seen>>
  /\ torn' = torn \ {p}
  /\ UNCHANGED <<page, fresh, body, offset, damage, nameVars, runVars>>

Fetch(p) ==
  /\ pc[p] = "fetching"
  /\ \E rows \in Pages :
       /\ body' = [body EXCEPT ![p] = rows]
       /\ active' = [active EXCEPT ![p] = ParsePeeringStatus(rows)]
  /\ seen' = [seen EXCEPT ![p] = "none"]
  /\ Goto(p, "truncating page")
  /\ UNCHANGED <<page, fresh, offset, torn, damage, nameVars, runVars>>

(* Variant: the file is opened for writing and what it holds is kept.      *)
NotTruncated == IF page = NoFile THEN <<>> ELSE page

(* write_cache: File::create, which truncates.                             *)
Truncated == <<>>

TruncatePage(p) ==
  /\ pc[p] = "truncating page"
  /\ page' = Truncated /\ fresh' = TRUE
  /\ offset' = [offset EXCEPT ![p] = 0]
  /\ Goto(p, "filling page")
  /\ torn' = torn \cup PageReaders
  /\ damage' = IF PageWriters = {} THEN "partial" ELSE "mixed"
  /\ UNCHANGED <<body, active, seen, nameVars, runVars>>

(* The next row goes to the writer's own offset, whatever else is in the   *)
(* file.  Which bytes meet there depends on the length of the rows of both *)
(* writers: all that matters is that it does not continue one page.        *)
FillPage(p) ==
  LET rows(n) == SubSeq(body[p], 1, n)
      n       == offset[p] + 1
  IN  /\ pc[p] = "filling page" /\ n <= Len(body[p])
      /\ page' = IF page = rows(n - 1) THEN rows(n) ELSE Garbled
      /\ offset' = [offset EXCEPT ![p] = n]
      /\ fresh' = TRUE
      /\ UNCHANGED <<pc, starts, body, active, torn, damage, seen, nameVars, runVars>>

Written(p) ==
  /\ Goto(p, "running")
  /\ body' = [body EXCEPT ![p] = <<>>] /\ offset' = [offset EXCEPT ![p] = 0]
  /\ UNCHANGED <<page, fresh, active, torn, seen, nameVars, runVars>>

PageFilled(p) ==
  /\ pc[p] = "filling page" /\ offset[p] = Len(body[p])
  /\ damage' = IF damage = "partial" THEN "none" ELSE damage
  /\ Written(p)

(* The file cannot be created, or a write fails; both are ignored.         *)
WritePageFails(p) ==
  /\ \/ pc[p] = "truncating page"
     \/ pc[p] = "filling page" /\ offset[p] < Len(body[p])
  /\ Written(p) /\ UNCHANGED damage

(* 15 minutes pass.                                                        *)
PageAges ==
  /\ page # NoFile /\ fresh /\ PageWriters = {}
  /\ fresh' = FALSE
  /\ UNCHANGED <<pc, starts, page, body, offset, active, torn, damage, seen, nameVars, runVars>>
-----------------------------------------------------------------------------
(* AS names.                                                               *)

(* AsNameCache::load *)
LoadNames == IF names \in {NoFile, Torn} THEN <<>> ELSE names

(* Variant: without the limit.                                             *)
AskedAll(flags, stale) ==
  IF stale THEN flags \cup {a \in DOMAIN LoadNames : LoadNames[a] = "old"} ELSE flags

(* The ASNs of the flags and, with --stale, those of old entries, each     *)
(* once, in order and up to the limit.                                     *)
Asked(flags, stale) ==
  LET old == {a \in DOMAIN LoadNames : LoadNames[a] = "old"}
      all == IF stale THEN flags \cup old ELSE flags
  IN  {a \in all : Cardinality({b \in all : b <= a}) <= Limit}

(* run_refresh_asnames, which ends at once without an ASN.                 *)
StartRefresh(p) ==
  /\ Begin(p, "idle", "asking")
  /\ \E flags \in SUBSET Asns, stale \in BOOLEAN :
       /\ Asked(flags, stale) # {}
       /\ query' = [query EXCEPT ![p] = Asked(flags, stale)]
  /\ UNCHANGED <<pageVars, names, merged, nameHurt, refreshed, runVars>>

(* The answer lacks names that are unknown and those behind the limit on   *)
(* its length; without any answer the refresh fails.                       *)
Answer(p) ==
  /\ pc[p] = "asking"
  /\ \/ /\ \E known \in SUBSET query[p] : query' = [query EXCEPT ![p] = known]
        /\ Goto(p, "merging")
     \/ query' = [query EXCEPT ![p] = {}] /\ Goto(p, "idle")
  /\ UNCHANGED <<pageVars, names, merged, nameHurt, refreshed, runVars>>

(* Variant: the answers replace what the file holds.                       *)
Replaced(p) == [a \in query[p] |-> "new"]

Merged(p) == Over([a \in query[p] |-> "new"], LoadNames)

(* The file is loaded after the answer came, and the answers inserted.     *)
Merge(p) ==
  /\ pc[p] = "merging"
  /\ merged' = [merged EXCEPT ![p] = Merged(p)]
  /\ Goto(p, "truncating names")
  /\ nameHurt' = (nameHurt \/ Merging # {})
  /\ UNCHANGED <<pageVars, names, query, refreshed, runVars>>

TruncateNames(p) ==
  /\ pc[p] = "truncating names"
  /\ names' = Torn
  /\ Goto(p, "filling names")
  /\ UNCHANGED <<pageVars, query, merged, nameHurt, refreshed, runVars>>

(* Writing over what another process wrote since may leave its rest.       *)
FillNames(p) ==
  /\ pc[p] = "filling names"
  /\ \/ names' = merged[p]
     \/ names # Torn /\ names' = Torn
  /\ refreshed' = refreshed \cup query[p]
  /\ query' = [query EXCEPT ![p] = {}] /\ merged' = [merged EXCEPT ![p] = <<>>]
  /\ Goto(p, "idle")
  /\ UNCHANGED <<pageVars, nameHurt, runVars>>

(* The write fails before it starts or after; the refresh says nothing.    *)
WriteFails(p) ==
  /\ pc[p] \in {"truncating names", "filling names"}
  /\ nameHurt' = (nameHurt \/ pc[p] = "filling names")
  /\ query' = [query EXCEPT ![p] = {}] /\ merged' = [merged EXCEPT ![p] = <<>>]
  /\ Goto(p, "idle")
  /\ UNCHANGED <<pageVars, names, refreshed, runVars>>

(* 90 days pass.                                                           *)
NamesAge ==
  /\ names \notin {NoFile, Torn} /\ \E a \in DOMAIN names : names[a] = "new"
  /\ names' = [a \in DOMAIN names |-> "old"]
  /\ UNCHANGED <<pc, starts, pageVars, query, merged, nameHurt, refreshed, runVars>>

(* The first source that has a name.                                       *)
Chain(p, a) ==
  IF      a \in DOMAIN Curated     THEN Curated[a]
  ELSE IF a \in DOMAIN LoadNames   THEN Whois[a]
  ELSE IF a \in DOMAIN CymruSeed   THEN CymruSeed[a]
  ELSE IF a \in DOMAIN fallback[p] THEN fallback[p][a]
  ELSE ""

(* Variant: that an AS has no name is looked up again.                     *)
HitWithName(p, a) == a \in DOMAIN session[p] /\ session[p][a] # ""

Hit(p, a) == a \in DOMAIN session[p]

(* cache_name: entries are replaced, new ones dropped at the cap.          *)
CacheName(p, a, name) ==
  session' = [session EXCEPT ![p] =
    IF a \in DOMAIN @ \/ Cardinality(DOMAIN @) < MaxNames
    THEN Over([b \in {a} |-> name], @) ELSE @]

(* as_name_resolve while something is drawn: a name that is not kept is    *)
(* looked up again the next time.  "" is drawn as the number.              *)
Resolve(p, a) ==
  LET name == IF Hit(p, a) THEN session[p][a] ELSE Chain(p, a)
  IN  /\ pc[p] = "running"
      /\ IF Hit(p, a) THEN UNCHANGED session ELSE CacheName(p, a, name)
      /\ shown' = [shown EXCEPT ![p] = Over([b \in {a} |-> name], @)]
      /\ UNCHANGED <<pc, starts, pageVars, nameVars, fallback>>

(* load_as_name_cache when a stream is opened, whatever the cap.           *)
LoadSeed(p) ==
  /\ pc[p] = "running"
  /\ session' = [session EXCEPT ![p] = Over(@, Curated)]
  /\ UNCHANGED <<pc, starts, pageVars, nameVars, fallback, shown>>

(* Back from the dashboard to the browser: the peerings are loaded again.  *)
Reload(p) ==
  /\ Begin(p, "running", "loading")
  /\ UNCHANGED <<pageVars, nameVars, runVars>>

(* A process ends or dies; what it wrote so far stays.                     *)
Stop(p) ==
  /\ pc[p] # "idle" /\ Goto(p, "idle")
  /\ nameHurt' = (nameHurt \/ pc[p] = "filling names")
  /\ body' = [body EXCEPT ![p] = <<>>] /\ offset' = [offset EXCEPT ![p] = 0]
  /\ active' = [active EXCEPT ![p] = Bundled]
  /\ seen' = [seen EXCEPT ![p] = "none"] /\ torn' = torn \ {p}
  /\ query' = [query EXCEPT ![p] = {}] /\ merged' = [merged EXCEPT ![p] = <<>>]
  /\ session' = [session EXCEPT ![p] = <<>>]
  /\ fallback' = [fallback EXCEPT ![p] = <<>>]
  /\ shown' = [shown EXCEPT ![p] = <<>>]
  /\ UNCHANGED <<page, fresh, damage, names, refreshed>>
-----------------------------------------------------------------------------
Init ==
  /\ pc = [p \in Procs |-> "idle"] /\ starts = 0
  /\ page = NoFile /\ fresh = FALSE
  /\ body = [p \in Procs |-> <<>>] /\ offset = [p \in Procs |-> 0]
  /\ active = [p \in Procs |-> Bundled]
  /\ names = NoFile /\ query = [p \in Procs |-> {}]
  /\ merged = [p \in Procs |-> <<>>] /\ session = [p \in Procs |-> <<>>]
  /\ fallback = [p \in Procs |-> <<>>]
  /\ torn = {} /\ damage = "none" /\ seen = [p \in Procs |-> "none"]
  /\ shown = [p \in Procs |-> <<>>]
  /\ nameHurt = FALSE /\ refreshed = {}

Next ==
  \/ \E p \in Procs :
       \/ StartDashboard(p) \/ OpenFresh(p) \/ ReadCache(p) \/ CannotRead(p)
       \/ Fetch(p) \/ FetchFails(p) \/ TruncatePage(p) \/ FillPage(p)
       \/ PageFilled(p) \/ WritePageFails(p)
       \/ StartRefresh(p) \/ Answer(p) \/ Merge(p) \/ TruncateNames(p)
       \/ FillNames(p) \/ WriteFails(p) \/ LoadSeed(p) \/ Reload(p) \/ Stop(p)
       \/ \E a \in Asns : Resolve(p, a)
  \/ PageAges \/ NamesAge

Spec == Init /\ [][Next]_vars
-----------------------------------------------------------------------------
(* Types, and the cap of the session's names.                              *)
TypeOK ==
  /\ pc \in [Procs -> {"idle", "loading", "reading fresh", "fetching", "reading stale",
                       "truncating page", "filling page", "running", "asking",
                       "merging", "truncating names", "filling names"}]
  /\ \A p \in Procs : /\ offset[p] \in 0..Len(body[p])
                      /\ query[p] \subseteq Asns
                      /\ Cardinality(query[p]) <= Limit
                      /\ DOMAIN session[p] \subseteq Asns
                      /\ Cardinality(DOMAIN session[p] \ DOMAIN Curated) <= MaxNames
  /\ {fresh, nameHurt} \subseteq BOOLEAN /\ starts \in 0..MaxStarts
  /\ damage \in {"none", "partial", "mixed"}

(* What a dashboard takes for the active peerings is one whole page of the *)
(* server or what is bundled when the last writing of the cache was        *)
(* complete, and a part of one such when it was cut short or is still      *)
(* going on: a crash hides streams, and neither invents one nor mixes two  *)
(* pages.  Only where two writers overlap, or one truncates the page under *)
(* a reader, may anything come out, and that too until the next writing    *)
(* that is alone.                                                          *)
ActiveIsOnePage ==
  LET whole == {ParsePeeringStatus(rows) : rows \in Pages} \cup {Bundled}
  IN  \A p \in Procs :
        /\ seen[p] = "none" => active[p] \in whole
        /\ seen[p] = "partial" => \E set \in whole : active[p] \subseteq set

(* A name that a refresh has written stays in the file whatever is asked   *)
(* later and however long the answers take; it is lost only when two       *)
(* refreshes merge at the same time or a write does not complete.          *)
AnswersKept == nameHurt \/ NameWriters # {} \/ refreshed \subseteq DOMAIN LoadNames

(* While a dashboard runs, the label it draws an AS with does not change,  *)
(* not even when a refresh brings a name for one that had none: except     *)
(* that of an AS that is not curated and came when the session held        *)
(* MAX_CACHED_AS_NAMES names, which is looked up again each time           *)
(* (dashboard.rs:695-700).                                                 *)
LabelsStable ==
  [][\A p \in Procs : pc'[p] # "idle" =>
       \A a \in DOMAIN shown[p] :
         \/ a \in DOMAIN shown'[p] /\ shown'[p][a] = shown[p][a]
         \/ /\ a \notin DOMAIN Curated \cup DOMAIN session[p]
            /\ Cardinality(DOMAIN session[p]) >= MaxNames]_vars
=============================================================================
