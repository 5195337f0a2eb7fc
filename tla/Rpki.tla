-------------------------------- MODULE Rpki --------------------------------
(***************************************************************************)
(* RPKI origin validation (src/src/rpki.rs).  A dashboard that starts      *)
(* takes its table of VRPs from the cache file when that is fresh, or from *)
(* an RTR session whose result it then saves; several dashboards share the *)
(* file, and each may die at any step.  Routes are validated against the   *)
(* table by a binary search for every covering prefix.                     *)
(*                                                                         *)
(* IPv4 and IPv6 are two families of the same code; addresses have Width   *)
(* bits in both.                                                           *)
(***************************************************************************)
EXTENDS Integers, Sequences, FiniteSets, SequencesExt

CONSTANTS
  Dashboards, \* the processes that share the cache directory
  Width,      \* bits of an address
  Asns,
  Pdus,       \* the prefix PDUs the RTR server may send
  Routes,     \* the announcements to be validated
  MaxVrps,    \* MAX_VRPS
  NoFile,     \* there is no cache file
  NoValue     \* None

Families  == {"v4", "v6"}

PowerOf2[n \in 0..Width] == IF n = 0 THEN 1 ELSE 2 * PowerOf2[n-1]

Addresses == 0..(PowerOf2[Width] - 1)
Vrp       == [addr: Addresses, len: 1..Width, max: Nat, asn: Asns]
Pdu       == [family: Families, addr: Addresses, len: Nat, max: Nat, asn: Asns]
(* A prefix that parses as neither IPv4 nor IPv6 has no family.            *)
Route     == [family: Families \cup {NoValue}, addr: Addresses, len: 0..Width,
              asn: Asns]

ASSUME WidthAssumption == Width \in Nat \ {0}
ASSUME InputAssumption == Pdus \subseteq Pdu /\ Routes \subseteq Route
ASSUME LimitAssumption == MaxVrps \in Nat
ASSUME NoneAssumption  == NoValue \notin Families \cup Asns \cup Nat

VARIABLES
  pc,    \* "off", "reading", "session", "create", "write", "sync",
         \* "rename", "running" (with a table) or "without" (RPKI is None)
  sent,  \* the VRPs the dashboard's session accepted, in order, by family;
         \* for a table from the cache file, those of the session behind it
  table, \* vrps4 and vrps6
  temp,  \* the dashboard's temporary file: "none", "partial" or "whole"
  file,  \* the cache file: the saved tables and, as history, their session
  fresh  \* the cache file is younger than 72 hours

vars == <<pc, sent, table, temp, file, fresh>>

NoTable  == [f \in Families |-> <<>>]
-----------------------------------------------------------------------------
(* Prefixes.                                                               *)

(* addr & (!0 << (Width - len))                                            *)
Network(addr, len) == (addr \div PowerOf2[Width - len]) * PowerOf2[Width - len]

(* The VRP of a prefix PDU; a length of 0 is not accepted.                 *)
Accepted(m) == m.len \in 1..Width

ToVrp(m) == [addr |-> Network(m.addr, m.len), len |-> m.len,
             max |-> IF m.max < m.len THEN m.len ELSE m.max, asn |-> m.asn]

(* Variant: the VRPs stay in the order of their arrival.                   *)
AsReceived(s) == s

(* The positions in S from first to last in the order of the pairs.        *)
Ranked(S, before) ==
  [k \in 1..Cardinality(S) |->
     CHOOSE i \in S : Cardinality({j \in S : <<j, i>> \in before}) = k - 1]

At(s, order) == [k \in DOMAIN order |-> s[order[k]]]

(* sort_by_key is stable and looks at the address alone.                   *)
ByAddress(s) ==
  {x \in (DOMAIN s) \X (DOMAIN s) :
     \/ s[x[1]].addr < s[x[2]].addr
     \/ s[x[1]].addr = s[x[2]].addr /\ x[1] < x[2]}

Sorted(s) == At(s, Ranked(DOMAIN s, ByAddress(s)))

(* dedup_by, of neighbours, whatever their maximal length.  Same is an     *)
(* equivalence, so that what equals the last one kept equals its neighbour.*)
Same(v, w) == v.addr = w.addr /\ v.len = w.len /\ v.asn = w.asn

Kept(s) == {i \in DOMAIN s : i = 1 \/ ~Same(s[i-1], s[i])}

Dedup(s) == At(s, Ranked(Kept(s), {x \in Kept(s) \X Kept(s) : x[1] < x[2]}))

Build(s) == [f \in Families |-> Dedup(Sorted(s[f]))]
-----------------------------------------------------------------------------
(* Validation.                                                             *)

(* binary_search_by: the range that is left after each probe of its middle.*)
Middle(range) == (range[1] + range[2]) \div 2

Half(s, addr, range) ==
  LET mid == Middle(range)
  IN  IF range[1] > range[2] \/ s[mid].addr = addr THEN range
      ELSE IF s[mid].addr < addr THEN <<mid + 1, range[2]>>
      ELSE <<range[1], mid - 1>>

Ranges(s, addr) ==
  LET range[n \in 0..Len(s)] ==
        IF n = 0 THEN <<1, Len(s)>> ELSE Half(s, addr, range[n-1])
  IN  range

(* A position with this address, 0 for none.                               *)
Search(s, addr) ==
  LET range == Ranges(s, addr)[Len(s)]
  IN  IF range[1] > range[2] THEN 0 ELSE Middle(range)

(* The block of neighbours with this address, found by walking to the left *)
(* and to the right from there.                                            *)
Block(s, addr) ==
  LET pos == Search(s, addr)
  IN  IF pos = 0 THEN {}
      ELSE {i \in DOMAIN s : \A j \in (i..pos) \cup (pos..i) : s[j].addr = addr}

(* Variant: the length of the VRP is not compared.                         *)
AnyLength(s, addr, len) == Block(s, Network(addr, len))

(* The positions of the VRPs for exactly this prefix.                      *)
Exactly(s, addr, len) ==
  {i \in Block(s, Network(addr, len)) : s[i].len = len}

(* The loop over all lengths up to the route's own.                        *)
Covering(s, r) == UNION {Exactly(s, r.addr, len) : len \in 0..r.len}

Verdict(s, r) ==
  LET long == {i \in Covering(s, r) : s[i].max >= r.len}
  IN  IF \E i \in long : s[i].asn = r.asn THEN "Valid"
      ELSE IF long # {} THEN "InvalidWrongAsn"
      ELSE IF Covering(s, r) # {} THEN "InvalidTooLong"
      ELSE "NotFound"

(* lookup_authorized_asn: the one origin that is authorised, if only one.  *)
ExpectedAsn(s, r) ==
  LET asns == {s[i].asn : i \in {j \in Covering(s, r) : s[j].max >= r.len}}
  IN  IF Cardinality(asns) = 1 THEN CHOOSE a \in asns : TRUE ELSE NoValue

(* lookup_max_len: that of the first VRP of the most specific prefix.      *)
FoundMaxLen(s, r) ==
  LET lens == {len \in 0..r.len : Exactly(s, r.addr, len) # {}}
      most == CHOOSE len \in lens : \A other \in lens : other <= len
      here == Exactly(s, r.addr, most)
  IN  IF lens = {} THEN NoValue
      ELSE s[CHOOSE i \in here : \A j \in here : i <= j].max

Validated(t, r) ==
  LET s      == t[r.family]
      status == IF r.family = NoValue THEN "NotFound" ELSE Verdict(s, r)
  IN  [status |-> status,
       asn    |-> IF status = "InvalidWrongAsn" THEN ExpectedAsn(s, r) ELSE NoValue,
       maxLen |-> IF status = "InvalidTooLong" THEN FoundMaxLen(s, r) ELSE NoValue]

-----------------------------------------------------------------------------
(* load_or_download                                                        *)

Init ==
  /\ pc = [p \in Dashboards |-> "off"]
  /\ sent = [p \in Dashboards |-> NoTable]
  /\ table = [p \in Dashboards |-> NoTable]
  /\ temp = [p \in Dashboards |-> "none"]
  /\ file = NoFile /\ fresh = FALSE

Go(p, step) == pc' = [pc EXCEPT ![p] = step]

(* A dashboard starts: the age of the file decides where to look.          *)
Start(p) ==
  /\ pc[p] = "off"
  /\ Go(p, IF file # NoFile /\ fresh THEN "reading" ELSE "session")
  /\ UNCHANGED <<sent, table, temp, file, fresh>>

(* from_cache_file                                                         *)
ReadCache(p) ==
  /\ pc[p] = "reading"
  /\ Go(p, "running")
  /\ sent' = [sent EXCEPT ![p] = file.sent]
  /\ table' = [table EXCEPT ![p] = [f \in Families |-> Sorted(file.vrps[f])]]
  /\ UNCHANGED <<temp, file, fresh>>

(* The file cannot be read after all.                                      *)
ReadFails(p) ==
  /\ pc[p] = "reading"
  /\ Go(p, "session")
  /\ UNCHANGED <<sent, table, temp, file, fresh>>

(* Variant: the families are limited one by one.                           *)
ReceivedOfOne(p) ==
  IF Len(sent[p]["v4"]) < Len(sent[p]["v6"]) THEN Len(sent[p]["v6"])
                                             ELSE Len(sent[p]["v4"])

Received(p) == Len(sent[p]["v4"]) + Len(sent[p]["v6"])

(* The session ends with an error and all it brought is dropped: the       *)
(* server is unreachable, reports an error, sends a bad length, falls      *)
(* silent for longer than the read timeout, or sends too many prefixes.    *)
SessionFails(p) ==
  /\ pc[p] = "session"
  /\ Go(p, "without")
  /\ sent' = [sent EXCEPT ![p] = NoTable]
  /\ UNCHANGED <<table, temp, file, fresh>>

PrefixPdu(p, m) ==
  /\ pc[p] = "session"
  /\ Accepted(m) /\ Received(p) < MaxVrps
  /\ sent' = [sent EXCEPT ![p][m.family] = Append(@, ToVrp(m))]
  /\ UNCHANGED <<pc, table, temp, file, fresh>>

EndOfData(p) ==
  /\ pc[p] = "session"
  /\ Go(p, "create")
  /\ table' = [table EXCEPT ![p] = Build(sent[p])]
  /\ UNCHANGED <<sent, temp, file, fresh>>

(* save_to_file.  A temporary file of a crashed run is replaced; failures  *)
(* are ignored and the dashboard runs on with its table.                   *)
Saved(p) == [vrps |-> table[p], sent |-> sent[p]]

(* Variant: the cache file itself is opened and written.                   *)
CreateInPlace(p) ==
  /\ pc[p] = "create"
  /\ Go(p, "write")
  /\ temp' = [temp EXCEPT ![p] = "partial"]
  /\ file' = [Saved(p) EXCEPT !.vrps["v6"] = <<>>] /\ fresh' = TRUE
  /\ UNCHANGED <<sent, table>>

CreateTemp(p) ==
  /\ pc[p] = "create"
  /\ Go(p, "write")
  /\ temp' = [temp EXCEPT ![p] = "partial"]
  /\ UNCHANGED <<sent, table, file, fresh>>

WriteTemp(p) ==
  /\ pc[p] = "write"
  /\ Go(p, "sync")
  /\ temp' = [temp EXCEPT ![p] = "whole"]
  /\ UNCHANGED <<sent, table, file, fresh>>

SyncTemp(p) ==
  /\ pc[p] = "sync"
  /\ Go(p, "rename")
  /\ UNCHANGED <<sent, table, temp, file, fresh>>

Rename(p) ==
  /\ pc[p] = "rename"
  /\ Go(p, "running")
  /\ temp' = [temp EXCEPT ![p] = "none"]
  /\ file' = Saved(p) /\ fresh' = TRUE
  /\ UNCHANGED <<sent, table>>

(* A failed write or rename removes the temporary file, a failed sync      *)
(* leaves it behind.                                                       *)
SaveFails(p) ==
  /\ pc[p] \in {"create", "write", "sync", "rename"}
  /\ Go(p, "running")
  /\ temp' = IF pc[p] \in {"write", "rename"} THEN [temp EXCEPT ![p] = "none"]
                                             ELSE temp
  /\ UNCHANGED <<sent, table, file, fresh>>

(* The dashboard ends or dies, wherever it is.                             *)
Stop(p) ==
  /\ pc[p] # "off"
  /\ Go(p, "off")
  /\ sent' = [sent EXCEPT ![p] = NoTable]
  /\ table' = [table EXCEPT ![p] = NoTable]
  /\ UNCHANGED <<temp, file, fresh>>

(* 72 hours pass, or the user removes the cache file.                      *)
Age    == fresh /\ fresh' = FALSE /\ UNCHANGED <<pc, sent, table, temp, file>>

Save(p) == CreateTemp(p) \/ WriteTemp(p) \/ SyncTemp(p) \/ Rename(p) \/ SaveFails(p)

Next ==
  \/ \E p \in Dashboards :
       \/ Start(p) \/ ReadCache(p) \/ ReadFails(p)
       \/ SessionFails(p) \/ EndOfData(p) \/ Save(p) \/ Stop(p)
       \/ \E m \in Pdus : PrefixPdu(p, m)
  \/ Age

Spec == Init /\ [][Next]_vars
-----------------------------------------------------------------------------
Tables == [Families -> Seq(Vrp)]

(* Every variable has its type.                                            *)
TypeOK ==
  /\ pc \in [Dashboards -> {"off", "reading", "session", "create", "write",
                            "sync", "rename", "running", "without"}]
  /\ sent \in [Dashboards -> Tables] /\ table \in [Dashboards -> Tables]
  /\ \A p \in Dashboards : Len(sent[p]["v4"]) + Len(sent[p]["v6"]) <= MaxVrps
  /\ temp \in [Dashboards -> {"none", "partial", "whole"}]
  /\ file \in {NoFile} \cup [vrps: Tables, sent: Tables]
  /\ fresh \in BOOLEAN

(* The cache file is the complete result of one session.                   *)
FileIsWhole == file # NoFile => file.vrps = Build(file.sent)

(* Whatever dashboards start, save, fail and die at the same time, the     *)
(* cache file is the complete result of one session, and so is the table   *)
(* of every dashboard that validates (rpki.rs:485-523).                    *)
CacheIsOneSession ==
  /\ FileIsWhole
  /\ \A p \in Dashboards : pc[p] = "running" => table[p] = Build(sent[p])

(* What the VRPs themselves say about a route, in no order.                *)
Covers(v, r)     == v.len <= r.len /\ Network(r.addr, v.len) = v.addr
Authorizes(v, r) == Covers(v, r) /\ r.len <= v.max /\ v.asn = r.asn
About(p, r)      == {sent[p][r.family][i] : i \in DOMAIN sent[p][r.family]}

Judged == {x \in Dashboards \X Routes : pc[x[1]] = "running" /\ x[2].family # NoValue}

(* A verdict says what the accepted VRPs say: Valid needs one that         *)
(* authorises the route, NotFound that none covers it, the wrong ASN one   *)
(* of another origin that is long enough, even beside one of the observed  *)
(* origin that is too short (README.md:257 asks for more, which does not   *)
(* hold: WrongAsnHasNoMatch); and what is shown with a verdict differs     *)
(* from the route and is told by a covering VRP.                           *)
VerdictsSound ==
  \A x \in Judged :
    LET r    == x[2]
        told == Validated(table[x[1]], r)
        vrps == {v \in About(x[1], r) : Covers(v, r)}
    IN  /\ told.status = "Valid" => \E v \in vrps : Authorizes(v, r)
        /\ told.status = "NotFound" <=> vrps = {}
        /\ told.status = "InvalidWrongAsn" =>
             \E v \in vrps : v.asn # r.asn /\ r.len <= v.max
        /\ told.asn # NoValue =>
             \E v \in vrps : told.asn = v.asn /\ v.asn # r.asn /\ r.len <= v.max
        /\ told.status = "InvalidTooLong" =>
             \E v \in vrps : told.maxLen = v.max /\ v.max < r.len

(* The only way an authorised route misses its Valid: the session brought  *)
(* another VRP for the same prefix and ASN whose maximal length is too     *)
(* short for the route, so that removing duplicates had to choose          *)
(* (rpki.rs:700-703).                                                      *)
OnlyShadowedDenied ==
  \A x \in Judged :
    \A v \in About(x[1], x[2]) :
      Authorizes(v, x[2]) =>
        \/ Validated(table[x[1]], x[2]).status = "Valid"
        \/ \E w \in About(x[1], x[2]) : Same(w, v) /\ w.max < x[2].len

(* "InvalidWrongAsn: Covering VRPs exist, but none match the observed      *)
(* origin ASN" (README.md:257; rpki.rs:188-190 says it of INVALID).        *)
WrongAsnHasNoMatch ==
  \A x \in Judged :
    Validated(table[x[1]], x[2]).status = "InvalidWrongAsn" =>
      ~ \E v \in About(x[1], x[2]) : Covers(v, x[2]) /\ v.asn = x[2].asn

(* "A route is VALID if any covering VRP authorizes the prefix with a      *)
(* matching origin ASN and sufficient maxLength" (rpki.rs:187, README.md). *)
ValidWhenAuthorized ==
  \A x \in Judged :
    (\E v \in About(x[1], x[2]) : Authorizes(v, x[2])) =>
      Validated(table[x[1]], x[2]).status = "Valid"
=============================================================================
