------------------------------- MODULE MCRpki -------------------------------
(* Rpki with addresses of two bits and all routes of two origins.  The     *)
(* prefix PDUs: two of the same prefix and origin that differ in maxLength *)
(* (one with host bits set), a more specific one of another origin, one    *)
(* whose maxLength is too small, one for IPv6.                             *)
EXTENDS Rpki, TLC

CONSTANTS a1, a2, d1, d2

MCAsns == {a1, a2}

P(family, addr, len, max, asn) ==
  [family |-> family, addr |-> addr, len |-> len, max |-> max, asn |-> asn]

MCPdus == { P("v4", 0, 1, 1, a1), P("v4", 1, 1, 2, a1), P("v4", 0, 2, 2, a2),
            P("v4", 3, 2, 0, a1), P("v6", 2, 1, 1, a2) }

MCFewPdus == { P("v4", 1, 1, 2, a1), P("v6", 2, 1, 1, a2) }

MCRoutes ==
  [family: Families, addr: Addresses, len: 0..Width, asn: Asns]
    \cup {[family |-> NoValue, addr |-> 0, len |-> 0, asn |-> a1]}

One  == {d1}
Both == {d1, d2}

(* The bound of the run: a dashboard on its own gets every arrival order   *)
(* of up to MaxVrps of all PDUs when there is no cache file, and finds any *)
(* of these sessions in the file later; otherwise, and of two at the same  *)
(* time each, a session brings up to two of the few.                       *)
Alone(p) == \A q \in Dashboards \ {p} : pc[q] = "off" /\ temp[q] = "none"

Few(s) ==
  LET vrps == {ToVrp(m) : m \in MCFewPdus}
  IN  /\ Len(s["v4"]) + Len(s["v6"]) <= 2
      /\ \A f \in Families : ToSet(s[f]) \subseteq vrps

Bounded ==
  \/ /\ \A p \in Dashboards : Few(sent[p])
     /\ file = NoFile \/ Few(file.sent)
  \/ \E p \in Dashboards :
       /\ Alone(p)
       /\ file = NoFile \/ file.sent = sent[p] \/ Few(sent[p])

Symmetry == Permutations({d1, d2})
=============================================================================
