------------------------------ MODULE MCCaches ------------------------------
(* Two processes, two pages of two rows, three ASes, one of them curated,  *)
(* one with two names of equal rank at two collectors.                     *)
EXTENDS Caches

CONSTANTS a, b, rv, ams

Row(peering, prefixes) == [peering |-> peering, prefixes |-> prefixes]

MCPages ==
  {<<Row(<<rv, 3>>, 5), Row(<<rv, 1>>, 7)>>, <<Row(<<rv, 1>>, 7), Row(<<ams, 1>>, 0)>>}

NamedRow(peering, prefixes, name) ==
  [peering |-> peering, prefixes |-> prefixes, name |-> name]

MCBundledRows ==
  <<NamedRow(<<rv, 3>>, 2, "v6"), NamedRow(<<rv, 3>>, 5, "peer"),
    NamedRow(<<ams, 3>>, 5, "peer, again"), NamedRow(<<ams, 1>>, 0, "silent")>>

MCStrays == {<<ams, 1>>}

MCCurated == 1 :> "curated"
MCCymru   == <<>>
MCWhois   == [i \in 1..3 |-> "whois"]

(* The bound of the run: the page and the names meet in no action, so      *)
(* either the page is written, with all starts, or names are refreshed and *)
(* drawn, with one start less.                                             *)
Bounded ==
  \/ /\ names = NoFile /\ \A p \in Procs : query[p] = {}
     /\ \A p \in Procs : session[p] = <<>> /\ shown[p] = <<>>
  \/ page = NoFile /\ starts < MaxStarts /\ \A p \in Procs : body[p] = <<>>

Symmetry  == Permutations(Procs)
=============================================================================
