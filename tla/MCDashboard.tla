---------------------------- MODULE MCDashboard ----------------------------
(* The dashboard on nine kinds of messages, four prefixes, three ASes and  *)
(* three topics, with caps of one to three and a log of two.               *)
EXTENDS Dashboard, TLC

CONSTANTS t1, t2, t3, rv, ams, peer1, peer2

MCPeering    == t1 :> <<rv, 11>> @@ t2 :> <<ams, 12>> @@ t3 :> <<rv, 0>>
MCActiveSets == {{<<ams, 12>>}, {<<rv, 11>>, <<ams, 12>>, <<rv, 0>>}}

MCTopicArgs     == {NoTopic, t2}
MCCollectorArgs == {NoFilter, {t1, t3}}
MCAsnArgs       == {NoFilter, 12}

(* 1 from 11 is Valid, 2 from 11 and 1 from 12 are not, the rest unknown.  *)
MCVerdict ==
  [x \in (1..4) \X {0, 11, 12, 13} |->
     CASE x = <<1, 11>> -> "Valid"
       [] x = <<2, 11>> -> "InvalidWrongAsn"
       [] x = <<2, 12>> -> "InvalidTooLong"
       [] OTHER         -> "NotFound"]

Frame(type, peer, update) ==
  [frame |-> TRUE, version |-> TRUE, type |-> type, peer |-> peer,
   meta |-> FALSE, update |-> update]

Update(announced, withdrawn, path) ==
  [announced |-> announced, withdrawn |-> withdrawn, path |-> path]

MCMessages ==
  {Frame("RouteMonitoring", peer1, u) : u \in
     {Update(<<1, 2>>, <<>>, <<6447, 11>>),    \* Valid, then wrong AS
      Update(<<3, 2>>, <<1>>, <<12>>),         \* unknown, then too long
      Update(<<4>>, <<>>, <<6447, 11, 13>>),   \* a path that is cut
      Update(<<>>, <<4>>, <<>>),
      Update(<<>>, <<>>, <<>>),                \* keepalive
      NoUpdate}}
  \cup {[Frame("PeerUp", peer2, NoUpdate) EXCEPT !.version = FALSE, !.meta = TRUE],
        Frame("Unknown", NoPeer, NoUpdate),
        [Frame("Unknown", NoPeer, NoUpdate) EXCEPT !.frame = FALSE]}
=============================================================================
