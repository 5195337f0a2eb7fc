SPECIFICATION FairSpec
CONSTANTS
  t1 = t1
  t2 = t2
  t3 = t3
  rv = rv
  ams = ams
  peer1 = peer1
  peer2 = peer2
  NoPeer = NoPeer
  NoUpdate = NoUpdate
  NoVerdict = NoVerdict
  NoHint = NoHint
  NoKey = NoKey
  NoTopic = NoTopic
  Messages <- MCMessages
  Verdict <- MCVerdict
  Collector = 6447
  Peering <- MCPeering
  CollectorArgs <- MCCollectorArgs
  AsnArgs <- MCAsnArgs
  NoFilter = NoFilter
  ActiveSets <- MCActiveSets
  TopicArgs <- MCTopicArgs
  MaxPeers = 1
  MaxPrefixes = 3
  MaxAsns = 2
  MaxPairs = 1
  MaxPath = 2
  MaxLog = 2
  MaxShow = 1
  MaxMessages = 3
INVARIANT TypeOK
INVARIANT TrackedCountsExact
INVARIANT GroupedUnderLatest
INVARIANT MostChurnedLeads
INVARIANT OnlyValidFirstHides
INVARIANT TickerShowsNewest
INVARIANT RestoredUnlessFailed
PROPERTY KeysServed
CHECK_DEADLOCK FALSE
