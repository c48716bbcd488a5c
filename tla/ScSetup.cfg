SPECIFICATION FairSpec
CONSTANTS
  Sessions <- Servers
  Size = 3
  MaxPeers = 3
  InitPeers = 2
  Vectors = 2
  Master = FALSE
  OtherIds <- PeerIds
CHECK_DEADLOCK FALSE
INVARIANTS TypeOK StreamInv DescriptorsKeptOnce OrderlyServerSafe ChannelInv
PROPERTIES MessageStreamSpec SetupEnds EveryMessageHandled
