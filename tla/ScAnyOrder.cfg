SPECIFICATION Spec
CONSTANTS
  Sessions <- OwnFirst
  Size = 3
  MaxPeers = 3
  InitPeers = 2
  Vectors = 2
  Master = FALSE
  OtherIds <- PeerIds
CHECK_DEADLOCK FALSE
INVARIANTS NoMessageKills
