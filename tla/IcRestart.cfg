SPECIFICATION FairSpec
CONSTANTS
  ServerVectors = 3
  Vectors = 2
  InitPeers = 2
  Restartable <- Second
  MaxStarts = 3
INVARIANTS TypeOK HandshakeInv LinkInv IdsAgreeAtRest KnownPeerReachable
PROPERTIES  HandshakeCompletes PeerLinkSpec
CHECK_DEADLOCK FALSE
