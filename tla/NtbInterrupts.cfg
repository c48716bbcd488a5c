SPECIFICATION FairSpec
CONSTANTS
  w1 = w1
  w2 = w2
  NoMsg = NoMsg
  MsgIdx = {0}
  MsgVals = {w1}
  DbBits = {0}
  Commands <- Interrupts
INVARIANTS InterruptHasCause CauseStored
PROPERTIES NotificationDelivered PeerLinkSpec
CHECK_DEADLOCK FALSE
