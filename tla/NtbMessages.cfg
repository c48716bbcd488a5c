SPECIFICATION Spec
CONSTANTS
  w1 = w1
  w2 = w2
  NoMsg = NoMsg
  MsgIdx = {0, 1}
  MsgVals = {w1, w2}
  DbBits = {0}
  Commands <- Messages
INVARIANTS MailInv RefusalJustified
PROPERTIES PendingMessageStable MailboxSpec
