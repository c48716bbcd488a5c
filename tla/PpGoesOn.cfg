SPECIFICATION SpecAll
CONSTANTS
  NoMsg = NoMsg
  MsgIdx = {}
  MsgVals = {}
  DbBits = {0}
  Commands <- Rings
  Patient = {1}
CHECK_DEADLOCK FALSE
PROPERTIES CounterIncreases
INVARIANTS PlayInv BallInPlay
