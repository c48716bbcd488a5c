SPECIFICATION FairSpec
CONSTANT Vectors = 3
CHECK_DEADLOCK FALSE
INVARIANTS IrqInv Balanced DiesOnlyOfLate SignalKept
PROPERTIES SignalDelivered
