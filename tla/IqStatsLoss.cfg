SPECIFICATION Spec
CONSTANTS
  SeqSpan = 5
  TsSpan = 16
  Delta = 2
  MaxPackets = 8
  MaxWaiting = 2
  MaxLost = 3
  MaxRestarts = 2
INVARIANT LossExact
CHECK_DEADLOCK FALSE
