SPECIFICATION Spec
CONSTANTS
  HeaderWords = 1
  FrameSamples = 2
  SeqSpan = 2
  FifoDepth = 4
  SampleGap = 3
  MaxSetRx = 1
INVARIANT OverflowReported
