SPECIFICATION BenchSpec
CONSTANTS
  HeaderWords = 1
  FrameSamples = 1
  SeqSpan = 2
  FifoDepth = 2
  SampleGap = 1
  MaxSetRx = 2
INVARIANTS DecimatesExactly MixesInStep LevelsAgree 
