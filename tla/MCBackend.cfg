SPECIFICATION BenchSpec
CONSTANTS
  Segs = 2
  SeqSpan = 8
  Commands = {"enable", "disable", "stop_all"}
  MaxCommands = 2
  MaxConfigs = 1
  MaxFrames = 3
  MaxLost = 1
  MaxCopies = 1
  MaxInFlight = 4
  Reordering = TRUE
  OrderedFrames = 10
  OrderedLost = 2
  IqSpan = 5
  IqTsSpan = 13
  IqDelta = 2
  IqPackets = 7
  IqWaiting = 2
  IqLost = 3
  IqRestarts = 2
  MaxQueue = 2
  MaxPublish = 4
  Browsers = {b1, b2}
  Talkers = {b2}
INVARIANTS WholeFrameOfOneConfig  LossExactInOneRun OnlyOverflowDrops ChunksWhole
PROPERTIES  SpectrumAppearsAgain LastArrives
CHECK_DEADLOCK FALSE
