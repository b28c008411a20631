CONSTANTS
  Segs = 2
  SeqSpan = 8
  Commands = {"enable"}
  MaxCommands = 2
  MaxConfigs = 2
  MaxFrames = 1
  MaxLost = 2
  MaxCopies = 0
  MaxInFlight = 4
  Reordering = FALSE
SPECIFICATION Spec
INVARIANT WholeFrame
CHECK_DEADLOCK FALSE
