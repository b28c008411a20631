SPECIFICATION Spec
CONSTANTS
  Modes = {"WFM", "AM"}
  FmModes = {"WFM"}
  DefaultMode = "WFM"
  Tunings = 1
  Slow = {}
  PacketLen = 2
  Up = 1
  DownFast = 2
  DownSlow = 1
  Scipy = TRUE
  FrameLen = 3
  FftSize = 3
  Places = 7
  MaxWaiting = 2
  MaxLost = 1
  MaxCommands = 1
INVARIANT NoFrameAcrossGap
CHECK_DEADLOCK FALSE
