SPECIFICATION BenchSpec
CONSTANTS
  c1 = c1
  c2 = c2
  None = None
  Clients = {c1, c2}
  FrameSpan = 2
  MaxInbox = 1
  Tunings = 2
  LineSize = 3
INVARIANTS HardwareAgrees
PROPERTIES SessionContract  
