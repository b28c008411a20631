SPECIFICATION BenchSpec
CONSTANTS
  Depth = 4
  AddrWidth = 2
  Data = {0, 1}
  Ratio = 2
  MaxWrites = 4
  MaxConf = 2
  MaxResets = 1
INVARIANTS IInv SettingsCross
PROPERTIES ImplementsAsyncFifo WordsSurface SyncImplements AllWritten WritesArrive
