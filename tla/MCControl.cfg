SPECIFICATION BenchSpec
CONSTANTS
  Handlers = {h1, h2}
  Rx = {"r1"}
  DefaultRx = "r1"
  Frontends = {"f1"}
  PsdEnable = TRUE
  MaxStale = 1
  Forms = {"good", "short", "foreign", "version", "length"}
  MaxDatagrams = 2
INVARIANTS  OnlyStopEnds
PROPERTIES DoneMeansDone PsdComesUp OwnPayload ThreadsEnd
CHECK_DEADLOCK FALSE
