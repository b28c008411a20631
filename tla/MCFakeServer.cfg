SPECIFICATION BenchSpec
CONSTANTS
  c1 = c1
  c2 = c2
  None = None
  Clients = {c1, c2}
  Probe = c1
  StreamIds = {0}
  Psd = Psd
  Tunings = 2
  SeqMod = 2
  MaxInbox = 1
  Resets = FALSE
  Refusals = FALSE
INVARIANTS StreamsOwned OnlyOwnerServes 
PROPERTIES KeepsSession GoneStops ProbeReports
