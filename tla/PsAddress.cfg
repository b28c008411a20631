SPECIFICATION Spec
CONSTANTS
  c1 = c1
  c2 = c2
  None = None
  Clients = {c1, c2}
  Tunings = 2
  LineSize = 3
INVARIANTS OwnAddress
