SPECIFICATION FairSpec
CONSTANTS
  Callers = {a1, a2}
  Connectors = {k1}
  Beats = {h1, h2}
  Conns = {n1, n2}
  MaxStale = 1
  MaxIds = 5
INVARIANTS OwnAnswers  
PROPERTIES ResyncByClosing CallsEnd
