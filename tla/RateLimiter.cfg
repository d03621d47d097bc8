SPECIFICATION Spec
CONSTANTS
  Clients = {k1, k2}
  Workers = {w1, w2}
  Limit = 2
  Window = 3
  None = None
  MaxClock = 8
  MaxWait = 1
SYMMETRY Symmetry
INVARIANTS TypeOK BurstBound MapStaysFresh
PROPERTY RefusalIsEarned
