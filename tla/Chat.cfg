SPECIFICATION ChatFairSpec
CONSTANTS
  Clusters = {A, B}
  Clients = {k1, k2}
  Sends = {p1, p2}
  MaxHistory = 1
  MaxTurns = 2
  MaxChats = 2
  MaxSwitches = 2
  None = None
INVARIANTS ChatTypeOK OneConnection TurnsKept StreamingHasReason
PROPERTIES TurnsEnd
CHECK_DEADLOCK FALSE
