SPECIFICATION LiveFairSpec
CONSTANTS
  Clusters = {A, B}
  Sockets = {s1, s2, s3}
  MaxSwitches = 3
  MaxInbox = 2
  None = None
INVARIANTS LiveTypeOK NeverGivesUp LeaksBounded NoLostUpdate
PROPERTIES UpdatesArrive
