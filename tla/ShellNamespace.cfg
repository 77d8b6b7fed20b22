SPECIFICATION SyncSpec
CONSTANTS
  Contexts = {A, B}
  Namespaces = {n1, n2}
  Pollers = {p1, p2, p3}
  MaxMounts = 2
  MaxPicks = 2
  MaxTyped = 1
  NoOne = NoOne
INVARIANTS SyncTypeOK OneLoop
PROPERTIES AgreementLasts
\* The bounds let the panel be opened, shown another cluster and used so often.
CHECK_DEADLOCK FALSE
