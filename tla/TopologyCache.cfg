SPECIFICATION Spec
CONSTANTS
  Keys = {"v1", "v2"}
  Kinds = {"pod"}
  Rebuilds = {"b1", "b2"}
  MaxChanges = 2
  MaxFailures = 1
  Requests = {"q1"}
  None = None
INVARIANTS TypeOK NoLostChange CacheFollows StaleHasReason
PROPERTIES BackOnlyWhenCrossed Settles
