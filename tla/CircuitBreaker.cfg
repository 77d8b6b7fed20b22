SPECIFICATION FairSpec
CONSTANTS
  Callers = {c1, c2, c3}
  FailureThreshold = 5
  HalfOpenMaxCalls = 2
  Outcomes = {"ok", "retryable", "permanent"}
INVARIANTS TypeOK ProbesLimited HalfOpenIsProbing
PROPERTIES ServedAgain
