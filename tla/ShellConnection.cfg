SPECIFICATION LinkFairSpec
CONSTANTS
  Clusters = {A, B}
  Sockets = {s1, s2, s3}
  MaxAttempts = 5
  None = None
INVARIANTS LinkTypeOK OneLiveSocket IndicatorTruthful ScreenOfCluster
PROPERTIES ImplementsLink AttemptSucceeds
