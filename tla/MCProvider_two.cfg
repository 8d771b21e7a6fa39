SPECIFICATION Spec
CONSTANTS
  p1 = p1
  p2 = p2
  w1 = w1
  w2 = w2
  Providers <- TwoProviders
  Workers <- TwoWorkers
  WakeModes = {"Off"}
  AttemptLimit = 1
  TransportLimit = 1
  MaxGeneration = 3
  MaxRequest = 1
  MaxVersion = 2
  StorageFaults = TRUE
SYMMETRY FullSymmetry
INVARIANTS
  LatchHolds
  NoRetryAfterFailure
PROPERTIES
  NoStaleSubmission
  TokensAreUnique
  ImplementsOneSubmission
