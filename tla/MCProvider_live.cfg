SPECIFICATION FairSpec
CONSTANTS
  p1 = p1
  p2 = p2
  w1 = w1
  w2 = w2
  Providers <- OneProvider
  Workers <- TwoWorkers
  WakeModes = {"Triggered", "Silent"}
  AttemptLimit = 2
  TransportLimit = 1
  MaxGeneration = 2
  MaxRequest = 2
  MaxVersion = 1
  StorageFaults = FALSE
INVARIANT MaterialOnlyWhileAdvised
PROPERTIES
  UnAdviseStopsWorkers
  RoundsEnd
  SilentRetriesFaces
  FailedRoundListens
