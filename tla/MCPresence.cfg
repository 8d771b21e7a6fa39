SPECIFICATION FairSpec
CONSTANTS
  s1 = s1
  s2 = s2
  m1 = m1
  m2 = m2
  j1 = j1
  Sessions <- TwoSessions
  Monitors <- TwoMonitors
  AuthJobs <- OneJob
  MaxCommands = 2
  StartFaults = TRUE
  SettingsChange = TRUE
  TakeTurns = TRUE
INVARIANT LeaseConsistent
INVARIANT MonitorsOwned
INVARIANT LockedIsUnwatched
PROPERTY UnlockIsWatched
PROPERTY LockedFreesCamera
PROPERTY ShutdownStopsMonitors
