SPECIFICATION FairSpec
CONSTANTS
  s1 = s1
  j1 = j1
  j2 = j2
  Sessions <- OneSession
  Jobs <- TwoJobs
  MaxGrants = 2
  MaxTime = 2
  GrantTTL = 1
  PendingTTL = 2
  MaxEpoch = 1
  Cancels = TRUE
INVARIANTS
  GrantsSpentOnce
PROPERTIES
  RunningEnds
  OldPolicyNeverAuthorizes
  ImplementsOneTimeGrants
