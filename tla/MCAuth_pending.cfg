SPECIFICATION Spec
CONSTANTS
  s1 = s1
  j1 = j1
  j2 = j2
  Sessions <- OneSession
  Jobs <- TwoJobs
  MaxGrants = 2
  MaxTime = 3
  GrantTTL = 2
  PendingTTL = 2
  MaxEpoch = 0
  Cancels = FALSE
SYMMETRY JobSymmetry
INVARIANTS
  PendingIsAnswered
