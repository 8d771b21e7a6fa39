SPECIFICATION FairSpec
CONSTANTS
  None = None
  auth1 = auth1
  presence1 = presence1
  c1 = c1
  c2 = c2
  Users <- TwoUsers
  Children <- TwoChildren
  Auth = auth1
  Presence = presence1
  Backends = 2
  MaxAuthFrames = 3
  MaxFailures = 2
  RequiredMatches = 2
  SpoofShare <- Quarter
INVARIANTS
  AnswersMatchRequests
  DeviceExclusive
  AcceptsOnEvidence
  NoCaptureAfterRevocation
PROPERTIES
  RoundsReleaseLease
  RevocationReturns
