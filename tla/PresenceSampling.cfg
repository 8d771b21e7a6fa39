SPECIFICATION Spec
CONSTANTS
  NoFaceRequired = 3
  UnknownRequired = 2
  AbsentRequired = 3
  MaxCount = 3
  Sessions = {s1, s2}
  Watchable = {s1}
  QuietThreshold = 2
  MaxAge = 1
  None = None
INVARIANTS
  LockIffConfirmed
  RoundsFollowStreaks
PROPERTIES
  SamplesFollowQuiet
