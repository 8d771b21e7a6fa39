SPECIFICATION FairSpec
CONSTANTS
  None = None
  MaxSessions = 2
  MaxCalls = 2
  Steps = 2
  OptionalSteps = {2}
  PoseReady = 2
  Samples = 2
  MaxFrames = 3
INVARIANTS
  OneRecording
  OnlyFinishedTemplates
  PageTellsTruth
PROPERTIES
  PageSettles
  RecordingEnds
CHECK_DEADLOCK FALSE
