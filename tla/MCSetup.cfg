SPECIFICATION Spec
CONSTANTS
  None = None
  d1 = d1
  d2 = d2
  k1 = k1
  k2 = k2
  svc = svc
  tool = tool
  Dirs <- TwoDirs
  Keys <- TwoKeys
  Openers <- TwoOpeners
  Service = svc
  Tool = tool
  Operations <- ServedOperations
  MaxOperations = 3
  LegacyDir = d1
  OverrideDir = d2
  InstallerEnv <- SomeEnv
SYMMETRY KeySymmetry
INVARIANTS
  StoreAgrees
  CredentialStaysInUse
  RegisteredBinariesExist
