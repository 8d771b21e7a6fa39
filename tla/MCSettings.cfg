SPECIFICATION Spec
CONSTANTS
  c1 = c1
  c2 = c2
  t1 = t1
  t2 = t2
  Cameras <- TwoCameras
  Templates <- TwoTemplates
  MaxCalls = 3
  Index = Index
  None = None
SYMMETRY Alike
INVARIANT PermissionHasConsent
INVARIANT IssuerIsSaved
INVARIANT PageShowsSaved
