SPECIFICATION Spec
CONSTANTS
  d1 = d1
  d2 = d2
  r1 = r1
  r2 = r2
  None = None
  Key = "g"
  Files <- SomeFiles
  Device <- TwoDevices
  Property <- OneProperty
  Attr <- OneAttr
  TypeOf <- Types
  Entry <- SomeEntries
  Registration <- TwoRuns
  MaxAttempts = 2
  ListLimit = 1
  MaxEdits = 1
SYMMETRY Runs
INVARIANTS
  RegistryInv
  RegistrationHolds
  VerifyIsRight
  CheckAgreesWithDags
PROPERTIES
  InitKeepsState
CHECK_DEADLOCK FALSE
