SPECIFICATION Spec
CONSTANTS
  r1 = r1
  r3 = r3
  None = None
  Runs = {r1, r3}
  GoRuns = {r3}
  EstateMode = TRUE
  Concurrent = FALSE
  BuildCalls = 2
  MaxRejected = 1
  MaxLost = 1
  MaxDeaths = 1
  MaxEdits = 1
SYMMETRY Symmetry
CHECK_DEADLOCK FALSE
INVARIANT TypeOK
INVARIANT DoneMeansInstalled
PROPERTY BindIsLast
PROPERTY RollbackRestoresProfile
PROPERTY CustomProfileIsKept
