SPECIFICATION Spec
CONSTANTS
  r1 = r1
  r2 = r2
  r3 = r3
  None = None
  Runs = {r1, r2, r3}
  GoRuns = {r3}
  EstateMode = TRUE
  Concurrent = TRUE
  BuildCalls = 2
  MaxRejected = 1
  MaxLost = 0
  MaxDeaths = 0
  MaxEdits = 0
SYMMETRY Symmetry
CHECK_DEADLOCK FALSE
INVARIANT BuildsOwnFlow
PROPERTY RollbackTakesOwn
