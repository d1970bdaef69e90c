SPECIFICATION Spec
CONSTANTS
  r1 = r1
  r2 = r2
  None = None
  Runs = {r1, r2}
  GoRuns = {}
  EstateMode = FALSE
  Concurrent = FALSE
  BuildCalls = 2
  MaxRejected = 0
  MaxLost = 0
  MaxDeaths = 1
  MaxEdits = 0
SYMMETRY Symmetry
CHECK_DEADLOCK FALSE
PROPERTY RefusesOnlyDrift
