CONSTANTS
  v1 = v1
  v2 = v2
  Val = {v1, v2}
  None = None
  Chunks = 3
  HashWindow = 2
  InFlight = 2
  MaxAttempts = 1
  SaveEvery = 2
  Pieces = 1
  MaxRuns = 2
  MaxEdits = 0
  MaxRestarts = 0
  MaxDeletes = 0
SPECIFICATION Spec
SYMMETRY Versions
INVARIANTS Confirmed
CHECK_DEADLOCK FALSE
