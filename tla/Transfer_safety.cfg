CONSTANTS
  v1 = v1
  v2 = v2
  Val = {v1, v2}
  None = None
  Chunks = 3
  HashWindow = 2
  InFlight = 2
  MaxAttempts = 1
  SaveEvery = 2
  Pieces = 2
  MaxRuns = 3
  MaxEdits = 1
  MaxRestarts = 1
  MaxDeletes = 1
SPECIFICATION Spec
SYMMETRY Versions
INVARIANTS TypeOK ChunkAccounting NeverStuck Integrity GiveUpOnlyIfEdited UnconfirmedOnlyOnResume
CHECK_DEADLOCK FALSE
