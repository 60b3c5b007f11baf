CONSTANTS
  s1 = s1
  s2 = s2
  w1 = w1
  Share = {s1, s2}
  Worker = {w1}
  Restorer = Restorer
  Cap = 1
  MaxLives = 2
SPECIFICATION Spec
SYMMETRY Alike
INVARIANTS OneHome PendingIsRetried FileReadable FileCurrent RestartKeepsShares
CHECK_DEADLOCK FALSE
