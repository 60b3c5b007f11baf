CONSTANTS
  d1 = d1
  d2 = d2
  d3 = d3
  d4 = d4
  k1 = k1
  k2 = k2
  Daemon = {d1, d2, d3, d4}
  Client = {k1, k2}
  None = None
SPECIFICATION Spec
SYMMETRY Alike
INVARIANTS Undisturbed RestartReplaces
CHECK_DEADLOCK FALSE
