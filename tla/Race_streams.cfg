CONSTANTS
  c1 = c1
  c2 = c2
  i1 = i1
  Cand = {c1, c2, i1}
  Incoming = {i1}
  None = None
SPECIFICATION FairSpec
INVARIANTS LosersClosed OwnCancelHarmless
PROPERTIES RaceEnds
CHECK_DEADLOCK FALSE
