CONSTANTS
  q1 = q1
  w1 = w1
  w2 = w2
  Stream = {q1, w1, w2}
  Wt = {w1, w2}
  NoStream = NoStream
SPECIFICATION AcceptFairSpec
INVARIANTS StreamLives
PROPERTIES HandlersEnd
CHECK_DEADLOCK FALSE
