CONSTANTS
  q1 = q1
  q2 = q2
  r1 = r1
  Session = {q1, r1}
  Rtc = {r1}
  Chunks = 1
  Cap = 1
SPECIFICATION Spec
INVARIANTS CapAccounting StopClosesSessions
PROPERTIES KeepsContract
CHECK_DEADLOCK FALSE
