CONSTANTS
  q1 = q1
  q2 = q2
  r1 = r1
  Session = {q1, q2}
  Rtc = {}
  Chunks = 0
  Cap = 2
SPECIFICATION FairSpec
PROPERTIES SessionsEnd ExhaustedLeaves
CHECK_DEADLOCK FALSE
