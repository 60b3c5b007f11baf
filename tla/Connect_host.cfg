CONSTANTS
  OnlineCap = 2
  RtcCap = 1
  MaxRtc = 2
  MaxFlaps = 2
SPECIFICATION FairSpec
INVARIANTS AskUnderWay EndUnderWay
PROPERTIES HostIsAsked EndIsHeard GoroutineEnds
CHECK_DEADLOCK FALSE
