CONSTANTS
  ChunkSize = 3
  MaxMessage = 15
  MaxHashCount = 2
  MaxErrorMsgLen = 2
  SumSize = 2
  AuthSize = 2
  MaxFiles = 3
  MaxSize = 5
  MaxOther = 1
SPECIFICATION Spec
INVARIANTS Copied NothingRefused HeardAsSaid
CHECK_DEADLOCK FALSE
