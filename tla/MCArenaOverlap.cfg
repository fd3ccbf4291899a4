SPECIFICATION Spec
CONSTANTS
  MemSize = 20
  Slack = 1
  MinFree = 5
  MinCritical = 3
  MsgSize = 1
  ErrSize = 1
  Overhead = 1
  MaxAlloc = 2
  MaxLen = 8
  MaxDepth = 2
  Ptr64 = TRUE
  WordMod = 64
CHECK_DEADLOCK FALSE
INVARIANT
  NoOverlap
