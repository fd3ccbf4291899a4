SPECIFICATION Spec
CONSTANTS
  MemSize = 12
  Slack = 1
  MinFree = 2
  MinCritical = 1
  MsgSize = 1
  ErrSize = 1
  Overhead = 1
  MaxAlloc = 2
  MaxLen = 12
  MaxDepth = 2
  Ptr64 = FALSE
  WordMod = 64
CHECK_DEADLOCK FALSE
PROPERTIES
  GrantAboveHeap
