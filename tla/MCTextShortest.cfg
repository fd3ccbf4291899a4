SPECIFICATION TextSpec
CONSTANTS
  MemSize = 20
  Slack = 1
  MinFree = 5
  MinCritical = 3
  MsgSize = 1
  ErrSize = 1
  Overhead = 1
  MaxAlloc = 2
  MaxLen = 3
  MaxDepth = 2
  Ptr64 = TRUE
  WordMod = 64
  MAX_TIMERS = 2
  Delay <- MCDelay
  IdleDelay = 2
  MaxSets = 3
  MaxTick = 2
CHECK_DEADLOCK FALSE
INVARIANT
  FewestDigits
