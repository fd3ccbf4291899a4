SPECIFICATION StringsSpec
CONSTANTS
  Str <- Blocks
  MayHold <- Uses
  Content = {1, 2, 3, 4, 5, 6, 7}
  NumLike = {3}
  RomAtoms = {7}
  Freed = 99
CHECK_DEADLOCK FALSE
INVARIANTS
  TableSorted
