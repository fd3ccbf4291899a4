SPECIFICATION MarkSpec
CONSTANTS
  NBlocks = 4
  Imm <- Imm0
  GsSize = 2
  Blocks <- SomeBlocks
  Roots <- SomeRoots
  Str <- MCStr
  MayHold <- MCMayHold
  Content <- MCContent
  NumLike = {1}
  RomAtoms = {7}
  Freed = 99
CHECK_DEADLOCK FALSE
INVARIANTS
  TypesOK
  Tricolor
  MarkExact
  TableSorted
  Canonical
PROPERTY
  MarkTerminates
