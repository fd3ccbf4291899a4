SPECIFICATION HeapSpec
CONSTANTS
  StartHeaps <- MCHeaps
  Key = {1, 2, 3}
  PropVal = {v, w}
  RomKey = {1}
  Hash <- MCHash
  Prealloc = {5}
  RomProps <- MCRomProps
  MaxSlots = 8
  Uninit = Uninit
  Undef = Undef
  Closure = {1, 2}
  VarRef = {1, 2}
  Main = 0
  Act = {1, 2}
  Var = {1, 2}
  Val = {v}
  Initial = undefined
  MaxDepth = 2
  Captures <- MCCaptures
CHECK_DEADLOCK FALSE
INVARIANTS
  TypesOK
  FinalizedOnlyDead
  GraphPreserved
  Collected
  TableExact
  RefsExact
PROPERTIES
  IsOrderedMap
  SharesVariables
