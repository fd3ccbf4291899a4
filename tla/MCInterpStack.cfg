CONSTANTS
  Programs <- MCPrograms
  Functions <- MCFunctions
  MaxOdd = 3
SPECIFICATION Spec
INVARIANT WithinStackSize
