CONSTANTS
  Programs <- MCPrograms
  Functions <- MCFunctions
  Inputs <- MCInputs
  CAPTURE_COUNT_MAX = 3
  REGISTER_COUNT_MAX = 4
  STACK_SLACK = 8
  StackSize = 300
SPECIFICATION LibSpec
INVARIANT OneKeyPerNumber
