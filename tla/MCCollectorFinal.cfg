SPECIFICATION Spec
CONSTANTS
  StartHeaps <- MCHeaps
CHECK_DEADLOCK FALSE
INVARIANT
  EveryFinalizerCalled
