CONSTANTS
  N = 5
  Functions <- Siblings
SPECIFICATION Spec
CHECK_DEADLOCK FALSE
INVARIANT LoadsGetReachingDef
