CONSTANTS
  Registers = 3
  MaxInsts = 2
  Codes <- Programs
SPECIFICATION FairSpec
INVARIANTS UsersMatch Verified DeadGone ResultKept ThrowsOnUnstored AbortsOnTwoValues
PROPERTY PassesEnd
CHECK_DEADLOCK FALSE
