CONSTANTS
  MaxInsts = 3
  Codes <- Programs
SPECIFICATION Spec
INVARIANTS CodeDecoded FlowKept BlocksClosed
CHECK_DEADLOCK FALSE
