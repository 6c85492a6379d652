CONSTANTS
  N = 5
  Sources <- Functions5
SPECIFICATION FairSpec
INVARIANTS FlowKept BlockUsersExact PhisMatch RemovedUnused
PROPERTY SimplifyingEnds
