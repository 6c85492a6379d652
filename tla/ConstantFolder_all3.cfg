CONSTANTS
  N = 3
  W = 2
  Programs <- Functions
SPECIFICATION FairSpec
INVARIANTS NothingMissed RemovedUnused StraightRemovedOnce ValuesKept
PROPERTY FoldingEnds
