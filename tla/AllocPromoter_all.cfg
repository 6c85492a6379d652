CONSTANTS
  N = 5
  Functions <- All
SPECIFICATION FairSpec
CHECK_DEADLOCK FALSE
INVARIANTS PromotionCorrect DefinedLoadsReplaced PhisFilled
PROPERTY PassEnds
