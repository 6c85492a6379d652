CONSTANTS
  N = 4
  Graphs <- AllGraphs
SPECIFICATION FairSpec
INVARIANTS TypeOK PostOrderCorrect ThrowsOnLateStart DominatesCorrect FrontiersCorrect
PROPERTY AnalysisEnds
