CONSTANTS
  N = 4
  Graphs <- ReachableGraphs
SPECIFICATION Spec
INVARIANT BuildsIdomTree
