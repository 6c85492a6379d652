CONSTANTS
  N = 3
  W = 1
  Programs <- StraightConnections
SPECIFICATION Spec
INVARIANT RemovesWhatIsThere
