CONSTANTS
  Blocks = 4
  Functions <- Shapes
  W = 3
  Byte = 2
SPECIFICATION Spec
INVARIANTS CodeCorrect OnlyEmittable TerminatorsKept
