CONSTANTS
  W = 3
  Registers <- Regs
  Stride = 1
  Instructions <- Insts
  MaxSteps = 3
SPECIFICATION Spec
PROPERTY ImplementsX86
CHECK_DEADLOCK FALSE
