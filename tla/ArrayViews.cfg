SPECIFICATION Spec
CONSTANTS
  Shapes <- MCShapes
  Slices <- MCSlices
  AllCalls = FALSE
  MaxOps = 3
INVARIANTS ViewExact IterationExact
CHECK_DEADLOCK FALSE
