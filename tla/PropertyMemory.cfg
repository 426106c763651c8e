SPECIFICATION Spec
CONSTANTS
  Insts = {x1, x2}
  Metas <- MCMetas
  Value <- MCValue
  Failing <- MCFailing
  Elems = {0, 1}
  MaxDim = 2
  MaxMemb = 16
  IntHalf = 128
INVARIANTS MemoryExact CallsSafe
PROPERTY ResizeKeeps
SYMMETRY MCSymmetry
CHECK_DEADLOCK FALSE
