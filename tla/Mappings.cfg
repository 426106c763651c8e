CONSTANTS
  T = T
  A = A
  B = B
  I = I
  J = J
  NULL = NULL
  Uris = {T, A, B, I, J}
  PluginLists <- Lists
  Givens <- GivenSets
  Targets = {T, A}
  Asserts = FALSE
SPECIFICATION Spec
INVARIANTS
  WellFounded
  Cheapest
  UsedInputsKept
