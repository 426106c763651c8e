CONSTANTS
  Evals = {1, 2}
  Layouts <- MCLayouts
  Modes <- MCModes
  MaxErrors = 3
  MaxDepth = 2
SPECIFICATION Spec
INVARIANTS
  UncaughtIsOwed
  CaughtIsSilent
  ExceptionInterrupts
  RecordsExact
