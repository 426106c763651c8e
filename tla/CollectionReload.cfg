SPECIFICATION Spec
CONSTANTS
  A = A
  B = B
  D = D
  label1 = label1
  label2 = label2
  Colls <- MCColls
  Data <- MCData
  Entries <- MCEntries
  Sources <- MCSources
  MaxOwn = 1
  MaxLost = 2
INVARIANT DecrefLive
CHECK_DEADLOCK FALSE
