SPECIFICATION Spec
CONSTANTS
  Values <- MCValues
  Used <- MCUsed
  MaxTokens = 7
INVARIANTS ValueExact AcceptedIsBalanced
CHECK_DEADLOCK FALSE
