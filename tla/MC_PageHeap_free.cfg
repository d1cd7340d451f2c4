CONSTANTS
  Page = 2
  Total = 6
  MaxBytes = 5
  Garbage <- MCGarbage
SPECIFICATION Spec
INVARIANT LiveBlocksNotFree
CHECK_DEADLOCK FALSE
