CONSTANTS
  Page = 2
  Total = 6
  MaxBytes = 7
  Garbage <- MCGarbage
SPECIFICATION Spec
INVARIANTS TypeOK HeapTiled PlaceIsTheLoop LiveBlocksKept
PROPERTY NewBlockWasFree
CHECK_DEADLOCK FALSE
