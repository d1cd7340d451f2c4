CONSTANTS
  Byte = 2
  Regs = {0, 1, 2}
  Values <- MCValues
  Programs <- MCPrograms
  MaxShift = 7
  IntSign = 2048
SPECIFICATION Spec
INVARIANTS TypeOK OverflowIsFlagged WideArithmetic CompareDecides RotatesReturn
  DivisionIsExact
PROPERTIES RefusedWritesNothing
CHECK_DEADLOCK FALSE
