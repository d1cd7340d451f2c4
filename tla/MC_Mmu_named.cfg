CONSTANTS
  Lines = 2
  NSeg = 3
  MaxSeg = 3
  MaxSize = 1
  MaxLen = 2
  MaxOff = 1
  Wrap = 8
  Offsets <- MCOffsets
  Mems = {"m1", "m2"}
  Entries <- MCEntries
SPECIFICATION Spec
INVARIANT NamedSegmentIsUsed
CHECK_DEADLOCK FALSE
