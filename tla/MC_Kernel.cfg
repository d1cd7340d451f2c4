CONSTANTS
  Page = 1
  Total = 9
  NSeg = 5
  Files <- MCFiles
  Missing = "nosuch"
  Init_x = "init"
  Sections <- MCSections
  Start <- MCStart
  Refused = {"tool"}
  PidLimit = 12
  Garbage <- MCGarbage
SPECIFICATION Spec
INVARIANTS TypeOK NoStaleMapping RefsAreMappings ObjectRefsAreSegments CacheIsUsable SegmentsApart
PROPERTY ImagesAreKept
CHECK_DEADLOCK FALSE
