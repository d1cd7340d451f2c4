SPECIFICATION Spec
CONSTANTS
  Sources <- MCSources
  Row = 3
  Garbage <- MCGarbage
INVARIANTS
  TypeOK
  DecodesAsWritten
  DataReadsBack
  ReferencesLand
  UndefinedIsReported
  DesyncsAreKnown
  ImageIsProgram
  AbortMeansOverlap
CHECK_DEADLOCK FALSE
