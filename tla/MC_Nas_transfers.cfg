SPECIFICATION Spec
CONSTANTS
  Sources <- MCSources
  Row = 3
  Garbage <- MCGarbage
INVARIANT TransfersFollowTheTable
CHECK_DEADLOCK FALSE
