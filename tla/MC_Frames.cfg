SPECIFICATION Spec
CONSTANTS
  S = S
  P = P
  Q = Q
  H = H
  x = x
  y = y
  Zero = Zero
  Neg = Neg
  Stack = S
  Room = 20
  Code <- MCCode
  Pointers <- MCPointers
  Data = {x, y}
  Lower <- MCLower
  Long = 512
  Flags = {Zero, Neg}
  Lists <- MCLists
  Locals = {0, 4}
  Wrap = 64
INVARIANTS TypeOK FramesHold
PROPERTIES ReturnsRestore FaultsKeepState
CHECK_DEADLOCK FALSE
SYMMETRY Symmetric
VIEW Seen
