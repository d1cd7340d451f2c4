CONSTANTS
  MemTop = 450
  MaxForks = 2
SPECIFICATION Spec
INVARIANTS TypeOK OnePending UserStackIsBalanced ContextsAreIntact
PROPERTIES FramesAreAStack HandlersEnd
CHECK_DEADLOCK FALSE
