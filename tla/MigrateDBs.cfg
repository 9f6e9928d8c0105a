SPECIFICATION Spec
CONSTANTS
  Segments = 3
  Worker = {w1, w2}
  flushSegments = 2
  None = None
INVARIANT NothingLeftBehind
