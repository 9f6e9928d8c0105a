SPECIFICATION Spec
CONSTANTS
  None = None
  Auto = Auto
PROPERTY
  NobodyLeftWaiting
CHECK_DEADLOCK FALSE
