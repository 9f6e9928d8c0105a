SPECIFICATION Spec
CONSTANTS
  Starts = {0, 1}
  Strings = {a, b}
  Readers = {r1, r2}
  MaxIndex = 1
  Retention = 0
  Faults = {"close"}
  MaxClock = 2
  MaxGen = 2
  MaxRows = 2
  MaxMishaps = 1
SYMMETRY Symmetry
INVARIANTS
  SnapshotIntact
  OldTableRetired
  DecodesAlike
  IndexesDecode
  NothingLost
PROPERTY
  RepeatableRead
