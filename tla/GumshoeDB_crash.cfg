SPECIFICATION Spec
CONSTANTS
  Starts = {0, 1}
  Strings = {a, b}
  Readers = {r1}
  MaxIndex = 0
  Retention = 0
  Faults = {"write", "store", "metadata"}
  MaxClock = 1
  MaxGen = 2
  MaxRows = 2
  MaxMishaps = 2
SYMMETRY Symmetry
INVARIANTS
  MetadataLoadable
  DurableOnDisk
PROPERTY
  ImplementsStore
