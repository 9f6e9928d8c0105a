SPECIFICATION FairSpec
CONSTANTS
  Starts = {0}
  Strings = {a, b}
  Readers = {r1}
  MaxIndex = 1
  Retention = 0
  Faults = {"write", "store", "metadata"}
  MaxClock = 1
  MaxGen = 3
  MaxRows = 2
  MaxMishaps = 1
PROPERTIES
  FlushReturns
  EventuallyDurable
