SPECIFICATION Spec
CONSTANTS
  Starts = {0}
  Strings = {a}
  Readers = {r1}
  MaxIndex = 1
  Retention = 0
  Faults = {}
  MaxClock = 0
  MaxGen = 2
  MaxRows = 2
  MaxMishaps = 1
INVARIANT
  RestartSucceeds
