SPECIFICATION Spec
CONSTANTS
  Absent = Absent
  None = None
  w1 = w1
  w2 = w2
  s1 = s1
  s2 = s2
INVARIANTS
  RouterExact
  SegmentsAccounted
  BalancedExactly
  DurableKept
  KeptUnlessRaced
  CleanRepairs
  MessagesSent
PROPERTIES
  NothingPremature
  
CHECK_DEADLOCK FALSE
