SPECIFICATION FairSpec
CONSTANTS
  Clients = {c1, c2, c3}
  c1 = c1
  c2 = c2
  c3 = c3
  Batch <- MCBatch
  Malformed = {c3}
  MaxSignals = 2
INVARIANTS InsertKept ExitSavesAnswered
PROPERTIES SavedInTheEnd AnswersAndStops
CHECK_DEADLOCK FALSE
