SPECIFICATION Spec
CONSTANTS
  Nil = Nil
  None = None
  word = word
INVARIANTS
  AnswerMeans
  RowsKeepMeaning
  MergeExact
  TreeIsMap
  ConfigUsable
  
CHECK_DEADLOCK FALSE
