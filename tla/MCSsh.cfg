SPECIFICATION Spec
CONSTANTS
  None = None
  Auto = Auto
INVARIANTS
  ChannelReliable
  KeysAgree
  OutcomesAgree
  SessionFaithful
  FilesFaithful
CHECK_DEADLOCK FALSE
