SPECIFICATION FairSpec
CONSTANTS
  MaxSubmitAttempts = 2
  PasteSettles = FALSE
  None = None
  MaxSessions = 2
INVARIANT EnterGoesWhereContentWent
CHECK_DEADLOCK FALSE
