SPECIFICATION Spec
CONSTANTS
  MaxSubmitAttempts = 3
  PasteSettles = TRUE
  None = None
  MaxSessions = 3
INVARIANTS TypedOnce ReportMatchesTyping AbortIsPrompt
PROPERTIES NothingTypedAfterAbort
CHECK_DEADLOCK FALSE
