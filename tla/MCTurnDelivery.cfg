SPECIFICATION FairSpec
CONSTANTS
  MaxSubmitAttempts = 2
  PasteSettles = TRUE
  None = None
  MaxSessions = 2
  TextsIn = {"echo", "fatal", "output", "short"}
  FramesIn = {"none", "opening", "malformed", "completed", "failed"}
INVARIANTS NoOrphanTurn AnswersAreEarned NoAnswerLeftWaiting DiagnosisIsTrue
PROPERTIES NothingTypedForADeadTurn ContractFairSpec
CHECK_DEADLOCK FALSE
