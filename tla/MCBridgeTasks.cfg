CONSTANTS
  Target = t
  Requests = {r1, r2}
  Ops = {"send", "ask", "wait", "run"}
  None = None
SPECIFICATION FairSpec
VIEW View
CHECK_DEADLOCK FALSE
INVARIANTS
  OneOpenTurn
  PendingIsLive
  BusyMeansOpenTurn
  NoOldAnswerWhileRunning
  UnregisteredHasNoTask
  OutcomeRecordedOnce
PROPERTIES
  EveryRequestIsAnswered
  AcceptedTaskEnds
