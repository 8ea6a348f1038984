CONSTANTS
  Target = t
  Requests = {r1, r2}
  Ops = {"send"}
  None = None
SPECIFICATION FairSpec
CHECK_DEADLOCK FALSE
PROPERTY ModelFailureIsMarked
