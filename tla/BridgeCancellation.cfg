CONSTANTS
  Target = t
  Requests = {r1, r2}
  Ops = {"ask"}
  None = None
SPECIFICATION Spec
CHECK_DEADLOCK FALSE
INVARIANT CancellationIsNotKept
