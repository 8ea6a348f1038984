SPECIFICATION FairSpec
CONSTANTS
  Requests = {r1, r2, r3, r4}
  Limit = 2
INVARIANTS PermitsConserved WorkConserving
PROPERTIES NoOvertaking EveryWaiterAnswered
CHECK_DEADLOCK FALSE
