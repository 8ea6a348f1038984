SPECIFICATION FairSpec
CONSTANTS
  k1 = k1
  k2 = k2
  r1 = r1
  r2 = r2
  r3 = r3
  r4 = r4
  None = None
  Keys = {k1, k2}
  Calls = {r1, r2, r3, r4}
  Target <- MCTarget
INVARIANT NoLockLeak
PROPERTIES SerialSpec SerialFairSpec
CHECK_DEADLOCK FALSE
