SPECIFICATION Spec
CONSTANTS
  Ids = {i1, i2, i3}
  Outcomes = {done, failed}
  None = None
  MaxEntries = 2
  Ttl = 1
  MaxGeneration = 2
  MaxNow = 2
SYMMETRY Symmetry
INVARIANTS AnswerIsCurrent OnlyAFullCacheForgets
