\* The same instance: two runs of one correlation with the same times.
SPECIFICATION Spec
CONSTANTS
  Files = {f1}
  Keys = {ka, kb}
  NoKey = nokey
  Times <- TwoTimes
  Ops <- WithAndWithout
  MaxLines = 3
INVARIANTS
  NoLineLost
CHECK_DEADLOCK FALSE
