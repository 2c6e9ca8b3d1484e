\* Two source files with lines of the same correlations and one time, so that their names collide.
SPECIFICATION Spec
CONSTANTS
  Files = {f1, f2}
  Keys = {ka, kb}
  NoKey = nokey
  Times <- OneTime
  Ops <- With
  MaxLines = 2
INVARIANTS
  LinesAccountedFor
  LinesStoredOnce
  CorrHasDat
SYMMETRY FileSymmetry
CHECK_DEADLOCK FALSE
