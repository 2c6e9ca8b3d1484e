\* One source file of up to three lines: two correlations, the second run of the
\* first one, and every order of two times.
SPECIFICATION Spec
CONSTANTS
  Files = {f1}
  Keys = {ka, kb}
  NoKey = nokey
  Times <- TwoTimes
  Ops <- WithAndWithout
  MaxLines = 3
INVARIANTS
  TypeOK
  NamesOrdered
  CorrFileIsASegment
  CompleteWithoutFailure
  NameSpansLines
  DatDescribesSegment
PROPERTIES
  EveryCallEnds
CHECK_DEADLOCK FALSE
