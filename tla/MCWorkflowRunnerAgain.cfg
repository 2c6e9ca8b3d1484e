\* Two submits of a model of one source file, side by side or one after the other: the
\* first may be stopped or leave its handler writing.  Pages of one object.
SPECIFICATION Spec
CONSTANTS
  f1 = f1
  f2 = f2
  ka = ka
  kA = kA
  kb = kb
  kn = kn
  kx = kx
  a = a
  A = A
  b = b
  w42 = w42
  x = x
  NaN = NaN
  Files = {f1}
  ListLimit = 2
  Keys = {ka, kA, kb, kn, kx}
  KeyRank <- MCKeyRank
  Words = {a, A, b, w42, x}
  Parts <- MCParts
  Lower <- MCLower
  Number <- MCNumber
  Segments <- MCOneSegments
  Foreign = {}
  Slices <- MCTwoRuns
  Threads = 1
  PageSize = 1
  UtfOrder = TRUE
  MaxRuns = 2
INVARIANTS
  BuildComplete
VIEW MCView
CHECK_DEADLOCK FALSE
