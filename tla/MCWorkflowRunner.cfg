\* One submit of a model of two source files with one thread for them, pages of two
\* objects and other model directories on either side.
SPECIFICATION Spec
CONSTANTS
  f1 = f1
  f2 = f2
  ka = ka
  kA = kA
  kb = kb
  kn = kn
  kx = kx
  a = a
  A = A
  b = b
  w42 = w42
  x = x
  NaN = NaN
  Files = {f1, f2}
  ListLimit = 2
  Keys = {ka, kA, kb, kn, kx}
  KeyRank <- MCKeyRank
  Words = {a, A, b, w42, x}
  Parts <- MCParts
  Lower <- MCLower
  Number <- MCNumber
  Segments <- MCSegments
  Foreign <- MCForeign
  Slices <- MCSlices
  Threads = 1
  PageSize = 2
  UtfOrder = TRUE
  MaxRuns = 1
INVARIANTS
  TypeOK
  FlowsPartitionListing
  FlowsAreGroups
  FlowTimesOrdered
  HistoOfWholeBuild
  StatusDrained
PROPERTIES
  RunEnds
CHECK_DEADLOCK FALSE
