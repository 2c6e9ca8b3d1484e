\* Two searches of a file, the second submitted at any time.
SPECIFICATION Spec
CONSTANTS
  f1 = f1
  f2 = f2
  f3 = f3
  f4 = f4
  p = p
  q = q
  Paths = {p, q}
  Path <- MCOnePath
  Listing <- MCOneFile
  FileBatch = 1
  ThrottleAt = 1
  MaxSearches = 2
  MaxUnderWay = 9
INVARIANTS
  CountsBatches
PROPERTIES
  KeepsPromise
\* The user may leave the page as it is.
CHECK_DEADLOCK FALSE
