\* One search of up to four files in batches of two; the second call sleeps.
SPECIFICATION Spec
CONSTANTS
  f1 = f1
  f2 = f2
  f3 = f3
  f4 = f4
  p = p
  q = q
  Paths = {p, q}
  Path <- MCPath
  Listing <- MCListing
  FileBatch = 1
  ThrottleAt = 1
  MaxSearches = 1
  MaxUnderWay = 0
INVARIANTS
  TypeOK
  FinalAfterBatches
  ShownWhole
  ChartWhole
PROPERTIES
  KeepsPromise
  SearchEnds
\* The user may leave the page as it is.
CHECK_DEADLOCK FALSE
