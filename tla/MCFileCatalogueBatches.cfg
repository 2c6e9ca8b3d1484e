\* A removal of three files, in batches of two, the first of which may fail.
SPECIFICATION Spec
CONSTANTS
  t1 = t1
  t2 = t2
  r1 = r1
  b1 = b1
  c1 = c1
  c2 = c2
  Names <- MCNames
  Tenants = {t1, t2}
  Resources = {r1}
  Bucket <- MCBucket
  Calls <- MCCalls
  Tasks <- MCTasks
  Loaded <- MCLoaded
  PageSize = 2
  BatchLimit = 1
  MaxItems = 2
INVARIANT
  BatchWithinLimit
\* The calls end.
CHECK_DEADLOCK FALSE
