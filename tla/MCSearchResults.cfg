\* A range of three minutes and a half, in two buckets of two minutes.
SPECIFICATION Spec
VIEW MCView
CONSTANTS
  f1 = f1
  f2 = f2
  f3 = f3
  red = red
  blue = blue
  size = size
  NoField = NoField
  Batches <- MCBatches
  Tags <- MCTags
  Tag <- MCTag
  Fields = {size}
  Lines <- MCLines
  MaxLines <- MCMaxLines
  From = 1
  To = 7
  Minute = 2
  Delta = 4
  Limit = 3
INVARIANTS
  TypeOK
  ChartCountsEvents
  MergedWhole
\* The search is over when both answers are there.
CHECK_DEADLOCK FALSE
