\* The loading of the page and two actions of the user.
SPECIFICATION Spec
CONSTANTS
  text = text
  archive = archive
  storage = storage
  noname = noname
  model = model
  any = any
  p = p
  NoModel = NoModel
  NoName = noname
  MaxActions = 3
  Files <- MCFiles
  Archives <- MCArchives
  Listed <- MCListed
  Models <- MCModels
  Pieces = {any, p}
  AnyPiece = any
  Edits <- MCEdits
  Others <- MCOthers
  Saved <- MCSaved
INVARIANTS
  TypeOK
  SpinnerTellsTruth
  LatestShown
  LoadedQueryKept
PROPERTIES
  PageSettles
\* The user may leave the page as it is.
CHECK_DEADLOCK FALSE
