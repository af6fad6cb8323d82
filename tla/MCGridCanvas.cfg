SPECIFICATION Spec
CONSTANTS
  r1 = r1
  r2 = r2
  r3 = r3
  r4 = r4
  colId = colId
  colNote = colNote
  colA = colA
  colB = colB
  colC = colC
  MinSize = 1
  MaxSize = 8
  Handle = 1
  Wrapped = {colNote}
  Linked = {}
  Bordered = {colNote, colC}
  MaxInflow = 1
  RowId = {r1, r2, r3, r4}
  Columns <- MCColumns
  Edits <- MCEdits
  Scenes <- MCScenes
  Inserted = {r4}
  Pixels = {5, 7}
  Scrolled <- MCScrolled
  Asked <- MCAsked
  Marks <- MCMarks
  Peers <- MCPeers
  DefaultHeight = 1
  DefaultWidth = 2
  FrozenRows = 1
  FrozenColumns = 1
  Header = 1
  Scrollbar = 1
  OverX = 0
  OverY = 1
  Screens <- MCScreens
  MaxSteps = 3
INVARIANT
  PictureIsOfTheDocument
  SizesAreRight
  AskedForIsVisible
PROPERTY
  AnchorHolds
CHECK_DEADLOCK FALSE
