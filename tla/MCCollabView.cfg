SPECIFICATION VSpec
CONSTANTS
  alice = alice
  others = others
  clear1 = clear1
  paste1 = paste1
  insert1 = insert1
  delete1 = delete1
  push = push
  drop = drop
  r1 = r1
  r2 = r2
  r3 = r3
  r4 = r4
  colA = colA
  v1 = v1
  v2 = v2
  Top = Top
  None = None
  Blank = Blank
  Client = {alice, others}
  User = {alice}
  Column = {colA}
  ColumnOrder <- MCColumnOrder
  OpId = {clear1, paste1, insert1, delete1, drop, push}
  Denied = {insert1}
  Edit <- MCEdit
  Author <- MCAuthor
  InitialDocument <- MCSheet
  SnapshotThreshold = 1000
  MaxOfflinePending = 100
  MaxBreaks = 1
  MaxRestarts = 0
  MaxFaults = 0
  MaxFrames = 4
  MaxActs = 1
INVARIANT
  DisplayFollowsDocument
PROPERTY
  SelectionFollowsItsRows
CONSTRAINT
  FewAtOnce
CHECK_DEADLOCK FALSE
