SPECIFICATION USpec
CONSTANTS
  alice = alice
  host = host
  refused = refused
  write1 = write1
  write2 = write2
  undo1 = undo1
  undo2 = undo2
  redo1 = redo1
  foreign = foreign
  drop = drop
  r1 = r1
  colA = colA
  v1 = v1
  v2 = v2
  v3 = v3
  Top = Top
  None = None
  Blank = Blank
  MaxDepth = 1
  Client = {alice, host}
  User = {alice}
  Column = {colA}
  OpId = {refused, write1, write2, undo1, redo1, foreign}
  Denied = {refused}
  Edit <- MCEdit
  Author <- MCAuthor
  InitialDocument <- MCSheet
  SnapshotThreshold = 1
  MaxOfflinePending = 100
  MaxBreaks = 1
  MaxRestarts = 0
  MaxFaults = 0
  MaxFrames = 2
INVARIANT
  UndoCoversOnlyOwnWrites
  UndoTakesBackTheLastOwnWrite
PROPERTY
  ControllerComesBack
CONSTRAINT
  FewTogether
CHECK_DEADLOCK FALSE
