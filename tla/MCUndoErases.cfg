SPECIFICATION USpec
CONSTANTS
  alice = alice
  host = host
  refused = refused
  write1 = write1
  write2 = write2
  undo1 = undo1
  undo2 = undo2
  redo1 = redo1
  foreign = foreign
  drop = drop
  r1 = r1
  colA = colA
  v1 = v1
  v2 = v2
  v3 = v3
  Top = Top
  None = None
  Blank = Blank
  MaxDepth = 2
  Client = {alice, host}
  User = {alice}
  Column = {colA}
  OpId = {write1, write2, undo1, undo2, redo1, foreign}
  Denied = {}
  Edit <- MCEdit
  Author <- MCAuthor
  InitialDocument <- MCSheet
  SnapshotThreshold = 1000
  MaxOfflinePending = 100
  MaxBreaks = 0
  MaxRestarts = 0
  MaxFaults = 0
  MaxFrames = 3
INVARIANT
  UndoKeepsForeignValues
CHECK_DEADLOCK FALSE
