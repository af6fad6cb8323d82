SPECIFICATION FairSpec
CONSTANTS
  alice = alice
  bob = bob
  write1 = write1
  write2 = write2
  drop = drop
  drop2 = drop2
  insert1 = insert1
  insert2 = insert2
  r1 = r1
  r2 = r2
  r3 = r3
  colA = colA
  v1 = v1
  v2 = v2
  Top = Top
  None = None
  Client = {alice, bob}
  Column = {colA}
  OpId = {write1, write2, drop, drop2}
  Denied = {write1}
  Edit <- MCEdit
  Author <- MCAuthor
  InitialDocument <- MCSheet
  SnapshotThreshold = 0
  MaxOfflinePending = 100
  MaxBreaks = 1
  MaxRestarts = 1
  MaxFaults = 0
  MaxFrames = 5
INVARIANT
  EditsHaveOneFate
PROPERTY
  EventuallyConverged
CONSTRAINT
  Scenes
CHECK_DEADLOCK FALSE
