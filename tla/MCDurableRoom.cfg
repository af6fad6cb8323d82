SPECIFICATION FairSpec
CONSTANTS
  alice = alice
  bob = bob
  server = server
  ServerClient = server
  set1 = set1
  set2 = set2
  drop1 = drop1
  drop2 = drop2
  r1 = r1
  colA = colA
  v1 = v1
  v2 = v2
  Top = Top
  Column = {colA}
  Client = {alice, server}
  OpId = {set2, drop1, drop2}
  Owner <- MCOwner
  Content <- MCContent
  InitialDocument <- MCInitialDocument
  SnapshotInterval = 1
  KeepGenerations = 2
  MaxSequence = 2
  MaxSubmits = 3
  MaxJoins = 1
  MaxCrashes = 2
INVARIANTS
  OnlyTheFileIsTold
  RecoveryIsFaithful
  LoggedExactlyOnceInOrder
  RoomInv
PROPERTIES
  BroadcastHasNoGap
  ImplementsOrderedLog
  WorkIsDone
CHECK_DEADLOCK FALSE
