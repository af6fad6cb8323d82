SPECIFICATION Spec
CONSTANTS
  Row = {r1, r2, r3}
  Value = {v1, v2}
  keptDoc = keptDoc
  memoryDoc = memoryDoc
  colA = colA
  Column = {colA}
  Top = Top
  None = None
  Blank = Blank
  SeedRow = SeedRow
  ServerClient = server
  SystemClient = system
  Author = alice
  Client = {server, system, alice}
  Scene <- MCScene
  Hooked = {"hooks"}
  ServedWith <- MCServedWith
  FirstRows <- MCFirstRows
  ClientOperation <- MCClientOperation
  ServerOperation <- MCServerOperation
  MaxSubmits <- MCMaxSubmits
  MaxRestarts <- MCMaxRestarts
  MaxFailures = 1
SYMMETRY Symmetry
INVARIANTS
  DocumentStaysSound
  SnapshotPlusTailIsDocument
  EventsTellTheLog
  StoredAsAccepted
CHECK_DEADLOCK FALSE
