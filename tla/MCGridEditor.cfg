SPECIFICATION Spec
CONSTANTS
  r1 = r1
  r2 = r2
  r3 = r3
  colA = colA
  chA = chA
  chUpper = chUpper
  chSpace = chSpace
  chX = chX
  chY = chY
  Top = Top
  Column = {colA}
  Col = colA
  Blank <- MCBlank
  MaxDepth = 2
  Row = {r1, r2, r3}
  Char <- MCChar
  Options <- MCOptions
  LowerCase <- MCLowerCase
  White <- MCWhite
  Scene <- MCScene
  ColumnOf <- MCColumnOf
  StartRows <- MCStartRows
  Rows <- MCRows
  LockedRows <- MCLockedRows
  Today <- MCToday
  MaxInputs <- MCMaxInputs
  MaxText = 2
INVARIANT
  HistoryFitsDocument
  CalendarIsRight
PROPERTY
  InputReachesItsCell
  ConfirmingEnterStays
  LockHolds
  FlushSavesTheEdit
CHECK_DEADLOCK FALSE
