SPECIFICATION Spec
CONSTANTS
  r1 = r1
  r2 = r2
  r3 = r3
  r4 = r4
  colA = colA
  colB = colB
  Top = Top
  Letters = {"A", "B", "SUM", "COUNT", "MAX"}
  ColumnOf <- MCColumnOf
  KnownFunction = {"SUM", "AVERAGE", "MIN", "MAX", "COUNT"}
  Quoting = {"quote"}
  Escaping = {"escape"}
  LargeNumber = 6
  MaxFormulaChars = 20
  MaxAstNodes = 5
  MaxNestDepth = 2
  MaxFunctionArgs = 3
  MaxRangeCells = 6
  Cols = 2
  DecimalOf <- MCDecimalOf
  MaxNumber = 8
  MaxEvalSteps = 20
  Scene = {"type", "calculate", "bind"}
  Opening <- MCOpening
  Piece <- MCPiece
  Text <- MCText
  Input <- MCInput
  Key = {0, 1, 2, 3}
  Row = {r1, r2, r3, r4}
  Column = {colA, colB}
  ColumnOrder <- MCColumnOrder
  StartDocument <- MCStart
  MaxEdits = 4
INVARIANT
  ParserFollowsGrammar
  EveryFormulaIsCurrent
PROPERTY
  BoundValueFollowsIds
CHECK_DEADLOCK FALSE
