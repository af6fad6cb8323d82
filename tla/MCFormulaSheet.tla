--------------------------- MODULE MCFormulaSheet ---------------------------
(***************************************************************************)
(* A small instance of FormulaSheet: two columns and rows A1..B2, a third  *)
(* and a fourth row to insert.  Texts are typed on from some openings.     *)
(***************************************************************************)
EXTENDS FormulaSheet

CONSTANTS r1, r2, r3, r4, colA, colB

MCColumnOf == [A |-> 0, B |-> 1, SUM |-> 2, COUNT |-> 3, MAX |-> 4]
MCDecimalOf == [three |-> 3]
MCColumnOrder == <<colA, colB>>

P(p) == Punct(p)
L(name) == LettersPiece(name)
N(n) == NumberPiece(n)
Cell(name, n) == <<L(name), N(n)>>
RangeOf(from, to) == from \o <<P(":")>> \o to
Call(name, args) == <<L(name), P("(")>> \o args \o <<P(")")>>

(* Every text of four pieces, and longer ones around operators, signs,      *)
(* brackets, a range and calls of two and three arguments.                  *)
MCOpening ==
  <<>> :> 4
  @@ <<N(1), P("*")>> :> 3
  @@ <<N(1), P("*"), P("-"), N(1)>> :> 2
  @@ <<P("-"), N(1)>> :> 3
  @@ <<P("("), N(1)>> :> 3
  @@ <<N(1), P("^"), P("-")>> :> 2
  @@ Cell("A", 1) \o <<P("-")>> :> 2
  @@ Cell("A", 1) \o <<P(":"), L("A")>> :> 2
  @@ <<L("SUM"), P("(")>> :> 3
  @@ <<L("SUM"), P("("), N(1), P(",")>> :> 3
  @@ <<L("SUM"), P("("), N(1), P(","), N(1), P(",")>> :> 2
  @@ <<L("SUM"), P("("), N(1), P(","), N(1), P(","), N(1), P(",")>> :> 2

MCPiece == {L("A"), N(1), N(6), StringPiece("x"), StringPiece("quote"), StringPiece("escape"),
            P("-"), P("*"), P("^"), P("("), P(")"), P(","), P(":"), P("<"), Dollar}

MCText ==
  { Cell("A", 1) \o <<P("*"), N(2)>>,
    Call("SUM", RangeOf(Cell("A", 1), Cell("A", 2))),
    Call("COUNT", RangeOf(Cell("B", 2), Cell("A", 1))),
    Call("MAX", Cell("A", 2) \o <<P(",")>> \o RangeOf(Cell("B", 1), Cell("B", 2))) }

MCInput == {Num(1), Str("x")}

MCStart ==
  LET inserted == ApplyOperation(EmptyDocument, InsertRows(Top, <<r1, r2>>), 1)
      change(r, c, v) == [row |-> r, col |-> c, value |-> v, before |-> NoBefore]
  IN  ApplyOperation(inserted, SetCells(<<change(r1, colA, Num(2)), change(r2, colA, Num(3)),
                                          change(r2, colB, Str("three"))>>), 2)
=============================================================================
