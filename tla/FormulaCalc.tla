----------------------------- MODULE FormulaCalc -----------------------------
(***************************************************************************)
(* The evaluator and the dependency graph of packages/formula.             *)
(*                                                                         *)
(* Numbers are integers within -MaxNumber..MaxNumber, and what leaves that *)
(* interval stands for a result that is not finite; quotients, averages    *)
(* and powers are rounded to integers, which no property looks at.         *)
(***************************************************************************)
EXTENDS FormulaParser, FiniteSetsExt

CONSTANTS
  Cols,           \* columns of the sheet: a cell's key is row * Cols + column
  DecimalOf,      \* [strings that read as a decimal number -> Int]
  MaxNumber,
  MaxEvalSteps

-----------------------------------------------------------------------------
(* Values.                                                                  *)

Blank == [blank |-> TRUE]
Num(n) == [num |-> n]
Str(s) == [str |-> s]
Err(e) == [err |-> e]

IsNum(v) == "num" \in DOMAIN v
IsStr(v) == "str" \in DOMAIN v
IsErr(v) == "err" \in DOMAIN v

FiniteOrValueError(n) == IF Abs(n) <= MaxNumber THEN Num(n) ELSE Err("#VALUE!")

(* A scalar operand as a number or an error: blank is 0, a string must read *)
(* as a decimal.                                                            *)
ToNumber(v) ==
  CASE IsNum(v) \/ IsErr(v) -> v
    [] v = Blank -> Num(0)
    [] IsStr(v) -> IF v.str \in DOMAIN DecimalOf THEN Num(DecimalOf[v.str]) ELSE Err("#VALUE!")

Rounded(a, b) == IF b < 0 THEN (-a) \div (-b) ELSE a \div b

EvalBinary(op, left, right) ==
  LET a == ToNumber(left)
      b == ToNumber(right)
  IN  CASE IsErr(a) -> a
        [] ~IsErr(a) /\ IsErr(b) -> b
        [] OTHER ->
             CASE op = "+" -> FiniteOrValueError(a.num + b.num)
               [] op = "-" -> FiniteOrValueError(a.num - b.num)
               [] op = "*" -> FiniteOrValueError(a.num * b.num)
               [] op = "/" -> IF b.num = 0 THEN Err("#DIV/0!")
                              ELSE FiniteOrValueError(Rounded(a.num, b.num))
               [] op = "^" -> IF b.num < 0 THEN (IF a.num = 0 THEN Err("#VALUE!") ELSE Num(0))
                              ELSE FiniteOrValueError(a.num ^ b.num)

(* The rectangle of a range, in row-major order.                            *)
Rows(range) == Min({range.start.row, range.end.row})..Max({range.start.row, range.end.row})
Columns(range) == Min({range.start.col, range.end.col})..Max({range.start.col, range.end.col})
KeyOf(row, col) == row * Cols + col
KeysOf(range) == {KeyOf(r, c) : r \in Rows(range), c \in Columns(range)}
RowMajor(keys) ==
  [i \in 1..Cardinality(keys) |->
     CHOOSE k \in keys : Cardinality({j \in keys : j < k}) = i - 1]

(* COUNT neither passes errors on nor reads strings.                        *)
PropagatesErrors(name) == name # "COUNT"

(* One value of a range: strings and blanks do not count.                   *)
CollectRange(name, got, v) ==
  CASE IsNum(v) -> [got EXCEPT !.numbers = Append(@, v.num)]
    [] IsErr(v) /\ PropagatesErrors(name) /\ got.error = <<>> -> [got EXCEPT !.error = <<v>>]
    [] OTHER -> got

(* One scalar argument.                                                     *)
CollectScalar(name, got, v) ==
  LET n == ToNumber(v)
  IN  CASE v = Blank -> got
        [] IsNum(v) -> [got EXCEPT !.numbers = Append(@, v.num)]
        [] OTHER -> IF ~PropagatesErrors(name) THEN got
                    ELSE IF IsErr(n) THEN [got EXCEPT !.error = <<n>>]
                    ELSE [got EXCEPT !.numbers = Append(@, n.num)]

CallFunction(name, numbers) ==
  LET sum == FoldLeft(+, 0, numbers)
      set == ToSet(numbers)
  IN  CASE name = "SUM" -> FiniteOrValueError(sum)
        [] name = "AVERAGE" -> IF numbers = <<>> THEN Err("#DIV/0!")
                               ELSE FiniteOrValueError(Rounded(sum, Len(numbers)))
        [] name = "MIN" -> Num(IF numbers = <<>> THEN 0 ELSE Min(set))
        [] name = "MAX" -> Num(IF numbers = <<>> THEN 0 ELSE Max(set))
        [] name = "COUNT" -> Num(Len(numbers))

(* The value of an expression and the steps it took; read(key) is what the  *)
(* cell reader returns.  A left operand in error spares the right one.      *)
RECURSIVE Ev(_, _)
Ev(e, read) ==
  CASE e.kind = "number" -> [value |-> Num(e.number), steps |-> 1]
    [] e.kind = "string" -> [value |-> Str(e.string), steps |-> 1]
    [] e.kind = "cell" -> [value |-> read[KeyOf(e.ref.row, e.ref.col)], steps |-> 2]
    [] e.kind = "range" -> [value |-> Err("#VALUE!"), steps |-> 1]
    [] e.kind = "unary" ->
         LET operand == Ev(e.operand, read)
             n == ToNumber(operand.value)
         IN  [value |-> IF IsErr(n) THEN n ELSE Num(IF e.op = "-" THEN -n.num ELSE n.num),
              steps |-> operand.steps + 1]
    [] e.kind = "binary" ->
         LET left == Ev(e.left, read)
             right == Ev(e.right, read)
         IN  IF IsErr(left.value) THEN [left EXCEPT !.steps = @ + 1]
             ELSE [value |-> EvalBinary(e.op, left.value, right.value),
                   steps |-> left.steps + right.steps + 1]
    [] e.kind = "func" ->
         LET overRange(got, range) ==
               [FoldLeft(LAMBDA g, k : CollectRange(e.name, g, read[k]), got, RowMajor(KeysOf(range)))
                  EXCEPT !.steps = @ + RangeCells(range.start, range.end)]
             overScalar(got, arg) ==
               LET v == Ev(arg, read)
               IN  [CollectScalar(e.name, got, v.value) EXCEPT !.steps = @ + v.steps]
             collect(got, arg) ==
               IF got.error # <<>> THEN got
               ELSE IF arg.kind = "range" THEN overRange(got, arg) ELSE overScalar(got, arg)
             all == FoldLeft(collect, [numbers |-> <<>>, error |-> <<>>, steps |-> 1], e.args)
         IN  [value |-> IF all.error # <<>> THEN all.error[1] ELSE CallFunction(e.name, all.numbers),
              steps |-> all.steps]

(* Evaluation breaks off as soon as it takes too many steps.                *)
Evaluate(ast, read) ==
  LET e == Ev(ast, read) IN IF e.steps > MaxEvalSteps THEN Err("#ERROR!") ELSE e.value

-----------------------------------------------------------------------------
(* The dependency graph.  `formulas` holds the cells and ranges each formula *)
(* reads; ranges are followed backwards over one edge per cell (expand) or  *)
(* over intervals kept per column (interval).                               *)

Strategy == {"expand", "interval"}

EmptyGraph == [formulas |-> <<>>, dependents |-> <<>>, intervals |-> <<>>]

RECURSIVE PrecedentsOf(_)
PrecedentsOf(e) ==
  LET both(p, q) == [cells |-> p.cells \cup q.cells, ranges |-> p.ranges \cup q.ranges]
      none == [cells |-> {}, ranges |-> {}]
  IN  CASE e.kind = "cell" -> [none EXCEPT !.cells = {KeyOf(e.ref.row, e.ref.col)}]
        [] e.kind = "range" -> [none EXCEPT !.ranges = {[start |-> e.start, end |-> e.end]}]
        [] e.kind = "unary" -> PrecedentsOf(e.operand)
        [] e.kind = "binary" -> both(PrecedentsOf(e.left), PrecedentsOf(e.right))
        [] e.kind = "func" -> FoldLeft(LAMBDA p, arg : both(p, PrecedentsOf(arg)), none, e.args)
        [] OTHER -> none

Lookup(f, k) == IF k \in DOMAIN f THEN f[k] ELSE {}
AddAt(f, keys, x) ==
  [k \in DOMAIN f \cup keys |-> IF k \in keys THEN Lookup(f, k) \cup {x} ELSE f[k]]

(* The edges a formula had before are kept.                                 *)
GraphSetFormula(g, strategy, formula, ast) ==
  LET p == PrecedentsOf(ast)
      edges == IF strategy = "expand" THEN p.cells \cup UNION {KeysOf(r) : r \in p.ranges}
               ELSE p.cells
      addRange(ivs, r) == AddAt(ivs, Columns(r), [rows |-> Rows(r), formula |-> formula])
  IN  [formulas   |-> [f \in DOMAIN g.formulas \cup {formula} |->
                         IF f = formula THEN p ELSE g.formulas[f]],
       dependents |-> AddAt(g.dependents, edges, formula),
       intervals  |-> IF strategy = "expand" THEN g.intervals
                      ELSE FoldSet(LAMBDA r, ivs : addRange(ivs, r), g.intervals, p.ranges)]

(* Slip: the last row of an interval is left out.                           *)
DependentsOfShort(g, strategy, cell) ==
  Lookup(g.dependents, cell) \cup
  {iv.formula : iv \in {iv \in Lookup(g.intervals, cell % Cols) :
                          cell \div Cols \in iv.rows \ {Max(iv.rows)}}}

DependentsOf(g, strategy, cell) ==
  Lookup(g.dependents, cell) \cup
  {iv.formula : iv \in {iv \in Lookup(g.intervals, cell % Cols) : cell \div Cols \in iv.rows}}

(* Every formula that reads a changed cell, directly or through others.     *)
RECURSIVE AffectedFrom(_, _, _)
AffectedFrom(g, strategy, found) ==
  LET more == UNION {DependentsOf(g, strategy, f) : f \in found} \ found
  IN  IF more = {} THEN found ELSE AffectedFrom(g, strategy, found \cup more)

Affected(g, strategy, changed) ==
  AffectedFrom(g, strategy, UNION {DependentsOf(g, strategy, c) : c \in changed})

(* Slip: a range is not seen as a precedent.                                *)
PrecedentsInCellsOnly(g, affected, f) == RowMajor(g.formulas[f].cells \cap affected)

(* The affected formulas that f reads, in ascending order, f itself too.    *)
PrecedentsIn(g, affected, f) ==
  LET p == g.formulas[f]
  IN  RowMajor(affected \cap (p.cells \cup UNION {KeysOf(r) : r \in p.ranges}))

(* Tarjan's strongly connected components along the precedents: a component *)
(* is complete when everything it reads is, so the order of completion is   *)
(* an order of evaluation.  The walk keeps the numbers given out, the low   *)
(* links, the open stack, the order so far and the formulas on a cycle.     *)
Least(a, b) == IF a < b THEN a ELSE b

(* Pops v's component off the stack once its low link is its own number.    *)
CloseComponent(w, v, selfLoop) ==
  LET from == CHOOSE i \in DOMAIN w.stack : w.stack[i] = v
      members == {w.stack[i] : i \in from..Len(w.stack)}
  IN  IF w.low[v] # w.index[v] THEN w
      ELSE [w EXCEPT !.stack = SubSeq(@, 1, from - 1),
                     !.order = @ \o RowMajor(members),
                     !.cycle = IF Cardinality(members) > 1 \/ selfLoop THEN @ \cup members ELSE @]

RECURSIVE Visit(_, _, _, _)
Visit(g, affected, walk, v) ==
  LET preds == PrecedentsIn(g, affected, v)
      opened == [walk EXCEPT !.index = @ @@ (v :> Cardinality(DOMAIN @)),
                             !.low = @ @@ (v :> Cardinality(DOMAIN @)),
                             !.stack = Append(@, v)]
      follow(w, p) ==
        IF p \notin DOMAIN w.index
        THEN LET below == Visit(g, affected, w, p)
             IN  [below EXCEPT !.low[v] = Least(@, below.low[p])]
        ELSE IF Contains(w.stack, p) THEN [w EXCEPT !.low[v] = Least(@, w.index[p])]
        ELSE w
  IN  CloseComponent(FoldLeft(follow, opened, preds), v, Contains(preds, v))

TopoSort(g, affected) ==
  FoldLeft(LAMBDA w, start : IF start \in DOMAIN w.index THEN w ELSE Visit(g, affected, w, start),
           [index |-> <<>>, low |-> <<>>, stack |-> <<>>, order |-> <<>>, cycle |-> {}],
           RowMajor(affected))
=============================================================================
