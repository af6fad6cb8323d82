---------------------------- MODULE FormulaSheet ----------------------------
(***************************************************************************)
(* Formulas from the text to the value: a text is typed and parsed, sheets *)
(* of formulas (recalc.ts) are recalculated after every edit, once with    *)
(* each of the two range strategies of the dependency graph, and a formula *)
(* bound to row and column ids (bind.ts) is resolved and evaluated over a  *)
(* sheet document whose rows come and go.                                  *)
(***************************************************************************)
EXTENDS FormulaCalc, SheetDocument

CONSTANTS
  Scene,          \* what a behaviour does: a subset of {"type", "calculate", "bind"}
  Opening,        \* [texts from which typing goes on -> how many pieces]
  Piece,          \* the pieces a text is typed from
  Text,           \* the formula texts entered into cells and bound
  Input,          \* the values entered into cells
  Key,            \* the cells that are edited
  Row, ColumnOrder, StartDocument,
  MaxEdits

VARIABLES
  scene,
  text,           \* the formula text typed so far
  inputs,         \* what is entered in each cell
  formulaAst,     \* [cells with a formula -> their tree]
  computed,       \* [strategy -> [cells with a formula -> their value]]
  graph,          \* [strategy -> the dependency graph]
  edits,
  document,
  bound,          \* the bound formula, <<>> before there is one
  boundValue      \* its value over the document

sheetVars == <<inputs, formulaAst, computed, graph>>
boundVars == <<document, bound, boundValue>>
vars == <<scene, text, edits, sheetVars, boundVars>>

-----------------------------------------------------------------------------
(* The sheet.                                                               *)

AllKeys == 0..Max(Key)

(* A cell with a formula shows its computed value, any other its input.     *)
ReadOf(ins, asts, values) ==
  [k \in AllKeys |-> IF k \in DOMAIN asts THEN values[k] ELSE ins[k]]

(* applyOrder: cells on a cycle get #CYCLE!, the others are evaluated over  *)
(* what has been computed up to there.                                      *)
ApplyOrder(ins, asts, values, sorted) ==
  FoldLeft(LAMBDA vs, k :
             [vs EXCEPT ![k] = IF k \in sorted.cycle THEN Err("#CYCLE!")
                               ELSE Evaluate(asts[k], ReadOf(ins, asts, vs))],
           values, sorted.order)

RecalcFrom(ins, asts, values, g, strategy, key) ==
  ApplyOrder(ins, asts, values, TopoSort(g, Affected(g, strategy, {key})))

(* setInput: a formula in the cell stays, and hides the input.              *)
SetInput(key, value) ==
  LET ins == [inputs EXCEPT ![key] = value]
  IN  /\ inputs' = ins
      /\ computed' = [s \in Strategy |->
                        RecalcFrom(ins, formulaAst, computed[s], graph[s], s, key)]
      /\ UNCHANGED <<formulaAst, graph>>

(* setFormula: the formula itself is evaluated first, then what depends on  *)
(* it, the formula again if it is among them.                               *)
SetFormula(key, ast) ==
  LET asts == [k \in DOMAIN formulaAst \cup {key} |-> IF k = key THEN ast ELSE formulaAst[k]]
      g(s) == GraphSetFormula(graph[s], s, key, ast)
      old(s) == [k \in DOMAIN asts |-> IF k \in DOMAIN computed[s] THEN computed[s][k] ELSE Blank]
      own(s) == [old(s) EXCEPT ![key] = Evaluate(ast, ReadOf(inputs, asts, old(s)))]
  IN  /\ formulaAst' = asts
      /\ graph' = [s \in Strategy |-> g(s)]
      /\ computed' = [s \in Strategy |-> RecalcFrom(inputs, asts, own(s), g(s), s, key)]
      /\ UNCHANGED inputs

(* recalcAll: every formula, in the order of the whole graph.               *)
RecalcAll ==
  /\ computed' = [s \in Strategy |->
                    ApplyOrder(inputs, formulaAst, computed[s],
                               TopoSort(graph[s], DOMAIN graph[s].formulas))]
  /\ UNCHANGED <<inputs, formulaAst, graph>>

-----------------------------------------------------------------------------
(* A formula bound to ids.                                                  *)

RowIndexOf(axis, row) ==
  IF Contains(axis, row) THEN CHOOSE i \in DOMAIN axis : axis[i] = row ELSE 0

(* bindCellRef: the row and the column that stand at the index now.         *)
BindCellRef(ref, axis) ==
  IF ref.row + 1 \in DOMAIN axis /\ ref.col + 1 \in DOMAIN ColumnOrder
  THEN [rowId |-> axis[ref.row + 1], columnId |-> ColumnOrder[ref.col + 1],
        rowAbs |-> ref.rowAbs, colAbs |-> ref.colAbs]
  ELSE Failure("#REF!")

(* Slip: a reference is resolved to the index at which it was bound.        *)
ResolveToTheOldIndex(b, axis) ==
  IF RowIndexOf(axis, b.rowId) = 0 THEN Failure("#REF!")
  ELSE Ref(RowIndexOf(DisplayRowOrder(StartDocument), b.rowId) - 1,
           RowIndexOf(ColumnOrder, b.columnId) - 1, b.rowAbs, b.colAbs)

(* resolveBoundToRef: where the ids stand now, #REF! once the row is gone.  *)
ResolveBoundToRef(b, axis) ==
  IF RowIndexOf(axis, b.rowId) = 0 THEN Failure("#REF!")
  ELSE Ref(RowIndexOf(axis, b.rowId) - 1, RowIndexOf(ColumnOrder, b.columnId) - 1,
           b.rowAbs, b.colAbs)

(* bindExpr (bind) and resolveExpr walk the tree alike; one reference that  *)
(* cannot be mapped makes the whole expression #REF!.                       *)
RECURSIVE MapReferences(_, _, _)
MapReferences(e, axis, bind) ==
  LET part(x) == MapReferences(x, axis, bind)
      refTo(r) == IF bind THEN BindCellRef(r, axis) ELSE ResolveBoundToRef(r, axis)
      first(xs) == LET bad == {i \in DOMAIN xs : Failed(xs[i])}
                   IN  IF bad = {} THEN <<>> ELSE <<xs[Min(bad)]>>
      parts == CASE e.kind = "cell" -> <<refTo(e.ref)>>
                 [] e.kind = "range" -> <<refTo(e.start), refTo(e.end)>>
                 [] e.kind = "unary" -> <<part(e.operand)>>
                 [] e.kind = "binary" -> <<part(e.left), part(e.right)>>
                 [] e.kind = "func" -> [i \in DOMAIN e.args |-> part(e.args[i])]
                 [] OTHER -> <<>>
  IN  IF first(parts) # <<>> THEN first(parts)[1]
      ELSE CASE e.kind = "cell" -> CellExpr(parts[1])
             [] e.kind = "range" -> RangeExpr(parts[1], parts[2])
             [] e.kind = "unary" -> UnaryExpr(e.op, parts[1])
             [] e.kind = "binary" -> BinaryExpr(e.op, parts[1], parts[2])
             [] e.kind = "func" -> FuncExpr(e.name, parts)
             [] OTHER -> e

BindExpr(ast, axis) == MapReferences(ast, axis, TRUE)
ResolveExpr(b, axis) == MapReferences(b, axis, FALSE)

(* The document read by index: axisOf and readerOf.                         *)
DocumentRead(doc) ==
  LET axis == DisplayRowOrder(doc)
      cellAt(k) == CellKey(doc, axis[(k \div Cols) + 1], ColumnOrder[(k % Cols) + 1])
  IN  [k \in 0..(Len(axis) * Cols - 1) |->
         IF cellAt(k) \in DOMAIN doc.cell THEN doc.cell[cellAt(k)].value ELSE Blank]

ValueOver(b, doc) ==
  LET resolved == ResolveExpr(b, DisplayRowOrder(doc))
  IN  IF Failed(resolved) THEN Err("#REF!") ELSE Evaluate(resolved, DocumentRead(doc))

-----------------------------------------------------------------------------
(* Behaviours.                                                              *)

Init ==
  /\ scene \in Scene
  /\ text \in IF scene = "type" THEN DOMAIN Opening ELSE {<<>>}
  /\ inputs = [k \in AllKeys |-> Blank]
  /\ formulaAst = <<>>
  /\ computed = [s \in Strategy |-> <<>>]
  /\ graph = [s \in Strategy |-> EmptyGraph]
  /\ edits = 0
  /\ document = StartDocument
  /\ bound = <<>>
  /\ boundValue = Blank

(* Two pieces that would run together are one piece.                        *)
RunsTogether(p, q) ==
  \/ p.kind = q.kind /\ p.kind \in {"letters", "number", "string"}
  \/ p.kind = "punct" /\ q.kind = "punct" /\ <<p.punct, q.punct>> \in {<<"<", "=">>, <<">", "=">>, <<"<", ">">>}

Type ==
  /\ scene = "type"
  /\ \E o \in DOMAIN Opening : IsPrefix(o, text) /\ Len(text) < Len(o) + Opening[o]
  /\ \E p \in Piece :
       /\ text # <<>> => ~RunsTogether(Last(text), p)
       /\ text' = Append(text, p)
  /\ UNCHANGED <<scene, edits, sheetVars, boundVars>>

Edit ==
  /\ scene = "calculate"
  /\ edits < MaxEdits
  /\ edits' = edits + 1
  /\ UNCHANGED <<scene, text, boundVars>>

EnterInput == Edit /\ \E k \in Key, v \in Input : SetInput(k, v)

EnterFormula ==
  /\ Edit
  /\ \E k \in Key, t \in Text : ~Failed(Parse(t)) /\ SetFormula(k, Parse(t).ast)

RecalculateAll == Edit /\ RecalcAll

Bind ==
  /\ scene = "bind"
  /\ bound = <<>>
  /\ \E t \in Text :
       LET b == BindExpr(Parse(t).ast, DisplayRowOrder(document))
       IN  ~Failed(Parse(t)) /\ ~Failed(b) /\ bound' = <<b>> /\ boundValue' = ValueOver(b, document)
  /\ UNCHANGED <<scene, text, edits, sheetVars, document>>

(* The document changes by an operation that validation lets through.       *)
Operate ==
  /\ scene = "bind"
  /\ bound # <<>>
  /\ document.revision < StartDocument.revision + MaxEdits
  /\ \E op \in {InsertRows(at, <<r>>) : at \in Row \cup {Top}, r \in Row}
               \cup {DeleteRows(<<r>>) : r \in Row}
               \cup {SetCells(<<[row |-> r, col |-> c, value |-> v, before |-> NoBefore]>>) :
                       r \in Row, c \in Column, v \in Input \ {Blank}} :
       /\ Violations(document, op) = {}
       /\ LET doc == ApplyOperation(document, op, document.revision + 1)
          IN  document' = doc /\ boundValue' = ValueOver(bound[1], doc)
  /\ UNCHANGED <<scene, text, edits, sheetVars, bound>>

Next == Type \/ EnterInput \/ EnterFormula \/ RecalculateAll \/ Bind \/ Operate

Spec == Init /\ [][Next]_vars

-----------------------------------------------------------------------------
(* The grammar of formulas, from which the parser is derived, as the set of *)
(* trees of a token sequence.  Levels 1 to 3 are the binary operators.      *)
RECURSIVE Derive(_, _), DeriveArgs(_)

DeriveBinary(level, tokens) ==
  UNION {{BinaryExpr(tokens[i].punct, l, r) :
            l \in Derive(level, SubSeq(tokens, 1, i - 1)),
            r \in Derive(level + 1, SubSeq(tokens, i + 1, Len(tokens)))} :
         i \in {i \in DOMAIN tokens : tokens[i].kind = "punct" /\ tokens[i].punct \in Level[level]}}

DeriveUnary(tokens) ==
  IF IsA(tokens, 1, "punct") /\ tokens[1].punct \in {"+", "-"}
  THEN {UnaryExpr(tokens[1].punct, e) : e \in Derive(Len(Level) + 1, Tail(tokens))}
  ELSE {}

Bracketed(tokens, i) ==
  /\ Len(tokens) > i
  /\ tokens[i] = Punct("(")
  /\ tokens[Len(tokens)] = Punct(")")

DerivePrimary(tokens) ==
  CASE Len(tokens) = 1 /\ tokens[1].kind = "number" -> {NumberExpr(tokens[1].number)}
    [] Len(tokens) = 1 /\ tokens[1].kind = "string" -> {StringExpr(tokens[1].string)}
    [] Len(tokens) = 1 /\ tokens[1].kind = "cell" -> {CellExpr(tokens[1].ref)}
    [] Len(tokens) = 3 /\ tokens[2] = Punct(":") /\ tokens[1].kind = "cell" /\ tokens[3].kind = "cell" ->
         {RangeExpr(tokens[1].ref, tokens[3].ref)}
    [] Bracketed(tokens, 1) -> Derive(1, SubSeq(tokens, 2, Len(tokens) - 1))
    [] IsA(tokens, 1, "ident") /\ Bracketed(tokens, 2) /\ tokens[1].name \in KnownFunction ->
         {FuncExpr(tokens[1].name, args) : args \in DeriveArgs(SubSeq(tokens, 3, Len(tokens) - 1))}
    [] OTHER -> {}

Derive(level, tokens) ==
  IF level <= Len(Level) THEN DeriveBinary(level, tokens) \cup Derive(level + 1, tokens)
  ELSE DeriveUnary(tokens) \cup DerivePrimary(tokens)

DeriveArgs(tokens) ==
  {<<e>> : e \in Derive(1, tokens)} \cup
  UNION {{Append(args, e) : args \in DeriveArgs(SubSeq(tokens, 1, i - 1)),
                            e \in Derive(1, SubSeq(tokens, i + 1, Len(tokens)))} :
         i \in {i \in DOMAIN tokens : tokens[i] = Punct(",")}}

(* The brackets open at the deepest point of a text.                        *)
Nesting(tokens) ==
  LET count(i, p) == Cardinality({j \in 1..i : tokens[j] = Punct(p)})
  IN  Max({0} \cup {count(i, "(") - count(i, ")") : i \in DOMAIN tokens})

LongestSignRun(tokens) ==
  LET signs(i, j) == \A k \in i..j : tokens[k] \in {Punct("+"), Punct("-")}
  IN  Max({0} \cup {n \in 1..Len(tokens) : \E i \in 1..(Len(tokens) - n + 1) : signs(i, i + n - 1)})

(* The trees a tree consists of, and how many of them it is built from.     *)
Parts(e) ==
  CASE e.kind = "unary"  -> <<e.operand>>
    [] e.kind = "binary" -> <<e.left, e.right>>
    [] e.kind = "func"   -> e.args
    [] OTHER             -> <<>>

RECURSIVE InTree(_), Nodes(_)
InTree(e) == {e} \cup UNION {InTree(part) : part \in ToSet(Parts(e))}
Nodes(e) == FoldLeft(LAMBDA n, part : n + Nodes(part), 1, Parts(e))

TooManyArguments(e) == \E x \in InTree(e) : x.kind = "func" /\ Len(x.args) > MaxFunctionArgs

(* No literal or row of the tree is printed in a notation formulas do not   *)
(* have.                                                                    *)
PrintsAsWritten(e) ==
  \A x \in InTree(e) :
    /\ x.kind = "number" => x.number < LargeNumber
    /\ x.kind = "string" => x.string \notin Quoting \cup Escaping
    /\ x.kind = "cell"   => x.ref.row + 1 < LargeNumber
    /\ x.kind = "range"  => {x.start.row + 1, x.end.row + 1} \subseteq 1..LargeNumber-1

(* The parser returns the one tree the grammar gives a text: operators      *)
(* associate to the left, looser ones split first, a sign binds tighter     *)
(* than "^".  It refuses a text that has a tree only for its size.  What    *)
(* serialize prints of a tree is parsed to the same tree again if, and only *)
(* if, it has no string with a character JSON escapes and no number or row  *)
(* printed with an exponent (parser.ts:1-4, ast.ts:29-54,                   *)
(* tokenizer.ts:43-93).                                                     *)
ParserFollowsGrammar ==
  LET tk == Tokenize(text)
      trees == IF Failed(tk) THEN {} ELSE Derive(1, tk.tokens)
      result == Parse(text)
  IN  scene = "type" =>
        /\ Cardinality(trees) <= 1
        /\ ~Failed(result) => trees = {result.ast}
        /\ Failed(result) =>
             \/ trees = {}
             \/ Nesting(tk.tokens) > MaxNestDepth
             \/ LongestSignRun(tk.tokens) > MaxNestDepth
             \/ \E e \in trees : Nodes(e) > MaxAstNodes \/ TooManyArguments(e)
        /\ ~Failed(result) /\ Nesting(Serialize(result.ast)) <= MaxNestDepth =>
             (Parse(Serialize(result.ast)) = result <=> PrintsAsWritten(result.ast))

(* Which formulas a formula reads, over any number of others.               *)
Reads ==
  {<<f, p>> \in (DOMAIN formulaAst) \X (DOMAIN formulaAst) :
     LET prec == PrecedentsOf(formulaAst[f])
     IN  p \in prec.cells \/ \E r \in prec.ranges : p \in KeysOf(r)}

RECURSIVE ReadFrom(_)
ReadFrom(ks) ==
  LET more == {e[2] : e \in {e \in Reads : e[1] \in ks}} \ ks
  IN  IF more = {} THEN ks ELSE ReadFrom(ks \cup more)

OnCycle(k) == k \in ReadFrom({e[2] : e \in {e \in Reads : e[1] = k}})

(* After any sequence of edits every formula shows what its text says of    *)
(* the values on display, and #CYCLE! exactly while it reads itself, over   *)
(* cells or ranges, whichever way ranges are followed (dep-graph.ts:1-5).   *)
EveryFormulaIsCurrent ==
  \A s \in Strategy : \A k \in DOMAIN formulaAst :
    computed[s][k] = IF OnCycle(k) THEN Err("#CYCLE!")
                     ELSE Evaluate(formulaAst[k], ReadOf(inputs, formulaAst, computed[s]))

(* The rows a bound formula names, and those between the ends of a range.   *)
RECURSIVE Named(_)
Named(e) ==
  CASE e.kind = "cell" -> {e.ref.rowId}
    [] e.kind = "range" -> {e.start.rowId, e.end.rowId}
    [] e.kind = "unary" -> Named(e.operand)
    [] e.kind = "binary" -> Named(e.left) \cup Named(e.right)
    [] e.kind = "func" -> UNION {Named(e.args[i]) : i \in DOMAIN e.args}
    [] OTHER -> {}

Spanned(doc) ==
  LET place(r) == CHOOSE i \in DOMAIN doc.rowOrder : doc.rowOrder[i] = r
      named == {place(r) : r \in Named(bound[1])}
  IN  {r \in DOMAIN doc.row : \E i, j \in named : i <= place(r) /\ place(r) <= j}

RowTouched(r) ==
  \/ document'.row[r] # document.row[r]
  \/ \E c \in Column : CellRevision(document', r, c) # CellRevision(document, r, c)

(* A bound formula keeps its value while rows are inserted anywhere and     *)
(* while rows it does not span are edited or deleted; it becomes #REF! when *)
(* a row it names is deleted, and stays so (bind.ts:1-3).                   *)
BoundValueFollowsIds ==
  [][bound # <<>> =>
       /\ (\A r \in Spanned(document) : ~RowTouched(r)) => boundValue' = boundValue
       /\ (\E r \in Named(bound[1]) : Tombstoned(document', r)) <=> boundValue' = Err("#REF!")]_vars
=============================================================================
