--------------------------- MODULE FormulaParser ---------------------------
(***************************************************************************)
(* The tokenizer and the recursive-descent parser of packages/formula.     *)
(*                                                                         *)
(* A formula text, without its leading "=", is a sequence of pieces: a run *)
(* of letters, a number, "$", a space, a quoted string, an operator or     *)
(* bracket, or something the tokenizer refuses (a number with two points,  *)
(* an open quotation, a full-width digit).  Parsing returns the syntax     *)
(* tree or an error value; exceptions of the code are error results here.  *)
(***************************************************************************)
EXTENDS Integers, Sequences, SequencesExt

CONSTANTS
  Letters,          \* runs of letters: column names and function names
  ColumnOf,         \* [Letters -> Nat]: lettersToCol
  KnownFunction,    \* the functions the evaluator knows, a subset of Letters
  Quoting,          \* the strings with a quotation mark in them
  Escaping,         \* those without one, but with a backslash or a control character
  LargeNumber,      \* the numbers from which String() writes an exponent
  MaxFormulaChars, MaxAstNodes, MaxNestDepth, MaxFunctionArgs, MaxRangeCells

-----------------------------------------------------------------------------
(* Pieces and tokens.                                                       *)

LettersPiece(name) == [kind |-> "letters", name |-> name]
NumberPiece(n) == [kind |-> "number", number |-> n]
StringPiece(s) == [kind |-> "string", string |-> s]
Punct(p) == [kind |-> "punct", punct |-> p]
Dollar == [kind |-> "dollar"]
Space == [kind |-> "space"]
Illegal == [kind |-> "illegal"]

Ref(row, col, rowAbs, colAbs) == [row |-> row, col |-> col, rowAbs |-> rowAbs, colAbs |-> colAbs]
CellToken(ref) == [kind |-> "cell", ref |-> ref]
IdentToken(name) == [kind |-> "ident", name |-> name]

Failure(error) == [error |-> error]
Failed(result) == "error" \in DOMAIN result

(* What follows a step that may fail.                                       *)
Then(result, next(_)) == IF Failed(result) THEN result ELSE next(result)

IsA(seq, i, kind) == i \in DOMAIN seq /\ seq[i].kind = kind

(* $?letters$?digits: a cell reference if digits follow, else a name; a     *)
(* dollar sign must belong to a complete reference, and row 0 is refused.   *)
(* Returns the token and the index after it.                                *)
ReferenceAt(text, i) ==
  LET colAbs == IsA(text, i, "dollar")
      l == IF colAbs THEN i + 1 ELSE i
      named == IsA(text, l, "letters")
      d == IF named THEN l + 1 ELSE l
      rowAbs == IsA(text, d, "dollar")
      n == IF rowAbs THEN d + 1 ELSE d
  IN  CASE IsA(text, n, "number") /\ named /\ text[n].number >= 1 ->
             [token |-> CellToken(Ref(text[n].number - 1, ColumnOf[text[l].name], rowAbs, colAbs)),
              next |-> n + 1]
        [] ~IsA(text, n, "number") /\ named /\ ~colAbs /\ ~rowAbs ->
             [token |-> IdentToken(text[l].name), next |-> n]
        [] OTHER -> Failure("#ERROR!")

RECURSIVE TokensFrom(_, _)
TokensFrom(text, i) ==
  CASE i > Len(text) -> [tokens |-> <<>>]
    [] IsA(text, i, "space") -> TokensFrom(text, i + 1)
    [] IsA(text, i, "illegal") -> Failure("#ERROR!")
    [] OTHER ->
         Then(IF text[i].kind \in {"dollar", "letters"} THEN ReferenceAt(text, i)
              ELSE [token |-> text[i], next |-> i + 1],
              LAMBDA first : Then(TokensFrom(text, first.next),
                                  LAMBDA rest : [tokens |-> <<first.token>> \o rest.tokens]))

Tokenize(text) == TokensFrom(text, 1)

-----------------------------------------------------------------------------
(* Syntax trees.                                                            *)

NumberExpr(n) == [kind |-> "number", number |-> n]
StringExpr(s) == [kind |-> "string", string |-> s]
CellExpr(ref) == [kind |-> "cell", ref |-> ref]
RangeExpr(start, end) == [kind |-> "range", start |-> start, end |-> end]
UnaryExpr(op, operand) == [kind |-> "unary", op |-> op, operand |-> operand]
BinaryExpr(op, left, right) == [kind |-> "binary", op |-> op, left |-> left, right |-> right]
FuncExpr(name, args) == [kind |-> "func", name |-> name, args |-> args]

Abs(n) == IF n < 0 THEN -n ELSE n
RangeCells(start, end) == (Abs(end.col - start.col) + 1) * (Abs(end.row - start.row) + 1)

(* The state of a parse: the next token, the nodes built, the brackets and  *)
(* calls open, and the last tree.                                           *)
At(st, tokens, p) == IsA(tokens, st.pos, "punct") /\ tokens[st.pos].punct = p
AtOneOf(st, tokens, ops) == IsA(tokens, st.pos, "punct") /\ tokens[st.pos].punct \in ops
Advance(st) == [st EXCEPT !.pos = @ + 1]
Enter(st) == IF st.depth = MaxNestDepth THEN Failure("#ERROR!") ELSE [st EXCEPT !.depth = @ + 1]
Leave(st) == [st EXCEPT !.depth = @ - 1]

Node(st, ast) ==
  IF st.nodes = MaxAstNodes THEN Failure("#ERROR!")
  ELSE [st EXCEPT !.nodes = @ + 1, !.ast = ast]

Comparisons == {"<", ">", "<=", ">=", "=", "<>"}

RECURSIVE ParseExpression(_, _), ParseLevel(_, _, _), ParseRest(_, _, _),
          ParseUnary(_, _), ParsePrimary(_, _), ParseArguments(_, _, _)

(* The levels of left-associative operators, loosest first.                 *)
Level == << {"+", "-"}, {"*", "/"}, {"^"} >>

Operated(st, tokens, right) == Node(right, BinaryExpr(tokens[st.pos].punct, st.ast, right.ast))

(* An operand of the operators of a level.                                  *)
ParseOperand(st, tokens, level) ==
  IF level = Len(Level) THEN ParseUnary(st, tokens) ELSE ParseLevel(st, tokens, level + 1)

(* Slip: a ^ b ^ c is read from the right.                                  *)
ParseRestFromTheRight(st, tokens, level) ==
  IF ~AtOneOf(st, tokens, Level[level]) THEN st
  ELSE Then(ParseLevel(Advance(st), tokens, level), LAMBDA right : Operated(st, tokens, right))

(* The loop over the operators of one level, with the left operand in st.   *)
ParseRest(st, tokens, level) ==
  IF ~AtOneOf(st, tokens, Level[level]) THEN st
  ELSE Then(Then(ParseOperand(Advance(st), tokens, level), LAMBDA right : Operated(st, tokens, right)),
            LAMBDA both : ParseRest(both, tokens, level))

ParseLevel(st, tokens, level) ==
  Then(ParseOperand(st, tokens, level), LAMBDA left : ParseRest(left, tokens, level))

(* A comparison operator after an expression is reserved and refused.       *)
ParseExpression(st, tokens) ==
  Then(ParseLevel(st, tokens, 1),
       LAMBDA left : IF AtOneOf(left, tokens, Comparisons) THEN Failure("#ERROR!") ELSE left)

(* A run of signs, bounded like the nesting, then the operand; the sign     *)
(* next to the operand binds first.                                         *)
ParseUnary(st, tokens) ==
  LET signs == LET run == {n \in 0..Len(tokens) :
                             \A i \in 0..n-1 : AtOneOf([st EXCEPT !.pos = @ + i], tokens, {"+", "-"})}
               IN  CHOOSE n \in run : \A k \in run : k <= n
      operand == ParsePrimary([st EXCEPT !.pos = @ + signs], tokens)
      sign(i) == tokens[st.pos + signs - i].punct
      wrap(s, i) == IF Failed(s) THEN s ELSE Node(s, UnaryExpr(sign(i), s.ast))
  IN  IF signs > MaxNestDepth THEN Failure("#ERROR!")
      ELSE FoldLeft(wrap, operand, [i \in 1..signs |-> i])

(* The arguments after the first one; args are those already parsed.        *)
ParseArguments(st, tokens, args) ==
  IF ~At(st, tokens, ",") THEN [st EXCEPT !.ast = args]
  ELSE Then(ParseExpression(Advance(st), tokens),
            LAMBDA next : IF Len(args) = MaxFunctionArgs THEN Failure("#ERROR!")
                          ELSE ParseArguments(next, tokens, Append(args, next.ast)))

(* name "(" arguments ")", with st at the bracket.                          *)
ParseFunctionCall(st, tokens, name) ==
  LET arguments(open) ==
        IF name \notin KnownFunction THEN Failure("#NAME?")
        ELSE IF At(open, tokens, ")") THEN Failure("#ERROR!")
        ELSE Then(ParseExpression(open, tokens),
                  LAMBDA first : ParseArguments(first, tokens, <<first.ast>>))
      close(all) == IF ~At(all, tokens, ")") THEN Failure("#ERROR!")
                    ELSE Node(Leave(Advance(all)), FuncExpr(name, all.ast))
  IN  Then(Then(Enter(Advance(st)), arguments), close)

ParseReference(st, tokens) ==
  LET start == tokens[st.pos].ref
      end == tokens[st.pos + 2].ref
  IN  IF ~At(Advance(st), tokens, ":") THEN Node(Advance(st), CellExpr(start))
      ELSE IF ~IsA(tokens, st.pos + 2, "cell") THEN Failure("#ERROR!")
      ELSE IF RangeCells(start, end) > MaxRangeCells THEN Failure("#REF!")
      ELSE Node([st EXCEPT !.pos = @ + 3], RangeExpr(start, end))

ParsePrimary(st, tokens) ==
  CASE IsA(tokens, st.pos, "number") -> Node(Advance(st), NumberExpr(tokens[st.pos].number))
    [] IsA(tokens, st.pos, "string") -> Node(Advance(st), StringExpr(tokens[st.pos].string))
    [] IsA(tokens, st.pos, "cell") -> ParseReference(st, tokens)
    [] IsA(tokens, st.pos, "ident") ->
         IF ~At(Advance(st), tokens, "(") THEN Failure("#NAME?")
         ELSE ParseFunctionCall(Advance(st), tokens, tokens[st.pos].name)
    [] At(st, tokens, "(") ->
         Then(Then(Enter(Advance(st)), LAMBDA open : ParseExpression(open, tokens)),
              LAMBDA inner : IF At(inner, tokens, ")") THEN Leave(Advance(inner)) ELSE Failure("#ERROR!"))
    [] OTHER -> Failure("#ERROR!")

(* The whole text must be used up.                                          *)
Parse(text) ==
  LET start == [pos |-> 1, nodes |-> 0, depth |-> 0, ast |-> <<>>]
      whole(tokens, st) == IF st.pos = Len(tokens) + 1 THEN [ast |-> st.ast] ELSE Failure("#ERROR!")
  IN  IF Len(text) + 1 > MaxFormulaChars THEN Failure("#ERROR!")
      ELSE Then(Tokenize(text),
                LAMBDA tk : IF tk.tokens = <<>> THEN Failure("#ERROR!")
                            ELSE Then(ParseExpression(start, tk.tokens),
                                      LAMBDA st : whole(tk.tokens, st)))

-----------------------------------------------------------------------------
(* String(): a number far from 1 has an exponent.                           *)
NumberText(n) ==
  IF n < LargeNumber THEN <<NumberPiece(n)>>
  ELSE <<NumberPiece(1), LettersPiece("e"), Punct("+"), NumberPiece(n)>>

(* JSON.stringify writes escapes, which the tokenizer reads as they stand:  *)
(* it takes an escaped quotation mark for the end of the string, after      *)
(* which nothing fits, and any other escape for two characters of another   *)
(* string.                                                                  *)
StringText(s) ==
  CASE s \in Quoting  -> <<Illegal>>
    [] s \in Escaping -> <<StringPiece("\\" \o s)>>
    [] OTHER          -> <<StringPiece(s)>>

(* serialize and refToA1: the canonical text of a tree, every operation in  *)
(* brackets.                                                                *)
RefToA1(ref) ==
  (IF ref.colAbs THEN <<Dollar>> ELSE <<>>)
  \o <<LettersPiece(CHOOSE l \in Letters : ColumnOf[l] = ref.col)>>
  \o (IF ref.rowAbs THEN <<Dollar>> ELSE <<>>)
  \o NumberText(ref.row + 1)

RECURSIVE Serialize(_)
Serialize(e) ==
  CASE e.kind = "number" -> NumberText(e.number)
    [] e.kind = "string" -> StringText(e.string)
    [] e.kind = "cell" -> RefToA1(e.ref)
    [] e.kind = "range" -> RefToA1(e.start) \o <<Punct(":")>> \o RefToA1(e.end)
    [] e.kind = "unary" -> <<Punct("("), Punct(e.op)>> \o Serialize(e.operand) \o <<Punct(")")>>
    [] e.kind = "binary" ->
         <<Punct("(")>> \o Serialize(e.left) \o <<Punct(e.op)>> \o Serialize(e.right) \o <<Punct(")")>>
    [] e.kind = "func" ->
         LET comma(all, arg) == all \o (IF Len(all) = 2 THEN <<>> ELSE <<Punct(",")>>) \o Serialize(arg)
         IN  FoldLeft(comma, <<LettersPiece(e.name), Punct("(")>>, e.args) \o <<Punct(")")>>
=============================================================================
