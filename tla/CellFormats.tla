----------------------------- MODULE CellFormats -----------------------------
(***************************************************************************)
(* From what is typed to what is drawn: the value a text is committed as   *)
(* (packages/core: cell-input.ts) and the text, colour and ground that a   *)
(* column's display format and rules give to a value (packages/grid:       *)
(* display-format.ts, format-rules.ts).                                    *)
(*                                                                         *)
(* A text is a sequence of one-character strings, the empty one a blank    *)
(* cell.  A value is known by its raw text (cellScalarToDisplay), numbers  *)
(* being short enough for that to be exact.  The options of a grid are     *)
(*   stringColumns      the columns whose texts are never converted        *)
(*   displayFormats     column -> format of a number or of a date          *)
(*   columnFormats      column -> rules [match, style]                     *)
(*   columnBackgrounds, rowBackgrounds  column, row -> colour              *)
(* with "none" for what is not given.                                      *)
(***************************************************************************)
EXTENDS Integers, Sequences, FiniteSetsExt, SequencesExt

Numerals == <<"0", "1", "2", "3", "4", "5", "6", "7", "8", "9">>

DigitOf(c) == (CHOOSE i \in DOMAIN Numerals : Numerals[i] = c) - 1

AreDigits(s) == s # <<>> /\ ToSet(s) \subseteq ToSet(Numerals)

Negative(raw) == raw # <<>> /\ raw[1] = "-"

Magnitude(raw) == IF Negative(raw) THEN Tail(raw) ELSE raw

Point(s) == SelectInSeq(s, LAMBDA c : c = ".")

IntDigits(s) == IF Point(s) = 0 THEN s ELSE SubSeq(s, 1, Point(s) - 1)

FracDigits(s) == IF Point(s) = 0 THEN <<>> ELSE SubSeq(s, Point(s) + 1, Len(s))

(* NUMERIC_RE, isNumericCell                                                *)
IsNumeric(raw) ==
  LET m == Magnitude(raw)
  IN  /\ AreDigits(IntDigits(m))
      /\ Point(m) # 0 => AreDigits(FracDigits(m))

AllZeros(s) == ToSet(s) \subseteq {"0"}

Zeros(n) == [i \in 1..Max({0, n}) |-> "0"]

StripLeadingZeros(s) ==
  LET kept == {i \in DOMAIN s : s[i] # "0"}
  IN  IF kept = {} THEN <<"0">> ELSE SubSeq(s, Min(kept), Len(s))

StripTrailingZeros(s) == SubSeq(s, 1, Max({0} \cup {i \in DOMAIN s : s[i] # "0"}))

-----------------------------------------------------------------------------
(* What a text is committed as (parseCellInput).                            *)

Wide == [w0 |-> "0", w1 |-> "1", w2 |-> "2", w3 |-> "3", w4 |-> "4", w5 |-> "5", w6 |-> "6",
         w7 |-> "7", w8 |-> "8", w9 |-> "9", wMinus |-> "-", wComma |-> ",", wPoint |-> ".", wSlash |-> "/"]

NormalizeFullwidth(text) == [i \in DOMAIN text |-> IF text[i] \in DOMAIN Wide THEN Wide[text[i]] ELSE text[i]]

NumberOf(digits) == FoldLeft(LAMBDA n, c : 10 * n + DigitOf(c), 0, digits)

IsRealCalendarDate(year, month, day) ==
  LET leap == (year % 4 = 0 /\ year % 100 # 0) \/ year % 400 = 0
      days == <<31, IF leap THEN 29 ELSE 28, 31, 30, 31, 30, 31, 31, 30, 31, 30, 31>>
  IN  month \in 1..12 /\ day \in 1..days[month]

Pad2(s) == IF Len(s) = 1 THEN <<"0">> \o s ELSE s

(* tryParseDate: the date written YYYY-MM-DD, {} if there is none.          *)
TryParseDate(s) ==
  {SubSeq(s, 1, 4) \o <<"-">> \o Pad2(SubSeq(s, 6, at - 1)) \o <<"-">> \o Pad2(SubSeq(s, at + 1, Len(s))) :
     at \in {k \in {7, 8} \cap DOMAIN s :
               /\ s[5] \in {"-", "/"} /\ s[k] = s[5]
               /\ Len(s) - k \in {1, 2}
               /\ LET year == SubSeq(s, 1, 4) month == SubSeq(s, 6, k - 1) day == SubSeq(s, k + 1, Len(s))
                  IN  /\ \A field \in {year, month, day} : AreDigits(field)
                      /\ IsRealCalendarDate(NumberOf(year), NumberOf(month), NumberOf(day))}}

(* Slip: a comma is a comma, wherever it is.                                *)
IsGroupedAnyhow(s) == AreDigits(SelectSeq(s, LAMBDA c : c # ","))

(* NUMBER_GROUPED_RE, of the digits before the point.                       *)
IsGrouped(s) ==
  LET first == ((Len(s) - 1) % 4) + 1
      commas == {i \in (first + 1)..Len(s) : (i - first) % 4 = 1}
  IN  /\ Len(s) > 4 /\ first # 4
      /\ \A i \in DOMAIN s : IF i \in commas THEN s[i] = "," ELSE s[i] \in ToSet(Numerals)

(* tryParseNumber: the number as it is written, {} if there is none.        *)
TryParseNumber(s) ==
  LET m     == Magnitude(s)
      int   == StripLeadingZeros(SelectSeq(IntDigits(m), LAMBDA c : c # ","))
      frac  == StripTrailingZeros(FracDigits(m))
      zero  == int = <<"0">> /\ frac = <<>>
  IN  IF /\ AreDigits(IntDigits(m)) \/ IsGrouped(IntDigits(m))
         /\ Point(m) # 0 => AreDigits(FracDigits(m))
      THEN {(IF Negative(s) /\ ~zero THEN <<"-">> ELSE <<>>) \o int
              \o (IF frac = <<>> THEN <<>> ELSE <<".">> \o frac)}
      ELSE {}

ParseCellInput(text, forceString) ==
  LET normalized == NormalizeFullwidth(text)
      dates      == TryParseDate(normalized)
      numbers    == TryParseNumber(normalized)
  IN  IF text = <<>> \/ forceString THEN text
      ELSE IF dates # {} THEN CHOOSE date \in dates : TRUE
      ELSE IF numbers # {} THEN CHOOSE number \in numbers : TRUE
      ELSE text

-----------------------------------------------------------------------------
(* Formats of numbers: [type, grouping, decimals, percent, prefix, suffix,  *)
(* style, colour], with -1 decimals for as many as there are.               *)

(* Slip: the carry out of the first digit is lost.                          *)
IncrementDigitsInPlace(s) ==
  LET at == Max({0} \cup {i \in DOMAIN s : s[i] # "9"})
  IN  [i \in DOMAIN s |-> IF i < at THEN s[i] ELSE IF i = at THEN Numerals[DigitOf(s[i]) + 2] ELSE "0"]

IncrementDigits(s) ==
  LET at == Max({0} \cup {i \in DOMAIN s : s[i] # "9"})
      up == [i \in DOMAIN s |-> IF i < at THEN s[i] ELSE IF i = at THEN Numerals[DigitOf(s[i]) + 2] ELSE "0"]
  IN  IF at = 0 THEN <<"1">> \o up ELSE up

AddThousands(s) ==
  FlattenSeq([i \in DOMAIN s |-> IF i < Len(s) /\ (Len(s) - i) % 3 = 0 THEN <<s[i], ",">> ELSE <<s[i]>>])

(* The point n places to the right, of <<digits before, digits after>>.     *)
ShiftPointRight(digits, n) ==
  LET frac == digits[2] \o Zeros(n - Len(digits[2]))
  IN  <<digits[1] \o SubSeq(frac, 1, n), SubSeq(frac, n + 1, Len(frac))>>

RoundHalfUp(digits, decimals) ==
  LET int   == digits[1]
      frac  == digits[2]
      kept  == int \o SubSeq(frac, 1, decimals)
      whole == IF DigitOf(frac[decimals + 1]) >= 5 THEN IncrementDigits(kept) ELSE kept
  IN  IF Len(frac) <= decimals THEN <<int, frac \o Zeros(decimals - Len(frac))>>
      ELSE <<SubSeq(whole, 1, Len(whole) - decimals), SubSeq(whole, Len(whole) - decimals + 1, Len(whole))>>

(* formatNumberBody: up to the "%", and whether it reads as negative.       *)
Body(digits, minus, format) ==
  LET int == StripLeadingZeros(digits[1])
  IN  [body |-> (IF format.grouping THEN AddThousands(int) ELSE int)
                  \o (IF digits[2] = <<>> THEN <<>> ELSE <<".">> \o digits[2])
                  \o (IF format.percent THEN <<"%">> ELSE <<>>),
       negative |-> minus /\ ~AllZeros(digits[1] \o digits[2])]

Shifted(digits, format) == IF format.percent THEN ShiftPointRight(digits, 2) ELSE digits

Rounded(digits, format) == IF format.decimals < 0 THEN digits ELSE RoundHalfUp(digits, format.decimals)

FormatNumberBody(raw, format) ==
  LET m == Magnitude(raw)
  IN  Body(Rounded(Shifted(<<IntDigits(m), FracDigits(m)>>, format), format), Negative(raw), format)

(* The sign a number has in its format, around its body.                    *)
Signed(f, format) ==
  LET around(sign) == format.prefix \o sign \o f.body \o format.suffix
  IN  IF ~f.negative THEN around(<<>>)
      ELSE IF format.style = "parentheses" THEN <<"(">> \o around(<<>>) \o <<")">>
      ELSE around(IF format.style = "triangle" THEN <<"^">> ELSE <<"-">>)

FormatNumber(raw, format) == IF IsNumeric(raw) THEN Signed(FormatNumberBody(raw, format), format) ELSE raw

NoDecoration == [ink |-> "none", pad |-> 0]

(* Slip: whatever begins with a minus is negative.                          *)
DecorateNumberByItsMinus(raw, format) ==
  IF ~IsNumeric(raw) THEN NoDecoration
  ELSE IF Negative(raw) THEN [NoDecoration EXCEPT !.ink = format.colour]
  ELSE [NoDecoration EXCEPT !.pad = IF format.style = "parentheses" THEN 1 ELSE 0]

DecorateNumber(raw, format) ==
  IF ~IsNumeric(raw) THEN NoDecoration
  ELSE IF FormatNumberBody(raw, format).negative THEN [NoDecoration EXCEPT !.ink = format.colour]
  ELSE [NoDecoration EXCEPT !.pad = IF format.style = "parentheses" THEN 1 ELSE 0]

-----------------------------------------------------------------------------
(* Formats of dates: [type, pattern].                                       *)

DateTokens == [YYYY |-> <<"Y", "Y", "Y", "Y">>, MM |-> <<"M", "M">>, DD |-> <<"D", "D">>,
               HH |-> <<"H", "H">>, mm |-> <<"m", "m">>, ss |-> <<"s", "s">>]

(* tokenizeDatePattern: [token, literal], the one or the other empty.       *)
TokenizeDatePattern(pattern) ==
  LET starts(i, t) == SubSeq(pattern, i, i + Len(DateTokens[t]) - 1) = DateTokens[t]
      parts[i \in 1..(Len(pattern) + 1)] ==
        LET tokens == {t \in DOMAIN DateTokens : i + Len(DateTokens[t]) - 1 <= Len(pattern) /\ starts(i, t)}
            token  == CHOOSE t \in tokens : TRUE
        IN  IF i > Len(pattern) THEN <<>>
            ELSE IF tokens = {} THEN <<[token |-> "", literal |-> pattern[i]]>> \o parts[i + 1]
            ELSE <<[token |-> token, literal |-> ""]>> \o parts[i + Len(DateTokens[token])]
  IN  parts[1]

TokensOf(parts) == {parts[i].token : i \in DOMAIN parts} \ {""}

(* DATE_ONLY_RE, DATE_TIME_RE: "d" is a digit, "T" a "T" or a blank.        *)
HasShape(s, shape) ==
  /\ Len(s) = Len(shape)
  /\ \A i \in DOMAIN s : IF shape[i] = "d" THEN s[i] \in ToSet(Numerals)
                         ELSE IF shape[i] = "T" THEN s[i] \in {"T", " "} ELSE s[i] = shape[i]

DateOnly == <<"d", "d", "d", "d", "-", "d", "d", "-", "d", "d">>
DateTime == DateOnly \o <<"T", "d", "d", ":", "d", "d">>
DateTimeSeconds == DateTime \o <<":", "d", "d">>

(* Where the fields of a raw date are.                                      *)
FieldAt == [YYYY |-> <<1, 4>>, MM |-> <<6, 7>>, DD |-> <<9, 10>>, HH |-> <<12, 13>>, mm |-> <<15, 16>>, ss |-> <<18, 19>>]

FieldsOf(raw) ==
  IF HasShape(raw, DateOnly) THEN {"YYYY", "MM", "DD"}
  ELSE IF HasShape(raw, DateTime) THEN {"YYYY", "MM", "DD", "HH", "mm"}
  ELSE IF HasShape(raw, DateTimeSeconds) THEN DOMAIN FieldAt
  ELSE {}

(* formatDate: no field is made up, a text without one of them stays raw.   *)
FormatDate(raw, pattern) ==
  LET parts == TokenizeDatePattern(pattern)
      field(t) == SubSeq(raw, FieldAt[t][1], FieldAt[t][2])
  IN  IF FieldsOf(raw) = {} \/ ~(TokensOf(parts) \subseteq FieldsOf(raw)) THEN raw
      ELSE FlattenSeq([i \in DOMAIN parts |->
             IF parts[i].token = "" THEN <<parts[i].literal>> ELSE field(parts[i].token)])

-----------------------------------------------------------------------------
(* The compiled options: what is drawn for a value, and what is refused.    *)

FormatText(options, column, raw) ==
  IF column \notin DOMAIN options.displayFormats THEN raw
  ELSE LET format == options.displayFormats[column]
       IN  IF format.type = "number" THEN FormatNumber(raw, format) ELSE FormatDate(raw, format.pattern)

DecorationFor(options, column, raw) ==
  IF column \notin DOMAIN options.displayFormats THEN NoDecoration
  ELSE LET format == options.displayFormats[column]
       IN  IF format.type = "number" THEN DecorateNumber(raw, format) ELSE NoDecoration

NoStyle == [ground |-> "none", ink |-> "none", badge |-> FALSE]

(* getStyle: by the whole raw text.                                         *)
GetStyle(options, column, raw) ==
  LET rules == IF column \in DOMAIN options.columnFormats THEN ToSet(options.columnFormats[column]) ELSE {}
      styles == {rule.style : rule \in {s \in rules : raw \in ToSet(s.match)}}
  IN  IF styles = {} THEN NoStyle ELSE CHOOSE style \in styles : TRUE

(* getBackground                                                            *)
GetBackground(backgrounds, id) == IF id \in DOMAIN backgrounds THEN backgrounds[id] ELSE "none"

(* Slip: a format in a column whose texts wrap is let through.              *)
MayHaveFormatIfWrapped(column, columns, wrapped, linked) == column \in columns \ linked

(* What a format would draw is not what such columns are laid out by.       *)
MayHaveFormat(column, columns, wrapped, linked) == column \in columns \ (wrapped \cup linked)

(* validateNegative                                                         *)
NegativeIsValid(format) == format.style \in {"minus", "parentheses", "triangle"} /\ format.colour # ""

(* compileDisplayFormats                                                    *)
DisplayFormatsAreValid(options, columns, wrapped, linked) ==
  \A column \in DOMAIN options.displayFormats :
    LET format == options.displayFormats[column]
    IN  /\ MayHaveFormat(column, columns, wrapped, linked)
        /\ \/ /\ format.type = "number"
              /\ format.decimals \in -1..20
              /\ NegativeIsValid(format)
           \/ /\ format.type = "date"
              /\ TokensOf(TokenizeDatePattern(format.pattern)) # {}

(* compileFormatRules: no rule that never matches, none of two that match.  *)
ColumnFormatsAreValid(options, columns) ==
  \A column \in DOMAIN options.columnFormats :
    LET rules == options.columnFormats[column]
        matches == FlattenSeq([i \in DOMAIN rules |-> rules[i].match])
    IN  /\ column \in columns
        /\ rules # <<>>
        /\ \A rule \in ToSet(rules) : rule.match # <<>>
        /\ <<>> \notin ToSet(matches)
        /\ IsInjective(matches)

(* compileColumnBackgrounds, compileRowBackgrounds: a row need not be there. *)
BackgroundsAreValid(options, columns) ==
  /\ DOMAIN options.columnBackgrounds \subseteq columns
  /\ \A column \in DOMAIN options.columnBackgrounds : options.columnBackgrounds[column] # ""
  /\ \A row \in DOMAIN options.rowBackgrounds : options.rowBackgrounds[row] # ""

(* buildColumnTypeRegistry: a grid is wired up with all of them or not at all. *)
OptionsAreValid(options, columns, wrapped, linked) ==
  /\ ColumnFormatsAreValid(options, columns)
  /\ BackgroundsAreValid(options, columns)
  /\ DisplayFormatsAreValid(options, columns, wrapped, linked)
=============================================================================
