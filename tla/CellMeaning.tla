----------------------------- MODULE CellMeaning -----------------------------
(***************************************************************************)
(* What should be seen of a text entered in a cell, said by arithmetic on  *)
(* the number it stands for and by the places of a date's digits: the      *)
(* reference CellFormats is checked against.  It models no code.           *)
(***************************************************************************)
EXTENDS CellFormats

(* The number a text stands for, if any: digits / 10^decimals.  Its commas, *)
(* if there are any, stand at every third digit before the point.           *)
Amounts(text) ==
  LET s      == NormalizeFullwidth(text)
      minus  == s # <<>> /\ s[1] = "-"
      first  == IF minus THEN 2 ELSE 1
      point  == Min({Len(s) + 1} \cup {i \in DOMAIN s : s[i] = "."})
      commas == {i \in DOMAIN s : s[i] = ","}
      others == {i \in first..Len(s) : i # point /\ i \notin commas}
      figures == SelectSeq(s, LAMBDA c : c \in ToSet(Numerals))
  IN  IF /\ \A i \in others : s[i] \in ToSet(Numerals)
         /\ point > first /\ point # Len(s)
         /\ commas \in {{}, {i \in first..point : (point - i) % 4 = 0 /\ i # point}}
         /\ first \notin commas
      THEN {[minus |-> minus, decimals |-> IF point > Len(s) THEN 0 ELSE Len(s) - point,
             digits |-> FoldLeft(LAMBDA n, c : 10 * n + DigitOf(c), 0, figures)]}
      ELSE {}

WithDecimals(n, decimals) ==
  [n EXCEPT !.decimals = decimals,
            !.digits = IF decimals >= n.decimals THEN @ * 10^(decimals - n.decimals)
                       ELSE (@ + 5 * 10^(n.decimals - decimals - 1)) \div 10^(n.decimals - decimals)]

(* Without zeros at the end of its decimals.                                *)
Shortest(n) == WithDecimals(n, n.decimals - Max({i \in 0..n.decimals : n.digits % 10^i = 0}))

Percent(n) == [n EXCEPT !.decimals = Max({0, @ - 2}), !.digits = IF n.decimals < 2 THEN @ * 10^(2 - n.decimals) ELSE @]

(* The digits, a point among them and commas if it is grouped.              *)
Written(n, grouped) ==
  LET places == Max({n.decimals + 1, Min({10} \cup {k \in 1..9 : n.digits < 10^k})})
      at(i)  == <<Numerals[((n.digits \div 10^i) % 10) + 1]>>
                  \o (IF i = n.decimals /\ i > 0 THEN <<".">> ELSE <<>>)
                  \o (IF grouped /\ i > n.decimals /\ (i - n.decimals) % 3 = 0 THEN <<",">> ELSE <<>>)
  IN  FlattenSeq([k \in 1..places |-> at(places - k)])

IsNegative(n) == n.minus /\ n.digits # 0

(* The number as its column's format has it.                                *)
InFormat(n, format) ==
  LET scaled == IF format.percent THEN Percent(n) ELSE n
  IN  IF format.decimals < 0 THEN scaled ELSE WithDecimals(scaled, format.decimals)

NumberSeen(n, format) ==
  LET m     == InFormat(n, format)
      style == IF IsNegative(m) THEN format.style ELSE "none"
  IN  (IF style = "parentheses" THEN <<"(">> ELSE <<>>)
        \o format.prefix
        \o (IF style = "minus" THEN <<"-">> ELSE IF style = "triangle" THEN <<"^">> ELSE <<>>)
        \o Written(m, format.grouping)
        \o (IF format.percent THEN <<"%">> ELSE <<>>)
        \o format.suffix
        \o (IF style = "parentheses" THEN <<")">> ELSE <<>>)

-----------------------------------------------------------------------------
(* Dates.                                                                   *)

(* The days from a fixed one to the first of a month, years from March on.  *)
DaysTo(year, month) ==
  LET y == IF month < 3 THEN year - 1 ELSE year
      m == IF month < 3 THEN month + 9 ELSE month - 3
  IN  365 * y + (y \div 4) - (y \div 100) + (y \div 400) + ((153 * m + 2) \div 5)

DaysIn(year, month) ==
  (IF month = 12 THEN DaysTo(year + 1, 1) ELSE DaysTo(year, month + 1)) - DaysTo(year, month)

Pair(n) == <<Numerals[(n \div 10) + 1], Numerals[(n % 10) + 1]>>

(* The day a text names, if any, as year-month-day.                         *)
Days(text) ==
  LET s     == NormalizeFullwidth(text)
      marks == {i \in DOMAIN s : s[i] \notin ToSet(Numerals)}
      last  == Max(marks \cup {0})
      value(from, to) == FoldLeft(LAMBDA n, c : 10 * n + DigitOf(c), 0, SubSeq(s, from, to))
      month == value(6, last - 1)
      day   == value(last + 1, Len(s))
  IN  IF /\ marks \in {{5, 7}, {5, 8}} /\ Len(s) - last \in {1, 2}
         /\ <<s[5], s[last]>> \in {<<"-", "-">>, <<"/", "/">>}
         /\ month \in 1..12 /\ day \in 1..DaysIn(value(1, 4), month)
      THEN {SubSeq(s, 1, 4) \o <<"-">> \o Pair(month) \o <<"-">> \o Pair(day)}
      ELSE {}

(* How long the digits of a letter's field are, and where in a day's text.  *)
Letters == [Y |-> <<4, 1>>, M |-> <<2, 6>>, D |-> <<2, 9>>, H |-> <<2, 12>>, m |-> <<2, 15>>, s |-> <<2, 18>>]

(* The letters of a pattern that stand for digits: those of whole fields in *)
(* the run of a letter.                                                     *)
Place(pattern, i) ==
  LET same(from, to) == \A k \in from..to : pattern[k] = pattern[i]
      first == Min({k \in 1..i : same(k, i)})
      last  == Max({k \in i..Len(pattern) : same(i, k)})
      size  == Letters[pattern[i]][1]
  IN  [digit |-> (i - first) % size,
       whole |-> (i - first) \div size < (last - first + 1) \div size]

Stands(pattern) ==
  {i \in DOMAIN pattern : pattern[i] \in DOMAIN Letters /\ Place(pattern, i).whole}

DateSeen(raw, pattern) ==
  LET marks == {i \in DOMAIN raw : raw[i] \notin ToSet(Numerals)}
      sign(i) == IF i \in {5, 8} THEN {"-"} ELSE IF i = 11 THEN {"T", " "} ELSE {":"}
      where(i) == Letters[pattern[i]][2] + Place(pattern, i).digit
  IN  IF /\ <<Len(raw), marks>> \in {<<10, {5, 8}>>, <<16, {5, 8, 11, 14}>>, <<19, {5, 8, 11, 14, 17}>>}
         /\ \A i \in marks : raw[i] \in sign(i)
         /\ \A i \in Stands(pattern) : where(i) <= Len(raw)
      THEN [i \in DOMAIN pattern |-> IF i \in Stands(pattern) THEN raw[where(i)] ELSE pattern[i]]
      ELSE raw

-----------------------------------------------------------------------------
(* What is to be seen of a text entered in a column.                        *)

Plain(n) == (IF IsNegative(n) THEN <<"-">> ELSE <<>>) \o Written(n, FALSE)

(* The value it is entered as: a number, if it is one, and how it reads.    *)
Value(text, asIs, amounts, days) ==
  LET converted == CHOOSE n \in amounts : TRUE
  IN  IF asIs THEN [raw |-> text, number |-> {n \in amounts : ToSet(text) \cap (DOMAIN Wide \cup {","}) = {}}]
      ELSE [raw |-> IF amounts # {} THEN Plain(Shortest(converted))
                    ELSE IF days # {} THEN CHOOSE day \in days : TRUE ELSE text,
            number |-> {Shortest(n) : n \in amounts}]

(* A number in the format of its column.                                    *)
FigureSeen(style, n, format) ==
  LET negative == IsNegative(InFormat(n, format))
  IN  [text   |-> NumberSeen(n, format),
       kind   |-> IF style.badge THEN "badge" ELSE "number",
       ink    |-> IF style.ink # "none" THEN style.ink ELSE IF negative THEN format.colour ELSE "none",
       ground |-> style.ground,
       pad    |-> IF ~negative /\ format.style = "parentheses" THEN 1 ELSE 0]

ValueSeen(value, style, format) ==
  IF format.type = "number" /\ value.number # {}
  THEN FigureSeen(style, CHOOSE n \in value.number : TRUE, format)
  ELSE [text   |-> IF format.type = "date" THEN DateSeen(value.raw, format.pattern) ELSE value.raw,
        kind   |-> IF style.badge THEN "badge" ELSE IF value.number # {} THEN "number" ELSE "text",
        ink    |-> style.ink,
        ground |-> style.ground,
        pad    |-> 0]

Styled(options, column, value) ==
  ValueSeen(value, GetStyle(options, column, value.raw),
            IF column \in DOMAIN options.displayFormats THEN options.displayFormats[column] ELSE [type |-> "none"])

Meant(options, column, text) ==
  Styled(options, column, Value(text, column \in options.stringColumns, Amounts(text), Days(text)))
=============================================================================
