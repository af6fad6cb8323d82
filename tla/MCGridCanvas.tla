---------------------------- MODULE MCGridCanvas ----------------------------
(***************************************************************************)
(* A small instance of GridCanvas: five columns of which the first is      *)
(* frozen and the second wraps its texts, and three rows, one of them      *)
(* frozen, to which one may be added.  A glyph is one pixel.  In the first *)
(* scene all happens; the others are pictures of numbers and dates, under  *)
(* options some of which are refused.                                      *)
(***************************************************************************)
EXTENDS GridCanvas

CONSTANTS r1, r2, r3, r4, colId, colNote, colA, colB, colC

MCColumns == <<colId, colNote, colA, colB, colC>>

Chars(word) == [i \in 1..Len(word) |-> SubSeq(word, i, i)]

Long   == Chars("longs")
Short  == Chars("s")
Number == Chars("0120")
Badge  == Chars("new")

MCEdits == {<<r2, colNote, Short>>, <<r3, colB, Chars("7")>>, <<r4, colNote, Long>>}

Cells(at) == [r \in RowId |-> [k \in Column |-> IF <<r, k>> \in DOMAIN at THEN at[<<r, k>>] ELSE <<>>]]

None == << >>

Figures(grouping, decimals, percent, style, colour) ==
  [type |-> "number", grouping |-> grouping, decimals |-> decimals, percent |-> percent,
   prefix |-> None, suffix |-> None, style |-> style, colour |-> colour]

Money == [Figures(TRUE, 0, FALSE, "parentheses", "red") EXCEPT !.prefix = <<"$">>]
Ratio == [Figures(FALSE, 1, TRUE, "triangle", "blue") EXCEPT !.suffix = <<"!">>]
Exact == Figures(TRUE, -1, FALSE, "minus", "none")
Share == Figures(FALSE, -1, TRUE, "parentheses", "none")
Date(pattern) == [type |-> "date", pattern |-> Chars(pattern)]

Options(displayFormats) ==
  [stringColumns |-> {colC}, displayFormats |-> displayFormats,
   columnFormats |-> colC :> <<[match |-> <<Badge, Chars("-1")>>,
                                style |-> [ground |-> "badge", ink |-> "none", badge |-> TRUE]]>>
                  @@ colA :> <<[match |-> <<Chars("120"), Chars("-1")>>, style |-> [NoStyle EXCEPT !.ink = "green"]]>>,
   columnBackgrounds |-> colB :> "column", rowBackgrounds |-> r3 :> "row"]

Play ==
  [screen |-> <<7, 6>>, order |-> <<r1, r2, r3>>, width |-> 2, spent |-> 0,
   options |-> Options(colA :> Money @@ colB :> Share),
   cells |-> Cells(<<r1, colId>> :> Long @@ <<r1, colA>> :> Number @@ <<r2, colNote>> :> Long
                   @@ <<r2, colA>> :> Long @@ <<r3, colA>> :> Long @@ <<r3, colC>> :> Badge)]

(* The texts down the rows and along the columns, nothing happening.        *)
Still(formats, texts) ==
  [screen |-> <<42, 4>>, order |-> <<r1, r2, r3>>, width |-> MaxSize, spent |-> MaxSteps,
   options |-> Options(formats),
   cells |-> [r \in RowId |-> [c \in Column |->
                LET at == CHOOSE i \in 1..3 : <<r1, r2, r3>>[i] = r
                IN  IF r = r4 THEN <<>> ELSE Chars(texts[at])]]]

MCFormats ==
  {colId :> Money @@ colA :> Ratio @@ colB :> Exact @@ colC :> Share,
   colId :> Date("YYMM:DD") @@ colA :> Date("YYYY/MM/DD") @@ colB :> Date("D.DDMM") @@ colC :> Date("HHhmm"),
   colA :> Figures(TRUE, 2, FALSE, "minus", "red") @@ colB :> Date("ss YYYYYYYY"),
   colNote :> Date("YYYY-MM-DD HH"),
   colId :> Date("--"), colB :> Figures(TRUE, 21, FALSE, "minus", "none")}

MCTexts ==
  {<<"-1234.5", "99999.5", "-0.4">>, <<"0", "-0", "007">>, <<"1,234", "1,23", "-12,345.60">>,
   <<"0.005", "-0.0004", "0.99996">>, <<"-1", "1.", ".5">>, <<"12-3", "-", "--1">>,
   <<"2026-07-03", "2026/7/3", "2026-02-29">>, <<"2024-2-29", "1900-02-29", "2000/02/29">>,
   <<"2026-07-03 09:30", "2026-07-03T09:30:15", "2026-13-01">>, <<"1,234,567", "1234,567", ",123">>}

WideTexts ==
  [Still(colA :> Exact, <<"1", "", "">>) EXCEPT
     !.cells[r1][colA] = <<"wMinus", "w1", "wComma", "w2", "w3", "0", "wPoint", "w5">>,
     !.cells[r1][colC] = <<"w1", "2">>,
     !.cells[r2][colA] = <<"w2", "0", "2", "6", "wSlash", "7", "wSlash", "w9">>]

MCScenes == {Play, WideTexts} \cup {Still(formats, texts) : formats \in MCFormats, texts \in MCTexts}

MCMarks == {<<r2, colA>>, <<r3, colC>>}
MCPeers == {<<r3, colB>>}
MCScreens == {<<7, 6>>, <<6, 8>>}
MCScrolled == {<<2, 5>>}
MCAsked == {<<"row", r3>>, <<"row", r4>>, <<"column", colC>>}
=============================================================================
