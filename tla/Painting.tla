------------------------------ MODULE Painting ------------------------------
(***************************************************************************)
(* What a frame puts on the screen (packages/render: base-layer.ts,        *)
(* overlay-layer.ts, text-overflow.ts, text-cache.ts): the ground of each  *)
(* cell, its text, the headers and the cells of the other users.           *)
(*                                                                         *)
(* A character is a glyph of size 1 by 1 and a cell has no padding; grid   *)
(* lines, borders and frames have no width.  What is drawn of a cell is    *)
(*   text, kind  its text on display, and what it is taken for             *)
(*   ink, ground the colours its format or its rule gives it               *)
(*   pad         the room left on its right                                *)
(* A frame is                                                              *)
(*   rows, cols  the bands       rowIds, colIds  the axes                  *)
(*   cell        row -> column -> what is drawn                            *)
(*   rowGround, columnGround     the colours of whole rows and columns     *)
(*   marks       the cells with a status                                   *)
(*   peers       the cells other users are in                              *)
(* the last five by position.                                              *)
(***************************************************************************)
EXTENDS Viewport, CellFormats

CONSTANTS
  Wrapped, Linked,           \* the columns whose texts wrap, and of links
  Bordered,                  \* the columns with a border on their left
  MaxInflow                  \* MAX_LEFT_INFLOW_SCAN

Ellipsis == "..."

(* Slip: a value is judged by what it looks like in its format.             *)
KindByItsLook(raw, text, badge) == IF badge THEN "badge" ELSE IF IsNumeric(text) THEN "number" ELSE "text"

KindOf(raw, text, badge) == IF badge THEN "badge" ELSE IF IsNumeric(raw) THEN "number" ELSE "text"

(* What is drawn of a value: judged by its raw text, shown in its format.   *)
Drawn(options, column, raw) ==
  LET style      == GetStyle(options, column, raw)
      decoration == DecorationFor(options, column, raw)
      text       == FormatText(options, column, raw)
  IN  [text   |-> text,
       kind   |-> KindOf(raw, text, style.badge),
       ink    |-> IF style.ink # "none" THEN style.ink ELSE decoration.ink,
       ground |-> style.ground,
       pad    |-> decoration.pad]

(* fitText                                                                  *)
FitText(text, room) ==
  IF room <= 0 THEN <<>>
  ELSE IF Len(text) <= room THEN text
  ELSE Append(SubSeq(text, 1, room - 1), Ellipsis)

(* wrapLines, of a text that is not empty.                                  *)
WrapLines(text, room) ==
  [k \in 1..((Len(text) + room - 1) \div room) |->
     SubSeq(text, (k - 1) * room + 1, Within(k * room, 1, Len(text)))]

-----------------------------------------------------------------------------
(* Texts on the screen: [x, y, text, ink], from the left.                   *)

Stroke(x, y, text, ink) == [x |-> x, y |-> y, text |-> text, ink |-> ink]

Shown(s, point) == IF point[2] = s.y /\ point[1] \in s.x..(s.x + Len(s.text) - 1)
                   THEN {<<s.text[point[1] - s.x + 1], s.ink>>} ELSE {}

Middle(f, r) == Edge(f.rows, r) + (f.rows.sizes[r] - 1) \div 2

IsBordered(f, c) == c \in DOMAIN f.colIds /\ f.colIds[c] \in Bordered

IsEmpty(f, r, c) == f.cell[r][c].text = <<>>

(* A text that may run over into the cells on its right.                    *)
RunsOver(f, r, c) ==
  /\ f.cell[r][c].kind = "text"
  /\ f.colIds[c] \notin Wrapped \cup Linked

(* Slip: a text runs on under the texts it meets.                           *)
OverflowEndAtBorders(f, r, c, end) == Min({e \in (c + 1)..end : e = end \/ IsBordered(f, e)})

(* overflowRightExtent: the first column a text from column c does not      *)
(* reach; end is where the range of the pane ends.                          *)
OverflowEnd(f, r, c, end) ==
  Min({e \in (c + 1)..end : e = end \/ IsBordered(f, e) \/ ~IsEmpty(f, r, e)})

(* drawOverflowCell: cut short before another text, whole where only the    *)
(* pane ends.                                                               *)
Overflow(f, r, c, end) ==
  LET text    == f.cell[r][c].text
      size    == f.cols.sizes[c]
      stop    == OverflowEnd(f, r, c, end)
      blocked == stop < end \/ IsBordered(f, stop)
      room    == Edge(f.cols, stop - 1) + f.cols.sizes[stop - 1] - Edge(f.cols, c)
      shown   == IF Len(text) > size /\ blocked THEN FitText(text, Max({size, room})) ELSE text
  IN  {Stroke(Edge(f.cols, c), Middle(f, r), shown, f.cell[r][c].ink)}

(* drawBadgeCell, drawLinkCell, numbers, drawWrapCell and the rest.  Links  *)
(* have the colour of links.                                                *)
CellText(f, r, c, end) ==
  LET v     == f.cell[r][c]
      x     == Edge(f.cols, c)
      size  == f.cols.sizes[c]
      fit   == FitText(v.text, size)
      figure == FitText(v.text, size - v.pad)
      lines == WrapLines(v.text, size)
  IN  IF v.kind = "badge" THEN {Stroke(x, Middle(f, r), fit, v.ink)}
      ELSE IF f.colIds[c] \in Linked THEN {Stroke(x, Middle(f, r), fit, "link")}
      ELSE IF v.kind = "number" THEN {Stroke(x + size - v.pad - Len(figure), Middle(f, r), figure, v.ink)}
      ELSE IF f.colIds[c] \notin Wrapped THEN Overflow(f, r, c, end)
      ELSE IF Len(lines) <= 1 THEN {Stroke(x, Middle(f, r), lines[1], v.ink)}
      ELSE {Stroke(x, Edge(f.rows, r) + k - 1, lines[k], v.ink) :
              k \in 1..Within(f.rows.sizes[r], 1, Len(lines))}

(* nearestLeftNonEmpty: the column whose text may run into the pane from    *)
(* before its first column, none if {}.                                     *)
Origin(f, r, first) ==
  LET low   == Frozen(f.cols) + 1
      open  == {c \in low..(first - 1) :
                  /\ first - c <= MaxInflow
                  /\ \A d \in (c + 1)..first : ~IsBordered(f, d)
                  /\ \A d \in (c + 1)..(first - 1) : IsEmpty(f, r, d)}
  IN  {c \in open : ~IsEmpty(f, r, c)}

(* Slip: texts are drawn from the cells of the pane only.                   *)
InflowOfNone(f, r, first, end) == {}

Inflow(f, r, first, end) ==
  IF first <= Frozen(f.cols) + 1 \/ ~IsEmpty(f, r, first) THEN {}
  ELSE UNION {Overflow(f, r, c, end) : c \in {d \in Origin(f, r, first) : RunsOver(f, r, d)}}

(* drawPaneValues: the texts of a pane's cells, and those that come in from *)
(* cells left of it.                                                        *)
PaneTexts(f, part) ==
  LET rows  == PartRange(f.rows, part[1])
      cols  == PartRange(f.cols, part[2])
      first == Min(cols)
      end   == Max(cols) + 1
      cells == {cell \in rows \X cols : ~IsEmpty(f, cell[1], cell[2])}
  IN  IF cols = {} THEN {}
      ELSE UNION ({CellText(f, cell[1], cell[2], end) : cell \in cells}
                    \cup {Inflow(f, r, first, end) : r \in rows})

-----------------------------------------------------------------------------
(* The picture.                                                             *)

PaneGround(part) == IF part = <<"scrolling", "scrolling">> THEN "body" ELSE "frozen"

(* A cell with a status has its ground in place of the value's.             *)
StatusGround(f, r, c) ==
  IF <<r, c>> \in f.marks THEN "status"
  ELSE IF IsEmpty(f, r, c) THEN "none" ELSE f.cell[r][c].ground

(* drawPane: the grounds of a cell in the order they are painted, "none"    *)
(* where there is none.                                                     *)
Grounds(f, part, r, c) ==
  <<PaneGround(part),
    f.columnGround[c], f.rowGround[r],
    StatusGround(f, r, c)>>

LastPainted(grounds) == grounds[Max({k \in DOMAIN grounds : grounds[k] # "none"})]

Seen(ground, text, peer) == [ground |-> ground, text |-> text, peer |-> peer]

(* rangePiecesAcrossPanes, drawPresence: another user is in one of the cells. *)
PeerIn(f, rows, cols) == (rows \X cols) \cap f.peers # {}

(* A point of a pane: what its cells, texts and other users leave on it.    *)
PaneAt(f, part, texts, point) ==
  LET rows == {r \in PartRange(f.rows, part[1]) : point[2] \in Span(f.rows, r)}
      cols == {c \in PartRange(f.cols, part[2]) : point[1] \in Span(f.cols, c)}
  IN  Seen(IF rows \X cols = {} THEN PaneGround(part)
           ELSE LastPainted(Grounds(f, part, CHOOSE r \in rows : TRUE, CHOOSE c \in cols : TRUE)),
           UNION {Shown(t[2], point) : t \in {s \in texts : s[1] = part}},
           PeerIn(f, rows, cols))

(* drawHeaders: the headers of a band over a pixel.                         *)
HeadersAt(b, ids, pixel) ==
  {ids[i] : i \in {j \in DOMAIN ids :
                     \E part \in Part : /\ pixel \in Clip(b, part) \cap Span(b, j)
                                        /\ j \in PartRange(b, part)}}

Points(f) == (0..(f.cols.extent - 1)) \X (0..(f.rows.extent - 1))

Panes == Part \X Part

Picture(f) ==
  LET texts == UNION {{<<part, s>> : s \in PaneTexts(f, part)} : part \in Panes}
  IN  [p \in Points(f) |->
         IF p[1] < f.cols.header
         THEN Seen("header", IF p[2] < f.rows.header THEN {} ELSE HeadersAt(f.rows, f.rowIds, p[2]), FALSE)
         ELSE IF p[2] < f.rows.header THEN Seen("header", HeadersAt(f.cols, f.colIds, p[1]), FALSE)
         ELSE PaneAt(f, CHOOSE part \in Panes : /\ p[2] \in Clip(f.rows, part[1])
                                                /\ p[1] \in Clip(f.cols, part[2]), texts, p)]
=============================================================================
