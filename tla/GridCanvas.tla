----------------------------- MODULE GridCanvas -----------------------------
(***************************************************************************)
(* A grid on the screen: the axes a document's rows are laid out on, their *)
(* sizes given by the user or by the texts that wrap, scrolling, resizing, *)
(* and the frames that paint it (packages/grid: document-view.ts,          *)
(* mount-controller.ts; packages/render).                                  *)
(*                                                                         *)
(* The document is what messages make of it: CollabView and Collab say     *)
(* which.  A scroll event is part of the step that scrolls, since browsers *)
(* deliver it before the next frame.                                       *)
(***************************************************************************)
EXTENDS Painting, CellMeaning, TLC

CONSTANTS
  RowId, Columns,               \* Columns: the columns in their order
  Edits,                        \* the texts entered elsewhere, as <<row, column, text>>
  Scenes,                       \* the documents and screens to begin with
  Inserted,                     \* the rows that may be inserted
  Pixels, Scrolled, Asked,      \* where the pointer goes, where one scrolls to,
                                \* what is asked for, as <<"row" or "column", id>>
  Marks,                        \* the cells with a status, as <<row, column>>
  Peers,                        \* the cells another user goes to
  DefaultHeight, DefaultWidth,
  FrozenRows, FrozenColumns,
  Header, Scrollbar,
  OverX, OverY,
  Screens,                      \* the sizes <<width, height>> the stage takes
  MaxSteps                      \* bound on the steps counted in spent

ASSUME CanvasAssumption ==
  /\ {DefaultHeight, DefaultWidth} \subseteq MinSize..MaxSize
  /\ Wrapped \cup Linked \cup Bordered \subseteq {Columns[i] : i \in DOMAIN Columns}

VARIABLES
  doc,     \* [order, known, cells, meant]: the rows on display, those there
           \* ever were, the raw text of each cell and what is to be seen of it
  grid,    \* the view, its scroller and the drag, see Init
  screen,  \* <<width, height>> of the stage
  peers,   \* the cells of the other users
  canvas,  \* the frame last painted: what one sees is Picture(canvas)
  saved,   \* the sizes of the last layout event
  asked,   \* the row (column) the last step was to make visible, if any
  stale,   \* a height was computed from a width that was then taken back
  spent    \* steps taken but for the frames and the moves of a drag
           \* (doc.meant, asked and stale only serve the properties)

vars == <<doc, grid, screen, peers, canvas, saved, asked, stale, spent>>

Column == {Columns[i] : i \in DOMAIN Columns}
NoDrag == [of |-> "none"]
Nothing == <<"none", "none">>

-----------------------------------------------------------------------------
(* Bands and frames.                                                        *)

Band(sizes, frozen, extent, scroll, over) ==
  [sizes |-> sizes, begins |-> Prefix(sizes), frozen |-> frozen, header |-> Header,
   extent |-> extent, scroll |-> scroll, over |-> over]

RowBandOn(g, extent) == Band([i \in DOMAIN g.rows |-> g.heights[g.rows[i]]], FrozenRows, extent, g.top, OverY)
ColumnBandOn(g, extent) == Band([i \in DOMAIN Columns |-> g.widths[Columns[i]]], FrozenColumns, extent, g.left, OverX)

RowBand(g) == RowBandOn(g, screen[2])
ColumnBand(g) == ColumnBandOn(g, screen[1])

(* visibleArea, in one direction.                                           *)
Visible(extent) == IF extent > Scrollbar THEN extent - Scrollbar ELSE extent

(* rowIndexOf and colIndexOf: what has no position is not drawn.            *)
Positions(g, cells) ==
  {p \in (DOMAIN g.rows) \X (DOMAIN Columns) : <<g.rows[p[1]], Columns[p[2]]>> \in cells}

FrameOf(g, d) ==
  [rows |-> RowBand(g), cols |-> ColumnBand(g), rowIds |-> g.rows, colIds |-> Columns,
   cell |-> [r \in DOMAIN g.rows |-> [c \in DOMAIN Columns |->
               Drawn(g.options, Columns[c], d.cells[g.rows[r]][Columns[c]])]],
   rowGround |-> [r \in DOMAIN g.rows |-> GetBackground(g.options.rowBackgrounds, g.rows[r])],
   columnGround |-> [c \in DOMAIN Columns |-> GetBackground(g.options.columnBackgrounds, Columns[c])],
   marks |-> Positions(g, Marks), peers |-> Positions(g, peers)]

-----------------------------------------------------------------------------
(* Scrolling.                                                               *)

(* The browser keeps the scroll within the spacer, and tells of a change.   *)
ScrollTo(g, top, left) ==
  LET last(size, extent) == Max({0, size - Visible(extent)})
      t == Within(top, 0, last(g.height, screen[2]))
      l == Within(left, 0, last(g.width, screen[1]))
  IN  [g EXCEPT !.top = t, !.left = l,
                !.dirty = IF <<t, l>> = <<g.top, g.left>> THEN @ ELSE @ \cup {"viewport"}]

SyncSpacer(g) ==
  LET sized == [g EXCEPT !.height = ScrollableSize(RowBand(g)), !.width = ScrollableSize(ColumnBand(g))]
  IN  ScrollTo(sized, g.top, g.left)

-----------------------------------------------------------------------------
(* Heights and widths.  0 stands for no height of its own.                  *)

(* computeAutoHeightForRow, autoRowHeight: numbers do not wrap, one line    *)
(* needs no height.                                                         *)
AutoHeight(widths, cells) ==
  LET texts    == {c \in Wrapped : cells[c] # <<>>}
      lines(c) == IF IsNumeric(cells[c]) THEN 1 ELSE Len(WrapLines(cells[c], widths[c]))
      most     == Max({lines(c) : c \in texts} \cup {0})
  IN  IF most > 1 /\ most > DefaultHeight THEN most ELSE 0

(* combinedRowOverrides: a height given by hand goes before.                *)
Effective(manual, auto, r) ==
  IF manual[r] # 0 THEN manual[r] ELSE IF auto[r] # 0 THEN auto[r] ELSE DefaultHeight

OnAxis(g, r) == r \in ToSet(g.rows)

(* updateAutoHeightForRow, applyEffectiveRowHeight for some rows.           *)
WithAuto(g, auto) ==
  LET changed == {r \in RowId : auto[r] # g.auto[r]}
  IN  [g EXCEPT !.auto = auto,
                !.provisional = @ \/ g.drag.of = "column",
                !.heights = [r \in RowId |-> IF r \in changed /\ OnAxis(g, r)
                                             THEN Effective(g.manual, auto, r) ELSE @[r]],
                !.dirty = IF changed = {} THEN @ ELSE @ \cup {"viewport"}]

(* Slip: a height once given automatically only grows.                      *)
RecomputedUpwards(g, d, rows) ==
  WithAuto(g, [r \in RowId |-> IF r \in rows THEN Max({g.auto[r], AutoHeight(g.widths, d.cells[r])}) ELSE g.auto[r]])

(* recomputeAutoRowHeightsForRows                                           *)
Recomputed(g, d, rows) ==
  WithAuto(g, [r \in RowId |-> IF r \in rows THEN AutoHeight(g.widths, d.cells[r]) ELSE g.auto[r]])

(* recomputeAllAutoRowHeights: rows that left the axis lose theirs.         *)
RecomputedAll(g, d) ==
  WithAuto(g, [r \in RowId |-> IF OnAxis(g, r) THEN AutoHeight(g.widths, d.cells[r]) ELSE 0])

SetColumnWidth(g, c, width) ==
  IF width = DefaultWidth /\ g.widths[c] = DefaultWidth THEN g
  ELSE [g EXCEPT !.widths[c] = width, !.dirty = @ \cup {"viewport"}]

(* restoreRowHeight                                                         *)
RestoreHeight(g, r, height) ==
  LET manual == [g.manual EXCEPT ![r] = height]
  IN  [g EXCEPT !.manual = manual, !.dirty = @ \cup {"viewport"},
                !.heights[r] = IF OnAxis(g, r) \/ height # 0 THEN Effective(manual, g.auto, r) ELSE @]

(* setRowHeight: the default height is none of its own.                     *)
SetRowHeight(g, r, height) ==
  IF height # DefaultHeight THEN RestoreHeight(g, r, height)
  ELSE IF g.manual[r] = 0 THEN g
  ELSE RestoreHeight(g, r, 0)

LayoutOf(g) == [widths |-> g.widths, heights |-> g.manual]

-----------------------------------------------------------------------------
(* Frames.                                                                  *)

(* DocumentView.flush                                                       *)
Flushed(g, d) ==
  LET rebuilt == [g EXCEPT !.rows = d.order, !.heights = [r \in RowId |-> Effective(g.manual, g.auto, r)]]
      sized   == IF "structure" \in g.dirty THEN RecomputedAll(rebuilt, d) ELSE g
  IN  [sized EXCEPT !.dirty = {}]

(* flushStructural, up to the redraw: the rows keep their places on the     *)
(* screen.                                                                  *)
Restructured(g, d) ==
  LET spaced == SyncSpacer(Flushed(g, d))
      top    == CorrectScroll(RowBand(spaced), spaced.rows, CaptureAnchor(RowBand(g), g.rows))
      left   == CorrectScroll(ColumnBand(spaced), Columns, CaptureAnchor(ColumnBand(g), Columns))
  IN  IF Len(g.rows) > FrozenRows THEN ScrollTo(spaced, top, left) ELSE spaced

(* masterLoop, up to the redraw.                                            *)
NextFrame(g, d) ==
  IF "structure" \in g.dirty THEN Restructured(g, d)
  ELSE IF Wrapped # {} THEN SyncSpacer(Flushed(g, d)) ELSE Flushed(g, d)

Paints == canvas' = FrameOf(grid', doc)

Frame ==
  /\ grid.dirty # {}
  /\ grid' = NextFrame(grid, doc)
  /\ Paints
  /\ asked' = Nothing
  /\ UNCHANGED <<doc, screen, peers, saved, stale, spent>>

-----------------------------------------------------------------------------
(* The document changes (session-sync.ts).                                  *)

Spends == spent < MaxSteps /\ spent' = spent + 1

InDocument(r) == r \in ToSet(doc.order)

(* An edit is committed where it was made: what arrives is its value.       *)
EditArrives(r, c, text) ==
  LET value == ParseCellInput(text, c \in grid.options.stringColumns)
      d == [doc EXCEPT !.cells[r][c] = value, !.meant[r][c] = Meant(grid.options, c, text)]
      g == [grid EXCEPT !.dirty = @ \cup {"cell"}]
  IN  /\ Spends
      /\ InDocument(r)
      /\ doc.cells[r][c] # value
      /\ doc' = d
      /\ grid' = Recomputed(g, d, {r})
      /\ asked' = Nothing
      /\ UNCHANGED <<screen, peers, canvas, saved, stale>>

Restructures(order) ==
  /\ Spends
  /\ doc' = [doc EXCEPT !.order = order, !.known = @ \cup ToSet(order)]
  /\ grid' = [grid EXCEPT !.dirty = @ \cup {"structure"}]
  /\ asked' = Nothing
  /\ UNCHANGED <<screen, peers, canvas, saved, stale>>

InsertArrives(r, at) ==
  /\ r \notin doc.known
  /\ Restructures(InsertAt(doc.order, at + 1, r))

DeleteArrives(at) == Restructures(RemoveAt(doc.order, at))

(* presenceDelta and presenceRemoved                                        *)
PeerMoves(cells) ==
  /\ Spends
  /\ cells # peers
  /\ peers' = cells
  /\ grid' = [grid EXCEPT !.dirty = @ \cup {"viewport"}]
  /\ asked' = Nothing
  /\ UNCHANGED <<doc, screen, canvas, saved, stale>>

-----------------------------------------------------------------------------
(* The user scrolls, resizes the stage, a row or a column.                  *)

Scrolls(top, left) ==
  LET g == ScrollTo(grid, top, left)
  IN  /\ Spends
      /\ <<g.top, g.left>> = <<top, left>>
      /\ g # grid
      /\ grid' = g
      /\ asked' = Nothing
      /\ UNCHANGED <<doc, screen, peers, canvas, saved, stale>>

(* syncLayout                                                               *)
StageResizes(size) ==
  /\ Spends
  /\ size # screen
  /\ screen' = size
  /\ LET g    == RecomputedAll(grid, doc)
         last(total, extent) == Max({0, total - Visible(extent)})
         height == ScrollableSize(RowBandOn(g, size[2]))
         width  == ScrollableSize(ColumnBandOn(g, size[1]))
     IN  grid' = [g EXCEPT !.height = height, !.width = width,
                           !.top = Within(@, 0, last(height, size[2])),
                           !.left = Within(@, 0, last(width, size[1])),
                           !.dirty = @ \cup {"viewport"}]
  /\ asked' = Nothing
  /\ UNCHANGED <<doc, peers, canvas, saved, stale>>

(* Slip: what a cancelled drag goes back to is the height there was.        *)
GrabsHeight(of, pixel) ==
  LET band == IF of = "column" THEN ColumnBand(grid) ELSE RowBand(grid)
      i    == ResizeHit(band, pixel)
      id   == IF of = "column" THEN Columns[i] ELSE grid.rows[i]
  IN  /\ grid.drag = NoDrag
      /\ Spends
      /\ i # 0
      /\ grid' = [grid EXCEPT !.drag = [of |-> of, id |-> id,
                                        before |-> IF of = "column" THEN grid.widths[id] ELSE grid.heights[id]],
                              !.provisional = FALSE]
      /\ asked' = Nothing
      /\ UNCHANGED <<doc, screen, peers, canvas, saved, stale>>

(* The pointer goes down near the end of a header.                          *)
Grabs(of, pixel) ==
  LET band == IF of = "column" THEN ColumnBand(grid) ELSE RowBand(grid)
      i    == ResizeHit(band, pixel)
      id   == IF of = "column" THEN Columns[i] ELSE grid.rows[i]
  IN  /\ grid.drag = NoDrag
      /\ Spends
      /\ i # 0
      /\ grid' = [grid EXCEPT !.drag =
                    [of |-> of, id |-> id,
                     before |-> IF of = "column" THEN grid.widths[id] ELSE grid.manual[id]],
                             !.provisional = FALSE]
      /\ asked' = Nothing
      /\ UNCHANGED <<doc, screen, peers, canvas, saved, stale>>

PositionOf(ids, id) == CHOOSE i \in DOMAIN ids : ids[i] = id

(* pointermove: the edge is where it is now, however rows and scroll moved. *)
Drags(pixel) ==
  LET drag == grid.drag
  IN  /\ drag # NoDrag
      /\ \/ /\ drag.of = "column"
            /\ LET band == ColumnBand(grid)
               IN  grid' = SyncSpacer(SetColumnWidth(grid, drag.id, Dragged(band, PositionOf(Columns, drag.id), pixel)))
         \/ /\ drag.of = "row"
            /\ OnAxis(grid, drag.id)
            /\ LET band == RowBand(grid)
               IN  grid' = SyncSpacer(SetRowHeight(grid, drag.id, Dragged(band, PositionOf(grid.rows, drag.id), pixel)))
      /\ asked' = Nothing
      /\ UNCHANGED <<doc, screen, peers, canvas, saved, stale, spent>>

(* finishResize, on pointerup.                                              *)
Drops ==
  LET g == [grid EXCEPT !.drag = NoDrag]
  IN  /\ grid.drag # NoDrag
      /\ grid' = IF grid.drag.of = "column" /\ Wrapped # {} THEN SyncSpacer(RecomputedAll(g, doc)) ELSE g
      /\ saved' = LayoutOf(g)
      /\ asked' = Nothing
      /\ stale' = (stale /\ grid.drag.of # "column")
      /\ UNCHANGED <<doc, screen, peers, canvas, spent>>

(* finishResize, on pointercancel or lostpointercapture.  Slip: heights     *)
(* computed meanwhile from the width that is taken back remain.             *)
Cancels ==
  LET drag == grid.drag
      g    == [grid EXCEPT !.drag = NoDrag]
  IN  /\ drag # NoDrag
      /\ grid' = SyncSpacer(IF drag.of = "column" THEN SetColumnWidth(g, drag.id, drag.before)
                            ELSE RestoreHeight(g, drag.id, drag.before))
      /\ asked' = Nothing
      /\ stale' = (stale \/ (grid.provisional /\ drag.id \in Wrapped))
      /\ UNCHANGED <<doc, screen, peers, canvas, saved, spent>>

(* Slip: the room on the right of a text is forgotten.                      *)
TextWidth(v) == Len(v.text)

(* The width of a text as it is drawn, with the room on its right.          *)
DrawnWidth(v) == Len(v.text) + IF v.kind = "badge" THEN 0 ELSE v.pad

(* A double click near the end of a column's header (performAutoFitColumn): *)
(* the column is made as wide as its texts and its name, a glyph.           *)
AutoFits(pixel) ==
  LET i      == ResizeHit(ColumnBand(grid), pixel)
      c      == Columns[i]
      widths == {DrawnWidth(Drawn(grid.options, c, doc.cells[grid.rows[r]][c])) : r \in DOMAIN grid.rows}
      g      == SetColumnWidth(grid, c, Within(Max(widths \cup {1}), MinSize, MaxSize))
  IN  /\ Spends
      /\ grid.drag = NoDrag
      /\ i # 0
      /\ c \notin Wrapped
      /\ grid' = SyncSpacer(IF Wrapped # {} THEN RecomputedAll(g, doc) ELSE g)
      /\ saved' = LayoutOf(g)
      /\ asked' = <<"fit", c>>
      /\ stale' = (stale /\ Wrapped = {})
      /\ UNCHANGED <<doc, screen, peers, canvas>>

(* scrollToRow and scrollToColumn: a change of rows not yet drawn is drawn  *)
(* first (runOrDefer), so that the row is looked up among the rows there    *)
(* are now.                                                                 *)
Asks(what, id) ==
  LET late == "structure" \in grid.dirty
      known(g) == what = "column" \/ OnAxis(g, id)
      moved(g) == IF what = "row"
                  THEN ScrollTo(g, Reveal(RowBand(g), PositionOf(g.rows, id), Visible(screen[2])), g.left)
                  ELSE ScrollTo(g, g.top, Reveal(ColumnBand(g), PositionOf(Columns, id), Visible(screen[1])))
  IN  /\ Spends
      /\ \E g \in {IF late THEN Restructured(grid, doc) ELSE grid} :
           /\ grid' = IF known(g) THEN [moved(g) EXCEPT !.dirty = @ \cup {"viewport"}] ELSE g
           /\ canvas' = IF late THEN FrameOf(g, doc) ELSE canvas
           /\ asked' = IF known(g) THEN <<what, id>> ELSE Nothing
      /\ stale' = (stale /\ ~late)
      /\ UNCHANGED <<doc, screen, peers, saved>>

-----------------------------------------------------------------------------
(* Behaviours: the grid begins as bootstrapped and drawn, unless its        *)
(* options are refused.                                                     *)

Init ==
  \E scene \in {d \in Scenes : OptionsAreValid(d.options, Column, Wrapped, Linked)} :
    LET none    == [r \in RowId |-> 0]
        start   == [rows |-> <<>>, widths |-> [c \in Column |-> scene.width], options |-> scene.options,
                    heights |-> [r \in RowId |-> DefaultHeight], manual |-> none, auto |-> none,
                    top |-> 0, left |-> 0, height |-> 0, width |-> 0,
                    drag |-> NoDrag, provisional |-> FALSE, dirty |-> {"structure"}]
        entered(of(_, _, _)) == [r \in RowId |-> [c \in Column |-> of(scene.options, c, scene.cells[r][c])]]
        parsed(options, c, text) == ParseCellInput(text, c \in options.stringColumns)
    IN  /\ doc = [order |-> scene.order, known |-> ToSet(scene.order),
                  cells |-> entered(parsed), meant |-> entered(Meant)]
        /\ screen = scene.screen
        /\ peers = {}
        /\ LET flushed == Flushed(start, doc)
           IN  grid = [flushed EXCEPT !.height = ScrollableSize(RowBand(flushed)),
                                      !.width = ScrollableSize(ColumnBand(flushed))]
        /\ canvas = FrameOf(grid, doc)
        /\ saved = LayoutOf(start)
        /\ asked = Nothing
        /\ stale = FALSE
        /\ spent = scene.spent

Next ==
  \/ Frame
  \/ \E e \in Edits : EditArrives(e[1], e[2], e[3])
  \/ \E r \in Inserted, at \in 0..Len(doc.order) : InsertArrives(r, at)
  \/ \E at \in DOMAIN doc.order : DeleteArrives(at)
  \/ \E cells \in SUBSET Peers : PeerMoves(cells)
  \/ \E p \in Scrolled : Scrolls(p[1], p[2])
  \/ \E size \in Screens : StageResizes(size)
  \/ \E of \in {"row", "column"}, pixel \in Pixels : Grabs(of, pixel)
  \/ \E pixel \in Pixels : Drags(pixel) \/ AutoFits(pixel)
  \/ Drops
  \/ Cancels
  \/ \E ask \in Asked : Asks(ask[1], ask[2])

Spec == Init /\ [][Next]_vars

-----------------------------------------------------------------------------
(* What should be seen, said of places in the sheet: a pixel stands for an  *)
(* offset from the sheet's first row (column), whatever pane it is in.      *)

Before(sizes, i) == FoldLeft(LAMBDA sum, size : sum + size, 0, SubSeq(sizes, 1, i - 1))

PartAt(b, pixel) == IF pixel < Seam(b) THEN "frozen" ELSE "scrolling"

PartOf(b, i) == IF i <= b.frozen THEN "frozen" ELSE "scrolling"

Offset(b, pixel) == pixel - b.header + (IF PartAt(b, pixel) = "frozen" THEN 0 ELSE b.scroll)

(* What begins at the pixel or before it, and what lies under it.           *)
Begun(b, pixel) ==
  {i \in DOMAIN b.sizes : PartOf(b, i) = PartAt(b, pixel) /\ Before(b.sizes, i) <= Offset(b, pixel)}

Under(b, pixel) == {i \in Begun(b, pixel) : Offset(b, pixel) < Before(b.sizes, i + 1)}

ValueAt(r, c) == doc.meant[doc.order[r]][Columns[c]]

(* The room a text has: up to the next text or border of its part.          *)
RoomOf(b, r, c) ==
  LET stops == {d \in DOMAIN Columns : /\ d > c
                                       /\ Columns[d] \in Bordered \/ ValueAt(r, d).text # <<>>
                                       /\ \/ PartOf(b, d) = PartOf(b, c)
                                          \/ d = b.frozen + 1 /\ Columns[d] \in Bordered}
  IN  IF stops = {} THEN {} ELSE {Before(b.sizes, Min(stops)) - Before(b.sizes, c)}

(* The text of a cell at a place right of its left edge and below its top,  *)
(* as far as it reaches.                                                    *)
TextFrom(cols, rows, r, c, right, below) ==
  LET v      == ValueAt(r, c)
      text   == v.text
      size   == cols.sizes[c]
      inner  == right < size
      middle == below = (rows.sizes[r] - 1) \div 2
      ink    == IF Columns[c] \in Linked /\ v.kind # "badge" THEN "link" ELSE v.ink
      glyph(s, k) == IF k \in DOMAIN s THEN {<<s[k], ink>>} ELSE {}
      edge   == IF v.kind = "number" THEN size - v.pad ELSE size
      whole  == FitText(text, edge)
      plain  == v.kind = "text" /\ Columns[c] \notin Wrapped \cup Linked
      room   == RoomOf(cols, r, c)
  IN  IF plain /\ middle
      THEN glyph(IF room = {} \/ Len(text) <= size THEN text ELSE FitText(text, Max(room)), right + 1)
      ELSE IF ~inner THEN {}
      ELSE IF v.kind = "text" /\ Columns[c] \in Wrapped /\ Len(text) > size THEN glyph(text, below * size + right + 1)
      ELSE IF ~middle THEN {}
      ELSE glyph(whole, IF v.kind = "number" /\ Columns[c] \notin Linked THEN right + 1 - (edge - Len(whole)) ELSE right + 1)

(* The cell whose text may be at a point: the last with a text on the left. *)
Writers(cols, x, r) ==
  LET texts == {c \in Begun(cols, x) : ValueAt(r, c).text # <<>>}
      blocked(c) == \E d \in Begun(cols, x) : d > c /\ Columns[d] \in Bordered
  IN  {c \in texts : (\A d \in texts : d <= c) /\ ~blocked(c)}

TextAt(cols, rows, point) ==
  UNION {TextFrom(cols, rows, w[1], w[2], Offset(cols, point[1]) - Before(cols.sizes, w[2]),
                  Offset(rows, point[2]) - Before(rows.sizes, w[1])) :
           w \in UNION {{<<r, c>> : c \in Writers(cols, point[1], r)} : r \in Under(rows, point[2])}}

(* A text is not sought further left than MaxInflow columns from the first  *)
(* one on the screen.                                                       *)
TooFarLeft(cols, rows, point) ==
  \E r \in Under(rows, point[2]) : \E c \in Writers(cols, point[1], r) :
    c + MaxInflow < Min(Begun(cols, Seam(cols)) \cup {Len(Columns)})
    /\ PartAt(cols, point[1]) = "scrolling"

GroundAt(cols, rows, point) ==
  LET pane == IF "frozen" \in {PartAt(cols, point[1]), PartAt(rows, point[2])} THEN "frozen" ELSE "body"
      cell == Under(rows, point[2]) \X Under(cols, point[1])
      r    == CHOOSE r \in Under(rows, point[2]) : TRUE
      c    == CHOOSE c \in Under(cols, point[1]) : TRUE
      options == grid.options
  IN  IF cell = {} THEN pane
      ELSE IF <<doc.order[r], Columns[c]>> \in Marks THEN "status"
      ELSE IF ValueAt(r, c).ground # "none" THEN ValueAt(r, c).ground
      ELSE IF doc.order[r] \in DOMAIN options.rowBackgrounds THEN options.rowBackgrounds[doc.order[r]]
      ELSE IF Columns[c] \in DOMAIN options.columnBackgrounds THEN options.columnBackgrounds[Columns[c]]
      ELSE pane

PeerAt(cols, rows, point) ==
  \E r \in Under(rows, point[2]), c \in Under(cols, point[1]) : <<doc.order[r], Columns[c]>> \in peers

SeenAt(cols, rows, point) ==
  LET header(b, ids, pixel) == {ids[i] : i \in Under(b, pixel)}
  IN  IF point[1] < Header /\ point[2] < Header THEN Seen("header", {}, FALSE)
      ELSE IF point[1] < Header THEN Seen("header", header(rows, doc.order, point[2]), FALSE)
      ELSE IF point[2] < Header THEN Seen("header", header(cols, Columns, point[1]), FALSE)
      ELSE Seen(GroundAt(cols, rows, point), TextAt(cols, rows, point), PeerAt(cols, rows, point))

(* Once no frame is due, every point of the screen shows what the document  *)
(* has at that place: the right row and column through every scroll, resize *)
(* and change of rows, its text cut where the next one begins and running   *)
(* in from columns scrolled away, and the ground with the highest claim     *)
(* (base-layer.ts:1-20, text-overflow.ts:1-8).                              *)
PictureIsOfTheDocument ==
  LET cols == ColumnBand(grid)
      rows == RowBand(grid)
      shown == Picture(canvas)
  IN  grid.dirty = {} =>
        \A p \in (0..(screen[1] - 1)) \X (0..(screen[2] - 1)) :
          \/ shown[p] = SeenAt(cols, rows, p)
          \/ TooFarLeft(cols, rows, p) /\ shown[p] = [SeenAt(cols, rows, p) EXCEPT !.text = {}]

(* A row is as high as the user made it, else as its wrapped texts need,    *)
(* else as any other, whatever was edited, inserted or resized, and however *)
(* the events were ordered (document-view.ts:280-300).                      *)
HeightsFitTheTexts ==
  LET lines(r, c) == LET v == doc.meant[r][c]
                     IN  IF v.kind = "number" THEN 1
                         ELSE (Len(v.text) + grid.widths[c] - 1) \div grid.widths[c]
  IN  grid.drag.of # "column" /\ ~stale /\ "structure" \notin grid.dirty =>
        \A r \in ToSet(grid.rows) :
          grid.heights[r] = IF grid.manual[r] # 0 THEN grid.manual[r]
                            ELSE Max({DefaultHeight} \cup {lines(r, c) : c \in Wrapped})

(* The layout the application was told last is the one on display: a resize *)
(* that is cancelled leaves no trace, not even a height by hand where there *)
(* was an automatic one (mount-controller.ts:1405-1408).                    *)
SavedLayoutIsShown == grid.drag = NoDrag => saved = LayoutOf(grid)

(* Sizes are those the texts need and those the application is told.        *)
SizesAreRight == HeightsFitTheTexts /\ SavedLayoutIsShown

(* When rows come and go, the first row of the part that scrolls stays where *)
(* it is on the screen, as far as there is anything to scroll over          *)
(* (mount-controller.ts:943-946).                                           *)
AnchorHolds ==
  [][grid'.rows # grid.rows /\ asked' = Nothing =>
       LET old == RowBand(grid)
           new == RowBand(grid)'
           last == Max({0, grid'.height - Visible(screen[2])})
       IN  /\ grid'.left = grid.left
           /\ \A i \in Under(old, Seam(old)), j \in DOMAIN grid'.rows :
                grid.rows[i] = grid'.rows[j] /\ j > FrozenRows =>
                  LET wanted == Edge(new, j) - Seam(new) - (Edge(old, i) - Seam(old))
                  IN  \/ wanted = 0
                      \/ wanted > 0 /\ grid'.top = last
                      \/ wanted < 0 /\ grid'.top = 0]_vars

(* What scrollToRow and scrollToColumn were asked for is then wholly on the *)
(* screen, clear of the frozen part and of the scroll bar, if it fits and   *)
(* the scroller knows the sheet's size (mount-controller.ts:507-512).  Of a *)
(* column fitted to its texts every text is whole, in its format, as long   *)
(* as no column may be wider.                                               *)
AskedForIsVisible ==
  LET what == asked[1]
      b    == IF what = "row" THEN RowBand(grid) ELSE ColumnBand(grid)
      i    == PositionOf(IF what = "row" THEN grid.rows ELSE Columns, asked[2])
      size == IF what = "row" THEN grid.height ELSE grid.width
      room(r) == grid.widths[asked[2]] - doc.meant[r][asked[2]].pad
  IN  /\ (/\ what \in {"row", "column"}
          /\ i > b.frozen
          /\ size = ScrollableSize(b)
          /\ b.sizes[i] <= Visible(b.extent) - Seam(b)) =>
             Span(b, i) \subseteq Seam(b)..(Visible(b.extent) - 1)
      /\ what = "fit" /\ grid.widths[asked[2]] < MaxSize =>
           \A r \in ToSet(grid.rows) : Len(doc.meant[r][asked[2]].text) <= room(r)
=============================================================================
