----------------------------- MODULE SheetView -----------------------------
(***************************************************************************)
(* What a grid derives from its document (document-view.ts) and the        *)
(* operations it makes of a selection (range-ops.ts,                       *)
(* clipboard-controller.ts, row-operations.ts, mount-controller.ts).       *)
(*                                                                         *)
(* A grid is a record                                                      *)
(*   axis           the rows on display, first to last (rowAxis)           *)
(*   canvas         what was last painted: per row its id and its texts    *)
(*   dirty          what the next frame must bring up to date              *)
(*   sawDisconnect  the connection was lost since it was last made         *)
(*   drawn          rows were painted once (firstDataDrawn)                *)
(*   active         the active cell                                        *)
(*   editing        an editor is open on it                                *)
(*   selection      the range and the drag                                 *)
(*   pointer        a drag of the pointer is under way (selectionDrag)     *)
(* The whole sheet fits the viewport, whose own redraws (scrolling, other  *)
(* users' cursors) are left out, as are sizes of rows and columns.         *)
(***************************************************************************)
EXTENDS SheetDocument, GridSelection

CONSTANTS
  ColumnOrder,   \* the columns from left to right
  Blank          \* the value of an empty cell

NewGrid ==
  [axis |-> <<>>, canvas |-> <<>>, dirty |-> {}, sawDisconnect |-> FALSE, drawn |-> FALSE,
   active |-> Cell(1, 1), editing |-> FALSE, selection |-> NothingSelected, pointer |-> FALSE]

(* cellDisplay, of rows the document may no longer have.                    *)
CellDisplay(doc, r, c) ==
  IF Known(doc, r) /\ CellKey(doc, r, c) \in DOMAIN doc.cell
  THEN doc.cell[CellKey(doc, r, c)].value ELSE Blank

Painted(axis, doc) ==
  [i \in DOMAIN axis |->
     [row |-> axis[i], texts |-> [k \in DOMAIN ColumnOrder |-> CellDisplay(doc, axis[i], ColumnOrder[k])]]]

-----------------------------------------------------------------------------
(* Marks and frames.                                                        *)

Structure == "structure"
Values == "values"

Mark(g, kinds) == [g EXCEPT !.dirty = @ \cup kinds]

(* operationDirtyKind *)
DirtyKind(operation) == IF operation.type = "setCells" THEN Values ELSE Structure

NoteOperation(g, operation) == Mark(g, {DirtyKind(operation)})

MarkFullRebuild(g) == Mark(g, {Structure, Values})

(* pointerdownCell outside of an edit: the editor takes the cell and tells  *)
(* the selection.                                                           *)
Activate(g, cell) ==
  [g EXCEPT !.active = cell, !.selection = SyncWithEditor(@, cell, g.editing)]

(* flush, redraw and the first draw of data.                                *)
Flushed(g, doc) ==
  LET axis == IF Structure \in g.dirty THEN DisplayRowOrder(doc) ELSE g.axis
  IN  [g EXCEPT !.axis = axis, !.canvas = Painted(axis, doc), !.dirty = {},
                !.drawn = @ \/ axis # <<>>]

(* applyRebaseState: selection and active cell keep to their rows; during   *)
(* an edit the active cell is left alone.                                   *)
Follow(g, old, drawn) ==
  LET move    == Rebased(old, g.axis)
      rebased == [g EXCEPT !.selection = RebaseRows(@, move)]
      row     == At(move, g.active.row)
  IN  IF ~drawn \/ old = <<>> THEN g
      ELSE IF g.editing \/ row \in {0, g.active.row} THEN rebased
      ELSE Activate(rebased, Cell(row, g.active.col))

(* flushStructural, or a plain flush where the axis is not concerned        *)
(* (masterLoop).                                                            *)
Frame(g, doc) ==
  IF Structure \in g.dirty THEN Follow(Flushed(g, doc), g.axis, g.drawn) ELSE Flushed(g, doc)

-----------------------------------------------------------------------------
(* The operations made of a selection, <<>> where the grid makes none.      *)

NoOperation == <<>>

(* rowIdAt, for the positions still on the axis, top to bottom.             *)
RowsAt(axis, span) == SubSeq(axis, span.rows[1], IF span.rows[2] > Len(axis) THEN Len(axis) ELSE span.rows[2])

(* The cells of a span in the order they are written.                       *)
CellsOf(span) ==
  LET width == span.cols[2] - span.cols[1] + 1
      count == width * (span.rows[2] - span.rows[1] + 1)
  IN  [i \in 1..count |-> Cell(span.rows[1] + (i - 1) \div width, span.cols[1] + ((i - 1) % width))]

(* captureEditStartRevision: 0 for a row of one's own not yet confirmed.    *)
KnownRevision(committed, r, c) == IF Known(committed, r) THEN CellRevision(committed, r, c) ELSE 0

Change(axis, committed, cell, value) ==
  [row |-> axis[cell.row], col |-> ColumnOrder[cell.col],
   before |-> KnownRevision(committed, axis[cell.row], ColumnOrder[cell.col]), value |-> value]

Changes(axis, committed, cells, value(_)) ==
  LET changes == [i \in DOMAIN cells |-> Change(axis, committed, cells[i], value(cells[i]))]
  IN  IF changes = <<>> THEN NoOperation ELSE SetCells(changes)

(* buildRangeClear: the cells that show a text are blanked.                 *)
RangeClear(axis, committed, view, span) ==
  LET shows(cell) == /\ cell.row \in DOMAIN axis
                     /\ CellDisplay(view, axis[cell.row], ColumnOrder[cell.col]) # Blank
  IN  Changes(axis, committed, SelectSeq(CellsOf(span), shows), LAMBDA cell : Blank)

(* buildPaste: a single value fills the selection, a matrix goes down and   *)
(* right from its upper left cell; past the edge nothing is pasted at all,  *)
(* and short lines leave the cells they do not reach.                       *)
Fills(matrix, span) ==
  Len(matrix) = 1 /\ Len(matrix[1]) = 1 /\ (span.rows[1] # span.rows[2] \/ span.cols[1] # span.cols[2])

PasteRect(matrix, span) ==
  IF Fills(matrix, span) THEN span
  ELSE [rows |-> <<span.rows[1], span.rows[1] + Len(matrix) - 1>>,
        cols |-> <<span.cols[1], span.cols[1] + Max({Len(matrix[i]) : i \in DOMAIN matrix}) - 1>>]

Paste(axis, committed, matrix, span) ==
  LET rect == PasteRect(matrix, span)
      line(cell) == cell.row - rect.rows[1] + 1
      value(cell) == IF Fills(matrix, span) THEN matrix[1][1]
                     ELSE matrix[line(cell)][cell.col - rect.cols[1] + 1]
      reached(cell) == Fills(matrix, span) \/ cell.col - rect.cols[1] < Len(matrix[line(cell)])
  IN  IF rect.rows[2] > Len(axis) \/ rect.cols[2] > Len(ColumnOrder) THEN NoOperation
      ELSE Changes(axis, committed, SelectSeq(CellsOf(rect), reached), value)

(* selectPastedRect: the upper left cell becomes the active one, then the   *)
(* rectangle is selected from there.                                        *)
SelectRect(g, rect) ==
  LET first == Cell(rect.rows[1], rect.cols[1])
      moved == IF g.active = first THEN g ELSE Activate(g, first)
  IN  [moved EXCEPT !.selection = SetRange(@, first, Cell(rect.rows[2], rect.cols[2]))]

(* The key that inserts rows above the active one.                          *)
InsertAbove(axis, view, active, rows) ==
  LET above == IF active.row - 1 \in DOMAIN axis THEN axis[active.row - 1] ELSE Top
      operation == InsertRows(above, rows)
  IN  IF Violations(view, operation) = {} THEN operation ELSE NoOperation

(* The key that deletes the selected rows: those the document still has.    *)
DeleteSelected(axis, view, span) ==
  LET rows == SelectSeq(RowsAt(axis, span), LAMBDA r : Known(view, r) /\ ~Tombstoned(view, r))
  IN  IF rows = <<>> THEN NoOperation ELSE DeleteRows(rows)
=============================================================================
