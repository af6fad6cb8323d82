--------------------------- MODULE GridSelection ---------------------------
(***************************************************************************)
(* The rectangular selection of packages/selection and                     *)
(* selection-controller.ts: an explicit range and the rectangle of a drag, *)
(* both as <<anchor, focus>> or <<>>, and what a change of the row axis    *)
(* does to them.                                                           *)
(*                                                                         *)
(* A cell is [row, col], positions on display counted from 1; position 0   *)
(* stands for a row that is gone.                                          *)
(***************************************************************************)
EXTENDS Integers, Sequences, SequencesExt

NoSpan == <<>>

NothingSelected == [range |-> NoSpan, drag |-> NoSpan]

Cell(row, col) == [row |-> row, col |-> col]

(* setRange: one cell is no range.                                          *)
SetRange(s, anchor, focus) ==
  [s EXCEPT !.range = IF anchor = focus THEN NoSpan ELSE <<anchor, focus>>]

BeginDrag(s, cell) == [s EXCEPT !.drag = <<cell, cell>>]

UpdateDrag(s, cell) == IF s.drag = NoSpan THEN s ELSE [s EXCEPT !.drag[2] = cell]

CancelDrag(s) == [s EXCEPT !.drag = NoSpan]

EndDrag(s) ==
  IF s.drag = NoSpan THEN s ELSE SetRange(CancelDrag(s), s.drag[1], s.drag[2])

Clamped(i, n) == IF i < 1 THEN 1 ELSE IF i > n THEN (IF n > 1 THEN n ELSE 1) ELSE i

Step == [up |-> <<-1, 0>>, down |-> <<1, 0>>, left |-> <<0, -1>>, right |-> <<0, 1>>]

Neighbour(cell, direction, rows, cols) ==
  Cell(Clamped(cell.row + Step[direction][1], rows), Clamped(cell.col + Step[direction][2], cols))

(* Shift+arrow moves the far end of the range, or starts one at the active  *)
(* cell.                                                                    *)
ExtendByArrow(s, active, direction, rows, cols) ==
  IF s.range = NoSpan
  THEN SetRange(s, active, Neighbour(active, direction, rows, cols))
  ELSE SetRange(s, s.range[1], Neighbour(s.range[2], direction, rows, cols))

(* syncWithEditor: a range lives only as long as its anchor is the active   *)
(* cell and nothing is edited.                                              *)
SyncWithEditor(s, active, editing) ==
  IF editing \/ (s.range # NoSpan /\ s.range[1] # active) THEN NothingSelected ELSE s

Ordered(a, b) == IF a <= b THEN <<a, b>> ELSE <<b, a>>

(* selectedRange: the rows and the columns, first and last, of the range or *)
(* of the active cell.                                                      *)
SelectedRange(s, active) ==
  LET ends == IF s.range = NoSpan THEN <<active, active>> ELSE s.range
  IN  [rows |-> Ordered(ends[1].row, ends[2].row), cols |-> Ordered(ends[1].col, ends[2].col)]

-----------------------------------------------------------------------------
(* A change of the axis.                                                    *)

(* rebaseRowIndex: where each old position goes: with its row, or to the    *)
(* nearest row that is left, those below first.                             *)
Rebased(old, new) ==
  LET alive   == {i \in DOMAIN old : old[i] \in ToSet(new)}
      heir(i) == IF \E j \in alive : j >= i THEN Min({j \in alive : j >= i}) ELSE Max(alive)
  IN  [i \in DOMAIN old |-> IF alive = {} THEN 0 ELSE SelectInSeq(new, LAMBDA r : r = old[heir(i)])]

At(move, row) == IF row \in DOMAIN move THEN move[row] ELSE 0

RebasedSpan(span, move) ==
  IF span = NoSpan \/ \E k \in 1..2 : At(move, span[k].row) = 0 THEN NoSpan
  ELSE [k \in 1..2 |-> [span[k] EXCEPT !.row = At(move, @)]]

(* Slip: the rectangle of a drag keeps its positions.                       *)
RebaseRangeOnly(s, move) ==
  LET range == RebasedSpan(s.range, move)
  IN  IF range = NoSpan THEN [s EXCEPT !.range = NoSpan] ELSE SetRange(s, range[1], range[2])

(* rebaseRows: a drag whose rows are gone is cancelled, a range whose rows  *)
(* are gone takes the drag with it.                                         *)
RebaseRows(s, move) ==
  LET range   == RebasedSpan(s.range, move)
      dragged == [s EXCEPT !.drag = RebasedSpan(@, move)]
  IN  IF s.range = NoSpan THEN dragged
      ELSE IF range = NoSpan THEN NothingSelected
      ELSE SetRange(dragged, range[1], range[2])
=============================================================================
