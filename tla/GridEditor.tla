----------------------------- MODULE GridEditor -----------------------------
(***************************************************************************)
(* A grid in standalone mode: the document of standalone-session.ts, the   *)
(* editing session and the resident textarea (ime-editing-session.ts,      *)
(* integration-editor.ts, with the machine of EditorMachine), undo, the    *)
(* run-time read-only lock and flush of mount-controller.ts.               *)
(*                                                                         *)
(* The grid is one record.  An operator named after a function takes the   *)
(* grid and returns the grid it leaves.  GridPopups adds the popups of the *)
(* column types, GridTasks the tasks of the event loop.                    *)
(***************************************************************************)
EXTENDS EditorMachine, UndoStack, CellPopups

CONSTANTS
  Col,         \* the only column
  Char         \* what a key or a composition adds to the text

ASSUME GridAssumption == Column = {Col} /\ Blank = <<>>

NoTarget == [row |-> "none", start |-> 0, edit |-> 0]

NoIme == [base |-> <<>>, at |-> "none"]

NoLock == [on |-> FALSE, edit |-> 0]

-----------------------------------------------------------------------------
(* The standalone session.                                                  *)

(* buildDocument: the revision goes on from the document replaced.          *)
BuildDocument(revision, rows) ==
  LET empty   == [EmptyDocument EXCEPT !.revision = revision + 1]
      ids     == [i \in DOMAIN rows |-> rows[i].row]
      changes == [i \in DOMAIN rows |->
                    [row |-> rows[i].row, col |-> Col, before |-> NoBefore, value |-> rows[i].value]]
  IN  IF rows = <<>> THEN empty
      ELSE ApplySetCells(ApplyInsertRows(empty, Top, ids, revision + 2), changes, revision + 3)

TextOf(h, row) == ValueOf(h.doc, row, Col)

Live(doc, row) == Known(doc, row) /\ ~Tombstoned(doc, row)

RowAt(h, cell) == IF cell + 1 \in DOMAIN h.axis THEN h.axis[cell + 1] ELSE "none"

TextAt(h, cell) == IF RowAt(h, cell) = "none" THEN <<>> ELSE TextOf(h, RowAt(h, cell))

(* submitLocalOperation of a setCells, with the undo entry its hook writes  *)
(* before the consumer is told.  `idle` is history: a write has left its    *)
(* cell as it was.                                                          *)
SubmitCells(h, changes) ==
  LET doc     == ApplySetCells(h.doc, changes, h.doc.revision + 1)
      patches == CapturedPatches(h.doc, SetCells(changes))
  IN  [h EXCEPT !.doc = doc, !.undo = RecordFinalOp(@, patches, doc.revision),
                !.idle = @ \/ Changed(patches) = <<>>]

SubmitStructure(h, operation) ==
  [h EXCEPT !.doc = ApplyOperation(@, operation, @.revision + 1), !.dirty = TRUE]

-----------------------------------------------------------------------------
(* Locks.                                                                   *)

ActiveLocked(h) == RowAt(h, h.m.active) \in h.locked

(* isDeferredLockIdle: the edit that held up the lock is over.              *)
DeferredIdle(h) == h.deferred /\ ~IsComposing(h.m) /\ h.m.phase = "Navigation"

InputBlocked(h) == h.editorReadOnly \/ ActiveLocked(h) \/ DeferredIdle(h)

(* setInputLock, with the readOnly attribute of the textarea.               *)
SyncCellLock(h) ==
  IF h.m.composing THEN h
  ELSE [h EXCEPT !.columnLocked = ActiveLocked(h),
                 !.attribute = h.editorReadOnly \/ ActiveLocked(h)]

SyncAttribute(h) ==
  IF h.m.composing THEN h ELSE [h EXCEPT !.attribute = h.editorReadOnly \/ h.columnLocked]

(* scheduleEditStateCheck                                                   *)
ScheduleCheck(h) == [h EXCEPT !.check = @ \/ h.deferred \/ h.waiting # 0 \/ h.flush = "waiting"]

(* cancelSelect, cancelDate                                                 *)
ClosePopup(h) == [h EXCEPT !.popup = NoPopup]

-----------------------------------------------------------------------------
(* The editing session.                                                     *)

(* editorSubmit: only the edit the lock waits for, and only once.           *)
PassesLock(h) == h.deferred /\ h.lockEdit # 0 /\ h.lockEdit = h.target.edit

(* submitSetCells, submitToBackend                                          *)
Submit(h, passes, target, text) ==
  LET change == [row |-> target.row, col |-> Col, before |-> target.start, value |-> text]
  IN  IF (h.readOnly /\ ~passes) \/ target.row \in h.locked THEN h
      ELSE SubmitCells(h, <<change>>)

(* A text the column does not allow is dropped, with the draft.             *)
EditorSubmit(h, target, text) ==
  LET used == IF PassesLock(h) THEN [h EXCEPT !.lockEdit = 0] ELSE h
  IN  IF Allows(h.column, text) THEN Submit(used, PassesLock(h), target, text) ELSE h

(* The row may have left with a setData that is not painted yet.            *)
StartRevision(doc, row) == IF Known(doc, row) THEN CellRevision(doc, row, Col) ELSE 0

TargetAt(h, cell, edit) ==
  IF RowAt(h, cell) = "none" THEN NoTarget
  ELSE [row |-> RowAt(h, cell), start |-> StartRevision(h.doc, RowAt(h, cell)), edit |-> edit]

(* Slip: the commit goes to the row now at the index of the edited cell.    *)
CommittedTargetByIndex(h, cell) == TargetAt(h, cell, h.target.edit)

(* The target of a commit: frozen when the edit began; Delete has none.     *)
CommittedTarget(h, cell) == IF h.target # NoTarget THEN h.target ELSE TargetAt(h, cell, 0)

PerformCommit(h, cell, text) ==
  LET target == CommittedTarget(h, cell)
      done   == IF target = NoTarget THEN h
                ELSE IF Live(h.doc, target.row) THEN EditorSubmit(h, target, text)
                ELSE [h EXCEPT !.diverted = @ + 1]
  IN  [done EXCEPT !.target = NoTarget]

(* beginning an existing value loads it into the textarea.                  *)
PerformBegin(h, effect) ==
  LET target == TargetAt(h, effect.cell, h.edits + 1)
  IN  [h EXCEPT !.target = target, !.edits = @ + 1,
                !.text = IF effect.mode = "existing" /\ target # NoTarget THEN effect.value ELSE @]

ApplyEffect(h, effect) ==
  CASE effect.type = "BeginEdit" -> PerformBegin(h, effect)
    [] effect.type = "Commit"    -> PerformCommit(h, effect.cell, effect.value)
    [] effect.type = "Leave"     -> [h EXCEPT !.target = NoTarget]
    [] OTHER                     -> h

(* reconcile: in Navigation the textarea is empty.                          *)
Reconcile(h) ==
  IF ~h.m.composing /\ h.m.phase = "Navigation" THEN [h EXCEPT !.text = <<>>] ELSE h

(* handleEvent and applyEffects, ending in the grid's onChange.             *)
Handle(h, outcome) ==
  ScheduleCheck(SyncCellLock(Reconcile(
    FoldLeft(ApplyEffect, [h EXCEPT !.m = outcome.machine], outcome.effects))))

(* The DOM listeners that the locks close.                                  *)
Listen(h, outcome) == IF InputBlocked(h) THEN h ELSE Handle(h, outcome)

(* settleAwaitingFinalInput                                                 *)
SettleAwaiting(h) ==
  IF ~h.m.composing /\ Awaits(h.m) THEN Handle(h, Input(h.m, h.text, FALSE)) ELSE h

ScheduleSettle(h) == [h EXCEPT !.settle = @ \/ Awaits(h.m)]

PointerdownCell(h, cell) == ScheduleSettle(Handle(h, Pointerdown(h.m, cell)))

BlurEditor(h) == ScheduleSettle(Handle(h, Blur(h.m)))

(* commitEdit outside of a composition.                                     *)
CommitEdit(h) ==
  LET settled == SettleAwaiting(h)
  IN  IF IsEditing(settled.m) THEN Handle(settled, Blur(settled.m)) ELSE settled

-----------------------------------------------------------------------------
(* Read-only at run time, and flush.                                        *)

CommitInProgressEdit(h) == ClosePopup(CommitEdit(h))

ApplyReadOnlyLock(h) ==
  SyncCellLock(SyncAttribute(
    [CommitInProgressEdit(h) EXCEPT !.deferred = FALSE, !.lockEdit = 0,
                          !.readOnly = TRUE, !.editorReadOnly = TRUE]))

(* Slip: until the composition ends the lock closes no other entry.         *)
DeferLockOnly(h) == [ClosePopup(h) EXCEPT !.deferred = TRUE, !.lockEdit = h.target.edit]

(* setReadOnly(true) during a composition.                                  *)
DeferLock(h) ==
  [ClosePopup(h) EXCEPT !.readOnly = TRUE, !.deferred = TRUE, !.lockEdit = h.target.edit]

SetReadOnly(h) ==
  IF h.readOnly /\ ~h.deferred THEN h
  ELSE IF IsComposing(h.m) THEN IF h.deferred THEN h ELSE DeferLock(h)
  ELSE ScheduleCheck(ApplyReadOnlyLock(h))

SetEditable(h) ==
  IF ~h.readOnly THEN h
  ELSE SyncCellLock(SyncAttribute(
         [h EXCEPT !.readOnly = FALSE, !.deferred = FALSE, !.lockEdit = 0,
                   !.editorReadOnly = FALSE]))

EvaluateDeferred(h) == IF h.deferred /\ ~IsComposing(h.m) THEN ApplyReadOnlyLock(h) ELSE h

(* Slip: a composition does not hold up a flush.                            *)
EvaluateFlushIgnoringComposition(h) ==
  IF h.flush # "waiting" THEN h
  ELSE [(IF IsComposing(h.m) THEN h ELSE CommitInProgressEdit(h)) EXCEPT !.waiting = 0, !.flush = "flushed"]

(* evaluateFlushWaiters: an edit that was open when flush was called is     *)
(* committed, or awaited while it composes; one begun later is left alone.  *)
EvaluateFlush(h) ==
  LET open == h.waiting # 0 /\ h.waiting = h.target.edit
  IN  IF h.flush # "waiting" THEN h
      ELSE IF ~open THEN [h EXCEPT !.waiting = 0, !.flush = "flushed"]
      ELSE IF IsComposing(h.m) THEN h
      ELSE [CommitInProgressEdit(h) EXCEPT !.waiting = 0, !.flush = "flushed"]

FlushCalled(h) ==
  ScheduleCheck(EvaluateFlush(EvaluateDeferred(
    [h EXCEPT !.flush = "waiting", !.waiting = h.target.edit])))

-----------------------------------------------------------------------------
(* Undo on a private document.                                              *)

PerformUndoRedo(h, direction) ==
  LET begun     == [h EXCEPT !.undo = Begin(@, direction, NoOp)]
      operation == Compensation(h.undo, direction)
      refused   == \E ch \in ToSet(operation.changes) : ch.row \in h.locked
      doc       == IF refused THEN h.doc
                   ELSE ApplySetCells(h.doc, operation.changes, h.doc.revision + 1)
      first     == Head(operation.changes).row
  IN  IF h.readOnly \/ ~Can(h.undo, direction, 0) THEN h
      ELSE IF Violations(h.doc, operation) # {} THEN [begun EXCEPT !.undo = Block(@)]
      ELSE [begun EXCEPT !.doc = doc, !.undo = Resolve(@, CellRevision(doc, first, Col))]

-----------------------------------------------------------------------------
(* The consumer's data.                                                     *)

ClampActiveCell(h) ==
  LET rows == Len(DisplayRowOrder(h.doc))
  IN  IF h.m.composing \/ h.m.active < rows THEN h
      ELSE PointerdownCell(h, IF rows = 0 THEN NoCell ELSE rows - 1)

SetData(h, rows) ==
  ClampActiveCell([h EXCEPT !.doc = BuildDocument(@.revision, rows), !.dirty = TRUE,
                            !.undo = NewUndo,
                            !.locked = {rows[i].row : i \in {j \in DOMAIN rows : rows[j].locked}}])

(* setRows: unknown rows are appended, deleted ones ignored, changed cells  *)
(* written in one setCells.  readOnlyColumns locks the cell, and is looked  *)
(* at again when something else calls syncCellLock.                         *)
SetRows(h, rows) ==
  LET present  == SelectSeq(rows, LAMBDA x : ~Tombstoned(h.doc, x.row))
      fresh    == SelectSeq([i \in DOMAIN present |-> present[i].row], LAMBDA r : ~Known(h.doc, r))
      order    == DisplayRowOrder(h.doc)
      grown    == IF fresh = <<>> THEN h.doc
                  ELSE ApplyInsertRows(h.doc, IF order = <<>> THEN Top ELSE Last(order), fresh,
                                       h.doc.revision + 1)
      differs  == SelectSeq(present, LAMBDA x : ValueOf(grown, x.row, Col) # x.value)
      changes  == [i \in DOMAIN differs |-> [row |-> differs[i].row, col |-> Col, before |-> 0,
                                             value |-> differs[i].value]]
      doc      == ApplySetCells(grown, changes, grown.revision + 1)
      locked   == {present[i].row : i \in {j \in DOMAIN present : present[j].locked}}
      kept     == [h EXCEPT !.locked = (@ \ {present[i].row : i \in DOMAIN present}) \cup locked]
  IN  IF changes = <<>>
      THEN [kept EXCEPT !.doc = grown, !.dirty = @ \/ fresh # <<>>]
      ELSE [kept EXCEPT !.doc = doc, !.dirty = TRUE,
                     !.undo = RecordProgrammaticOp(
                                @, CapturedPatches(grown, SetCells(changes)), doc.revision)]

InsertRow(h, after, row) ==
  LET operation == InsertRows(after, <<row>>)
  IN  IF h.readOnly \/ Violations(h.doc, operation) # {} THEN h ELSE SubmitStructure(h, operation)

DeleteRow(h, row) ==
  IF h.readOnly \/ ~Live(h.doc, row) THEN h ELSE SubmitStructure(h, DeleteRows(<<row>>))

-----------------------------------------------------------------------------
(* The structural flush: rows on display and what points at them.           *)

IndexIn(order, row) == (CHOOSE i \in DOMAIN order : order[i] = row) - 1

(* rebaseRowIndex: the same row, else the next one below that is left, else *)
(* the next one above.                                                      *)
RebaseRowIndex(old, new, cell) ==
  LET left_ == {i \in DOMAIN old : old[i] \in ToSet(new)}
      below == {i \in left_ : i > cell}
      near  == IF below # {} THEN CHOOSE i \in below : \A j \in below : i <= j
               ELSE CHOOSE i \in left_ : \A j \in left_ : j <= i
  IN  IF left_ = {} THEN NoCell ELSE IndexIn(new, old[near])

FlushStructural(h) ==
  LET new     == DisplayRowOrder(h.doc)
      shown   == [h EXCEPT !.axis = new, !.dirty = FALSE]
      cell    == h.m.active
      rebased == RebaseRowIndex(h.axis, new, cell)
      follows == /\ h.axis # <<>> /\ ~h.m.composing /\ h.m.phase = "Navigation"
                 /\ cell < Len(h.axis) /\ rebased # cell
  IN  SyncCellLock(IF follows THEN PointerdownCell(shown, rebased) ELSE shown)

(* setActiveCell: the command flushes a structural change first.            *)
SetActiveCell(h, row) ==
  LET shown == IF h.dirty THEN FlushStructural(h) ELSE h
  IN  IF row \in ToSet(shown.axis)
      THEN PointerdownCell(ClosePopup(shown), IndexIn(shown.axis, row)) ELSE shown
=============================================================================
