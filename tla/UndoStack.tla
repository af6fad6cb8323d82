----------------------------- MODULE UndoStack -----------------------------
(***************************************************************************)
(* The undo controller of packages/grid (undo-stack.ts): an undo and a     *)
(* redo stack of the user's own writes, the revision this user last gave   *)
(* to each cell, and at most one compensation under way ("limbo").         *)
(*                                                                         *)
(* An entry is undone by an ordinary setCells that writes the old values   *)
(* back.  It carries the owned revisions as beforeRevision, so that the    *)
(* shared validation refuses it once anybody else has written the cell.    *)
(*                                                                         *)
(* The operators take a controller and return the controller it becomes;   *)
(* UndoHistory uses them on a shared document, GridEditor on a private one.*)
(***************************************************************************)
EXTENDS SheetDocument

CONSTANTS
  Blank,       \* the value of a cell never written
  MaxDepth     \* UNDO_STACK_MAX_DEPTH

ASSUME MaxDepthAssumption == MaxDepth \in Nat \ {0}

NoOp == "no operation id"

NoLimbo == [direction |-> "none"]

NewUndo == [undoStack |-> <<>>, redoStack |-> <<>>, owned |-> <<>>, limbo |-> NoLimbo]

-----------------------------------------------------------------------------
(* Patches: [row, col, before, after], one for each cell of a setCells.     *)

ValueOf(doc, r, c) ==
  LET key == CellKey(doc, r, c)
  IN  IF Known(doc, r) /\ key \in DOMAIN doc.cell THEN doc.cell[key].value ELSE Blank

(* captureUndoPatches: the values on display just before the submit.        *)
CapturedPatches(view, operation) ==
  [i \in DOMAIN operation.changes |->
     LET ch == operation.changes[i]
     IN  [row |-> ch.row, col |-> ch.col,
          before |-> ValueOf(view, ch.row, ch.col), after |-> ch.value]]

Changed(patches) == SelectSeq(patches, LAMBDA p : p.before # p.after)

CellsOf(entry) == {<<p.row, p.col>> : p \in ToSet(entry.patches)}

Own(u, entry, revision) ==
  [u EXCEPT !.owned = [k \in DOMAIN @ \cup CellsOf(entry) |->
                         IF k \in CellsOf(entry) THEN revision ELSE u.owned[k]]]

(* The oldest entry gives way.                                              *)
Shifted(stack) == IF Len(stack) > MaxDepth THEN Tail(stack) ELSE stack

PushUndo(u, entry) == [u EXCEPT !.undoStack = Shifted(Append(@, entry))]

-----------------------------------------------------------------------------
(* Recording.                                                               *)

(* Slip: what was undone can still be redone on top of the new write.       *)
RecordUserOpKeepingRedo(u, op, patches) ==
  LET entry == [op |-> op, patches |-> Changed(patches)]
  IN  IF entry.patches = <<>> THEN u ELSE PushUndo(u, entry)

(* recordUserOp of an operation on its way to the server: the redo stack is *)
(* dropped, and an undo under way will not refill it.                       *)
RecordUserOp(u, op, patches) ==
  LET entry == [op |-> op, patches |-> Changed(patches)]
  IN  IF entry.patches = <<>> THEN u
      ELSE [PushUndo(u, entry) EXCEPT
              !.redoStack = <<>>,
              !.limbo = IF @.direction = "undo" THEN [@ EXCEPT !.suppress = TRUE] ELSE @]

(* recordUserOp of an operation that is already final.                      *)
RecordFinalOp(u, patches, revision) ==
  LET recorded == RecordUserOp(u, NoOp, patches)
  IN  IF Changed(patches) = <<>> THEN u
      ELSE Own(recorded, [patches |-> Changed(patches)], revision)

(* Slip: the redo entries of overwritten cells stay.                        *)
RecordProgrammaticOpKeepingRedo(u, patches, revision) ==
  LET entry == [op |-> NoOp, patches |-> Changed(patches)]
  IN  IF entry.patches = <<>> THEN u ELSE Own(PushUndo(u, entry), entry, revision)

(* recordProgrammaticOp: a re-injection leaves the redo stack, except for   *)
(* the entries that meet a cell it wrote.                                   *)
RecordProgrammaticOp(u, patches, revision) ==
  LET entry == [op |-> NoOp, patches |-> Changed(patches)]
      apart(e) == CellsOf(e) \cap CellsOf(entry) = {}
  IN  IF entry.patches = <<>> THEN u
      ELSE Own([PushUndo(u, entry) EXCEPT !.redoStack = SelectSeq(@, apart)], entry, revision)

-----------------------------------------------------------------------------
(* Undo and redo.                                                           *)

StackOf(u, direction) == IF direction = "undo" THEN u.undoStack ELSE u.redoStack

Busy(u) == u.limbo # NoLimbo

(* canUndo, canRedo: nothing of this user may be on its way.                *)
Can(u, direction, pendingCount) ==
  ~Busy(u) /\ pendingCount = 0 /\ StackOf(u, direction) # <<>>

OwnedRevision(u, r, c) == IF <<r, c>> \in DOMAIN u.owned THEN u.owned[<<r, c>>] ELSE 0

(* buildCompensation                                                        *)
Compensation(u, direction) ==
  LET patches == Last(StackOf(u, direction)).patches
  IN  SetCells([i \in DOMAIN patches |->
        [row |-> patches[i].row, col |-> patches[i].col,
         before |-> OwnedRevision(u, patches[i].row, patches[i].col),
         value |-> IF direction = "undo" THEN patches[i].before ELSE patches[i].after]])

(* beginUndo, beginRedo, and setCompensationOperationId once the            *)
(* compensation op is submitted.                                            *)
Begin(u, direction, op) ==
  LET limbo == [direction |-> direction, entry |-> Last(StackOf(u, direction)),
                op |-> op, suppress |-> FALSE]
  IN  IF direction = "undo" THEN [u EXCEPT !.undoStack = Front(@), !.limbo = limbo]
      ELSE [u EXCEPT !.redoStack = Front(@), !.limbo = limbo]

(* blockInFlightCompensation: the entry is given up.                        *)
Block(u) == [u EXCEPT !.limbo = NoLimbo]

(* resolveCommitted: the compensation is in the document at revision, its   *)
(* entry changes stacks.                                                    *)
Resolve(u, revision) ==
  LET done == Own([u EXCEPT !.limbo = NoLimbo], u.limbo.entry, revision)
  IN  IF ~Busy(u) THEN u
      ELSE IF u.limbo.direction = "redo" THEN PushUndo(done, u.limbo.entry)
      ELSE IF u.limbo.suppress THEN done
      ELSE [done EXCEPT !.redoStack = Append(@, u.limbo.entry)]

-----------------------------------------------------------------------------
(* What the server made of an own operation.                                *)

InLimbo(u, op) == Busy(u) /\ u.limbo.op = op

Acknowledged(stack, op) ==
  [i \in DOMAIN stack |-> IF stack[i].op = op THEN [stack[i] EXCEPT !.op = NoOp] ELSE stack[i]]

(* markEntryAcked: the entry's cells are owned at that revision.            *)
MarkEntryAcked(u, op, revision) ==
  LET mine == {e \in ToSet(u.undoStack) \cup ToSet(u.redoStack) : e.op = op}
      consumed == [u EXCEPT !.undoStack = Acknowledged(@, op), !.redoStack = Acknowledged(@, op)]
  IN  IF mine = {} THEN u ELSE Own(consumed, CHOOSE e \in mine : TRUE, revision)

OnCommitted(u, op, revision) ==
  IF InLimbo(u, op) THEN Resolve(u, revision) ELSE MarkEntryAcked(u, op, revision)

(* Slip: a refused compensation is not noticed.                             *)
OnRejectedLeavingLimbo(u, op) ==
  [u EXCEPT !.undoStack = SelectSeq(@, LAMBDA e : e.op # op),
            !.redoStack = SelectSeq(@, LAMBDA e : e.op # op)]

OnRejected(u, op) ==
  IF InLimbo(u, op) THEN Block(u)
  ELSE [u EXCEPT !.undoStack = SelectSeq(@, LAMBDA e : e.op # op),
                 !.redoStack = SelectSeq(@, LAMBDA e : e.op # op)]

-----------------------------------------------------------------------------
ControllerOK(u) ==
  /\ Len(u.undoStack) <= MaxDepth
  /\ \A e \in ToSet(u.undoStack \o u.redoStack) : e.patches # <<>>
  /\ \A k \in DOMAIN u.owned : u.owned[k] \in Nat
  /\ Busy(u) => u.limbo.direction \in {"undo", "redo"}
=============================================================================
