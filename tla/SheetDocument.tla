--------------------------- MODULE SheetDocument ---------------------------
(***************************************************************************)
(* The sheet document of packages/core: rows ordered by rowOrder and kept  *)
(* as tombstones once deleted, cells addressed by the row's stable slot,   *)
(* and the three operations (setCells, insertRows, deleteRows) with the    *)
(* validation that server and clients share and the deterministic apply.   *)
(*                                                                         *)
(* Cell contents are opaque values; row heights, column formats and the    *)
(* violation details carried by a rejection are left out.  The operators   *)
(* are pure: modules that own a document pass it in.                       *)
(***************************************************************************)
EXTENDS Integers, Sequences, FiniteSets, SequencesExt

CONSTANTS
  Column,     \* the fixed column set (columnOrder)
  Top         \* afterRowId = null: insert before the first row

-----------------------------------------------------------------------------
(* A document.  `row` maps every row ever inserted to its RowMeta, `cell`  *)
(* maps <<slot, column>> to the written record; a missing key is a cell    *)
(* that was never written.                                                 *)

EmptyDocument ==
  [revision |-> 0, rowOrder |-> <<>>, row |-> <<>>, cell |-> <<>>, maxSlot |-> -1]

(* beforeRevision = undefined: the change is written without a stale check. *)
NoBefore == -1

Known(doc, r) == r \in DOMAIN doc.row

Tombstoned(doc, r) == Known(doc, r) /\ doc.row[r].tombstone

CellKey(doc, r, c) == <<doc.row[r].slot, c>>

(* lastChangedRevision of a cell, 0 for a cell never written.               *)
CellRevision(doc, r, c) ==
  LET key == CellKey(doc, r, c)
  IN  IF key \in DOMAIN doc.cell THEN doc.cell[key].rev ELSE 0

(* The rows on display: rowOrder without its tombstones.                    *)
DisplayRowOrder(doc) == SelectSeq(doc.rowOrder, LAMBDA r : ~Tombstoned(doc, r))

(* Index in rowOrder after which insertRows splices; 0 inserts at the top.  *)
(* A tombstone still anchors.                                               *)
AnchorIndexes(doc, after) ==
  IF after = Top THEN {0} ELSE {i \in DOMAIN doc.rowOrder : doc.rowOrder[i] = after}

-----------------------------------------------------------------------------
(* Operations.                                                              *)

SetCells(changes) == [type |-> "setCells", changes |-> changes]
InsertRows(after, rows) == [type |-> "insertRows", after |-> after, rows |-> rows]
DeleteRows(rows) == [type |-> "deleteRows", rows |-> rows]

(* Slip: a write to a deleted row is let through.                           *)
ChangeViolationIgnoringTombstones(doc, ch) ==
  IF ~Known(doc, ch.row) THEN {"unknown-row"}
  ELSE IF ch.col \notin Column THEN {"unknown-column"}
  ELSE IF ch.before # NoBefore /\ ch.before # CellRevision(doc, ch.row, ch.col)
       THEN {"stale-cell-revision"}
  ELSE {}

(* Slip: beforeRevision is not compared.                                    *)
ChangeViolationIgnoringBefore(doc, ch) ==
  IF ~Known(doc, ch.row) THEN {"unknown-row"}
  ELSE IF Tombstoned(doc, ch.row) THEN {"target-row-deleted"}
  ELSE IF ch.col \notin Column THEN {"unknown-column"}
  ELSE {}

ChangeViolation(doc, ch) ==
  IF ~Known(doc, ch.row) THEN {"unknown-row"}
  ELSE IF Tombstoned(doc, ch.row) THEN {"target-row-deleted"}
  ELSE IF ch.col \notin Column THEN {"unknown-column"}
  ELSE IF ch.before # NoBefore /\ ch.before # CellRevision(doc, ch.row, ch.col)
       THEN {"stale-cell-revision"}
  ELSE {}

SetCellsViolations(doc, changes) ==
  UNION {ChangeViolation(doc, changes[i]) : i \in DOMAIN changes}

InsertRowsViolations(doc, after, rows) ==
  (IF AnchorIndexes(doc, after) = {} THEN {"unknown-anchor"} ELSE {})
  \cup
  (IF \E i \in DOMAIN rows : Known(doc, rows[i]) \/ (\E j \in 1..i-1 : rows[j] = rows[i])
   THEN {"duplicate-row"} ELSE {})

(* The set of violation codes; empty means the operation is valid.          *)
Violations(doc, op) ==
  CASE op.type = "setCells"   -> SetCellsViolations(doc, op.changes)
    [] op.type = "insertRows" -> InsertRowsViolations(doc, op.after, op.rows)
    [] op.type = "deleteRows" -> {}

(* What applyOperation throws on: errors visible in the document alone.     *)
ApplyThrows(doc, op) ==
  \/ /\ op.type = "setCells"
     /\ \E i \in DOMAIN op.changes :
          LET ch == op.changes[i]
          IN  ~Known(doc, ch.row) \/ Tombstoned(doc, ch.row) \/ ch.col \notin Column
  \/ /\ op.type = "insertRows"
     /\ AnchorIndexes(doc, op.after) = {}

(* What the codec lets through as an operation: the lists are arrays.       *)
IsOperation(op) ==
  \/ op.type = "setCells" /\ op.changes \in Seq(ToSet(op.changes))
  \/ op.type = "insertRows" /\ op.rows \in Seq(ToSet(op.rows))
  \/ op.type = "deleteRows" /\ op.rows \in Seq(ToSet(op.rows))

-----------------------------------------------------------------------------
(* Application of an operation that does not throw, at a given revision.    *)

(* Array.splice: t put into s behind its first n elements.                  *)
Spliced(s, n, t) == SubSeq(s, 1, n) \o t \o SubSeq(s, n + 1, Len(s))

(* Changes are written in order, so the last change of a cell wins.         *)
ApplySetCells(doc, changes, revision) ==
  LET keyOf(i) == CellKey(doc, changes[i].row, changes[i].col)
      written  == {keyOf(i) : i \in DOMAIN changes}
      last(k)  == CHOOSE i \in DOMAIN changes :
                    /\ keyOf(i) = k
                    /\ \A j \in DOMAIN changes : keyOf(j) = k => j <= i
  IN  [doc EXCEPT
        !.revision = revision,
        !.cell = [k \in DOMAIN doc.cell \cup written |->
                    IF k \in written
                    THEN [value |-> changes[last(k)].value, rev |-> revision]
                    ELSE doc.cell[k]]]

(* Slip: maxSlot grows by one however many rows are inserted.               *)
ApplyInsertRowsOneSlot(doc, after, rows, revision) ==
  LET at == CHOOSE i \in AnchorIndexes(doc, after) : TRUE
      added == ToSet(rows)
      indexOf(r) == CHOOSE i \in DOMAIN rows : rows[i] = r
  IN  [doc EXCEPT
        !.revision = revision,
        !.rowOrder = Spliced(@, at, rows),
        !.row = [r \in DOMAIN doc.row \cup added |->
                   IF r \in added
                   THEN [slot |-> doc.maxSlot + indexOf(r), tombstone |-> FALSE, rev |-> revision]
                   ELSE doc.row[r]],
        !.maxSlot = @ + 1]

(* New rows take consecutive slots above maxSlot, which never goes down.    *)
ApplyInsertRows(doc, after, rows, revision) ==
  LET at == CHOOSE i \in AnchorIndexes(doc, after) : TRUE
      added == ToSet(rows)
      indexOf(r) == CHOOSE i \in DOMAIN rows : rows[i] = r
  IN  [doc EXCEPT
        !.revision = revision,
        !.rowOrder = Spliced(@, at, rows),
        !.row = [r \in DOMAIN doc.row \cup added |->
                   IF r \in added
                   THEN [slot |-> doc.maxSlot + indexOf(r), tombstone |-> FALSE, rev |-> revision]
                   ELSE doc.row[r]],
        !.maxSlot = @ + Len(rows)]

(* Unknown and already deleted rows are skipped.                            *)
ApplyDeleteRows(doc, rows, revision) ==
  [doc EXCEPT
     !.revision = revision,
     !.row = [r \in DOMAIN @ |->
                IF r \in ToSet(rows) /\ ~@[r].tombstone
                THEN [@[r] EXCEPT !.tombstone = TRUE, !.rev = revision]
                ELSE @[r]]]

ApplyOperation(doc, op, revision) ==
  CASE op.type = "setCells"   -> ApplySetCells(doc, op.changes, revision)
    [] op.type = "insertRows" -> ApplyInsertRows(doc, op.after, op.rows, revision)
    [] op.type = "deleteRows" -> ApplyDeleteRows(doc, op.rows, revision)

(* The change set of applying op would be empty.                            *)
IsEmptyChangeSet(doc, op) ==
  CASE op.type = "setCells"   -> op.changes = <<>>
    [] op.type = "insertRows" -> op.rows = <<>>
    [] op.type = "deleteRows" -> \A i \in DOMAIN op.rows :
                                   ~Known(doc, op.rows[i]) \/ Tombstoned(doc, op.rows[i])

(* replayAcceptedOperations: apply logged entries [operation, rev, ...] in  *)
(* order.                                                                   *)
Replay(base, entries) ==
  LET after[n \in 0..Len(entries)] ==
        IF n = 0 THEN base
        ELSE ApplyOperation(after[n - 1], entries[n].operation, entries[n].rev)
  IN  after[Len(entries)]

-----------------------------------------------------------------------------
(* The wire and snapshot form: cells are listed under their row id, slots   *)
(* stay in the row metadata and maxSlot is not carried.                     *)

SerializeDocument(doc) ==
  [revision |-> doc.revision,
   rowOrder |-> doc.rowOrder,
   row      |-> doc.row,
   cell     |-> [rc \in {rc \in (DOMAIN doc.row) \X Column :
                           CellKey(doc, rc[1], rc[2]) \in DOMAIN doc.cell}
                   |-> doc.cell[CellKey(doc, rc[1], rc[2])]]]

(* deserializeDocument throws on a negative or shared slot, and on cells of *)
(* a row or a column it does not know.                                      *)
SnapshotRejected(data) ==
  \/ \E r \in DOMAIN data.row : data.row[r].slot < 0
  \/ \E r, q \in DOMAIN data.row : r # q /\ data.row[r].slot = data.row[q].slot
  \/ \E rc \in DOMAIN data.cell : rc[1] \notin DOMAIN data.row \/ rc[2] \notin Column

(* Slip: the slots of deleted rows are handed out again.                    *)
MaxSlotOfShownRows(row) ==
  CHOOSE m \in {-1} \cup {row[r].slot : r \in DOMAIN row} :
    \A r \in DOMAIN row : ~row[r].tombstone => row[r].slot <= m

MaxSlotOf(row) ==
  CHOOSE m \in {-1} \cup {row[r].slot : r \in DOMAIN row} :
    \A r \in DOMAIN row : row[r].slot <= m

DeserializeDocument(data) ==
  LET keyOf(rc) == <<data.row[rc[1]].slot, rc[2]>>
  IN  [revision |-> data.revision,
       rowOrder |-> data.rowOrder,
       row      |-> data.row,
       cell     |-> [k \in {keyOf(rc) : rc \in DOMAIN data.cell} |->
                       data.cell[CHOOSE rc \in DOMAIN data.cell : keyOf(rc) = k]],
       maxSlot  |-> MaxSlotOf(data.row)]

-----------------------------------------------------------------------------
(* What every document of a serve is.                                       *)

(* rowOrder lists every row of the metadata once.                           *)
OrderSound(doc) ==
  /\ doc.rowOrder \in Seq(DOMAIN doc.row)
  /\ IsInjective(doc.rowOrder)
  /\ ToSet(doc.rowOrder) = DOMAIN doc.row

RowMeta == [slot : Nat, tombstone : BOOLEAN, rev : Nat]

(* No two rows share a slot, and maxSlot is the largest one handed out.     *)
SlotsSound(doc) ==
  /\ doc.row \in [DOMAIN doc.row -> RowMeta]
  /\ \A r, q \in DOMAIN doc.row : r # q => doc.row[r].slot # doc.row[q].slot
  /\ doc.maxSlot \in {-1} \cup {doc.row[r].slot : r \in DOMAIN doc.row}
  /\ \A r \in DOMAIN doc.row : doc.row[r].slot <= doc.maxSlot

(* Every written cell is one of a row and a column of the document, and     *)
(* none was written after the document's revision.                          *)
CellsSound(doc) ==
  /\ doc.cell = [k \in DOMAIN doc.cell |-> doc.cell[k]]
  /\ \A k \in DOMAIN doc.cell :
       \E r \in DOMAIN doc.row, c \in Column : k = CellKey(doc, r, c)
  /\ \A k \in DOMAIN doc.cell : doc.cell[k].rev \in 0..doc.revision

IsDocument(doc) ==
  /\ DOMAIN doc = {"revision", "rowOrder", "row", "cell", "maxSlot"}
  /\ doc = [f \in DOMAIN doc |-> doc[f]]

WellFormed(doc) ==
  /\ IsDocument(doc)
  /\ doc.revision \in Nat
  /\ OrderSound(doc)
  /\ SlotsSound(doc)
  /\ CellsSound(doc)
=============================================================================
