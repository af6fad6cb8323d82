--------------------------- MODULE DocumentStart ---------------------------
(***************************************************************************)
(* How a document of the serve begins (packages/server-hono): which        *)
(* options may be combined, where its first state comes from, and what is  *)
(* written to its stores before it listens.  Options are the set of the    *)
(* names given; stores are [snapshot, log] with None for no snapshot.      *)
(*                                                                         *)
(* The development dataset, document ids, formats, checksums and the       *)
(* periodic snapshots of a running document are left out.                  *)
(***************************************************************************)
EXTENDS Sequencer

CONSTANTS
  None,         \* undefined
  Blank,        \* the contents of a cell never written
  SeedRow,      \* the row seedInitialRows inserts
  SystemClient  \* the client id of the seed operation

Options ==
  {"persistenceDir", "oplog", "snapshotStore", "initialDocument", "restoreFrom", "seedRows"}

Injected == {"oplog", "snapshotStore"}

(* Slip: a restored document may be kept in a directory.                    *)
ConflictingButRestored(options) ==
  \/ "persistenceDir" \in options /\ Injected \cap options # {}
  \/ Cardinality(Injected \cap options) = 1
  \/ "initialDocument" \in options /\ {"seedRows", "restoreFrom"} \cap options # {}

(* validateDocumentSpec throws: one place to keep the document, one source  *)
(* of its first content, both stores or none.                               *)
Conflicting(options) ==
  \/ {"persistenceDir", "restoreFrom"} \subseteq options
  \/ "persistenceDir" \in options /\ Injected \cap options # {}
  \/ Cardinality(Injected \cap options) = 1
  \/ "initialDocument" \in options /\ {"seedRows", "restoreFrom"} \cap options # {}

Persistent(options) == "persistenceDir" \in options \/ Injected \subseteq options

-----------------------------------------------------------------------------
(* The document of the consumer, rows of [row, cells] in order: revision 0  *)
(* throughout, and nothing of it in the log.                                *)

InitialDocumentRefused(rows) ==
  \/ \E i, j \in DOMAIN rows : i < j /\ rows[i].row = rows[j].row
  \/ \E i \in DOMAIN rows : ~(DOMAIN rows[i].cells \subseteq Column)

BuildInitialDocument(rows) ==
  IF rows = <<>> THEN EmptyDocument
  ELSE LET shown   == ApplyInsertRows(EmptyDocument, Top,
                                      [i \in DOMAIN rows |-> rows[i].row], 0)
           written == {ic \in (DOMAIN rows) \X Column : ic[2] \in DOMAIN rows[ic[1]].cells}
       IN  [shown EXCEPT !.cell =
              [k \in {CellKey(shown, rows[ic[1]].row, ic[2]) : ic \in written} |->
                 [value |-> rows[CHOOSE i \in DOMAIN rows :
                                   shown.row[rows[i].row].slot = k[1]].cells[k[2]],
                  rev   |-> 0]]]

-----------------------------------------------------------------------------
(* The exported snapshot of a state, which carries the whole log.           *)

SerializeSnapshot(s) ==
  [document            |-> SerializeDocument(s.document),
   operationLog        |-> s.operationLog,
   currentRevision     |-> s.currentRevision,
   ackCache            |-> s.ackCache,
   clientSequenceTable |-> s.clientSequenceTable]

DeserializeSnapshot(data) ==
  [data EXCEPT !.document = DeserializeDocument(data.document)]

(* What documentHash hashes: the cells of the rows on display with their    *)
(* revisions, in row order; a blank cell counts as one never written.       *)
HashedContent(doc) ==
  LET cells  == {rc \in ToSet(doc.rowOrder) \X Column :
                   /\ ~Tombstoned(doc, rc[1])
                   /\ CellKey(doc, rc[1], rc[2]) \in DOMAIN doc.cell
                   /\ doc.cell[CellKey(doc, rc[1], rc[2])].value # Blank}
      listed == {rc[1] : rc \in cells}
  IN  [cell  |-> [rc \in cells |-> doc.cell[CellKey(doc, rc[1], rc[2])]],
       order |-> {rq \in listed \X listed :
                    \E i, j \in DOMAIN doc.rowOrder :
                      i < j /\ doc.rowOrder[i] = rq[1] /\ doc.rowOrder[j] = rq[2]}]

(* The hash is blind to empty and deleted rows; these are compared here.    *)
StructuralMatch(a, b) ==
  /\ a.revision = b.revision
  /\ a.rowOrder = b.rowOrder
  /\ \A i \in DOMAIN a.rowOrder :
       Tombstoned(a, a.rowOrder[i]) = Tombstoned(b, b.rowOrder[i])

(* Slip: only the hashes are compared.                                      *)
IntegrityByHash(data) ==
  HashedContent(DeserializeDocument(data.document))
    = HashedContent(Replay(EmptyDocument, data.operationLog))

(* verifySnapshotIntegrity(data).ok                                         *)
VerifySnapshotIntegrity(data) ==
  LET restored == DeserializeDocument(data.document)
      replay   == Replay(EmptyDocument, data.operationLog)
  IN  /\ HashedContent(restored) = HashedContent(replay)
      /\ \A i \in DOMAIN data.operationLog : data.operationLog[i].rev = i
      /\ data.currentRevision = Len(data.operationLog)
      /\ data.document.revision = data.currentRevision
      /\ StructuralMatch(restored, replay)

-----------------------------------------------------------------------------

EmptyStores == [snapshot |-> None, log |-> <<>>]

(* Without a snapshot the whole log is replayed over an empty document.     *)
SnapshotOf(stores) ==
  IF stores.snapshot = None THEN PersistedSnapshot(FreshState(EmptyDocument))
  ELSE stores.snapshot

Recovers(stores) == stores.log # <<>> \/ stores.snapshot # None

(* seedInitialRows: one InsertRows under the system's own client id.  The   *)
(* option seedRows stands for seedRows = 0, its absence for the default.    *)
Seeded(s) ==
  Accepted(s, [op |-> 0, client |-> SystemClient, seq |-> 1, base |-> 0,
               operation |-> InsertRows(Top, <<SeedRow>>)])

FirstState(options, stores, rows, data) ==
  IF Persistent(options) /\ Recovers(stores) THEN Recovered(SnapshotOf(stores), stores.log)
  ELSE IF "restoreFrom" \in options THEN DeserializeSnapshot(data)
  ELSE IF "initialDocument" \in options THEN FreshState(BuildInitialDocument(rows))
  ELSE IF "seedRows" \in options THEN FreshState(EmptyDocument)
  ELSE Seeded(FreshState(EmptyDocument))

(* A first content is made durable before the document is served: the       *)
(* consumer's as a snapshot of revision 0, the seed as logged operations.   *)
FirstStores(options, stores, state) ==
  IF ~Persistent(options) \/ Recovers(stores) \/ "restoreFrom" \in options THEN stores
  ELSE IF "initialDocument" \in options
       THEN [stores EXCEPT !.snapshot = PersistedSnapshot(state)]
  ELSE [stores EXCEPT !.log = state.operationLog]
=============================================================================
