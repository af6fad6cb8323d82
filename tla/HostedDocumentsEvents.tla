------------------------ MODULE HostedDocumentsEvents ------------------------
(***************************************************************************)
(* What leaves the documents of HostedDocuments, for every serve, every    *)
(* operation and any number of submits, failures and restarts.  The        *)
(* consumer learns the log of each document, whole and in order, with the  *)
(* values each change replaced, and nothing is left behind when the loop   *)
(* rests; an exported snapshot and the log after it give the document.     *)
(*                                                                         *)
(* TellInv is the invariant behind the first: what an entry of the log did *)
(* to the document, which entries the waiting results carry, and which     *)
(* documents are on the loop's list.  ExportInv is the one behind the      *)
(* second: an export is of a revision.                                     *)
(***************************************************************************)
EXTENDS HostedDocumentsProofs

-----------------------------------------------------------------------------
(* The invariant.                                                           *)

(* The document at revision n of a log that was first served in state f.    *)
At(f, log, n) == Replay(f.document, SubSeq(log, Len(f.operationLog) + 1, n))

(* Cells not written after revision m hold what they held then.             *)
KeepsUnwritten(old, new, m) ==
  /\ DOMAIN old.row \subseteq DOMAIN new.row
  /\ \A r \in DOMAIN new.row, c \in Column :
       CellRevision(new, r, c) <= m => ValueIn(old, r, c) = ValueIn(new, r, c)

(* Every entry accepted since was valid on the document before it, and the  *)
(* document served is what they make of the first one.                      *)
HistorySound(f, s) ==
  LET log   == s.operationLog
      start == Len(f.operationLog)
  IN  /\ StateSound(f)
      /\ start <= Len(log)
      /\ s.document = At(f, log, Len(log))
      /\ \A n \in start..Len(log) : WellFormed(At(f, log, n)) /\ At(f, log, n).revision = n
      /\ \A n \in start+1..Len(log) :
           /\ IsOperation(log[n].operation)
           /\ Violations(At(f, log, n - 1), log[n].operation) = {}
      /\ \A m, n \in start..Len(log) : m <= n => KeepsUnwritten(At(f, log, m), At(f, log, n), m)

Tells(r) == r.entries # <<>>

RevisionOf(r) == r.entries[1].rev

(* A result that tells an entry tells it as the log has it, with the        *)
(* document before it where there is a hook.                                *)
EntryOf(hooked, f, s, r) ==
  LET log == s.operationLog
      n   == RevisionOf(r)
  IN  /\ n \in Len(f.operationLog)+1..Len(log)
      /\ r.entries = <<log[n]>>
      /\ (r.origin = "server") = (log[n].client = ServerClient)
      /\ hooked => r.before = At(f, log, n - 1)

(* The first revision not told yet.                                         *)
NextTold(f, told) == Len(f.operationLog) + Len(told) + 1

(* An entry of a failing append is accepted but never told.                 *)
Lost(kept, dead, store, n) == kept /\ dead /\ n > Len(store.log)

ResultTells(kept, hooked, f, s, store, dead, told, r) ==
  Tells(r) => /\ EntryOf(hooked, f, s, r)
              /\ RevisionOf(r) >= NextTold(f, told)
              /\ r.state \in {"pending", "ready"} \/ Lost(kept, dead, store, RevisionOf(r))

(* The results waiting carry every revision not told yet, each once and in  *)
(* order, but for those whose append has failed.                            *)
QueueInOrder(kept, hooked, f, s, store, dead, waiting, queue, told) ==
  /\ \A i \in DOMAIN queue : ResultTells(kept, hooked, f, s, store, dead, told, queue[i])
  /\ \A i, j \in DOMAIN queue :
       i < j /\ Tells(queue[i]) /\ Tells(queue[j]) => RevisionOf(queue[i]) < RevisionOf(queue[j])
  /\ \A n \in NextTold(f, told)..Len(s.operationLog) :
       \/ Lost(kept, dead, store, n)
       \/ \E i \in DOMAIN queue : Tells(queue[i]) /\ RevisionOf(queue[i]) = n
  /\ \A k \in DOMAIN waiting : Tells(waiting[k]) /\ RevisionOf(waiting[k]) > Len(store.log)
  /\ NextTold(f, told) <= Len(s.operationLog) + 1
  /\ \A i \in DOMAIN told : told[i] = Len(f.operationLog) + i

(* What the consumer heard is the log from the first revision on.           *)
Heard(f, s, event, i) ==
  LET n     == Len(f.operationLog) + i
      entry == s.operationLog[n]
  IN  /\ event.op = entry.op
      /\ event.revision = entry.rev
      /\ (event.origin = "server") = (entry.client = ServerClient)
      /\ event.changes = AcceptedCellChanges(entry.operation, At(f, s.operationLog, n - 1))

HeardInOrder(hooked, f, s, told, heard) ==
  /\ heard \in Seq(ToSet(heard))
  /\ Len(heard) = IF hooked THEN Len(told) ELSE 0
  /\ \A i \in DOMAIN heard : Heard(f, s, heard[i], i)

ToldSoundly(kept, hooked, f, s, store, dead, waiting, queue, told, heard) ==
  /\ HistorySound(f, s)
  /\ QueueInOrder(kept, hooked, f, s, store, dead, waiting, queue, told)
  /\ HeardInOrder(hooked, f, s, told, heard)

TellsInOrder(d) ==
  ToldSoundly(Kept(d), scene \in Hooked, first[d], sequencer[d], stores[d], failed[d],
              appends[d], deliveries[d], sent[d], events[d])

HookKnows ==
  hook # None /\ hook.kind = "authorize" =>
    /\ scene \in Hooked
    /\ hook.before = sequencer[hook.doc].document
    /\ hook.envelope.client = Author

(* What may be delivered is on the loop's list.                             *)
LoopSound ==
  /\ DOMAIN loop = {"running", "waiting", "turn"}
  /\ loop.running = (loop.waiting # <<>>)
  /\ loop.waiting \in Seq(Doc) /\ loop.turn \in Seq(Doc)
  /\ \A d \in Doc : DeliverableIn(deliveries[d]) # {} => d \in ToSet(loop.waiting)

DocumentsTell == DOMAIN events = Doc /\ \A d \in Doc : TellsInOrder(d)

TellInv == DocumentsTell /\ HookKnows /\ LoopSound

-----------------------------------------------------------------------------
(* What an operation leaves alone.                                          *)

(* What a cell holds, by its key.                                           *)
LEMMA SameCell ==
  ASSUME NEW doc, NEW next, NEW r, NEW c, r \in DOMAIN doc.row, r \in DOMAIN next.row,
         next.row[r].slot = doc.row[r].slot,
         CellKey(doc, r, c) \in DOMAIN next.cell <=> CellKey(doc, r, c) \in DOMAIN doc.cell,
         CellKey(doc, r, c) \in DOMAIN doc.cell =>
           next.cell[CellKey(doc, r, c)] = doc.cell[CellKey(doc, r, c)]
  PROVE  /\ ValueIn(doc, r, c) = ValueIn(next, r, c)
         /\ CellRevision(doc, r, c) = CellRevision(next, r, c)
<1>1. CellKey(next, r, c) = CellKey(doc, r, c)
  BY DEF CellKey
<1> QED
  BY <1>1 DEF ValueIn, CellRevision, Known

(* Whatever was not written by an operation is as it was.                   *)
Untouched(doc, next, m) ==
  /\ DOMAIN doc.row \subseteq DOMAIN next.row
  /\ \A r \in DOMAIN next.row, c \in Column :
       CellRevision(next, r, c) <= m =>
         /\ ValueIn(doc, r, c) = ValueIn(next, r, c)
         /\ r \in DOMAIN doc.row => CellRevision(doc, r, c) <= m

LEMMA SetCellsUntouched ==
  ASSUME NEW doc, IsDocument(doc), NEW changes, NEW revision \in Nat, NEW m \in Nat, m < revision
  PROVE  Untouched(doc, ApplySetCells(doc, changes, revision), m)
<1> DEFINE next == ApplySetCells(doc, changes, revision)
           written == {CellKey(doc, changes[i].row, changes[i].col) : i \in DOMAIN changes}
<1>1. /\ IsDocument(next)
      /\ next.revision = revision
      /\ next.rowOrder = doc.rowOrder
      /\ next.row = doc.row
      /\ next.maxSlot = doc.maxSlot
      /\ DOMAIN next.cell = DOMAIN doc.cell \cup written
      /\ next.cell = [k \in DOMAIN next.cell |-> next.cell[k]]
      /\ \A k \in written : next.cell[k] =
           [value |-> changes[LastChange(doc, changes, k)].value, rev |-> revision]
      /\ \A k \in DOMAIN doc.cell \ written : next.cell[k] = doc.cell[k]
  BY SetCellsFields
<1> HIDE DEF next
<1>2. ASSUME NEW r \in DOMAIN next.row, NEW c \in Column, CellRevision(next, r, c) <= m
      PROVE  /\ ValueIn(doc, r, c) = ValueIn(next, r, c)
             /\ CellRevision(doc, r, c) <= m
  <2> DEFINE k == CellKey(doc, r, c)
  <2>1. CellKey(next, r, c) = k
    BY <1>1 DEF CellKey
  <2>2. k \notin written
    <3> SUFFICES ASSUME k \in written PROVE FALSE
      OBVIOUS
    <3> DEFINE v == changes[LastChange(doc, changes, k)].value
    <3>1. next.cell[k] = [value |-> v, rev |-> revision] /\ k \in DOMAIN next.cell
      BY <1>1
    <3> HIDE DEF v, k, written
    <3>2. CellRevision(next, r, c) = revision
      BY <2>1, <3>1 DEF CellRevision
    <3> QED
      BY <1>2, <3>2
  <2>3. /\ k \in DOMAIN next.cell <=> k \in DOMAIN doc.cell
        /\ k \in DOMAIN doc.cell => next.cell[k] = doc.cell[k]
    BY <1>1, <2>2
  <2>4. r \in DOMAIN doc.row /\ next.row[r].slot = doc.row[r].slot
    BY <1>1
  <2> HIDE DEF written
  <2> QED
    BY <1>2, <2>3, <2>4, SameCell
<1>3. Untouched(doc, next, m)
  BY <1>1, <1>2 DEF Untouched
<1> QED
  BY <1>3 DEF next

LEMMA DeleteRowsUntouched ==
  ASSUME NEW doc, WellFormed(doc), NEW rows, NEW revision \in Nat, NEW m \in Nat
  PROVE  Untouched(doc, ApplyDeleteRows(doc, rows, revision), m)
<1> DEFINE next == ApplyDeleteRows(doc, rows, revision)
<1>1. IsDocument(doc) /\ doc.row \in [DOMAIN doc.row -> RowMeta]
  BY DEF WellFormed, SlotsSound
<1>2. /\ IsDocument(next)
      /\ next.revision = revision
      /\ next.rowOrder = doc.rowOrder
      /\ next.row \in [DOMAIN doc.row -> RowMeta]
      /\ \A r \in DOMAIN doc.row : next.row[r].slot = doc.row[r].slot
      /\ next.maxSlot = doc.maxSlot
      /\ next.cell = doc.cell
  BY <1>1, DeleteRowsFields
<1> HIDE DEF next
<1>3. DOMAIN next.row = DOMAIN doc.row
  BY <1>2
<1>4. \A r \in DOMAIN doc.row : \A c : /\ ValueIn(doc, r, c) = ValueIn(next, r, c)
                                       /\ CellRevision(doc, r, c) = CellRevision(next, r, c)
  BY <1>2, <1>3, SameCell
<1>5. Untouched(doc, next, m)
  BY <1>3, <1>4 DEF Untouched
<1> QED
  BY <1>5 DEF next

LEMMA InsertRowsUntouched ==
  ASSUME NEW doc, WellFormed(doc), NEW op, op.type = "insertRows", IsOperation(op),
         Violations(doc, op) = {}, NEW revision, NEW m \in Nat
  PROVE  Untouched(doc, ApplyInsertRows(doc, op.after, op.rows, revision), m)
<1> DEFINE rows == op.rows
           added == ToSet(rows)
           next == ApplyInsertRows(doc, op.after, rows, revision)
<1>1. /\ rows \in Seq(added) /\ DOMAIN rows = 1..Len(rows)
      /\ \A i \in DOMAIN rows : rows[i] \notin DOMAIN doc.row
  <2>1. InsertRowsViolations(doc, op.after, rows) = {}
    BY DEF Violations
  <2>2. rows \in Seq(added)
    BY DEF IsOperation
  <2> HIDE DEF rows
  <2> QED
    BY <2>1, <2>2 DEF InsertRowsViolations, Known
<1>2. added \cap DOMAIN doc.row = {}
  BY <1>1 DEF ToSet
<1>3. IsDocument(doc)
  BY DEF WellFormed
<1> HIDE DEF rows
<1>4. /\ IsDocument(next)
      /\ next.revision = revision
      /\ next.rowOrder = Spliced(doc.rowOrder, InsertionPoint(doc, op.after), rows)
      /\ DOMAIN next.row = DOMAIN doc.row \cup ToSet(rows)
      /\ next.row = [r \in DOMAIN next.row |-> next.row[r]]
      /\ \A r \in ToSet(rows) : next.row[r] =
           [slot |-> doc.maxSlot + IndexIn(rows, r), tombstone |-> FALSE, rev |-> revision]
      /\ \A r \in DOMAIN doc.row \ ToSet(rows) : next.row[r] = doc.row[r]
      /\ next.maxSlot = doc.maxSlot + Len(rows)
      /\ next.cell = doc.cell
  BY <1>3, InsertRowsFields
<1> HIDE DEF next
<1>5. \A k \in DOMAIN doc.cell : k[1] <= doc.maxSlot
  <2>1. CellsSound(doc) /\ SlotsSound(doc)
    BY DEF WellFormed
  <2> QED
    BY <2>1 DEF CellsSound, SlotsSound, CellKey
<1>6. ASSUME NEW r \in added, NEW c
      PROVE  CellKey(next, r, c) \notin DOMAIN next.cell
  <2> DEFINE i == IndexIn(rows, r)
  <2>1. i \in 1..Len(rows)
    BY <1>1 DEF IndexIn, ToSet
  <2>2. next.row[r] = [slot |-> doc.maxSlot + i, tombstone |-> FALSE, rev |-> revision]
    BY <1>4
  <2> HIDE DEF i
  <2>3. next.row[r].slot = doc.maxSlot + i
    BY <2>2
  <2>4. doc.maxSlot \in Int /\ Len(rows) \in Nat
    BY <1>1 DEF WellFormed, SlotsSound, RowMeta
  <2>5. CellKey(next, r, c)[1] = doc.maxSlot + i
    BY <2>3 DEF CellKey
  <2> QED
    BY <1>4, <1>5, <2>1, <2>4, <2>5
<1>7. ASSUME NEW r \in DOMAIN next.row, NEW c \in Column, CellRevision(next, r, c) <= m
      PROVE  /\ ValueIn(doc, r, c) = ValueIn(next, r, c)
             /\ r \in DOMAIN doc.row => CellRevision(doc, r, c) <= m
  <2>1. CASE r \in DOMAIN doc.row
    <3>1. next.row[r].slot = doc.row[r].slot
      BY <1>2, <1>4, <2>1
    <3>2. /\ ValueIn(doc, r, c) = ValueIn(next, r, c)
          /\ CellRevision(doc, r, c) = CellRevision(next, r, c)
      BY <1>4, <2>1, <3>1, SameCell
    <3> QED
      BY <1>7, <3>2
  <2>2. CASE r \notin DOMAIN doc.row
    <3>1. CellKey(next, r, c) \notin DOMAIN next.cell
      BY <1>4, <1>6, <2>2
    <3> QED
      BY <2>2, <3>1 DEF ValueIn, Known
  <2> QED
    BY <2>1, <2>2
<1>8. Untouched(doc, next, m)
  BY <1>4, <1>7 DEF Untouched
<1> QED
  BY <1>8 DEF next, rows

(* A valid operation, whatever its type.                                    *)
LEMMA ApplyUntouched ==
  ASSUME NEW doc, WellFormed(doc), NEW op, IsOperation(op), Violations(doc, op) = {},
         NEW revision \in Nat, NEW m \in Nat, m < revision
  PROVE  Untouched(doc, ApplyOperation(doc, op, revision), m)
<1>1. CASE op.type = "setCells"
  <2>1. ApplyOperation(doc, op, revision) = ApplySetCells(doc, op.changes, revision)
    BY <1>1 DEF ApplyOperation
  <2>2. IsDocument(doc)
    BY DEF WellFormed
  <2> QED
    BY <2>1, <2>2, SetCellsUntouched
<1>2. CASE op.type = "insertRows"
  <2>1. ApplyOperation(doc, op, revision) = ApplyInsertRows(doc, op.after, op.rows, revision)
    BY <1>2 DEF ApplyOperation
  <2> QED
    BY <1>2, <2>1, InsertRowsUntouched
<1>3. CASE op.type = "deleteRows"
  <2>1. ApplyOperation(doc, op, revision) = ApplyDeleteRows(doc, op.rows, revision)
    BY <1>3 DEF ApplyOperation
  <2> QED
    BY <1>3, <2>1, DeleteRowsUntouched
<1> QED
  BY <1>1, <1>2, <1>3 DEF IsOperation

(* ... and so is whatever was not written before it.                        *)
LEMMA UntouchedKeeps ==
  ASSUME NEW old, NEW doc, NEW next, NEW m, KeepsUnwritten(old, doc, m), Untouched(doc, next, m)
  PROVE  KeepsUnwritten(old, next, m)
<1>1. /\ DOMAIN old.row \subseteq DOMAIN doc.row
      /\ \A r \in DOMAIN doc.row, c \in Column :
           CellRevision(doc, r, c) <= m => ValueIn(old, r, c) = ValueIn(doc, r, c)
  BY DEF KeepsUnwritten
<1>2. DOMAIN doc.row \subseteq DOMAIN next.row
  BY DEF Untouched
<1>3. ASSUME NEW r \in DOMAIN next.row, NEW c \in Column, CellRevision(next, r, c) <= m
      PROVE  ValueIn(old, r, c) = ValueIn(next, r, c)
  <2>1. /\ ValueIn(doc, r, c) = ValueIn(next, r, c)
        /\ r \in DOMAIN doc.row => CellRevision(doc, r, c) <= m
    BY <1>3 DEF Untouched
  <2>2. CASE r \in DOMAIN doc.row
    BY <1>1, <2>1, <2>2
  <2>3. CASE r \notin DOMAIN doc.row
    BY <1>1, <2>1, <2>3 DEF ValueIn, Known
  <2> QED
    BY <2>2, <2>3
<1> QED
  BY <1>1, <1>2, <1>3 DEF KeepsUnwritten

-----------------------------------------------------------------------------
(* What an event tells.                                                     *)

(* The changes of the same cell before the nth.                             *)
SameBefore(changes, n) ==
  {j \in 1..n-1 : changes[j].row = changes[n].row /\ changes[j].col = changes[n].col}

LastBefore(changes, n) ==
  CHOOSE j \in SameBefore(changes, n) : \A k \in SameBefore(changes, n) : k <= j

(* The value a change replaced is the value its cell had after the changes  *)
(* before it.                                                               *)
LEMMA PreviousIsReplaced ==
  ASSUME NEW doc, WellFormed(doc), NEW changes, changes \in Seq(ToSet(changes)),
         \A i \in DOMAIN changes : changes[i].row \in DOMAIN doc.row,
         NEW revision, NEW n \in DOMAIN changes
  PROVE  ValueIn(ApplySetCells(doc, SubSeq(changes, 1, n - 1), revision),
                 changes[n].row, changes[n].col)
           = IF SameBefore(changes, n) = {} THEN ValueIn(doc, changes[n].row, changes[n].col)
             ELSE changes[LastBefore(changes, n)].value
<1> DEFINE same == SameBefore(changes, n)
           p == SubSeq(changes, 1, n - 1)
           next == ApplySetCells(doc, p, revision)
           r == changes[n].row
           c == changes[n].col
           key == CellKey(doc, r, c)
           written == {CellKey(doc, p[i].row, p[i].col) : i \in DOMAIN p}
           best == LastBefore(changes, n)
<1>1. n \in 1..Len(changes) /\ Len(changes) \in Nat /\ n - 1 \in Nat
  OBVIOUS
<1>2. DOMAIN p = 1..n-1 /\ \A i \in 1..n-1 : p[i] = changes[i] /\ i \in DOMAIN changes
  <2>1. n - 1 <= Len(changes) /\ 1 \in 1..Len(changes) + 1
    BY <1>1
  <2>2. /\ Len(p) = n - 1 /\ p \in Seq(ToSet(changes))
        /\ \A i \in 1..n-1 : p[i] = changes[i]
    BY <1>1, <2>1, SubSeqProperties
  <2> QED
    BY <1>1, <2>2
<1> HIDE DEF p
<1>3. IsDocument(doc) /\ SlotsSound(doc)
  BY DEF WellFormed
<1>4. /\ IsDocument(next)
      /\ next.revision = revision
      /\ next.rowOrder = doc.rowOrder
      /\ next.row = doc.row
      /\ next.maxSlot = doc.maxSlot
      /\ DOMAIN next.cell = DOMAIN doc.cell \cup written
      /\ next.cell = [k \in DOMAIN next.cell |-> next.cell[k]]
      /\ \A k \in written : next.cell[k] =
           [value |-> p[LastChange(doc, p, k)].value, rev |-> revision]
      /\ \A k \in DOMAIN doc.cell \ written : next.cell[k] = doc.cell[k]
  BY <1>3, SetCellsFields
<1> HIDE DEF next
<1>5. r \in DOMAIN doc.row /\ CellKey(next, r, c) = key
  BY <1>4 DEF CellKey
<1>6. \A i \in 1..n-1 : CellKey(doc, p[i].row, p[i].col) = key <=> i \in same
  <2> SUFFICES ASSUME NEW i \in 1..n-1
               PROVE  CellKey(doc, p[i].row, p[i].col) = key <=> i \in same
    OBVIOUS
  <2>0. i \in same <=> changes[i].row = r /\ changes[i].col = c
    BY DEF SameBefore
  <2> HIDE DEF same
  <2>1. p[i].row \in DOMAIN doc.row /\ p[i] = changes[i]
    BY <1>2
  <2>2. doc.row[p[i].row].slot = doc.row[r].slot => p[i].row = r
    BY <1>3, <1>5, <2>1 DEF SlotsSound
  <2> QED
    BY <2>0, <2>1, <2>2 DEF CellKey
<1>0. same \subseteq 1..n-1
  BY DEF SameBefore
<1>7. CASE same = {}
  <2>1. key \notin written
    BY <1>0, <1>2, <1>6, <1>7
  <2>2. /\ CellKey(doc, r, c) \in DOMAIN next.cell <=> CellKey(doc, r, c) \in DOMAIN doc.cell
        /\ CellKey(doc, r, c) \in DOMAIN doc.cell =>
             next.cell[CellKey(doc, r, c)] = doc.cell[CellKey(doc, r, c)]
    BY <1>4, <2>1
  <2>3. /\ r \in DOMAIN doc.row /\ r \in DOMAIN next.row
        /\ next.row[r].slot = doc.row[r].slot
    BY <1>4, <1>5
  <2> HIDE DEF r, c
  <2>4. ValueIn(doc, r, c) = ValueIn(next, r, c)
    BY <2>2, <2>3, SameCell
  <2> QED
    BY <1>7, <2>4 DEF next, p, r, c
<1>8. CASE same # {}
  <2>1. PICK m \in same : \A k \in same : k <= m
    <3>1. same \subseteq 0..n-1 /\ n - 1 \in Nat
      BY <1>1 DEF SameBefore
    <3> HIDE DEF same
    <3> QED
      BY <1>8, <3>1, LargestUpTo
  <2>2. best \in same /\ \A k \in same : k <= best
    BY <2>1 DEF LastBefore
  <2>3. LastChange(doc, p, key) = best
    <3> DEFINE least(i) == /\ CellKey(doc, p[i].row, p[i].col) = key
                           /\ \A j \in DOMAIN p : CellKey(doc, p[j].row, p[j].col) = key => j <= i
               l == CHOOSE i \in DOMAIN p : least(i)
    <3> HIDE DEF key, best
    <3>1. best \in DOMAIN p /\ least(best)
      BY <1>0, <1>2, <1>6, <2>2
    <3>2. l \in DOMAIN p /\ least(l)
      BY <3>1
    <3>3. LastChange(doc, p, key) = l
      BY DEF LastChange
    <3> HIDE DEF l
    <3>4. l \in same /\ best \in same /\ l <= best /\ best <= l
      BY <1>0, <1>2, <1>6, <2>2, <3>1, <3>2
    <3>5. l \in Int /\ best \in Int
      BY <3>4 DEF SameBefore
    <3> QED
      BY <3>3, <3>4, <3>5
  <2>4. key \in written
    BY <1>0, <1>2, <1>6, <2>1
  <2>5. next.cell[key] = [value |-> p[best].value, rev |-> revision]
    BY <1>4, <2>3, <2>4
  <2>6. p[best] = changes[best]
    BY <1>0, <1>2, <2>2
  <2> HIDE DEF best, key, written
  <2>7. ValueIn(next, r, c) = changes[best].value
    BY <1>4, <1>5, <2>4, <2>5, <2>6 DEF ValueIn, Known
  <2> QED
    BY <1>8, <2>7 DEF next, p, best
<1> QED
  BY <1>7, <1>8

(* Every change of an operation with the value it replaces, one by one.     *)
ToldOneByOne(op, doc, revision) ==
  IF op.type # "setCells" THEN <<>>
  ELSE [n \in DOMAIN op.changes |->
          [row |-> op.changes[n].row, col |-> op.changes[n].col,
           value |-> op.changes[n].value,
           previous |-> ValueIn(ApplySetCells(doc, SubSeq(op.changes, 1, n - 1), revision),
                                op.changes[n].row, op.changes[n].col)]]

(* An event tells every change with the value it replaced.                  *)
LEMMA EventTellsReplaced ==
  ASSUME NEW doc, WellFormed(doc), NEW op, IsOperation(op), Violations(doc, op) = {}, NEW revision
  PROVE  AcceptedCellChanges(op, doc) = ToldOneByOne(op, doc, revision)
<1>1. CASE op.type # "setCells"
  BY <1>1 DEF AcceptedCellChanges, ToldOneByOne
<1>2. CASE op.type = "setCells"
  <2> DEFINE changes == op.changes
             same(n) == SameBefore(changes, n)
             told(n) == IF same(n) = {} THEN ValueIn(doc, changes[n].row, changes[n].col)
                        ELSE changes[LastBefore(changes, n)].value
             real(n) == ValueIn(ApplySetCells(doc, SubSeq(changes, 1, n - 1), revision),
                                changes[n].row, changes[n].col)
  <2>1. changes \in Seq(ToSet(changes)) /\ \A i \in DOMAIN changes : changes[i].row \in DOMAIN doc.row
    <3>1. changes \in Seq(ToSet(changes))
      BY <1>2 DEF IsOperation
    <3>2. SetCellsViolations(doc, changes) = {}
      BY <1>2 DEF Violations
    <3> HIDE DEF changes
    <3>3. \A i \in DOMAIN changes : ChangeViolation(doc, changes[i]) = {}
      BY <3>2 DEF SetCellsViolations
    <3> QED
      BY <3>1, <3>3 DEF ChangeViolation, Known
  <2>2. ASSUME NEW n \in DOMAIN changes PROVE real(n) = told(n)
    <3>1. n \in DOMAIN changes
      OBVIOUS
    <3> HIDE DEF changes
    <3>2. ValueIn(ApplySetCells(doc, SubSeq(changes, 1, n - 1), revision),
                  changes[n].row, changes[n].col)
           = IF SameBefore(changes, n) = {} THEN ValueIn(doc, changes[n].row, changes[n].col)
             ELSE changes[LastBefore(changes, n)].value
      BY <2>1, <3>1, PreviousIsReplaced
    <3> QED
      BY <3>2, Zenon DEF real, told, same
  <2>3. AcceptedCellChanges(op, doc) =
          [n \in DOMAIN changes |->
             [row |-> changes[n].row, col |-> changes[n].col, value |-> changes[n].value,
              previous |-> told(n)]]
    BY <1>2 DEF AcceptedCellChanges, SameBefore, LastBefore
  <2> HIDE DEF told, real
  <2>4. AcceptedCellChanges(op, doc) =
          [n \in DOMAIN changes |->
             [row |-> changes[n].row, col |-> changes[n].col, value |-> changes[n].value,
              previous |-> real(n)]]
    BY <2>2, <2>3
  <2>5. ToldOneByOne(op, doc, revision) =
          [n \in DOMAIN changes |->
             [row |-> changes[n].row, col |-> changes[n].col, value |-> changes[n].value,
              previous |-> real(n)]]
    BY <1>2 DEF real, ToldOneByOne
  <2> QED
    BY <2>4, <2>5
<1> QED
  BY <1>1, <1>2

-----------------------------------------------------------------------------
(* The history of a document.                                               *)

(* One entry more.                                                          *)
LEMMA ReplayOneMore ==
  ASSUME NEW base, NEW S, NEW log \in Seq(S), NEW x
  PROVE  Replay(base, Append(log, x)) = ApplyOperation(Replay(base, log), x.operation, x.rev)
<1> DEFINE longer == Append(log, x)
           m == Len(log)
           T == S \cup {x}
<1>1. m \in Nat /\ log \in Seq(T) /\ longer \in Seq(T) /\ Len(longer) = m + 1 /\ longer[m + 1] = x
  OBVIOUS
<1>2. SubSeq(longer, 1, m + 1) = longer
  BY <1>1
<1>3. SubSeq(longer, 1, m) = log
  <2>1. \A i \in 1..m : longer[i] = log[i]
    OBVIOUS
  <2> HIDE DEF longer
  <2>2. /\ SubSeq(longer, 1, m) \in Seq(T) /\ Len(SubSeq(longer, 1, m)) = m
        /\ \A i \in 1..m : SubSeq(longer, 1, m)[i] = longer[i]
    BY <1>1, SubSeqProperties
  <2> QED
    BY <1>1, <2>1, <2>2
<1> HIDE DEF longer, m
<1>4. m + 1 \in 1..Len(longer) /\ (m + 1) - 1 = m
  BY <1>1
<1>5. Replay(base, SubSeq(longer, 1, m + 1)) =
        ApplyOperation(Replay(base, SubSeq(longer, 1, m)), longer[m + 1].operation, longer[m + 1].rev)
  BY <1>1, <1>4, ReplayStep
<1> QED
  BY <1>1, <1>2, <1>3, <1>5 DEF longer

(* The document of a revision does not change as the log grows.             *)
Grown(f, log, x, longer) ==
  /\ \A n \in 0..Len(log) : At(f, longer, n) = At(f, log, n)
  /\ At(f, longer, Len(log) + 1) = ApplyOperation(At(f, log, Len(log)), x.operation, x.rev)

LEMMA AtGrows ==
  ASSUME NEW f, NEW S, NEW log, log \in Seq(S), NEW x, NEW longer, longer = Append(log, x),
         Len(f.operationLog) \in Nat, Len(f.operationLog) <= Len(log)
  PROVE  Grown(f, log, x, longer)
<1> DEFINE m == Len(log)
           a == Len(f.operationLog)
           T == S \cup {x}
<1>1. /\ m \in Nat /\ a \in Nat /\ a <= m /\ log \in Seq(T) /\ longer \in Seq(T)
      /\ Len(longer) = m + 1 /\ longer[m + 1] = x
      /\ \A i \in 1..m : longer[i] = log[i]
  OBVIOUS
<1> HIDE DEF m, a, T
<1>2. ASSUME NEW n \in 0..m PROVE SubSeq(longer, a + 1, n) = SubSeq(log, a + 1, n)
  <2>1. CASE n <= a
    <3>1. SubSeq(longer, a + 1, n) = <<>> /\ SubSeq(log, a + 1, n) = <<>>
      BY <1>1, <2>1 DEF m
    <3> QED
      BY <3>1
  <2>2. CASE n > a
    <3>1. /\ SubSeq(longer, a + 1, n) \in Seq(T) /\ Len(SubSeq(longer, a + 1, n)) = n - a
          /\ \A i \in 1..n - a : SubSeq(longer, a + 1, n)[i] = longer[a + i]
      BY <1>1, <2>2, SubSeqProperties
    <3>2. /\ SubSeq(log, a + 1, n) \in Seq(T) /\ Len(SubSeq(log, a + 1, n)) = n - a
          /\ \A i \in 1..n - a : SubSeq(log, a + 1, n)[i] = log[a + i]
      BY <1>1, <2>2, SubSeqProperties DEF m
    <3>3. \A i \in 1..n - a : longer[a + i] = log[a + i]
      BY <1>1, <2>2
    <3>4. n - a \in Nat
      BY <1>1, <2>2
    <3> DEFINE u == SubSeq(longer, a + 1, n)
               v == SubSeq(log, a + 1, n)
               k == n - a
    <3> HIDE DEF u, v, k
    <3>5. u \in Seq(T) /\ v \in Seq(T) /\ Len(u) = k /\ Len(v) = k /\ k \in Nat
      BY <3>1, <3>2, <3>4 DEF u, v, k
    <3>6. \A i \in 1..k : u[i] = v[i]
      BY <3>1, <3>2, <3>3 DEF u, v, k
    <3>7. u = v
      BY <3>5, <3>6
    <3> QED
      BY <3>7 DEF u, v
  <2>3. n <= a \/ n > a
    <3>1. n \in Int /\ a \in Int
      BY <1>1
    <3> QED
      BY <3>1
  <2> QED
    BY <2>1, <2>2, <2>3
<1>3. SubSeq(longer, a + 1, m + 1) = Append(SubSeq(log, a + 1, m), x)
  <2>1. a \in 0..Len(longer) /\ m + 1 \in 1..Len(longer) /\ m + 1 > a /\ (m + 1) - 1 = m /\ m \in 0..m
    BY <1>1
  <2>2. SubSeq(longer, a + 1, m + 1) = Append(SubSeq(longer, a + 1, m), longer[m + 1])
    BY <1>1, <2>1, StretchGrows
  <2> QED
    BY <1>1, <1>2, <2>1, <2>2
<1>4. SubSeq(log, a + 1, m) \in Seq(T)
  BY <1>1, SubSeqProperties DEF m
<1>5. Replay(f.document, SubSeq(longer, a + 1, m + 1)) =
        ApplyOperation(Replay(f.document, SubSeq(log, a + 1, m)), x.operation, x.rev)
  <2> DEFINE part == SubSeq(log, a + 1, m)
             base == f.document
  <2> HIDE DEF part, base
  <2>1. part \in Seq(T) /\ SubSeq(longer, a + 1, m + 1) = Append(part, x)
    BY <1>3, <1>4 DEF part
  <2>2. Replay(base, Append(part, x)) = ApplyOperation(Replay(base, part), x.operation, x.rev)
    BY <2>1, ReplayOneMore
  <2> QED
    BY <2>1, <2>2 DEF part, base
<1> QED
  BY <1>2, <1>5 DEF At, Grown, m, a

(* A document is served: its history begins.                                *)
LEMMA HistoryBegins ==
  ASSUME NEW s, StateSound(s)
  PROVE  HistorySound(s, s)
<1> DEFINE log == s.operationLog
           m == Len(log)
<1>1. m \in Nat /\ log \in Seq(ToSet(log)) /\ WellFormed(s.document) /\ s.document.revision = m
  BY DEF StateSound
<1>2. SubSeq(log, m + 1, m) = <<>>
  BY <1>1
<1>3. At(s, log, m) = s.document
  BY <1>2, ReplayEmpty DEF At
<1>4. \A n \in m..m : n = m
  BY <1>1
<1>5. m + 1 .. m = {}
  BY <1>1
<1>6. KeepsUnwritten(s.document, s.document, m)
  BY DEF KeepsUnwritten
<1> HIDE DEF m, log
<1>7. /\ m <= m
      /\ \A n \in m..m : WellFormed(At(s, log, n)) /\ At(s, log, n).revision = n
      /\ \A n \in m + 1 .. m : /\ IsOperation(log[n].operation)
                               /\ Violations(At(s, log, n - 1), log[n].operation) = {}
      /\ \A k, n \in m..m : k <= n => KeepsUnwritten(At(s, log, k), At(s, log, n), k)
  BY <1>1, <1>3, <1>4, <1>5, <1>6
<1> QED
  BY <1>3, <1>7 DEF HistorySound, m, log

(* Nothing accepted, nothing changed.                                       *)
LEMMA HistoryStays ==
  ASSUME NEW f, NEW s, HistorySound(f, s), NEW t,
         t.operationLog = s.operationLog, t.document = s.document
  PROVE  HistorySound(f, t)
  BY DEF HistorySound

(* One more valid entry.                                                    *)
LEMMA HistoryGrows ==
  ASSUME NEW f, NEW s, HistorySound(f, s), StateSound(s), NEW t, NEW x,
         IsOperation(x.operation), Violations(s.document, x.operation) = {},
         x.rev = Len(s.operationLog) + 1,
         t.operationLog = Append(s.operationLog, x),
         t.document = ApplyOperation(s.document, x.operation, x.rev)
  PROVE  /\ HistorySound(f, t)
         /\ \A n \in 0..Len(s.operationLog) :
              At(f, t.operationLog, n) = At(f, s.operationLog, n)
<1> DEFINE log == s.operationLog
           m == Len(log)
           a == Len(f.operationLog)
           longer == t.operationLog
           doc(n) == At(f, log, n)
           now(n) == At(f, longer, n)
<1>1. /\ log \in Seq(ToSet(log)) /\ m \in Nat /\ DOMAIN log = 1..m
      /\ longer = Append(log, x) /\ Len(longer) = m + 1
      /\ longer[m + 1] = x /\ \A i \in 1..m : longer[i] = log[i]
  BY DEF StateSound
<1>2. /\ StateSound(f) /\ a \in Nat /\ a <= m /\ s.document = doc(m)
      /\ \A n \in a..m : WellFormed(doc(n)) /\ doc(n).revision = n
      /\ \A n \in a+1..m : /\ IsOperation(log[n].operation)
                           /\ Violations(doc(n - 1), log[n].operation) = {}
      /\ \A k, n \in a..m : k <= n => KeepsUnwritten(doc(k), doc(n), k)
  <2>1. /\ StateSound(f) /\ a <= m /\ s.document = doc(m)
        /\ \A n \in a..m : WellFormed(doc(n)) /\ doc(n).revision = n
        /\ \A n \in a+1..m : /\ IsOperation(log[n].operation)
                             /\ Violations(doc(n - 1), log[n].operation) = {}
        /\ \A k, n \in a..m : k <= n => KeepsUnwritten(doc(k), doc(n), k)
    BY Zenon DEF HistorySound
  <2>2. f.operationLog \in Seq(ToSet(f.operationLog))
    BY <2>1 DEF StateSound
  <2>3. a \in Nat
    BY <2>2
  <2> HIDE DEF log, m, a, doc
  <2> QED
    BY <2>1, <2>3
<1> HIDE DEF log, m, a, longer
<1>3. /\ \A n \in 0..m : now(n) = doc(n)
      /\ now(m + 1) = ApplyOperation(doc(m), x.operation, x.rev)
  <2>1. log \in Seq(ToSet(log)) /\ Len(f.operationLog) \in Nat /\ Len(f.operationLog) <= Len(log)
    BY <1>1, <1>2 DEF m, a
  <2>2. Grown(f, log, x, longer)
    BY <1>1, <2>1, AtGrows
  <2> QED
    BY <2>2 DEF Grown, m
<1> HIDE DEF doc, now
<1>0. m \in Nat /\ a \in Nat /\ a <= m
  BY <1>1, <1>2
<1>4. m \in a..m /\ x.rev = m + 1 /\ x.rev \in Nat /\ doc(m).revision <= x.rev
      /\ WellFormed(doc(m)) /\ Violations(doc(m), x.operation) = {}
  BY <1>1, <1>2 DEF m, log
<1>5. WellFormed(now(m + 1)) /\ now(m + 1).revision = m + 1
  BY <1>3, <1>4, ApplyWellFormed
<1>6. ASSUME NEW k \in a..m PROVE KeepsUnwritten(now(k), now(m + 1), k)
  <2>1. k \in Nat /\ k < x.rev /\ k \in 0..m /\ KeepsUnwritten(doc(k), doc(m), k)
    BY <1>2, <1>4
  <2>2. Untouched(doc(m), now(m + 1), k)
    BY <1>3, <1>4, <2>1, ApplyUntouched
  <2>3. KeepsUnwritten(doc(k), now(m + 1), k)
    BY <2>1, <2>2, UntouchedKeeps
  <2> QED
    BY <1>3, <2>1, <2>3
<1>7. KeepsUnwritten(now(m + 1), now(m + 1), m + 1)
  BY DEF KeepsUnwritten
<1>8. \A n \in a..m : n \in 0..m
  BY <1>2
<1>9. \A n \in a..m+1 : n \in a..m \/ n = m + 1
  BY <1>1, <1>2
<1>10. \A n \in a..m+1 : WellFormed(now(n)) /\ now(n).revision = n
  BY <1>2, <1>3, <1>5, <1>8, <1>9
<1>11. ASSUME NEW n \in a+1..m+1
       PROVE  IsOperation(longer[n].operation) /\ Violations(now(n - 1), longer[n].operation) = {}
  <2>1. CASE n = m + 1
    <3>1. n - 1 = m /\ now(m) = doc(m) /\ longer[n] = x
      BY <1>1, <1>3, <1>4, <1>8, <2>1
    <3> QED
      BY <1>4, <3>1
  <2>2. CASE n \in a+1..m
    <3>1. n \in 1..m /\ n - 1 \in 0..m
      BY <1>0, <2>2
    <3>2. longer[n] = log[n] /\ now(n - 1) = doc(n - 1)
      BY <1>1, <1>3, <3>1
    <3> QED
      BY <1>2, <2>2, <3>2
  <2>3. n = m + 1 \/ n \in a+1..m
    BY <1>0, <1>11
  <2> QED
    BY <2>1, <2>2, <2>3
<1>12. ASSUME NEW k \in a..m+1, NEW n \in a..m+1, k <= n
       PROVE  KeepsUnwritten(now(k), now(n), k)
  <2>1. CASE n = m + 1 /\ k = m + 1
    BY <1>7, <2>1
  <2>2. CASE n = m + 1 /\ k \in a..m
    BY <1>6, <2>2
  <2>3. CASE n \in a..m
    <3>1. k \in a..m
      BY <1>1, <1>2, <1>12, <2>3
    <3> QED
      BY <1>2, <1>3, <1>8, <1>12, <2>3, <3>1
  <2> QED
    BY <1>9, <2>1, <2>2, <2>3
<1>13. t.document = now(m + 1)
  BY <1>2, <1>3
<1>14. Len(longer) = m + 1 /\ a <= m + 1
  BY <1>1, <1>2
<1>15. HistorySound(f, t)
  BY <1>2, <1>10, <1>11, <1>12, <1>13, <1>14 DEF HistorySound, now, a, longer
<1>16. \A n \in 0..m : At(f, longer, n) = At(f, log, n)
  BY <1>3 DEF now, doc
<1> QED
  BY <1>15, <1>16 DEF longer, log, m

(* No lost update: a change that names the revision its writer saw replaces *)
(* what the document held then.                                             *)
LEMMA SawWhatItReplaced ==
  ASSUME NEW f, NEW s, HistorySound(f, s), StateSound(s),
         NEW n \in Len(f.operationLog)+1..Len(s.operationLog),
         s.operationLog[n].operation.type = "setCells",
         NEW i \in DOMAIN s.operationLog[n].operation.changes,
         s.operationLog[n].operation.changes[i].before # NoBefore
  PROVE  LET ch == s.operationLog[n].operation.changes[i]
         IN  ValueIn(At(f, s.operationLog, ch.before), ch.row, ch.col)
               = ValueIn(At(f, s.operationLog, n - 1), ch.row, ch.col)
<1> DEFINE log == s.operationLog
           a == Len(f.operationLog)
           doc == At(f, log, n - 1)
           op == log[n].operation
           ch == op.changes[i]
           r == ch.row
           c == ch.col
           b == ch.before
           m == IF b >= a THEN b ELSE a
<1>1. /\ a \in Nat /\ Len(log) \in Nat /\ a <= Len(log)
      /\ n - 1 \in a..Len(log) /\ log \in Seq(ToSet(log))
  BY DEF HistorySound, StateSound
<1>2. /\ WellFormed(doc) /\ doc.revision = n - 1
      /\ Violations(doc, op) = {}
  BY <1>1 DEF HistorySound
<1>3. ChangeViolation(doc, ch) = {}
  <2>1. SetCellsViolations(doc, op.changes) = {}
    BY <1>2 DEF Violations
  <2> HIDE DEF doc
  <2> QED
    BY <2>1 DEF SetCellsViolations
<1>4. r \in DOMAIN doc.row /\ c \in Column /\ b = CellRevision(doc, r, c)
  <2> HIDE DEF doc
  <2> QED
    BY <1>3 DEF ChangeViolation, Known
<1>5. b \in 0..n-1
  <2>1. doc.revision \in Nat /\ \A k \in DOMAIN doc.cell : doc.cell[k].rev \in 0..doc.revision
    BY <1>2 DEF WellFormed, CellsSound
  <2> HIDE DEF doc, b, r, c
  <2> QED
    BY <1>2, <1>4, <2>1 DEF CellRevision
<1>6. m \in a..Len(log) /\ m <= n - 1 /\ b <= m
  <2> HIDE DEF b, a
  <2> QED
    BY <1>1, <1>5
<1>7. At(f, log, b) = At(f, log, m)
  <2>1. CASE b >= a
    BY <2>1
  <2>2. CASE b < a
    <3> HIDE DEF b, a
    <3>1. m = a
      BY <1>1, <1>5, <2>2
    <3>2. SubSeq(log, a + 1, b) = <<>>
      BY <1>1, <1>5, <2>2
    <3>3. SubSeq(log, a + 1, a) = <<>>
      BY <1>1
    <3> QED
      BY <3>1, <3>2, <3>3 DEF At, a
  <2>3. b >= a \/ b < a
    <3> HIDE DEF b, a
    <3> QED
      BY <1>1, <1>5
  <2> QED
    BY <2>1, <2>2, <2>3
<1>8. KeepsUnwritten(At(f, log, m), doc, m)
  BY <1>1, <1>6 DEF HistorySound
<1> HIDE DEF doc, m, log
<1>9. ValueIn(At(f, log, m), r, c) = ValueIn(doc, r, c)
  BY <1>4, <1>6, <1>8 DEF KeepsUnwritten
<1> QED
  BY <1>7, <1>9 DEF doc, log
-----------------------------------------------------------------------------
(* What waits for delivery, one document.                                   *)

(* The log grows by one entry: what was told and waits stays as it is.      *)
LEMMA ToldStays ==
  ASSUME NEW hooked, NEW f, NEW s, NEW t, NEW x, StateSound(f), StateSound(s),
         Grown(f, s.operationLog, x, t.operationLog),
         t.operationLog = Append(s.operationLog, x)
  PROVE  /\ \A r : Tells(r) /\ EntryOf(hooked, f, s, r) => EntryOf(hooked, f, t, r)
         /\ \A event, i : i \in Nat \ {0} /\ Len(f.operationLog) + i <= Len(s.operationLog)
                            /\ Heard(f, s, event, i) => Heard(f, t, event, i)
<1> DEFINE log == s.operationLog
           longer == t.operationLog
           m == Len(log)
           a == Len(f.operationLog)
<1>1. m \in Nat /\ a \in Nat /\ Len(longer) = m + 1 /\ \A i \in 1..m : longer[i] = log[i]
  BY DEF StateSound
<1>2. \A n \in 0..m : At(f, longer, n) = At(f, log, n)
  BY DEF Grown
<1> HIDE DEF log, longer, m, a
<1>3. ASSUME NEW r, Tells(r), EntryOf(hooked, f, s, r) PROVE EntryOf(hooked, f, t, r)
  <2> DEFINE n == RevisionOf(r)
  <2>1. /\ n \in a + 1..m /\ r.entries = <<log[n]>>
        /\ (r.origin = "server") = (log[n].client = ServerClient)
        /\ hooked => r.before = At(f, log, n - 1)
    BY <1>3 DEF EntryOf, log, m, a
  <2> HIDE DEF n
  <2>2. n \in 1..m /\ n \in a + 1..m + 1 /\ n - 1 \in 0..m
    BY <1>1, <2>1
  <2>3. longer[n] = log[n] /\ At(f, longer, n - 1) = At(f, log, n - 1)
    BY <1>1, <1>2, <2>2
  <2>4. /\ n \in a + 1..Len(longer) /\ r.entries = <<longer[n]>>
        /\ (r.origin = "server") = (longer[n].client = ServerClient)
        /\ hooked => r.before = At(f, longer, n - 1)
    BY <1>1, <2>1, <2>2, <2>3
  <2> QED
    BY <2>4 DEF EntryOf, n, longer, a
<1>4. ASSUME NEW event, NEW i \in Nat \ {0}, a + i <= m, Heard(f, s, event, i)
      PROVE  Heard(f, t, event, i)
  <2> DEFINE n == a + i
  <2>1. n \in 1..m /\ n - 1 \in 0..m
    BY <1>1, <1>4
  <2>2. longer[n] = log[n] /\ At(f, longer, n - 1) = At(f, log, n - 1)
    BY <1>1, <1>2, <2>1
  <2> QED
    BY <1>4, <2>2 DEF Heard, log, longer, a
<1> QED
  BY <1>3, <1>4 DEF log, m, a

LEMMA HeardStays ==
  ASSUME NEW hooked, NEW f, NEW s, NEW t, NEW x, StateSound(f), StateSound(s),
         Grown(f, s.operationLog, x, t.operationLog),
         t.operationLog = Append(s.operationLog, x),
         NEW told, told \in Seq(Nat), NEW heard, HeardInOrder(hooked, f, s, told, heard),
         NextTold(f, told) <= Len(s.operationLog) + 1
  PROVE  HeardInOrder(hooked, f, t, told, heard)
<1> DEFINE a == Len(f.operationLog)
           m == Len(s.operationLog)
           k == Len(told)
<1>1. a \in Nat /\ m \in Nat /\ k \in Nat /\ a + k + 1 <= m + 1
  BY DEF StateSound, NextTold
<1>2. heard \in Seq(ToSet(heard)) /\ Len(heard) <= k
  BY <1>1 DEF HeardInOrder
<1> HIDE DEF a, m, k
<1>3. ASSUME NEW i \in DOMAIN heard PROVE Heard(f, t, heard[i], i)
  <2>1. i \in 1..Len(heard) /\ Len(heard) \in Nat
    BY <1>2
  <2>2. i \in Nat \ {0} /\ a + i <= m
    BY <1>1, <1>2, <2>1
  <2>3. Heard(f, s, heard[i], i)
    BY DEF HeardInOrder
  <2>4. \A event, j : j \in Nat \ {0} /\ Len(f.operationLog) + j <= Len(s.operationLog)
                        /\ Heard(f, s, event, j) => Heard(f, t, event, j)
    BY ToldStays
  <2> QED
    BY <2>2, <2>3, <2>4 DEF a, m
<1> QED
  BY <1>3 DEF HeardInOrder

(* A result that tells nothing may be added.                                *)
LEMMA SilentResult ==
  ASSUME NEW kept, NEW hooked, NEW f, NEW s, NEW store, NEW dead, NEW waiting, NEW queue, NEW told,
         QueueInOrder(kept, hooked, f, s, store, dead, waiting, queue, told),
         queue \in Seq(ToSet(queue)), NEW r, r.entries = <<>>, NEW q2, q2 = Append(queue, r)
  PROVE  QueueInOrder(kept, hooked, f, s, store, dead, waiting, q2, told)
<1>1. ~Tells(r)
  BY DEF Tells
<1>2. /\ DOMAIN q2 = 1..Len(queue) + 1 /\ DOMAIN queue = 1..Len(queue) /\ Len(queue) \in Nat
      /\ q2[Len(queue) + 1] = r
      /\ \A i \in DOMAIN queue : q2[i] = queue[i]
  OBVIOUS
<1> DEFINE m == Len(queue)
<1> HIDE DEF m
<1>3. \A i \in DOMAIN q2 : i \in DOMAIN queue \/ q2[i] = r
  BY <1>2 DEF m
<1>4. \A i \in DOMAIN queue : i \in DOMAIN q2
  BY <1>2
<1>5. \A i \in DOMAIN q2 : ResultTells(kept, hooked, f, s, store, dead, told, q2[i])
  BY <1>1, <1>2, <1>3 DEF QueueInOrder, ResultTells
<1>6. \A i, j \in DOMAIN q2 :
        i < j /\ Tells(q2[i]) /\ Tells(q2[j]) => RevisionOf(q2[i]) < RevisionOf(q2[j])
  BY <1>1, <1>2, <1>3 DEF QueueInOrder
<1>7. \A n \in NextTold(f, told)..Len(s.operationLog) :
        \/ Lost(kept, dead, store, n)
        \/ \E i \in DOMAIN q2 : Tells(q2[i]) /\ RevisionOf(q2[i]) = n
  BY <1>2, <1>4 DEF QueueInOrder
<1> QED
  BY <1>5, <1>6, <1>7 DEF QueueInOrder

(* A state with the same log.                                               *)
LEMMA QueueStays ==
  ASSUME NEW kept, NEW hooked, NEW f, NEW s, NEW store, NEW dead, NEW waiting, NEW queue, NEW told,
         NEW t, t.operationLog = s.operationLog,
         QueueInOrder(kept, hooked, f, s, store, dead, waiting, queue, told)
  PROVE  QueueInOrder(kept, hooked, f, t, store, dead, waiting, queue, told)
<1>1. \A r : EntryOf(hooked, f, s, r) => EntryOf(hooked, f, t, r)
  BY DEF EntryOf
<1>2. \A i \in DOMAIN queue : ResultTells(kept, hooked, f, t, store, dead, told, queue[i])
  BY <1>1 DEF QueueInOrder, ResultTells
<1> QED
  BY <1>2 DEF QueueInOrder

(* A result that tells the next entry of the log, in its place.             *)
LEMMA TellingResult ==
  ASSUME NEW kept, NEW hooked, NEW f, NEW s, NEW store, NEW dead, NEW waiting, NEW queue, NEW told,
         QueueInOrder(kept, hooked, f, s, store, dead, waiting, queue, told),
         queue \in Seq(ToSet(queue)), StateSound(f), StateSound(s), told \in Seq(Nat),
         Len(f.operationLog) <= Len(s.operationLog), s.document = At(f, s.operationLog, Len(s.operationLog)),
         NEW t, NEW x, Grown(f, s.operationLog, x, t.operationLog),
         t.operationLog = Append(s.operationLog, x), x.rev = Len(s.operationLog) + 1,
         NEW r, r.entries = <<x>>, r.state \in {"pending", "ready"},
         (r.origin = "server") = (x.client = ServerClient), hooked => r.before = s.document,
         NEW q2, q2 = Append(queue, r)
  PROVE  QueueInOrder(kept, hooked, f, t, store, dead, waiting, q2, told)
<1> DEFINE log == s.operationLog
           longer == t.operationLog
           l == Len(log)
           a == Len(f.operationLog)
           m == Len(queue)
<1>1. /\ l \in Nat /\ a \in Nat /\ Len(longer) = l + 1 /\ longer[l + 1] = x
  BY DEF StateSound
<1>2. /\ DOMAIN q2 = 1..m + 1 /\ DOMAIN queue = 1..m /\ m \in Nat
      /\ q2[m + 1] = r /\ \A i \in DOMAIN queue : q2[i] = queue[i]
  OBVIOUS
<1>3. \A n \in 0..l : At(f, longer, n) = At(f, log, n)
  BY DEF Grown
<1>4. \A i \in DOMAIN queue : Tells(queue[i]) /\ EntryOf(hooked, f, s, queue[i])
                               => EntryOf(hooked, f, t, queue[i])
  BY ToldStays
<1>5. Tells(r) /\ RevisionOf(r) = l + 1
  <2>1. \A z : <<z>>[1] = z /\ <<z>> # <<>>
    OBVIOUS
  <2> QED
    BY <2>1 DEF Tells, RevisionOf
<1>6. NextTold(f, told) \in Nat /\ NextTold(f, told) <= l + 1
  BY <1>1 DEF NextTold, QueueInOrder
<1> HIDE DEF log, longer, l, m, a
<1>7. EntryOf(hooked, f, t, r)
  <2>1. l \in 0..l /\ l + 1 \in a + 1..l + 1 /\ (l + 1) - 1 = l
    BY <1>1 DEF l, a, log
  <2>2. s.document = At(f, longer, l)
    BY <1>3, <2>1 DEF l, log
  <2> QED
    BY <1>1, <1>5, <2>1, <2>2 DEF EntryOf, longer, a
<1>8. \A i \in DOMAIN q2 : i \in DOMAIN queue \/ (i = m + 1 /\ q2[i] = r)
  BY <1>2
<1>9. \A i \in DOMAIN queue : i \in DOMAIN q2
  BY <1>2
<1>10. \A i \in DOMAIN q2 : ResultTells(kept, hooked, f, t, store, dead, told, q2[i])
  <2> SUFFICES ASSUME NEW i \in DOMAIN q2
               PROVE  ResultTells(kept, hooked, f, t, store, dead, told, q2[i])
    OBVIOUS
  <2>1. CASE i \in DOMAIN queue
    BY <1>2, <1>4, <2>1 DEF QueueInOrder, ResultTells
  <2>2. CASE q2[i] = r
    BY <1>5, <1>6, <1>7, <2>2 DEF ResultTells
  <2> QED
    BY <1>8, <2>1, <2>2
<1>11. \A i, j \in DOMAIN q2 :
         i < j /\ Tells(q2[i]) /\ Tells(q2[j]) => RevisionOf(q2[i]) < RevisionOf(q2[j])
  <2> SUFFICES ASSUME NEW i \in DOMAIN q2, NEW j \in DOMAIN q2, i < j, Tells(q2[i]), Tells(q2[j])
               PROVE  RevisionOf(q2[i]) < RevisionOf(q2[j])
    OBVIOUS
  <2>1. i \in DOMAIN queue /\ q2[i] = queue[i]
    BY <1>2
  <2>2. CASE j \in DOMAIN queue
    BY <1>2, <2>1, <2>2 DEF QueueInOrder
  <2>3. CASE q2[j] = r
    <3>1. EntryOf(hooked, f, s, queue[i])
      BY <2>1 DEF QueueInOrder, ResultTells
    <3>2. RevisionOf(queue[i]) \in a + 1..l
      BY <3>1 DEF EntryOf, a, l, log
    <3> QED
      BY <1>1, <1>5, <2>1, <2>3, <3>2
  <2> QED
    BY <1>8, <2>2, <2>3
<1>12. \A n \in NextTold(f, told)..Len(longer) :
         \/ Lost(kept, dead, store, n)
         \/ \E i \in DOMAIN q2 : Tells(q2[i]) /\ RevisionOf(q2[i]) = n
  <2> SUFFICES ASSUME NEW n \in NextTold(f, told)..Len(longer)
               PROVE  \/ Lost(kept, dead, store, n)
                      \/ \E i \in DOMAIN q2 : Tells(q2[i]) /\ RevisionOf(q2[i]) = n
    OBVIOUS
  <2>0. n = l + 1 \/ n \in NextTold(f, told)..l
    <3> DEFINE from == NextTold(f, told)
               to == Len(longer)
    <3>1. from \in Nat /\ to = l + 1 /\ l \in Nat /\ n \in from..to
      BY <1>1, <1>6
    <3> HIDE DEF from, to
    <3>2. n = l + 1 \/ n \in from..l
      BY <3>1
    <3> QED
      BY <3>2 DEF from
  <2>1. CASE n = l + 1
    <3>1. m + 1 \in DOMAIN q2
      BY <1>2
    <3> QED
      BY <1>2, <1>5, <2>1, <3>1
  <2>2. CASE n \in NextTold(f, told)..l
    <3>1. \/ Lost(kept, dead, store, n)
          \/ \E i \in DOMAIN queue : Tells(queue[i]) /\ RevisionOf(queue[i]) = n
      BY <2>2 DEF QueueInOrder, l, log
    <3> QED
      BY <1>2, <1>9, <3>1
  <2> QED
    BY <2>0, <2>1, <2>2
<1>13. NextTold(f, told) <= Len(longer) + 1
  BY <1>1, <1>6
<1> QED
  BY <1>10, <1>11, <1>12, <1>13 DEF QueueInOrder, longer
(* An append waits.                                                         *)
LEMMA WaitingGrows ==
  ASSUME NEW kept, NEW hooked, NEW f, NEW s, NEW store, NEW dead, NEW waiting, NEW queue, NEW told,
         QueueInOrder(kept, hooked, f, s, store, dead, waiting, queue, told),
         waiting \in Seq(ToSet(waiting)), NEW a, Tells(a), RevisionOf(a) > Len(store.log),
         NEW w2, w2 = Append(waiting, a)
  PROVE  QueueInOrder(kept, hooked, f, s, store, dead, w2, queue, told)
<1>1. \A k \in DOMAIN w2 : w2[k] = a \/ (k \in DOMAIN waiting /\ w2[k] = waiting[k])
  BY LastIsNew
<1>2. \A k \in DOMAIN w2 : Tells(w2[k]) /\ RevisionOf(w2[k]) > Len(store.log)
  BY <1>1 DEF QueueInOrder
<1> QED
  BY <1>2 DEF QueueInOrder

(* The fields of a result.                                                  *)
LEMMA MoreResultFields ==
  ASSUME NEW e, NEW origin, NEW before, NEW state, NEW waits, NEW entries
  PROVE  /\ Result(e, origin, before, state, waits, entries).origin = origin
         /\ Result(e, origin, before, state, waits, entries).before = before
  BY DEF Result

(* An operation enters a document.                                          *)
LEMMA EnterTells ==
  ASSUME NEW kept \in BOOLEAN, NEW hooked, NEW f, NEW s, NEW store, NEW waiting, NEW dead,
         NEW queue, NEW told, NEW heard, NEW n,
         ServedSoundly(kept, s, store, waiting, dead, queue, told, n),
         ToldSoundly(kept, hooked, f, s, store, dead, waiting, queue, told, heard),
         NEW e, IsOperation(e.operation),
         NEW origin, NEW before, NEW granted, NEW verdict, NEW t, NEW entries, NEW made,
         NEW w2, NEW q2,
         EntersAs(kept, s, waiting, queue, e, origin, before, granted, verdict, t, entries,
                  made, w2, q2),
         hooked => before = s.document, (origin = "server") = (e.client = ServerClient)
  PROVE  ToldSoundly(kept, hooked, f, t, store, dead, w2, q2, told, heard)
<1>0. /\ verdict = Judged(s, e, granted)
      /\ t = Submitted(s, e, verdict)
      /\ entries = IF verdict = "accepted" THEN <<Last(t.operationLog)>> ELSE <<>>
      /\ made = OperationsSince(t, s.currentRevision)
      /\ kept => /\ w2 = IF made = <<>> THEN waiting
                         ELSE Append(waiting, [id |-> e.op, entries |-> made])
                 /\ q2 = Append(queue, Result(e, origin, before, "pending",
                                              IF made = <<>> THEN "turn" ELSE "store", entries))
      /\ ~kept => /\ w2 = waiting
                  /\ q2 = Append(queue, Result(e, origin, before, "ready", "none", entries))
  BY DEF EntersAs
<1> USE <1>0
<1>1. /\ StateSound(s) /\ (kept => StoreSound(s, store))
      /\ ResultsSound(kept, store, waiting, queue, told, n)
      /\ ~kept => waiting = <<>>
  BY DEF ServedSoundly
<1>2. /\ waiting \in Seq(ToSet(waiting)) /\ queue \in Seq(ToSet(queue)) /\ told \in Seq(Nat)
  BY <1>1 DEF ResultsSound
<1>3. /\ HistorySound(f, s)
      /\ QueueInOrder(kept, hooked, f, s, store, dead, waiting, queue, told)
      /\ HeardInOrder(hooked, f, s, told, heard)
  BY DEF ToldSoundly
<1>4. CASE verdict = "accepted"
  <2> DEFINE x == LogEntry(e, s.currentRevision + 1)
             a == [id |-> e.op, entries |-> <<x>>]
  <2>1. Violations(s.document, e.operation) = {} /\ t = Accepted(s, e)
    BY <1>4, JudgedMeaning DEF Submitted
  <2>2. x.operation = e.operation /\ x.client = e.client
    BY DEF LogEntry
  <2> HIDE DEF x
  <2>3. /\ StateSound(t) /\ t.operationLog = Append(s.operationLog, x)
        /\ t.document = ApplyOperation(s.document, x.operation, x.rev)
        /\ x.rev = Len(s.operationLog) + 1
        /\ t.operationLog[Len(t.operationLog)] = x
        /\ OperationsSince(t, s.currentRevision) = <<x>>
    BY <1>1, <2>1, SequencerAccepts DEF x
  <2>4. entries = <<x>> /\ made = <<x>> /\ made # <<>>
    <3>1. Last(t.operationLog) = x
      BY <2>3 DEF Last
    <3>2. <<x>> # <<>>
      OBVIOUS
    <3> QED
      BY <1>4, <2>3, <3>1, <3>2
  <2>5. StateSound(f) /\ Len(f.operationLog) <= Len(s.operationLog)
        /\ s.document = At(f, s.operationLog, Len(s.operationLog))
    BY <1>3, Zenon DEF HistorySound
  <2>6. Grown(f, s.operationLog, x, t.operationLog)
    <3>1. /\ s.operationLog \in Seq(ToSet(s.operationLog))
          /\ f.operationLog \in Seq(ToSet(f.operationLog))
      BY <1>1, <2>5 DEF StateSound
    <3>2. Len(f.operationLog) \in Nat
      BY <3>1
    <3> QED
      BY <2>3, <2>5, <3>1, <3>2, AtGrows
  <2>7. HistorySound(f, t)
    BY <1>1, <1>3, <2>1, <2>2, <2>3, HistoryGrows
  <2>8. HeardInOrder(hooked, f, t, told, heard)
    <3>1. NextTold(f, told) <= Len(s.operationLog) + 1
      BY <1>3 DEF QueueInOrder
    <3> QED
      BY <1>1, <1>2, <1>3, <2>3, <2>5, <2>6, <3>1, HeardStays
  <2> DEFINE r == IF kept THEN Result(e, origin, before, "pending", "store", entries)
                  ELSE Result(e, origin, before, "ready", "none", entries)
  <2>9. /\ r.entries = <<x>> /\ r.state \in {"pending", "ready"}
        /\ r.origin = origin /\ r.before = before
    BY <2>4, ResultFields, MoreResultFields
  <2>10. q2 = Append(queue, r)
    BY <2>4
  <2> HIDE DEF r
  <2>11. (r.origin = "server") = (x.client = ServerClient) /\ (hooked => r.before = s.document)
    BY <2>2, <2>9
  <2>12. QueueInOrder(kept, hooked, f, t, store, dead, waiting, q2, told)
    <3>1. /\ QueueInOrder(kept, hooked, f, s, store, dead, waiting, queue, told)
          /\ queue \in Seq(ToSet(queue)) /\ StateSound(f) /\ StateSound(s) /\ told \in Seq(Nat)
          /\ Len(f.operationLog) <= Len(s.operationLog)
          /\ s.document = At(f, s.operationLog, Len(s.operationLog))
      BY <1>1, <1>2, <1>3, <2>5
    <3>2. /\ Grown(f, s.operationLog, x, t.operationLog)
          /\ t.operationLog = Append(s.operationLog, x) /\ x.rev = Len(s.operationLog) + 1
          /\ r.entries = <<x>> /\ r.state \in {"pending", "ready"}
          /\ (r.origin = "server") = (x.client = ServerClient)
          /\ hooked => r.before = s.document
          /\ q2 = Append(queue, r)
      BY <2>3, <2>6, <2>9, <2>10, <2>11
    <3> HIDE <1>0
    <3> QED
      BY <3>1, <3>2, TellingResult
  <2>13. QueueInOrder(kept, hooked, f, t, store, dead, w2, q2, told)
    <3>1. CASE kept
      <4>1. a.entries = <<x>>
        OBVIOUS
      <4>2. Tells(a) /\ RevisionOf(a) = x.rev
        <5>1. \A z : <<z>>[1] = z /\ <<z>> # <<>>
          OBVIOUS
        <5> QED
          BY <4>1, <5>1 DEF Tells, RevisionOf
      <4>3. Len(store.log) <= Len(s.operationLog) /\ Len(store.log) \in Nat
            /\ Len(s.operationLog) \in Nat
        BY <1>1, <3>1 DEF StoreSound, StateSound
      <4>4. RevisionOf(a) > Len(store.log)
        BY <2>3, <4>2, <4>3
      <4>5. w2 = Append(waiting, a)
        BY <2>4, <3>1
      <4> HIDE DEF a
      <4> QED
        BY <1>2, <2>12, <4>2, <4>4, <4>5, WaitingGrows
    <3>2. CASE ~kept
      BY <2>12, <3>2
    <3> QED
      BY <3>1, <3>2
  <2> QED
    BY <2>7, <2>8, <2>13 DEF ToldSoundly
<1>5. CASE verdict # "accepted"
  <2>1. t \in {s, Consumed(s, e), Noop(s, e)} /\ entries = <<>>
    BY <1>5 DEF Submitted
  <2>2. /\ t.document = s.document /\ t.operationLog = s.operationLog
        /\ made = <<>>
    BY <1>1, <2>1, SequencerKeeps
  <2>3. w2 = waiting
    BY <2>2
  <2>4. HistorySound(f, t)
    BY <1>3, <2>2, HistoryStays
  <2>5. HeardInOrder(hooked, f, t, told, heard)
    BY <1>3, <2>2 DEF HeardInOrder, Heard
  <2> DEFINE r == IF kept THEN Result(e, origin, before, "pending", "turn", entries)
                  ELSE Result(e, origin, before, "ready", "none", entries)
  <2>6. r.entries = <<>>
    BY <2>1, ResultFields
  <2>7. q2 = Append(queue, r)
    BY <2>2
  <2> HIDE DEF r
  <2>8. QueueInOrder(kept, hooked, f, t, store, dead, waiting, queue, told)
    BY <1>3, <2>2, QueueStays
  <2>9. QueueInOrder(kept, hooked, f, t, store, dead, waiting, q2, told)
    BY <1>2, <2>6, <2>7, <2>8, SilentResult
  <2> QED
    BY <2>3, <2>4, <2>5, <2>9 DEF ToldSoundly
<1> QED
  BY <1>4, <1>5

(* A poisoned room takes nothing.                                           *)
LEMMA PoisonTells ==
  ASSUME NEW kept, NEW hooked, NEW f, NEW s, NEW store, NEW waiting, NEW dead,
         NEW queue, NEW told, NEW heard,
         ToldSoundly(kept, hooked, f, s, store, dead, waiting, queue, told, heard),
         queue \in Seq(ToSet(queue)), NEW e, NEW origin, NEW before, NEW q2,
         q2 = Append(queue, Result(e, origin, before, "pending", "throw", <<>>))
  PROVE  ToldSoundly(kept, hooked, f, s, store, dead, waiting, q2, told, heard)
<1> DEFINE r == Result(e, origin, before, "pending", "throw", <<>>)
<1>1. r.entries = <<>>
  BY ResultFields
<1>2. q2 = Append(queue, r)
  OBVIOUS
<1> HIDE DEF r
<1>3. QueueInOrder(kept, hooked, f, s, store, dead, waiting, queue, told)
  BY DEF ToldSoundly
<1>4. QueueInOrder(kept, hooked, f, s, store, dead, waiting, q2, told)
  BY <1>1, <1>2, <1>3, SilentResult
<1> QED
  BY <1>4 DEF ToldSoundly

(* A number is consumed.                                                    *)
LEMMA ConsumedTells ==
  ASSUME NEW kept, NEW hooked, NEW f, NEW s, NEW store, NEW waiting, NEW dead,
         NEW queue, NEW told, NEW heard, StateSound(s),
         ToldSoundly(kept, hooked, f, s, store, dead, waiting, queue, told, heard),
         NEW e, NEW t, t = Consumed(s, e)
  PROVE  /\ ToldSoundly(kept, hooked, f, t, store, dead, waiting, queue, told, heard)
         /\ t.document = s.document
<1>1. /\ HistorySound(f, s)
      /\ QueueInOrder(kept, hooked, f, s, store, dead, waiting, queue, told)
      /\ HeardInOrder(hooked, f, s, told, heard)
  BY DEF ToldSoundly
<1>2. t.document = s.document /\ t.operationLog = s.operationLog
  BY SequencerKeeps
<1>3. HistorySound(f, t)
  BY <1>1, <1>2, HistoryStays
<1>4. HeardInOrder(hooked, f, t, told, heard)
  BY <1>1, <1>2 DEF HeardInOrder, Heard
<1>5. QueueInOrder(kept, hooked, f, t, store, dead, waiting, queue, told)
  BY <1>1, <1>2, QueueStays
<1> QED
  BY <1>2, <1>3, <1>4, <1>5 DEF ToldSoundly

(* A document begins to be served.                                          *)
LEMMA BeginningTells ==
  ASSUME NEW kept, NEW hooked \in BOOLEAN, NEW s, StateSound(s), NEW store, NEW dead
  PROVE  ToldSoundly(kept, hooked, s, s, store, dead, <<>>, <<>>, <<>>, <<>>)
<1>1. HistorySound(s, s)
  BY HistoryBegins
<1>2. Len(s.operationLog) \in Nat
  BY DEF StateSound
<1> DEFINE l == Len(s.operationLog)
           none == <<>>
<1>3. none \in Seq(ToSet(none)) /\ Len(none) = 0 /\ DOMAIN none = {}
  OBVIOUS
<1> HIDE DEF none
<1>4. NextTold(s, none) = l + 1
  BY <1>2, <1>3 DEF NextTold
<1>5. NextTold(s, none)..l = {}
  <2> HIDE DEF l
  <2> QED
    BY <1>2, <1>4 DEF l
<1>6. QueueInOrder(kept, hooked, s, s, store, dead, none, none, none)
  BY <1>2, <1>3, <1>4, <1>5 DEF QueueInOrder
<1>7. HeardInOrder(hooked, s, s, none, none)
  BY <1>3 DEF HeardInOrder
<1>8. ToldSoundly(kept, hooked, s, s, store, dead, none, none, none, none)
  BY <1>1, <1>6, <1>7 DEF ToldSoundly
<1> QED
  BY <1>8 DEF none
(* A result that is settled tells what it told.                             *)
LEMMA SettledMore ==
  ASSUME NEW queue, NEW id, NEW state,
         \A i \in DOMAIN queue :
           DOMAIN queue[i] = {"id", "origin", "before", "state", "waits", "entries"}
  PROVE  \A i \in DOMAIN queue :
           /\ SettledAt(queue, id, state)[i].origin = queue[i].origin
           /\ SettledAt(queue, id, state)[i].before = queue[i].before
<1> DEFINE at(i) == IF queue[i].id = id THEN [queue[i] EXCEPT !.state = state, !.waits = "none"]
                    ELSE queue[i]
<1>1. \A i \in DOMAIN queue : at(i).origin = queue[i].origin /\ at(i).before = queue[i].before
  OBVIOUS
<1>2. \A i \in DOMAIN queue : SettledAt(queue, id, state)[i] = at(i)
  BY DEF SettledAt
<1> HIDE DEF at
<1> QED
  BY <1>1, <1>2

(* The results of q2 are those of queue in other states.                    *)
LEMMA QueueSettles ==
  ASSUME NEW kept, NEW hooked, NEW f, NEW s, NEW store, NEW dead, NEW waiting, NEW queue, NEW told,
         QueueInOrder(kept, hooked, f, s, store, dead, waiting, queue, told),
         NEW st2, NEW dead2, \A n : Lost(kept, dead, store, n) => Lost(kept, dead2, st2, n),
         NEW w2, \A k \in DOMAIN w2 : Tells(w2[k]) /\ RevisionOf(w2[k]) > Len(st2.log),
         NEW q2, DOMAIN q2 = DOMAIN queue,
         \A i \in DOMAIN queue :
           /\ q2[i].entries = queue[i].entries /\ q2[i].origin = queue[i].origin
           /\ q2[i].before = queue[i].before
           /\ \/ q2[i].state \in {queue[i].state, "ready"}
              \/ Tells(queue[i]) => Lost(kept, dead2, st2, RevisionOf(queue[i]))
  PROVE  QueueInOrder(kept, hooked, f, s, st2, dead2, w2, q2, told)
<1>1. \A i \in DOMAIN queue : /\ Tells(q2[i]) = Tells(queue[i])
                              /\ RevisionOf(q2[i]) = RevisionOf(queue[i])
  BY DEF Tells, RevisionOf
<1>2. \A i \in DOMAIN queue : EntryOf(hooked, f, s, queue[i]) => EntryOf(hooked, f, s, q2[i])
  BY <1>1 DEF EntryOf
<1>3. ASSUME NEW i \in DOMAIN queue PROVE ResultTells(kept, hooked, f, s, st2, dead2, told, q2[i])
  <2>1. ResultTells(kept, hooked, f, s, store, dead, told, queue[i])
    BY DEF QueueInOrder
  <2> QED
    BY <1>1, <1>2, <2>1 DEF ResultTells
<1>4. \A i, j \in DOMAIN q2 :
        i < j /\ Tells(q2[i]) /\ Tells(q2[j]) => RevisionOf(q2[i]) < RevisionOf(q2[j])
  BY <1>1 DEF QueueInOrder
<1>5. \A n \in NextTold(f, told)..Len(s.operationLog) :
        \/ Lost(kept, dead2, st2, n)
        \/ \E i \in DOMAIN q2 : Tells(q2[i]) /\ RevisionOf(q2[i]) = n
  BY <1>1 DEF QueueInOrder
<1> QED
  BY <1>3, <1>4, <1>5 DEF QueueInOrder

(* The store is longer by the first append.                                 *)
LEMMA StoreIsLonger ==
  ASSUME NEW s, NEW store, NEW waiting, StoreSound(s, store), AppendsSound(s, store, waiting, FALSE),
         1 \in DOMAIN waiting
  PROVE  Len([store EXCEPT !.log = @ \o waiting[1].entries].log) = Len(store.log) + 1
<1> DEFINE log == store.log
           x == s.operationLog[Len(log) + 1]
           st2 == [store EXCEPT !.log = @ \o waiting[1].entries]
<1>1. log \in Seq(ToSet(log)) /\ DOMAIN store = {"snapshot", "log"}
  BY DEF StoreSound
<1>2. waiting[1].entries = <<x>>
  BY DEF AppendsSound
<1>3. st2.log = log \o <<x>>
  BY <1>1, <1>2
<1> HIDE DEF x, log, st2
<1>4. log \o <<x>> = Append(log, x) /\ Len(Append(log, x)) = Len(log) + 1
  BY <1>1
<1> QED
  BY <1>3, <1>4 DEF log, st2

(* The first append is stored.                                              *)
LEMMA StoredTells ==
  ASSUME NEW kept, kept = TRUE, NEW hooked, NEW f, NEW s, NEW store, NEW waiting,
         NEW dead, dead = FALSE,
         NEW queue, NEW told, NEW heard, NEW n,
         ServedSoundly(kept, s, store, waiting, dead, queue, told, n), 1 \in DOMAIN waiting,
         ToldSoundly(kept, hooked, f, s, store, dead, waiting, queue, told, heard),
         NEW st2, Len(st2.log) = Len(store.log) + 1,
         NEW w2, w2 = RemoveAt(waiting, 1),
         NEW q2, q2 = SettledAt(queue, waiting[1].id, "ready")
  PROVE  ToldSoundly(kept, hooked, f, s, st2, dead, w2, q2, told, heard)
<1> DEFINE log == s.operationLog
           c == Len(store.log)
           w == Len(waiting)
<1>1. /\ StateSound(s) /\ StoreSound(s, store) /\ AppendsSound(s, store, waiting, dead)
      /\ ResultsSound(kept, store, waiting, queue, told, n)
  BY DEF ServedSoundly
<1>2. /\ DOMAIN log = 1..Len(log) /\ Len(log) \in Nat /\ \A i \in DOMAIN log : log[i].rev = i
  BY <1>1 DEF StateSound
<1>3. c \in Nat /\ store.log \in Seq(ToSet(store.log)) /\ DOMAIN store = {"snapshot", "log"}
  BY <1>1 DEF StoreSound
<1>4. waiting \in Seq(ToSet(waiting)) /\ w \in Nat /\ DOMAIN waiting = 1..w /\ w >= 1
  BY <1>1 DEF ResultsSound
<1>5. Len(log) = c + w /\ \A k \in DOMAIN waiting : waiting[k].entries = <<log[c + k]>>
  BY <1>1 DEF AppendsSound
<1>6. Len(st2.log) = c + 1
  OBVIOUS
<1> HIDE DEF log, c, w
<1>7. /\ DOMAIN w2 = 1..w - 1
      /\ \A k \in DOMAIN w2 : k + 1 \in DOMAIN waiting /\ w2[k] = waiting[k + 1]
  <2>1. /\ Len(waiting) \in Nat /\ Len(w2) = Len(waiting) - 1 /\ DOMAIN w2 = 1..Len(waiting) - 1
        /\ \A k \in DOMAIN w2 : /\ k < 1 => k \in DOMAIN waiting /\ w2[k] = waiting[k]
                                /\ k >= 1 => k + 1 \in DOMAIN waiting /\ w2[k] = waiting[k + 1]
    BY <1>4, RemoveAtFacts
  <2>2. \A k \in 1..w - 1 : k >= 1
    BY <1>4
  <2> QED
    BY <2>1, <2>2 DEF w
<1>8. \A k \in DOMAIN w2 : Tells(w2[k]) /\ RevisionOf(w2[k]) > Len(st2.log)
  <2> SUFFICES ASSUME NEW k \in DOMAIN w2 PROVE Tells(w2[k]) /\ RevisionOf(w2[k]) > Len(st2.log)
    OBVIOUS
  <2> DEFINE i == c + (k + 1)
  <2>1. k \in 1..w - 1 /\ i \in 1..Len(log) /\ i > c + 1
    BY <1>2, <1>3, <1>4, <1>5, <1>7
  <2>2. w2[k].entries = <<log[i]>> /\ log[i].rev = i
    BY <1>2, <1>5, <1>7, <2>1
  <2> HIDE DEF i
  <2>3. \A z : <<z>>[1] = z /\ <<z>> # <<>>
    OBVIOUS
  <2> QED
    BY <1>6, <2>1, <2>2, <2>3 DEF Tells, RevisionOf
<1>9. /\ DOMAIN q2 = DOMAIN queue
      /\ \A i \in DOMAIN queue :
           /\ q2[i].entries = queue[i].entries /\ q2[i].origin = queue[i].origin
           /\ q2[i].before = queue[i].before
           /\ \/ q2[i].state \in {queue[i].state, "ready"}
              \/ Tells(queue[i]) => Lost(kept, dead, st2, RevisionOf(queue[i]))
  <2>1. /\ queue \in Seq(ToSet(queue))
        /\ \A i \in DOMAIN queue :
             DOMAIN queue[i] = {"id", "origin", "before", "state", "waits", "entries"}
    BY <1>1 DEF ResultsSound, ResultSound
  <2>2. /\ q2 \in Seq(ToSet(q2)) /\ DOMAIN q2 = DOMAIN queue
        /\ \A i \in DOMAIN queue :
             /\ DOMAIN q2[i] = {"id", "origin", "before", "state", "waits", "entries"}
             /\ q2[i].id = queue[i].id /\ q2[i].entries = queue[i].entries
             /\ queue[i].id = waiting[1].id => q2[i].state = "ready" /\ q2[i].waits = "none"
             /\ queue[i].id # waiting[1].id => q2[i] = queue[i]
    BY <2>1, SettledFacts
  <2>3. \A i \in DOMAIN queue : q2[i].origin = queue[i].origin /\ q2[i].before = queue[i].before
    BY <2>1, SettledMore
  <2> QED
    BY <2>2, <2>3
<1>10. QueueInOrder(kept, hooked, f, s, store, dead, waiting, queue, told)
  BY DEF ToldSoundly
<1>11. \A m : Lost(kept, dead, store, m) => Lost(kept, dead, st2, m)
  BY DEF Lost
<1>12. QueueInOrder(kept, hooked, f, s, st2, dead, w2, q2, told)
  BY <1>8, <1>9, <1>10, <1>11, QueueSettles, ZenonT(30)
<1> QED
  BY <1>12 DEF ToldSoundly

(* An append fails.                                                         *)
LEMMA FailedTells ==
  ASSUME NEW kept, NEW hooked, NEW f, NEW s, NEW store, NEW waiting, NEW dead, NEW queue,
         NEW told, NEW heard, NEW n,
         ServedSoundly(kept, s, store, waiting, dead, queue, told, n), waiting # <<>>,
         ToldSoundly(kept, hooked, f, s, store, dead, waiting, queue, told, heard),
         NEW q2, q2 = SettledAt(queue, waiting[1].id, "failed")
  PROVE  ToldSoundly(kept, hooked, f, s, store, TRUE, Tail(waiting), q2, told, heard)
<1>1. kept /\ ResultsSound(kept, store, waiting, queue, told, n)
  BY DEF ServedSoundly
<1>2. waiting \in Seq(ToSet(waiting))
  BY <1>1 DEF ResultsSound
<1>3. QueueInOrder(kept, hooked, f, s, store, dead, waiting, queue, told)
  BY DEF ToldSoundly
<1>4. 1 \in DOMAIN waiting
  BY <1>2
<1>5. \A k \in DOMAIN Tail(waiting) : k + 1 \in DOMAIN waiting /\ Tail(waiting)[k] = waiting[k + 1]
  BY <1>2
<1>6. \A k \in DOMAIN Tail(waiting) :
        Tells(Tail(waiting)[k]) /\ RevisionOf(Tail(waiting)[k]) > Len(store.log)
  <2> DEFINE v == Tail(waiting)
  <2> HIDE DEF v
  <2>1. \A k \in DOMAIN v : k + 1 \in DOMAIN waiting /\ v[k] = waiting[k + 1]
    BY <1>5 DEF v
  <2>2. \A k \in DOMAIN waiting : Tells(waiting[k]) /\ RevisionOf(waiting[k]) > Len(store.log)
    BY <1>3 DEF QueueInOrder
  <2>3. \A k \in DOMAIN v : Tells(v[k]) /\ RevisionOf(v[k]) > Len(store.log)
    BY <2>1, <2>2
  <2> QED
    BY <2>3 DEF v
<1>7. \A m : Lost(kept, dead, store, m) => Lost(kept, TRUE, store, m)
  BY DEF Lost
<1>8. /\ DOMAIN q2 = DOMAIN queue
      /\ \A i \in DOMAIN queue :
           /\ q2[i].entries = queue[i].entries /\ q2[i].origin = queue[i].origin
           /\ q2[i].before = queue[i].before
           /\ \/ q2[i].state \in {queue[i].state, "ready"}
              \/ Tells(queue[i]) => Lost(kept, TRUE, store, RevisionOf(queue[i]))
  <2>1. /\ queue \in Seq(ToSet(queue))
        /\ \A i \in DOMAIN queue :
             DOMAIN queue[i] = {"id", "origin", "before", "state", "waits", "entries"}
    BY <1>1 DEF ResultsSound, ResultSound
  <2>2. /\ q2 \in Seq(ToSet(q2)) /\ DOMAIN q2 = DOMAIN queue
        /\ \A i \in DOMAIN queue :
             /\ DOMAIN q2[i] = {"id", "origin", "before", "state", "waits", "entries"}
             /\ q2[i].id = queue[i].id /\ q2[i].entries = queue[i].entries
             /\ queue[i].id = waiting[1].id => q2[i].state = "failed" /\ q2[i].waits = "none"
             /\ queue[i].id # waiting[1].id => q2[i] = queue[i]
    BY <2>1, SettledFacts
  <2>3. \A i \in DOMAIN queue : q2[i].origin = queue[i].origin /\ q2[i].before = queue[i].before
    BY <2>1, SettledMore
  <2>4. ASSUME NEW i \in DOMAIN queue, queue[i].id = waiting[1].id
        PROVE  Lost(kept, TRUE, store, RevisionOf(queue[i]))
    <3>1. queue[i].entries = waiting[1].entries
      BY <1>1, <1>4, <2>4 DEF ResultsSound
    <3>2. RevisionOf(waiting[1]) > Len(store.log)
      BY <1>3, <1>4 DEF QueueInOrder
    <3> QED
      BY <1>1, <3>1, <3>2 DEF RevisionOf, Lost
  <2> QED
    BY <2>2, <2>3, <2>4
<1>9. QueueInOrder(kept, hooked, f, s, store, TRUE, Tail(waiting), q2, told)
  <2> DEFINE v == Tail(waiting)
             yes == TRUE
  <2>1. \A k \in DOMAIN v : Tells(v[k]) /\ RevisionOf(v[k]) > Len(store.log)
    BY <1>6
  <2>2. /\ \A m : Lost(kept, dead, store, m) => Lost(kept, yes, store, m)
        /\ \A i \in DOMAIN queue :
             /\ q2[i].entries = queue[i].entries /\ q2[i].origin = queue[i].origin
             /\ q2[i].before = queue[i].before
             /\ \/ q2[i].state \in {queue[i].state, "ready"}
                \/ Tells(queue[i]) => Lost(kept, yes, store, RevisionOf(queue[i]))
    BY <1>7, <1>8
  <2> HIDE DEF v, yes
  <2>3. QueueInOrder(kept, hooked, f, s, store, yes, v, q2, told)
    BY <1>3, <1>8, <2>1, <2>2, QueueSettles
  <2> QED
    BY <2>3 DEF v, yes
<1> QED
  BY <1>9 DEF ToldSoundly

(* The turn of a result ends.                                               *)
LEMMA TurnTells ==
  ASSUME NEW kept, NEW hooked, NEW f, NEW s, NEW store, NEW waiting, NEW dead, NEW queue,
         NEW told, NEW heard, NEW n,
         ServedSoundly(kept, s, store, waiting, dead, queue, told, n),
         ToldSoundly(kept, hooked, f, s, store, dead, waiting, queue, told, heard),
         NEW j \in DOMAIN queue, queue[j].waits \in {"turn", "throw"},
         NEW state, NEW q2, q2 = SettledAt(queue, queue[j].id, state)
  PROVE  ToldSoundly(kept, hooked, f, s, store, dead, waiting, q2, told, heard)
<1>1. ResultsSound(kept, store, waiting, queue, told, n)
  BY DEF ServedSoundly
<1>2. queue[j].entries = <<>> /\ \A i \in DOMAIN queue : queue[i].id = queue[j].id => i = j
  BY <1>1 DEF ResultsSound, ResultSound
<1>3. QueueInOrder(kept, hooked, f, s, store, dead, waiting, queue, told)
  BY DEF ToldSoundly
<1>4. /\ DOMAIN q2 = DOMAIN queue
      /\ \A i \in DOMAIN queue :
           /\ q2[i].entries = queue[i].entries /\ q2[i].origin = queue[i].origin
           /\ q2[i].before = queue[i].before
           /\ \/ q2[i].state \in {queue[i].state, "ready"}
              \/ Tells(queue[i]) => Lost(kept, dead, store, RevisionOf(queue[i]))
  <2>1. /\ queue \in Seq(ToSet(queue))
        /\ \A i \in DOMAIN queue :
             DOMAIN queue[i] = {"id", "origin", "before", "state", "waits", "entries"}
    BY <1>1 DEF ResultsSound, ResultSound
  <2>2. /\ q2 \in Seq(ToSet(q2)) /\ DOMAIN q2 = DOMAIN queue
        /\ \A i \in DOMAIN queue :
             /\ DOMAIN q2[i] = {"id", "origin", "before", "state", "waits", "entries"}
             /\ q2[i].id = queue[i].id /\ q2[i].entries = queue[i].entries
             /\ queue[i].id = queue[j].id => q2[i].state = state /\ q2[i].waits = "none"
             /\ queue[i].id # queue[j].id => q2[i] = queue[i]
    BY <2>1, SettledFacts
  <2>3. \A i \in DOMAIN queue : q2[i].origin = queue[i].origin /\ q2[i].before = queue[i].before
    BY <2>1, SettledMore
  <2>4. ~Tells(queue[j])
    BY <1>2 DEF Tells
  <2> QED
    BY <1>2, <2>2, <2>3, <2>4
<1>5. \A k \in DOMAIN waiting : Tells(waiting[k]) /\ RevisionOf(waiting[k]) > Len(store.log)
  BY <1>3 DEF QueueInOrder
<1>6. QueueInOrder(kept, hooked, f, s, store, dead, waiting, q2, told)
  BY <1>3, <1>4, <1>5, QueueSettles
<1> QED
  BY <1>6 DEF ToldSoundly
(* One element less.                                                        *)
LEMMA RemovedOne ==
  ASSUME NEW queue, queue \in Seq(ToSet(queue)), NEW i \in DOMAIN queue,
         NEW q2, q2 = RemoveAt(queue, i)
  PROVE  /\ \A k \in DOMAIN q2 : \E j \in DOMAIN queue \ {i} : q2[k] = queue[j]
         /\ \A j \in DOMAIN queue \ {i} : \E k \in DOMAIN q2 : q2[k] = queue[j]
         /\ \A k, l \in DOMAIN q2 : k < l =>
              \E j, m \in DOMAIN queue \ {i} : j < m /\ q2[k] = queue[j] /\ q2[l] = queue[m]
<1>1. /\ Len(queue) \in Nat /\ DOMAIN q2 = 1..Len(queue) - 1
      /\ \A k \in DOMAIN q2 : /\ k < i => k \in DOMAIN queue /\ q2[k] = queue[k]
                              /\ k >= i => k + 1 \in DOMAIN queue /\ q2[k] = queue[k + 1]
  BY RemoveAtFacts
<1>2. DOMAIN queue = 1..Len(queue)
  OBVIOUS
<1> DEFINE n == Len(queue)
           from(k) == IF k < i THEN k ELSE k + 1
<1> HIDE DEF n
<1>3. \A k \in DOMAIN q2 : /\ from(k) \in DOMAIN queue \ {i}
                           /\ q2[k] = queue[from(k)]
  BY <1>1, <1>2 DEF n
<1>4. \A k, l \in DOMAIN q2 : k < l => from(k) < from(l)
  BY <1>1 DEF n
<1>5. ASSUME NEW j \in DOMAIN queue \ {i} PROVE \E k \in DOMAIN q2 : q2[k] = queue[j]
  <2>1. n \in Nat /\ j \in 1..n /\ i \in 1..n /\ j # i /\ DOMAIN q2 = 1..n - 1
    BY <1>1, <1>2 DEF n
  <2>2. CASE j < i
    <3>1. j \in DOMAIN q2
      BY <2>1, <2>2
    <3> QED
      BY <1>1, <2>2, <3>1
  <2>3. CASE j > i
    <3>1. j - 1 \in DOMAIN q2 /\ j - 1 >= i /\ (j - 1) + 1 = j
      BY <2>1, <2>3
    <3>2. q2[j - 1] = queue[j]
      BY <1>1, <3>1
    <3> QED
      BY <3>1, <3>2
  <2>4. j < i \/ j > i
    BY <2>1
  <2> QED
    BY <2>2, <2>3, <2>4
<1> HIDE DEF from
<1> QED
  BY <1>3, <1>4, <1>5

(* The result delivered next is the first that tells an entry not told.     *)
LEMMA NextIsTold ==
  ASSUME NEW kept, NEW hooked, NEW f, NEW s, NEW store, NEW waiting, NEW dead, NEW queue,
         NEW told, NEW n, ServedSoundly(kept, s, store, waiting, dead, queue, told, n),
         QueueInOrder(kept, hooked, f, s, store, dead, waiting, queue, told), StateSound(f),
         NEW i \in DeliverableIn(queue), \A j \in DeliverableIn(queue) : i <= j,
         queue[i].state = "ready", Tells(queue[i])
  PROVE  RevisionOf(queue[i]) = NextTold(f, told)
<1> DEFINE next == NextTold(f, told)
           rev == RevisionOf(queue[i])
           l == Len(s.operationLog)
<1>1. /\ ResultsSound(kept, store, waiting, queue, told, n) /\ StateSound(s)
      /\ kept => StoreSound(s, store)
  BY DEF ServedSoundly
<1>2. /\ queue \in Seq(ToSet(queue)) /\ told \in Seq(Nat) /\ i \in DOMAIN queue
  BY <1>1 DEF ResultsSound, DeliverableIn
<1>3. next \in Nat /\ l \in Nat
  BY <1>1, <1>2 DEF NextTold, StateSound
<1>4. \A j \in DOMAIN queue : Tells(queue[j]) =>
        RevisionOf(queue[j]) \in Nat /\ RevisionOf(queue[j]) \in next..l
  <2> SUFFICES ASSUME NEW j \in DOMAIN queue, Tells(queue[j])
               PROVE  RevisionOf(queue[j]) \in Nat /\ RevisionOf(queue[j]) \in next..l
    OBVIOUS
  <2>1. ResultTells(kept, hooked, f, s, store, dead, told, queue[j])
    BY DEF QueueInOrder
  <2>2. /\ RevisionOf(queue[j]) \in Len(f.operationLog) + 1..l
        /\ RevisionOf(queue[j]) >= next
    BY <2>1 DEF ResultTells, EntryOf
  <2>3. f.operationLog \in Seq(ToSet(f.operationLog))
    BY DEF StateSound
  <2>4. Len(f.operationLog) \in Nat
    BY <2>3
  <2> HIDE DEF next, l
  <2> QED
    BY <1>3, <2>2, <2>4
<1>5. rev \in next..l /\ rev \in Nat
  BY <1>2, <1>4
<1> HIDE DEF next, l, rev
<1>6. SUFFICES ASSUME rev # next PROVE FALSE
  BY DEF rev, next
<1>7. ~Lost(kept, dead, store, next)
  <2> SUFFICES ASSUME Lost(kept, dead, store, next) PROVE FALSE
    OBVIOUS
  <2>1. kept /\ next > Len(store.log)
    BY DEF Lost
  <2>2. rev <= Len(store.log)
    BY <1>1, <1>2, <2>1 DEF ResultsSound, ResultSound, rev, RevisionOf, Tells
  <2>3. Len(store.log) \in Nat
    BY <1>1, <2>1 DEF StoreSound
  <2> QED
    BY <1>3, <1>5, <2>1, <2>2, <2>3
<1>8. PICK j \in DOMAIN queue : Tells(queue[j]) /\ RevisionOf(queue[j]) = next
  <2>1. next \in next..l
    BY <1>3, <1>5
  <2> QED
    BY <1>7, <2>1 DEF QueueInOrder, next, l
<1>9. j < i
  <2>1. j \in Nat /\ i \in Nat
    BY <1>2
  <2>2. i < j => RevisionOf(queue[i]) < RevisionOf(queue[j])
    BY <1>2, <1>8 DEF QueueInOrder
  <2>3. i # j
    BY <1>6, <1>8 DEF rev
  <2>4. ~(i < j)
    BY <1>3, <1>5, <1>8, <2>2 DEF rev
  <2> QED
    BY <2>1, <2>3, <2>4
<1>10. \A k \in 1..i - 1 : queue[k].state # "pending"
  BY DEF DeliverableIn, Tells
<1>11. j \in DeliverableIn(queue)
  <2>1. j \in Nat /\ i \in Nat /\ j \in 1..i - 1
    BY <1>2, <1>9
  <2>2. \A k \in 1..j - 1 : k \in 1..i - 1
    BY <2>1
  <2> QED
    BY <1>10, <2>1, <2>2 DEF DeliverableIn
<1> QED
  <2>1. j \in Nat /\ i \in Nat
    BY <1>2
  <2> QED
    BY <1>9, <1>11, <2>1
(* The queue without a delivered result that told nothing, or whose append  *)
(* failed.                                                                  *)
LEMMA SilentDelivered ==
  ASSUME NEW kept, NEW hooked, NEW f, NEW s, NEW store, NEW waiting, NEW dead, NEW queue,
         NEW told, queue \in Seq(ToSet(queue)),
         QueueInOrder(kept, hooked, f, s, store, dead, waiting, queue, told),
         NEW i \in DeliverableIn(queue), ~(queue[i].state = "ready" /\ Tells(queue[i])),
         NEW q2, q2 = RemoveAt(queue, i)
  PROVE  QueueInOrder(kept, hooked, f, s, store, dead, waiting, q2, told)
<1>1. i \in DOMAIN queue /\ queue[i].state # "pending"
  BY DEF DeliverableIn
<1>2. Tells(queue[i]) => Lost(kept, dead, store, RevisionOf(queue[i]))
  BY <1>1 DEF QueueInOrder, ResultTells
<1>3. /\ \A k \in DOMAIN q2 : \E j \in DOMAIN queue \ {i} : q2[k] = queue[j]
      /\ \A j \in DOMAIN queue \ {i} : \E k \in DOMAIN q2 : q2[k] = queue[j]
      /\ \A k, l \in DOMAIN q2 : k < l =>
           \E j, m \in DOMAIN queue \ {i} : j < m /\ q2[k] = queue[j] /\ q2[l] = queue[m]
  BY <1>1, RemovedOne
<1>4. \A k \in DOMAIN q2 : ResultTells(kept, hooked, f, s, store, dead, told, q2[k])
  BY <1>3 DEF QueueInOrder
<1>5. ASSUME NEW k \in DOMAIN q2, NEW l \in DOMAIN q2, k < l, Tells(q2[k]), Tells(q2[l])
      PROVE  RevisionOf(q2[k]) < RevisionOf(q2[l])
  <2>1. PICK j, m \in DOMAIN queue : j < m /\ q2[k] = queue[j] /\ q2[l] = queue[m]
    BY <1>3, <1>5
  <2> QED
    BY <1>5, <2>1 DEF QueueInOrder
<1>6. ASSUME NEW n \in NextTold(f, told)..Len(s.operationLog)
      PROVE  \/ Lost(kept, dead, store, n)
             \/ \E k \in DOMAIN q2 : Tells(q2[k]) /\ RevisionOf(q2[k]) = n
  <2>1. CASE Lost(kept, dead, store, n)
    BY <2>1
  <2>2. CASE \E j \in DOMAIN queue : Tells(queue[j]) /\ RevisionOf(queue[j]) = n
    <3>1. PICK j \in DOMAIN queue : Tells(queue[j]) /\ RevisionOf(queue[j]) = n
      BY <2>2
    <3>2. CASE j = i
      BY <1>2, <3>1, <3>2
    <3>3. CASE j # i
      <4>1. PICK k \in DOMAIN q2 : q2[k] = queue[j]
        BY <1>3, <3>3
      <4> QED
        BY <3>1, <4>1
    <3> QED
      BY <3>2, <3>3
  <2> QED
    BY <2>1, <2>2 DEF QueueInOrder
<1> QED
  BY <1>4, <1>5, <1>6 DEF QueueInOrder

(* ... and without one that told the next entry.                            *)
LEMMA TellingDelivered ==
  ASSUME NEW kept, NEW hooked, NEW f, NEW s, NEW store, NEW waiting, NEW dead, NEW queue,
         NEW told, told \in Seq(Nat), queue \in Seq(ToSet(queue)), StateSound(f), StateSound(s),
         QueueInOrder(kept, hooked, f, s, store, dead, waiting, queue, told),
         NEW i \in DOMAIN queue, Tells(queue[i]), RevisionOf(queue[i]) = NextTold(f, told),
         NEW q2, q2 = RemoveAt(queue, i), NEW t2, t2 = Append(told, RevisionOf(queue[i]))
  PROVE  QueueInOrder(kept, hooked, f, s, store, dead, waiting, q2, t2)
<1> DEFINE next == NextTold(f, told)
           l == Len(s.operationLog)
           a == Len(f.operationLog)
<1>1. a \in Nat /\ l \in Nat /\ next \in Nat /\ next = a + Len(told) + 1
  BY DEF StateSound, NextTold
<1>2. /\ Len(t2) = Len(told) + 1 /\ DOMAIN t2 = 1..Len(told) + 1 /\ DOMAIN told = 1..Len(told)
      /\ Len(told) \in Nat /\ t2[Len(told) + 1] = next
      /\ \A k \in DOMAIN told : t2[k] = told[k]
  BY <1>1
<1>3. NextTold(f, t2) = next + 1
  <2> DEFINE u == Len(told)
             v == Len(t2)
  <2>1. /\ a \in Nat /\ u \in Nat /\ v = u + 1 /\ next = a + u + 1
        /\ NextTold(f, t2) = a + v + 1
    BY <1>1, <1>2 DEF NextTold
  <2> HIDE DEF u, v, a, next
  <2> QED
    BY <2>1
<1>4. /\ \A k \in DOMAIN q2 : \E j \in DOMAIN queue \ {i} : q2[k] = queue[j]
      /\ \A j \in DOMAIN queue \ {i} : \E k \in DOMAIN q2 : q2[k] = queue[j]
      /\ \A k, m \in DOMAIN q2 : k < m =>
           \E j, u \in DOMAIN queue \ {i} : j < u /\ q2[k] = queue[j] /\ q2[m] = queue[u]
  BY RemovedOne
<1> HIDE DEF next, l, a
<1>5. ASSUME NEW j \in DOMAIN queue \ {i}, Tells(queue[j])
      PROVE  RevisionOf(queue[j]) >= next + 1
  <2>1. ResultTells(kept, hooked, f, s, store, dead, told, queue[j])
    BY DEF QueueInOrder
  <2>2. RevisionOf(queue[j]) \in a + 1..l /\ RevisionOf(queue[j]) >= next
    BY <1>5, <2>1 DEF ResultTells, EntryOf, next, a, l
  <2>3. j \in Nat /\ i \in Nat
    OBVIOUS
  <2>4. j < i \/ i < j
    BY <2>3
  <2>5. RevisionOf(queue[j]) # next
    <3>1. /\ j < i => RevisionOf(queue[j]) < RevisionOf(queue[i])
          /\ i < j => RevisionOf(queue[i]) < RevisionOf(queue[j])
      BY <1>5 DEF QueueInOrder
    <3>2. RevisionOf(queue[i]) = next
      BY DEF next
    <3> QED
      BY <1>1, <2>4, <3>1, <3>2
  <2>6. RevisionOf(queue[j]) \in Int
    BY <1>1, <2>2
  <2> QED
    BY <1>1, <2>2, <2>5, <2>6
<1>6. ASSUME NEW k \in DOMAIN q2
      PROVE  ResultTells(kept, hooked, f, s, store, dead, t2, q2[k])
  <2>1. PICK j \in DOMAIN queue \ {i} : q2[k] = queue[j]
    BY <1>4
  <2>2. ResultTells(kept, hooked, f, s, store, dead, told, queue[j])
    BY DEF QueueInOrder
  <2> QED
    BY <1>3, <1>5, <2>1, <2>2 DEF ResultTells
<1>7. ASSUME NEW k \in DOMAIN q2, NEW m \in DOMAIN q2, k < m, Tells(q2[k]), Tells(q2[m])
      PROVE  RevisionOf(q2[k]) < RevisionOf(q2[m])
  <2>1. PICK j, u \in DOMAIN queue : j < u /\ q2[k] = queue[j] /\ q2[m] = queue[u]
    BY <1>4, <1>7
  <2> QED
    BY <1>7, <2>1 DEF QueueInOrder
<1>8. ASSUME NEW n \in next + 1..l
      PROVE  \/ Lost(kept, dead, store, n)
             \/ \E k \in DOMAIN q2 : Tells(q2[k]) /\ RevisionOf(q2[k]) = n
  <2>1. n \in next..l /\ n # next
    BY <1>1
  <2>2. CASE \E j \in DOMAIN queue : Tells(queue[j]) /\ RevisionOf(queue[j]) = n
    <3>1. PICK j \in DOMAIN queue : Tells(queue[j]) /\ RevisionOf(queue[j]) = n
      BY <2>2
    <3>2. j # i
      BY <2>1, <3>1 DEF next
    <3>3. PICK k \in DOMAIN q2 : q2[k] = queue[j]
      BY <1>4, <3>2
    <3> QED
      BY <3>1, <3>3
  <2>3. \/ Lost(kept, dead, store, n)
        \/ \E j \in DOMAIN queue : Tells(queue[j]) /\ RevisionOf(queue[j]) = n
    BY <2>1 DEF QueueInOrder, next, l
  <2> QED
    BY <2>2, <2>3
<1>9. NextTold(f, t2) <= l + 1
  <2>1. next <= l
    <3>1. RevisionOf(queue[i]) \in a + 1..l
      BY DEF QueueInOrder, ResultTells, EntryOf, a, l
    <3> QED
      BY <1>1, <3>1 DEF next
  <2> QED
    BY <1>1, <1>3, <2>1
<1>10. \A k \in DOMAIN t2 : t2[k] = a + k
  <2> SUFFICES ASSUME NEW k \in DOMAIN t2 PROVE t2[k] = a + k
    OBVIOUS
  <2>1. CASE k = Len(told) + 1
    BY <1>1, <1>2, <2>1
  <2>2. CASE k \in DOMAIN told
    BY <1>2, <2>2 DEF QueueInOrder, a
  <2>3. k = Len(told) + 1 \/ k \in DOMAIN told
    BY <1>2
  <2> QED
    BY <2>1, <2>2, <2>3
<1>11. \A k \in DOMAIN waiting : Tells(waiting[k]) /\ RevisionOf(waiting[k]) > Len(store.log)
  BY DEF QueueInOrder
<1> QED
  BY <1>3, <1>6, <1>7, <1>8, <1>9, <1>10, <1>11 DEF QueueInOrder, a, l

(* The delivery of one result, as the loop does it.                         *)
DeliversAs(queue, i, told, heard, hooked, q2, tells, t2, event, h2) ==
  /\ i \in DeliverableIn(queue) /\ \A j \in DeliverableIn(queue) : i <= j
  /\ q2 = RemoveAt(queue, i)
  /\ tells = (queue[i].state = "ready" /\ queue[i].entries # <<>>)
  /\ t2 = IF tells THEN Append(told, queue[i].entries[1].rev) ELSE told
  /\ event.op = queue[i].entries[1].op
  /\ event.revision = queue[i].entries[1].rev
  /\ event.origin = queue[i].origin
  /\ event.changes = AcceptedCellChanges(queue[i].entries[1].operation, queue[i].before)
  /\ h2 = IF tells /\ hooked THEN Append(heard, event) ELSE heard

(* A result is delivered: what is told is what the log says.                *)
LEMMA DeliveredTells ==
  ASSUME NEW kept, NEW hooked \in BOOLEAN, NEW f, NEW s, NEW store, NEW waiting, NEW dead,
         NEW queue, NEW told, NEW heard, NEW n,
         ServedSoundly(kept, s, store, waiting, dead, queue, told, n),
         ToldSoundly(kept, hooked, f, s, store, dead, waiting, queue, told, heard),
         NEW i, NEW q2, NEW tells, NEW t2, NEW event, NEW h2,
         DeliversAs(queue, i, told, heard, hooked, q2, tells, t2, event, h2)
  PROVE  ToldSoundly(kept, hooked, f, s, store, dead, waiting, q2, t2, h2)
<1>0. /\ i \in DeliverableIn(queue) /\ \A j \in DeliverableIn(queue) : i <= j
      /\ q2 = RemoveAt(queue, i)
      /\ tells = (queue[i].state = "ready" /\ queue[i].entries # <<>>)
      /\ t2 = IF tells THEN Append(told, queue[i].entries[1].rev) ELSE told
      /\ event.op = queue[i].entries[1].op /\ event.revision = queue[i].entries[1].rev
      /\ event.origin = queue[i].origin
      /\ event.changes = AcceptedCellChanges(queue[i].entries[1].operation, queue[i].before)
      /\ h2 = IF tells /\ hooked THEN Append(heard, event) ELSE heard
  BY Zenon DEF DeliversAs
<1> USE <1>0
<1>1. /\ ResultsSound(kept, store, waiting, queue, told, n) /\ StateSound(s)
  BY DEF ServedSoundly
<1>2. /\ queue \in Seq(ToSet(queue)) /\ told \in Seq(Nat) /\ i \in DOMAIN queue
  BY <1>1 DEF ResultsSound, DeliverableIn
<1>3. /\ HistorySound(f, s)
      /\ QueueInOrder(kept, hooked, f, s, store, dead, waiting, queue, told)
      /\ HeardInOrder(hooked, f, s, told, heard)
  BY DEF ToldSoundly
<1>4. StateSound(f)
  BY <1>3, Zenon DEF HistorySound
<1>5. CASE tells
  <2>1. queue[i].state = "ready" /\ Tells(queue[i]) /\ RevisionOf(queue[i]) = queue[i].entries[1].rev
    BY <1>5 DEF Tells, RevisionOf
  <2>2. RevisionOf(queue[i]) = NextTold(f, told)
    BY <1>3, <1>4, <2>1, NextIsTold
  <2>3. t2 = Append(told, RevisionOf(queue[i]))
    BY <1>5, <2>1
  <2>4. QueueInOrder(kept, hooked, f, s, store, dead, waiting, q2, t2)
    BY <1>1, <1>2, <1>3, <1>4, <2>1, <2>2, <2>3, TellingDelivered
  <2>5. Len(t2) = Len(told) + 1 /\ Len(told) \in Nat
    <3>1. RevisionOf(queue[i]) \in Nat
      BY <1>1, <1>2, <2>1 DEF ResultsSound, ResultSound, Tells
    <3> HIDE DEF RevisionOf
    <3> QED
      BY <1>2, <2>3, <3>1
  <2>6. heard \in Seq(ToSet(heard)) /\ Len(heard) = IF hooked THEN Len(told) ELSE 0
    BY <1>3 DEF HeardInOrder
  <2>7. CASE ~hooked
    <3>1. h2 = heard
      BY <2>7
    <3> QED
      BY <1>3, <2>4, <2>6, <2>7, <3>1 DEF ToldSoundly, HeardInOrder
  <2>8. CASE hooked
    <3> DEFINE m == Len(told) + 1
               k == Len(f.operationLog) + m
    <3>1. h2 = Append(heard, event)
      BY <1>5, <2>8
    <3>2. /\ h2 \in Seq(ToSet(h2)) /\ Len(h2) = m /\ DOMAIN h2 = 1..m
          /\ h2[m] = event
          /\ \A j \in DOMAIN heard : h2[j] = heard[j] /\ DOMAIN heard = 1..Len(told)
      <4>1. Len(heard) = Len(told)
        BY <2>6, <2>8
      <4>2. Append(heard, event) \in Seq(ToSet(Append(heard, event)))
        BY <2>6, AppendElements
      <4> HIDE DEF m
      <4>3. /\ DOMAIN Append(heard, event) = 1..Len(heard) + 1
            /\ Len(Append(heard, event)) = Len(heard) + 1
            /\ Append(heard, event)[Len(heard) + 1] = event
            /\ DOMAIN heard = 1..Len(heard)
            /\ \A j \in DOMAIN heard : Append(heard, event)[j] = heard[j]
        BY <2>6
      <4> QED
        BY <3>1, <4>1, <4>2, <4>3 DEF m
    <3>3. RevisionOf(queue[i]) = k
      <4>1. Len(f.operationLog) \in Nat
        BY <1>4 DEF StateSound
      <4> DEFINE a == Len(f.operationLog)
                 u == Len(told)
      <4>2. a \in Nat /\ u \in Nat /\ NextTold(f, told) = a + u + 1
        BY <2>5, <4>1 DEF NextTold
      <4>3. k = a + (u + 1)
        OBVIOUS
      <4> HIDE DEF a, u, k
      <4> QED
        BY <2>2, <4>2, <4>3
    <3>4. /\ queue[i].entries = <<s.operationLog[k]>>
          /\ (queue[i].origin = "server") = (s.operationLog[k].client = ServerClient)
          /\ queue[i].before = At(f, s.operationLog, k - 1)
      <4>1. EntryOf(hooked, f, s, queue[i])
        BY <1>2, <1>3, <2>1 DEF QueueInOrder, ResultTells
      <4> HIDE DEF k
      <4> QED
        BY <2>8, <3>3, <4>1 DEF EntryOf
    <3>5. Heard(f, s, event, m)
      <4> DEFINE x == s.operationLog[k]
      <4>1. queue[i].entries[1] = x
        <5>1. queue[i].entries = <<x>>
          BY <3>4
        <5> HIDE DEF x
        <5>2. <<x>>[1] = x
          OBVIOUS
        <5> QED
          BY <5>1, <5>2
      <4>2. /\ event.op = x.op /\ event.revision = x.rev
            /\ (event.origin = "server") = (x.client = ServerClient)
            /\ event.changes = AcceptedCellChanges(x.operation, At(f, s.operationLog, k - 1))
        BY <3>4, <4>1
      <4> QED
        BY <4>2 DEF Heard
    <3>6. \A j \in DOMAIN h2 : Heard(f, s, h2[j], j)
      <4> SUFFICES ASSUME NEW j \in DOMAIN h2 PROVE Heard(f, s, h2[j], j)
        OBVIOUS
      <4>1. CASE j = m
        BY <3>2, <3>5, <4>1
      <4>2. CASE j \in DOMAIN heard
        <5>1. Heard(f, s, heard[j], j)
          BY <1>3, <4>2 DEF HeardInOrder
        <5> QED
          BY <3>2, <4>2, <5>1
      <4>3. j = m \/ j \in DOMAIN heard
        <5>1. DOMAIN heard = 1..Len(told)
          BY <2>6, <2>8
        <5> QED
          BY <2>5, <3>2, <5>1
      <4> QED
        BY <4>1, <4>2, <4>3
    <3> HIDE DEF k
    <3>7. HeardInOrder(hooked, f, s, t2, h2)
      BY <2>5, <2>8, <3>2, <3>6 DEF HeardInOrder
    <3> QED
      BY <1>3, <2>4, <3>7 DEF ToldSoundly
  <2> QED
    BY <2>7, <2>8
<1>6. CASE ~tells
  <2>1. ~(queue[i].state = "ready" /\ Tells(queue[i]))
    BY <1>6 DEF Tells
  <2>2. QueueInOrder(kept, hooked, f, s, store, dead, waiting, q2, told)
    BY <1>2, <1>3, <2>1, SilentDelivered
  <2>3. t2 = told /\ h2 = heard
    BY <1>6
  <2> QED
    BY <1>3, <2>2, <2>3 DEF ToldSoundly
<1> QED
  BY <1>5, <1>6
-----------------------------------------------------------------------------
(* The loop.                                                                *)

(* A pending result at the end of the queue makes nothing deliverable.      *)
LEMMA PendingAdded ==
  ASSUME NEW queue, queue \in Seq(ToSet(queue)), NEW r, r.state = "pending",
         NEW q2, q2 = Append(queue, r), DeliverableIn(q2) # {}
  PROVE  DeliverableIn(queue) # {}
<1>1. /\ DOMAIN q2 = 1..Len(queue) + 1 /\ DOMAIN queue = 1..Len(queue) /\ Len(queue) \in Nat
      /\ q2[Len(queue) + 1] = r
      /\ \A i \in DOMAIN queue : q2[i] = queue[i]
  OBVIOUS
<1>2. PICK i \in DeliverableIn(q2) : TRUE
  OBVIOUS
<1>3. /\ i \in DOMAIN q2 /\ q2[i].state # "pending"
      /\ \/ q2[i].state = "failed"
         \/ q2[i].entries = <<>>
         \/ \A j \in 1..i - 1 : q2[j].state # "pending"
  BY <1>2 DEF DeliverableIn
<1>4. i \in DOMAIN queue
  <2>1. i # Len(queue) + 1
    BY <1>1, <1>3
  <2> QED
    BY <1>1, <1>3, <2>1
<1>5. \A j \in 1..i - 1 : j \in DOMAIN queue
  BY <1>1, <1>4
<1>6. i \in DeliverableIn(queue)
  BY <1>1, <1>3, <1>4, <1>5 DEF DeliverableIn
<1> QED
  BY <1>6

LEMMA NothingDeliverable ==
  DeliverableIn(<<>>) = {}
<1>1. DOMAIN <<>> = {}
  OBVIOUS
<1> QED
  BY <1>1 DEF DeliverableIn

(* Nothing more may be delivered, and the list stands.                      *)
LEMMA LoopStays ==
  ASSUME LoopSound, scene' = scene, loop' = loop,
         \A x \in Doc : DeliverableIn(deliveries'[x]) # {} => DeliverableIn(deliveries[x]) # {}
  PROVE  LoopSound'
<1>1. Doc' = Doc
  BY DEF Doc
<1> QED
  BY <1>1 DEF LoopSound

(* A document is put on the list.                                           *)
LEMMA LoopRequested ==
  ASSUME LoopSound, scene' = scene, NEW d \in Doc, loop' = Requested(loop, d),
         \A x \in Doc \ {d} : deliveries'[x] = deliveries[x]
  PROVE  LoopSound'
<1> DEFINE list == IF d \in ToSet(loop.waiting) THEN loop.waiting ELSE Append(loop.waiting, d)
<1>1. Doc' = Doc
  BY DEF Doc
<1>2. /\ DOMAIN loop = {"running", "waiting", "turn"}
      /\ loop.waiting \in Seq(Doc) /\ loop.turn \in Seq(Doc)
      /\ \A x \in Doc : DeliverableIn(deliveries[x]) # {} => x \in ToSet(loop.waiting)
  BY DEF LoopSound
<1>3. loop' = [[loop EXCEPT !.running = TRUE] EXCEPT !.waiting = list]
  BY <1>2 DEF Requested
<1>4. /\ list \in Seq(Doc) /\ list # <<>> /\ d \in ToSet(list)
      /\ ToSet(loop.waiting) \subseteq ToSet(list)
  <2>1. CASE d \in ToSet(loop.waiting)
    BY <1>2, <2>1 DEF ToSet
  <2>2. CASE d \notin ToSet(loop.waiting)
    <3>1. ToSet(Append(loop.waiting, d)) = ToSet(loop.waiting) \cup {d}
      BY <1>2, AppendElements
    <3>2. Append(loop.waiting, d) \in Seq(Doc) /\ Append(loop.waiting, d) # <<>>
      BY <1>2
    <3> QED
      BY <2>2, <3>1, <3>2
  <2> QED
    BY <2>1, <2>2
<1> HIDE DEF list
<1>5. /\ DOMAIN loop' = {"running", "waiting", "turn"}
      /\ loop'.running = TRUE /\ loop'.waiting = list /\ loop'.turn = loop.turn
  BY <1>2, <1>3
<1>6. \A x \in Doc : DeliverableIn(deliveries'[x]) # {} => x \in ToSet(loop'.waiting)
  BY <1>2, <1>4, <1>5
<1> QED
  BY <1>1, <1>2, <1>4, <1>5, <1>6 DEF LoopSound

(* What Set.delete leaves.                                                  *)
LEMMA WithoutOne ==
  ASSUME NEW S, NEW seq \in Seq(S), NEW d
  PROVE  Without(seq, d) \in Seq(S) /\ ToSet(seq) \ {d} \subseteq ToSet(Without(seq, d))
<1>1. CASE d \in ToSet(seq)
  <2> DEFINE i == CHOOSE i \in DOMAIN seq : seq[i] = d
  <2>1. i \in DOMAIN seq /\ seq[i] = d
    BY <1>1 DEF ToSet
  <2>2. Without(seq, d) = RemoveAt(seq, i)
    BY <1>1 DEF Without
  <2> HIDE DEF i
  <2>3. seq \in Seq(ToSet(seq))
    BY SeqSelf
  <2>4. \A j \in DOMAIN seq \ {i} : \E k \in DOMAIN RemoveAt(seq, i) : RemoveAt(seq, i)[k] = seq[j]
    BY <2>1, <2>3, RemovedOne
  <2> DEFINE q2 == RemoveAt(seq, i)
  <2>5. q2 \in Seq(ToSet(q2)) /\ ToSet(q2) \subseteq ToSet(seq)
    BY <2>1, RemoveAtFacts
  <2>6. \A j \in DOMAIN seq \ {i} : \E k \in DOMAIN q2 : q2[k] = seq[j]
    BY <2>4
  <2> HIDE DEF q2
  <2>7. ToSet(seq) \ {d} \subseteq ToSet(q2)
    BY <2>1, <2>6 DEF ToSet
  <2>8. q2 \in Seq(S)
    <3>1. ToSet(seq) \subseteq S
      BY DEF ToSet
    <3>2. Len(q2) \in Nat /\ q2 \in [1..Len(q2) -> ToSet(q2)]
      BY <2>5
    <3>3. q2 \in [1..Len(q2) -> S]
      BY <2>5, <3>1, <3>2
    <3> QED
      BY <3>2, <3>3, SeqDef
  <2> QED
    BY <2>2, <2>7, <2>8 DEF q2
<1>2. CASE d \notin ToSet(seq)
  BY <1>2 DEF Without
<1> QED
  BY <1>1, <1>2

(* The turn of the loop goes on.                                            *)
LEMMA LoopTurns ==
  ASSUME LoopSound, loop.running
  PROVE  LET queue == IF loop.turn = <<>> THEN loop.waiting ELSE loop.turn
         IN  Head(queue) \in Doc /\ Tail(queue) \in Seq(Doc)
<1> DEFINE queue == IF loop.turn = <<>> THEN loop.waiting ELSE loop.turn
<1>1. queue \in Seq(Doc) /\ queue # <<>>
  BY DEF LoopSound
<1> HIDE DEF queue
<1>2. Head(queue) \in Doc /\ Tail(queue) \in Seq(Doc)
  BY <1>1
<1> QED
  BY <1>2 DEF queue

-----------------------------------------------------------------------------
(* The serve.                                                               *)

(* A step of one document.                                                  *)
LEMMA TellsAt ==
  ASSUME ServeInv, TellInv, NEW d \in Doc, scene' = scene,
         OnlyAt(first, first', d), OnlyAt(sequencer, sequencer', d), OnlyAt(stores, stores', d),
         OnlyAt(appends, appends', d), OnlyAt(failed, failed', d),
         OnlyAt(deliveries, deliveries', d), OnlyAt(sent, sent', d), OnlyAt(events, events', d),
         ToldSoundly(Kept(d), scene \in Hooked, first'[d], sequencer'[d], stores'[d], failed'[d],
                     appends'[d], deliveries'[d], sent'[d], events'[d])
  PROVE  DocumentsTell'
<1>1. /\ TablesOfDocuments /\ DOMAIN events = Doc
      /\ \A x \in Doc : TellsInOrder(x)
  BY DEF ServeInv, TellInv, DocumentsTell
<1>2. Doc' = Doc
  BY DEF Doc
<1>3. \A x \in Doc : Kept(x)' = Kept(x)
  BY DEF Kept
<1>4. TellsInOrder(d)'
  BY <1>3 DEF TellsInOrder
<1>5. ASSUME NEW x \in Doc, x # d PROVE TellsInOrder(x)'
  <2>1. /\ first'[x] = first[x] /\ sequencer'[x] = sequencer[x] /\ stores'[x] = stores[x]
        /\ appends'[x] = appends[x] /\ failed'[x] = failed[x] /\ deliveries'[x] = deliveries[x]
        /\ sent'[x] = sent[x] /\ events'[x] = events[x]
    BY <1>1, <1>5 DEF TablesOfDocuments, OnlyAt
  <2>2. ToldSoundly(Kept(x), scene \in Hooked, first[x], sequencer[x], stores[x], failed[x],
                    appends[x], deliveries[x], sent[x], events[x])
    BY <1>1 DEF TellsInOrder
  <2> QED
    BY <1>3, <2>1, <2>2 DEF TellsInOrder
<1>6. DOMAIN events' = Doc'
  BY <1>1, <1>2 DEF OnlyAt
<1> QED
  BY <1>2, <1>4, <1>5, <1>6 DEF DocumentsTell

(* No document moves.                                                       *)
LEMMA NoneTells ==
  ASSUME TellInv, scene' = scene, first' = first, sequencer' = sequencer, stores' = stores,
         appends' = appends, failed' = failed, deliveries' = deliveries, sent' = sent,
         events' = events
  PROVE  DocumentsTell'
<1>1. Doc' = Doc /\ \A x \in Doc : Kept(x)' = Kept(x)
  BY DEF Doc, Kept
<1> QED
  BY <1>1 DEF TellInv, DocumentsTell, TellsInOrder

(* An operation enters.                                                     *)
LEMMA EnterTellsAt ==
  ASSUME ServeInv, TellInv, NEW d \in Doc, NEW e, IsOperation(e.operation), NEW origin,
         NEW before, NEW granted, NEW revision, revision = sequencer[d].currentRevision,
         Enter(d, sequencer[d], e, origin, before, revision, granted), OnSubmit,
         scene \in Hooked => before = sequencer[d].document,
         (origin = "server") = (e.client = ServerClient)
  PROVE  DocumentsTell' /\ LoopSound'
<1> DEFINE s == sequencer[d]
           verdict == Judged(s, e, granted)
           after == Submitted(s, e, verdict)
           entries == IF verdict = "accepted" THEN <<Last(after.operationLog)>> ELSE <<>>
           made == OperationsSince(after, revision)
           waiting == appends[d]
           queue == deliveries[d]
<1>1. /\ sequencer' = [sequencer EXCEPT ![d] = after]
      /\ Kept(d) =>
           /\ appends' = IF made = <<>> THEN appends
                         ELSE [appends EXCEPT ![d] = Append(@, [id |-> e.op, entries |-> made])]
           /\ deliveries' = [deliveries EXCEPT ![d] =
                Append(@, Result(e, origin, before, "pending",
                                 IF made = <<>> THEN "turn" ELSE "store", entries))]
           /\ loop' = loop
      /\ ~Kept(d) =>
           /\ deliveries' = [deliveries EXCEPT ![d] =
                Append(@, Result(e, origin, before, "ready", "none", entries))]
           /\ loop' = Requested(loop, d)
           /\ appends' = appends
  BY Zenon DEF Enter
<1>2. /\ scene' = scene /\ first' = first /\ stores' = stores /\ failed' = failed /\ sent' = sent
      /\ events' = events
  BY DEF OnSubmit
<1>3. TablesOfDocuments /\ DOMAIN events = Doc
  BY DEF ServeInv, TellInv, DocumentsTell
<1> HIDE DEF after, entries, made
<1>5. sequencer'[d] = after
  BY <1>1, <1>3 DEF TablesOfDocuments
<1>6. Kept(d) =>
        /\ appends'[d] = IF made = <<>> THEN waiting
                         ELSE Append(waiting, [id |-> e.op, entries |-> made])
        /\ deliveries'[d] = Append(queue, Result(e, origin, before, "pending",
                                                 IF made = <<>> THEN "turn" ELSE "store", entries))
  BY <1>1, <1>3 DEF TablesOfDocuments
<1>7. ~Kept(d) =>
        /\ appends'[d] = waiting
        /\ deliveries'[d] = Append(queue, Result(e, origin, before, "ready", "none", entries))
  BY <1>1, <1>3 DEF TablesOfDocuments
<1>4. ServedSoundly(Kept(d), s, stores[d], waiting, failed[d], queue, sent[d], spent.submits)
  BY DEF ServeInv, DocumentSound
<1>8. ToldSoundly(Kept(d), scene \in Hooked, first[d], after, stores[d], failed[d], appends'[d],
                  deliveries'[d], sent[d], events[d])
  <2> DEFINE w2 == appends'[d]
             q2 == deliveries'[d]
             n == spent.submits
             kept == Kept(d)
             hooked == scene \in Hooked
             f == first[d]
             store == stores[d]
             dead == failed[d]
             told == sent[d]
             heard == events[d]
  <2>1. kept \in BOOLEAN
    BY DEF Kept, Persistent
  <2>2. /\ after = Submitted(s, e, verdict)
        /\ entries = IF verdict = "accepted" THEN <<Last(after.operationLog)>> ELSE <<>>
        /\ made = OperationsSince(after, s.currentRevision)
    BY DEF after, entries, made
  <2>3. /\ kept =>
             /\ w2 = IF made = <<>> THEN waiting
                     ELSE Append(waiting, [id |-> e.op, entries |-> made])
             /\ q2 = Append(queue, Result(e, origin, before, "pending",
                                          IF made = <<>> THEN "turn" ELSE "store", entries))
        /\ ~kept =>
             /\ w2 = waiting
             /\ q2 = Append(queue, Result(e, origin, before, "ready", "none", entries))
    BY <1>6, <1>7
  <2>4. /\ ServedSoundly(kept, s, store, waiting, dead, queue, told, n)
        /\ ToldSoundly(kept, hooked, f, s, store, dead, waiting, queue, told, heard)
        /\ hooked => before = s.document
    BY <1>4 DEF TellInv, DocumentsTell, TellsInOrder
  <2>5. verdict = Judged(s, e, granted)
    OBVIOUS
  <2> HIDE DEF w2, q2, n, kept, hooked, f, s, waiting, queue, verdict, store, dead, told, heard
  <2>6. EntersAs(kept, s, waiting, queue, e, origin, before, granted, verdict, after, entries,
                 made, w2, q2)
    BY <2>2, <2>3, <2>5 DEF EntersAs
  <2>7. ToldSoundly(kept, hooked, f, after, store, dead, w2, q2, told, heard)
    BY <2>1, <2>4, <2>6, EnterTells
  <2> QED
    BY <2>7 DEF w2, q2, kept, hooked, f, store, dead, told, heard
<1>9. /\ OnlyAt(first, first', d) /\ OnlyAt(sequencer, sequencer', d)
      /\ OnlyAt(stores, stores', d) /\ OnlyAt(failed, failed', d) /\ OnlyAt(sent, sent', d)
      /\ OnlyAt(events, events', d)
  BY <1>1, <1>2, <1>3, OneAt DEF TablesOfDocuments
<1>10. OnlyAt(appends, appends', d)
  <2>0. d \in DOMAIN appends
    BY <1>3 DEF TablesOfDocuments
  <2>1. CASE appends' = appends
    BY <2>0, <2>1, OneAt
  <2>2. CASE appends' # appends
    <3> DEFINE w2 == Append(appends[d], [id |-> e.op, entries |-> made])
    <3>1. appends' = [appends EXCEPT ![d] = w2]
      BY <1>1, <2>2
    <3> HIDE DEF w2
    <3> QED
      BY <2>0, <3>1, OneAt
  <2> QED
    BY <2>1, <2>2
<1>11. OnlyAt(deliveries, deliveries', d)
  BY <1>1, <1>3, OneAt DEF TablesOfDocuments
<1>12. DocumentsTell'
  BY <1>2, <1>5, <1>8, <1>9, <1>10, <1>11, TellsAt
<1>13. \A x \in Doc \ {d} : deliveries'[x] = deliveries[x]
  BY <1>3, <1>11 DEF OnlyAt, TablesOfDocuments
<1>14. LoopSound
  BY DEF TellInv
<1>15. CASE Kept(d)
  <2> DEFINE r == Result(e, origin, before, "pending", IF made = <<>> THEN "turn" ELSE "store", entries)
  <2>1. r.state = "pending"
    BY ResultFields
  <2>2. deliveries'[d] = Append(queue, r) /\ loop' = loop
    BY <1>1, <1>6, <1>15
  <2>3. queue \in Seq(ToSet(queue))
    BY <1>4 DEF ServedSoundly, ResultsSound
  <2> HIDE DEF r, queue
  <2>4. DeliverableIn(deliveries'[d]) # {} => DeliverableIn(queue) # {}
    BY <2>1, <2>2, <2>3, PendingAdded
  <2>5. LoopSound'
    BY <1>2, <1>13, <1>14, <2>2, <2>4, LoopStays DEF queue
  <2> QED
    BY <1>12, <2>5
<1>16. CASE ~Kept(d)
  <2>1. LoopSound'
    BY <1>1, <1>2, <1>13, <1>14, <1>16, LoopRequested
  <2> QED
    BY <1>12, <2>1
<1> QED
  BY <1>15, <1>16

(* A poisoned document takes nothing.                                       *)
LEMMA PoisonTellsAt ==
  ASSUME ServeInv, TellInv, NEW d \in Doc, NEW e, NEW origin, NEW before,
         Poisoned(d, e, origin, before), OnSubmit
  PROVE  DocumentsTell' /\ LoopSound'
<1> DEFINE r == Result(e, origin, before, "pending", "throw", <<>>)
           queue == deliveries[d]
<1>1. /\ deliveries' = [deliveries EXCEPT ![d] = Append(queue, r)]
      /\ sequencer' = sequencer /\ appends' = appends /\ loop' = loop
  BY DEF Poisoned
<1>2. /\ scene' = scene /\ first' = first /\ stores' = stores /\ failed' = failed /\ sent' = sent
      /\ events' = events
  BY DEF OnSubmit
<1>3. TablesOfDocuments /\ DOMAIN events = Doc
  BY DEF ServeInv, TellInv, DocumentsTell
<1>4. queue \in Seq(ToSet(queue))
  BY DEF ServeInv, DocumentSound, ServedSoundly, ResultsSound
<1>5. ToldSoundly(Kept(d), scene \in Hooked, first[d], sequencer[d], stores[d], failed[d],
                  appends[d], queue, sent[d], events[d])
  BY DEF TellInv, DocumentsTell, TellsInOrder
<1>6. ToldSoundly(Kept(d), scene \in Hooked, first[d], sequencer[d], stores[d], failed[d],
                  appends[d], Append(queue, r), sent[d], events[d])
  BY <1>4, <1>5, PoisonTells
<1>7. r.state = "pending"
  BY ResultFields
<1> HIDE DEF r
<1>8. OnlyAt(deliveries, deliveries', d) /\ deliveries'[d] = Append(queue, r)
  BY <1>1, <1>3, OneAt DEF TablesOfDocuments
<1>9. /\ OnlyAt(first, first', d) /\ OnlyAt(sequencer, sequencer', d)
      /\ OnlyAt(stores, stores', d) /\ OnlyAt(appends, appends', d)
      /\ OnlyAt(failed, failed', d) /\ OnlyAt(sent, sent', d) /\ OnlyAt(events, events', d)
  BY <1>1, <1>2, <1>3, OneAt DEF TablesOfDocuments
<1>10. DocumentsTell'
  BY <1>1, <1>2, <1>6, <1>8, <1>9, TellsAt
<1>11. \A x \in Doc \ {d} : deliveries'[x] = deliveries[x]
  BY <1>3, <1>8 DEF OnlyAt, TablesOfDocuments
<1> HIDE DEF queue
<1>12. DeliverableIn(deliveries'[d]) # {} => DeliverableIn(queue) # {}
  BY <1>4, <1>7, <1>8, PendingAdded
<1>13. LoopSound'
  BY <1>1, <1>2, <1>11, <1>12, LoopStays DEF queue, TellInv
<1> QED
  BY <1>10, <1>13

(* ServerInstance.submit.                                                   *)
LEMMA ServerTells ==
  ASSUME ServeInv, TellInv, NEW d \in Doc, NEW op, IsOperation(op), SubmitFromServer(d, op),
         OnSubmit
  PROVE  DocumentsTell' /\ LoopSound'
<1> DEFINE e == Envelope(d, ServerClient, op)
<1>1. CASE Kept(d) /\ failed[d]
  <2>1. Poisoned(d, e, "server", Before(d))
    BY <1>1 DEF SubmitFromServer
  <2> QED
    BY <2>1, PoisonTellsAt
<1>2. CASE ~(Kept(d) /\ failed[d])
  <2>1. Enter(d, sequencer[d], e, "server", Before(d), sequencer[d].currentRevision, TRUE)
    BY <1>2 DEF SubmitFromServer
  <2>2. IsOperation(e.operation) /\ e.client = ServerClient
    BY DEF Envelope
  <2>3. scene \in Hooked => Before(d) = sequencer[d].document
    BY DEF Before
  <2> DEFINE before == Before(d)
             origin == "server"
             granted == TRUE
             revision == sequencer[d].currentRevision
  <2>4. (origin = "server") = (e.client = ServerClient)
    BY <2>2
  <2>5. /\ Enter(d, sequencer[d], e, origin, before, revision, granted)
        /\ scene \in Hooked => before = sequencer[d].document
        /\ revision = sequencer[d].currentRevision
    BY <2>1, <2>3
  <2> HIDE DEF e, before, origin, granted, revision
  <2> QED
    BY <2>2, <2>4, <2>5, EnterTellsAt
<1> QED
  BY <1>1, <1>2

LEMMA ServerSubmitsTell == ServeInv /\ TellInv /\ ServerSubmits => TellInv'
<1> SUFFICES ASSUME ServeInv, TellInv, ServerSubmits PROVE TellInv'
  OBVIOUS
<1>1. /\ hook' = None /\ OnSubmit
      /\ \E d \in Doc, op \in ServerOperation[scene] : SubmitFromServer(d, op)
  BY DEF ServerSubmits, Idle
<1>2. PICK d \in Doc : \E op \in ServerOperation[scene] : SubmitFromServer(d, op)
  BY <1>1
<1>3. PICK op \in ServerOperation[scene] : SubmitFromServer(d, op)
  BY <1>2
<1>4. IsOperation(op)
  BY OperationAssumption DEF ServeInv
<1>5. DocumentsTell' /\ LoopSound'
  BY <1>1, <1>3, <1>4, ServerTells
<1>6. HookKnows'
  BY <1>1 DEF HookKnows
<1> QED
  BY <1>5, <1>6 DEF TellInv

LEMMA HookSubmitsTell == ServeInv /\ TellInv /\ HookSubmits => TellInv'
<1> SUFFICES ASSUME ServeInv, TellInv, HookSubmits PROVE TellInv'
  OBVIOUS
<1>1. hook' = hook /\ OnSubmit
  BY DEF HookSubmits
<1>2. CASE RejectedInside
  <2>1. /\ sequencer' = sequencer /\ appends' = appends /\ deliveries' = deliveries
        /\ loop' = loop /\ scene' = scene /\ first' = first /\ stores' = stores
        /\ failed' = failed /\ sent' = sent /\ events' = events
    BY <1>1, <1>2 DEF HookSubmits, OnSubmit
  <2>2. DocumentsTell'
    BY <2>1, NoneTells
  <2>3. HookKnows'
    BY <1>1, <2>1 DEF TellInv, HookKnows
  <2>4. LoopSound'
    BY <2>1, LoopStays DEF TellInv
  <2> QED
    BY <2>2, <2>3, <2>4 DEF TellInv
<1>3. CASE ~RejectedInside
  <2>1. PICK d \in Doc : \E op \in ServerOperation[scene] : SubmitFromServer(d, op)
    BY <1>3 DEF HookSubmits
  <2>2. PICK op \in ServerOperation[scene] : SubmitFromServer(d, op)
    BY <2>1
  <2>3. IsOperation(op)
    BY OperationAssumption DEF ServeInv
  <2>4. DocumentsTell' /\ LoopSound'
    BY <1>1, <2>2, <2>3, ServerTells
  <2>5. HookKnows'
    BY <1>1, <1>3 DEF HookKnows, RejectedInside
  <2> QED
    BY <2>4, <2>5 DEF TellInv
<1> QED
  BY <1>2, <1>3

LEMMA ClientSubmitsTell == ServeInv /\ TellInv /\ ClientSubmits => TellInv'
<1> SUFFICES ASSUME ServeInv, TellInv, ClientSubmits PROVE TellInv'
  OBVIOUS
<1>1. hook = None /\ OnSubmit
  BY DEF ClientSubmits, Idle
<1>2. /\ scene' = scene /\ first' = first /\ stores' = stores /\ failed' = failed /\ sent' = sent
      /\ events' = events
  BY <1>1 DEF OnSubmit
<1>3. PICK d \in Doc : \E op \in ClientOperation[scene] :
        LET e == Envelope(d, Author, op)
        IN  \/ /\ Kept(d) /\ failed[d]
               /\ Poisoned(d, e, "client", Before(d))
               /\ UNCHANGED hook
            \/ /\ ~(Kept(d) /\ failed[d])
               /\ scene \notin Hooked
               /\ Enter(d, sequencer[d], e, "client", None, sequencer[d].currentRevision, TRUE)
               /\ UNCHANGED hook
            \/ /\ ~(Kept(d) /\ failed[d])
               /\ scene \in Hooked
               /\ sequencer' = [sequencer EXCEPT ![d] = Consumed(@, e)]
               /\ hook' = [kind |-> "authorize", doc |-> d, envelope |-> e,
                           before |-> Before(d), revision |-> sequencer[d].currentRevision]
               /\ UNCHANGED <<appends, deliveries, loop>>
  BY DEF ClientSubmits
<1>4. PICK op \in ClientOperation[scene] :
        LET e == Envelope(d, Author, op)
        IN  \/ /\ Kept(d) /\ failed[d]
               /\ Poisoned(d, e, "client", Before(d))
               /\ UNCHANGED hook
            \/ /\ ~(Kept(d) /\ failed[d])
               /\ scene \notin Hooked
               /\ Enter(d, sequencer[d], e, "client", None, sequencer[d].currentRevision, TRUE)
               /\ UNCHANGED hook
            \/ /\ ~(Kept(d) /\ failed[d])
               /\ scene \in Hooked
               /\ sequencer' = [sequencer EXCEPT ![d] = Consumed(@, e)]
               /\ hook' = [kind |-> "authorize", doc |-> d, envelope |-> e,
                           before |-> Before(d), revision |-> sequencer[d].currentRevision]
               /\ UNCHANGED <<appends, deliveries, loop>>
  BY <1>3
<1> DEFINE e == Envelope(d, Author, op)
<1>5. IsOperation(op)
  BY OperationAssumption DEF ServeInv
<1>6. e.operation = op /\ e.client = Author /\ Author # ServerClient
  BY ClientAssumption DEF Envelope
<1>7. CASE Poisoned(d, e, "client", Before(d)) /\ hook' = hook
  <2>1. DocumentsTell' /\ LoopSound'
    BY <1>1, <1>7, PoisonTellsAt
  <2>2. HookKnows'
    BY <1>1, <1>7 DEF HookKnows
  <2> QED
    BY <2>1, <2>2 DEF TellInv
<1>8. CASE /\ scene \notin Hooked
           /\ Enter(d, sequencer[d], e, "client", None, sequencer[d].currentRevision, TRUE)
           /\ hook' = hook
  <2> DEFINE origin == "client"
             granted == TRUE
             revision == sequencer[d].currentRevision
  <2>1. /\ (origin = "server") = (e.client = ServerClient)
        /\ Enter(d, sequencer[d], e, origin, None, revision, granted)
        /\ revision = sequencer[d].currentRevision
        /\ IsOperation(e.operation)
    BY <1>5, <1>6, <1>8
  <2> HIDE DEF e, origin, granted, revision
  <2>2. DocumentsTell' /\ LoopSound'
    BY <1>1, <1>8, <2>1, EnterTellsAt
  <2>3. HookKnows'
    BY <1>1, <1>8 DEF HookKnows
  <2> QED
    BY <2>2, <2>3 DEF TellInv
<1>9. CASE /\ scene \in Hooked
           /\ sequencer' = [sequencer EXCEPT ![d] = Consumed(@, e)]
           /\ hook' = [kind |-> "authorize", doc |-> d, envelope |-> e,
                       before |-> Before(d), revision |-> sequencer[d].currentRevision]
           /\ UNCHANGED <<appends, deliveries, loop>>
  <2> HIDE DEF e
  <2>1. /\ sequencer' = [sequencer EXCEPT ![d] = Consumed(sequencer[d], e)]
        /\ appends' = appends /\ deliveries' = deliveries /\ loop' = loop
    BY <1>9
  <2>2. TablesOfDocuments /\ DOMAIN events = Doc
    BY DEF ServeInv, TellInv, DocumentsTell
  <2>3. OnlyAt(sequencer, sequencer', d) /\ sequencer'[d] = Consumed(sequencer[d], e)
    BY <2>1, <2>2, OneAt DEF TablesOfDocuments
  <2>4. /\ OnlyAt(first, first', d) /\ OnlyAt(stores, stores', d)
        /\ OnlyAt(appends, appends', d) /\ OnlyAt(failed, failed', d)
        /\ OnlyAt(deliveries, deliveries', d)
        /\ OnlyAt(sent, sent', d) /\ OnlyAt(events, events', d)
    BY <1>2, <2>1, <2>2, OneAt DEF TablesOfDocuments
  <2>5. /\ StateSound(sequencer[d])
        /\ ToldSoundly(Kept(d), scene \in Hooked, first[d], sequencer[d], stores[d], failed[d],
                       appends[d], deliveries[d], sent[d], events[d])
    BY DEF ServeInv, DocumentSound, ServedSoundly, TellInv, DocumentsTell, TellsInOrder
  <2>6. /\ ToldSoundly(Kept(d), scene \in Hooked, first[d], sequencer'[d], stores[d], failed[d],
                       appends[d], deliveries[d], sent[d], events[d])
        /\ sequencer'[d].document = sequencer[d].document
    BY <2>3, <2>5, ConsumedTells
  <2>7. DocumentsTell'
    BY <1>2, <2>1, <2>3, <2>4, <2>6, TellsAt
  <2>8. HookKnows'
    <3>1. /\ hook'.doc = d /\ hook'.envelope = e /\ hook'.before = Before(d)
      BY <1>9
    <3>2. hook'.before = sequencer[d].document
      BY <1>9, <3>1 DEF Before
    <3> QED
      BY <1>2, <1>6, <1>9, <2>6, <3>1, <3>2 DEF HookKnows
  <2>9. LoopSound'
    BY <1>2, <2>1, LoopStays DEF TellInv
  <2> QED
    BY <2>7, <2>8, <2>9 DEF TellInv
<1> QED
  BY <1>4, <1>7, <1>8, <1>9

LEMMA AuthorizeReturnsTell == ServeInv /\ TellInv /\ AuthorizeReturns => TellInv'
<1> SUFFICES ASSUME ServeInv, TellInv, AuthorizeReturns PROVE TellInv'
  OBVIOUS
<1> DEFINE d == hook.doc
           e == hook.envelope
           before == hook.before
           revision == hook.revision
           origin == "client"
<1>1. /\ hook # None /\ hook.kind = "authorize" /\ hook' = None /\ OnSubmit
      /\ \E granted \in BOOLEAN : Enter(d, sequencer[d], e, origin, before, revision, granted)
  BY DEF AuthorizeReturns
<1>2. /\ d \in Doc /\ IsOperation(e.operation)
      /\ revision = sequencer[d].currentRevision
  BY <1>1 DEF ServeInv, HookSound
<1>3. before = sequencer[d].document /\ e.client = Author
  BY <1>1 DEF TellInv, HookKnows
<1>4. (origin = "server") = (e.client = ServerClient)
  BY <1>3, ClientAssumption
<1>5. PICK granted \in BOOLEAN : Enter(d, sequencer[d], e, origin, before, revision, granted)
  BY <1>1
<1> HIDE DEF d, e, before, revision, origin
<1>6. DocumentsTell' /\ LoopSound'
  BY <1>1, <1>2, <1>3, <1>4, <1>5, EnterTellsAt
<1>7. HookKnows'
  BY <1>1 DEF HookKnows
<1> QED
  BY <1>6, <1>7 DEF TellInv

LEMMA AliveTells ==
  ASSUME NEW kept, NEW hooked, NEW f, NEW s, NEW store, NEW waiting, NEW queue, NEW told,
         NEW heard, NEW x, NEW y, ~x, ~y,
         ToldSoundly(kept, hooked, f, s, store, x, waiting, queue, told, heard)
  PROVE  ToldSoundly(kept, hooked, f, s, store, y, waiting, queue, told, heard)
<1>1. \A n : ~Lost(kept, x, store, n) /\ ~Lost(kept, y, store, n)
  BY DEF Lost
<1>2. QueueInOrder(kept, hooked, f, s, store, y, waiting, queue, told)
  BY <1>1, Zenon DEF ToldSoundly, QueueInOrder, ResultTells
<1> QED
  BY <1>2 DEF ToldSoundly

LEMMA StoreAppendsTell ==
  ASSUME ServeInv, TellInv, NEW d \in Doc, StoreAppends(d)
  PROVE  TellInv'
<1> DEFINE kept == Kept(d)
           s == sequencer[d]
           store == stores[d]
           waiting == appends[d]
           dead == failed[d]
           queue == deliveries[d]
           st2 == [store EXCEPT !.log = @ \o waiting[1].entries]
           w2 == RemoveAt(waiting, 1)
           q2 == SettledAt(queue, waiting[1].id, "ready")
<1>1. /\ hook = None /\ ~failed[d] /\ 1 \in DOMAIN waiting
      /\ stores' = [stores EXCEPT ![d].log = @ \o waiting[1].entries]
      /\ appends' = [appends EXCEPT ![d] = w2]
      /\ deliveries' = [deliveries EXCEPT ![d] = q2]
      /\ loop' = Requested(loop, d)
      /\ scene' = scene /\ first' = first /\ sequencer' = sequencer /\ failed' = failed
      /\ sent' = sent /\ events' = events /\ hook' = hook
  BY DEF StoreAppends, NextAppend, Idle
<1>2. TablesOfDocuments /\ DOMAIN events = Doc
  BY DEF ServeInv, TellInv, DocumentsTell
<1>3. stores' = [stores EXCEPT ![d] = st2]
  BY <1>1
<1>4. ServedSoundly(kept, s, store, waiting, dead, queue, sent[d], spent.submits)
  BY DEF ServeInv, DocumentSound
<1>5. kept = TRUE
  BY <1>1, <1>4 DEF ServedSoundly, Kept, Persistent
<1>6. ServedSoundly(TRUE, s, store, waiting, FALSE, queue, sent[d], spent.submits)
  BY <1>1, <1>4, <1>5 DEF ServedSoundly, AppendsSound
<1>7. StoreSound(s, store) /\ AppendsSound(s, store, waiting, FALSE)
  BY <1>6 DEF ServedSoundly
<1>8. Len(st2.log) = Len(store.log) + 1
  <2> HIDE DEF s, store, waiting
  <2>1. Len([store EXCEPT !.log = @ \o waiting[1].entries].log) = Len(store.log) + 1
    BY <1>1, <1>7, StoreIsLonger
  <2> QED
    BY <2>1
<1>9. ToldSoundly(kept, scene \in Hooked, first[d], s, store, dead, waiting, queue, sent[d], events[d])
  BY DEF TellInv, DocumentsTell, TellsInOrder
<1> HIDE DEF st2
<1>10. ToldSoundly(kept, scene \in Hooked, first[d], s, st2, dead, w2, q2, sent[d], events[d])
  <2> DEFINE alive == FALSE
             yes == TRUE
  <2>0. ~dead /\ ~alive /\ alive = FALSE /\ yes = TRUE
    BY <1>1
  <2>3. ServedSoundly(yes, s, store, waiting, alive, queue, sent[d], spent.submits) /\ yes = kept
    BY <1>5, <1>6
  <2> HIDE DEF kept, s, store, waiting, dead, queue, alive, yes
  <2>1. ToldSoundly(kept, scene \in Hooked, first[d], s, store, alive, waiting, queue, sent[d],
                    events[d])
    BY <1>9, <2>0, AliveTells
  <2>4. ToldSoundly(yes, scene \in Hooked, first[d], s, store, alive, waiting, queue, sent[d],
                    events[d])
    BY <2>1, <2>3
  <2>2. ToldSoundly(yes, scene \in Hooked, first[d], s, st2, alive, w2, q2, sent[d], events[d])
    BY <1>1, <1>8, <2>0, <2>3, <2>4, StoredTells
  <2>5. ToldSoundly(kept, scene \in Hooked, first[d], s, st2, alive, w2, q2, sent[d], events[d])
    BY <2>2, <2>3
  <2> QED
    BY <2>0, <2>5, AliveTells
<1> HIDE DEF w2, q2
<1>11. OnlyAt(stores, stores', d) /\ stores'[d] = st2
  BY <1>2, <1>3, OneAt DEF TablesOfDocuments
<1>12. OnlyAt(appends, appends', d) /\ appends'[d] = w2
  BY <1>1, <1>2, OneAt DEF TablesOfDocuments
<1>13. OnlyAt(deliveries, deliveries', d) /\ deliveries'[d] = q2
  BY <1>1, <1>2, OneAt DEF TablesOfDocuments
<1>14. /\ OnlyAt(first, first', d) /\ OnlyAt(sequencer, sequencer', d)
       /\ OnlyAt(failed, failed', d) /\ OnlyAt(sent, sent', d) /\ OnlyAt(events, events', d)
  BY <1>1, <1>2, OneAt DEF TablesOfDocuments
<1>15. DocumentsTell'
  BY <1>1, <1>10, <1>11, <1>12, <1>13, <1>14, TellsAt
<1>16. \A x \in Doc \ {d} : deliveries'[x] = deliveries[x]
  BY <1>2, <1>13 DEF OnlyAt, TablesOfDocuments
<1>17. LoopSound'
  BY <1>1, <1>16, LoopRequested DEF TellInv
<1>18. HookKnows'
  BY <1>1 DEF HookKnows
<1> QED
  BY <1>15, <1>17, <1>18 DEF TellInv

LEMMA StoreFailsTell ==
  ASSUME ServeInv, TellInv, NEW d \in Doc, StoreFails(d)
  PROVE  TellInv'
<1> DEFINE kept == Kept(d)
           s == sequencer[d]
           store == stores[d]
           waiting == appends[d]
           dead == failed[d]
           queue == deliveries[d]
           w2 == Tail(waiting)
           q2 == SettledAt(queue, waiting[1].id, "failed")
<1>1. /\ hook = None /\ waiting # <<>>
      /\ failed' = [failed EXCEPT ![d] = TRUE]
      /\ appends' = [appends EXCEPT ![d] = w2]
      /\ deliveries' = [deliveries EXCEPT ![d] = q2]
      /\ loop' = Requested(loop, d)
      /\ scene' = scene /\ first' = first /\ sequencer' = sequencer /\ stores' = stores
      /\ sent' = sent /\ events' = events /\ hook' = hook
  BY DEF StoreFails, Idle
<1>2. TablesOfDocuments /\ DOMAIN events = Doc
  BY DEF ServeInv, TellInv, DocumentsTell
<1>3. ServedSoundly(kept, s, store, waiting, dead, queue, sent[d], spent.submits)
  BY DEF ServeInv, DocumentSound
<1>4. ToldSoundly(kept, scene \in Hooked, first[d], s, store, dead, waiting, queue, sent[d], events[d])
  BY DEF TellInv, DocumentsTell, TellsInOrder
<1>5. ToldSoundly(kept, scene \in Hooked, first[d], s, store, TRUE, w2, q2, sent[d], events[d])
  <2> HIDE DEF kept, s, store, waiting, dead, queue
  <2> QED
    BY <1>1, <1>3, <1>4, FailedTells
<1> HIDE DEF w2, q2
<1>6. OnlyAt(failed, failed', d) /\ failed'[d] = TRUE
  BY <1>1, <1>2, OneAt DEF TablesOfDocuments
<1>7. OnlyAt(appends, appends', d) /\ appends'[d] = w2
  BY <1>1, <1>2, OneAt DEF TablesOfDocuments
<1>8. OnlyAt(deliveries, deliveries', d) /\ deliveries'[d] = q2
  BY <1>1, <1>2, OneAt DEF TablesOfDocuments
<1>9. /\ OnlyAt(first, first', d) /\ OnlyAt(sequencer, sequencer', d)
      /\ OnlyAt(stores, stores', d) /\ OnlyAt(sent, sent', d) /\ OnlyAt(events, events', d)
  BY <1>1, <1>2, OneAt DEF TablesOfDocuments
<1>10. DocumentsTell'
  BY <1>1, <1>5, <1>6, <1>7, <1>8, <1>9, TellsAt
<1>11. \A x \in Doc \ {d} : deliveries'[x] = deliveries[x]
  BY <1>2, <1>8 DEF OnlyAt, TablesOfDocuments
<1>12. LoopSound'
  BY <1>1, <1>11, LoopRequested DEF TellInv
<1>13. HookKnows'
  BY <1>1 DEF HookKnows
<1> QED
  BY <1>10, <1>12, <1>13 DEF TellInv

LEMMA TurnEndsTell ==
  ASSUME ServeInv, TellInv, NEW d \in Doc, TurnEnds(d)
  PROVE  TellInv'
<1>1. /\ hook = None
      /\ \E i \in DOMAIN deliveries[d] :
           /\ deliveries[d][i].waits \in {"turn", "throw"}
           /\ deliveries' = [deliveries EXCEPT ![d] =
                SettledAt(deliveries[d], deliveries[d][i].id,
                          IF deliveries[d][i].waits = "turn" THEN "ready" ELSE "failed")]
      /\ loop' = Requested(loop, d)
      /\ scene' = scene /\ first' = first /\ sequencer' = sequencer /\ stores' = stores
      /\ appends' = appends /\ failed' = failed /\ sent' = sent /\ events' = events
      /\ hook' = hook
  BY DEF TurnEnds, Idle
<1>2. PICK i \in DOMAIN deliveries[d] :
           /\ deliveries[d][i].waits \in {"turn", "throw"}
           /\ deliveries' = [deliveries EXCEPT ![d] =
                SettledAt(deliveries[d], deliveries[d][i].id,
                          IF deliveries[d][i].waits = "turn" THEN "ready" ELSE "failed")]
  BY <1>1
<1>3. TablesOfDocuments /\ DOMAIN events = Doc
  BY DEF ServeInv, TellInv, DocumentsTell
<1> DEFINE queue == deliveries[d]
           state == IF queue[i].waits = "turn" THEN "ready" ELSE "failed"
           q2 == SettledAt(queue, queue[i].id, state)
<1>4. ServedSoundly(Kept(d), sequencer[d], stores[d], appends[d], failed[d], queue, sent[d],
                    spent.submits)
  BY DEF ServeInv, DocumentSound
<1>5. ToldSoundly(Kept(d), scene \in Hooked, first[d], sequencer[d], stores[d], failed[d],
                  appends[d], queue, sent[d], events[d])
  BY DEF TellInv, DocumentsTell, TellsInOrder
<1>6. deliveries' = [deliveries EXCEPT ![d] = q2]
  BY <1>2
<1>7. i \in DOMAIN queue /\ queue[i].waits \in {"turn", "throw"}
  BY <1>2
<1> HIDE DEF state, queue
<1>8. ToldSoundly(Kept(d), scene \in Hooked, first[d], sequencer[d], stores[d], failed[d],
                  appends[d], q2, sent[d], events[d])
  BY <1>4, <1>5, <1>7, TurnTells
<1> HIDE DEF q2
<1>9. OnlyAt(deliveries, deliveries', d) /\ deliveries'[d] = q2
  BY <1>3, <1>6, OneAt DEF TablesOfDocuments
<1>10. /\ OnlyAt(first, first', d) /\ OnlyAt(sequencer, sequencer', d)
       /\ OnlyAt(stores, stores', d) /\ OnlyAt(appends, appends', d)
       /\ OnlyAt(failed, failed', d) /\ OnlyAt(sent, sent', d) /\ OnlyAt(events, events', d)
  BY <1>1, <1>3, OneAt DEF TablesOfDocuments
<1>11. DocumentsTell'
  BY <1>1, <1>8, <1>9, <1>10, TellsAt
<1>12. \A x \in Doc \ {d} : deliveries'[x] = deliveries[x]
  BY <1>3, <1>9 DEF OnlyAt, TablesOfDocuments
<1>13. LoopSound'
  BY <1>1, <1>12, LoopRequested DEF TellInv
<1>14. HookKnows'
  BY <1>1 DEF HookKnows
<1> QED
  BY <1>11, <1>13, <1>14 DEF TellInv

(* The loop delivers, or leaves a document.                                 *)
LEMMA DeliverTell == ServeInv /\ TellInv /\ Deliver => TellInv'
<1> SUFFICES ASSUME ServeInv, TellInv, Deliver PROVE TellInv'
  OBVIOUS
<1> DEFINE line == IF loop.turn = <<>> THEN loop.waiting ELSE loop.turn
           d == Head(line)
           queue == deliveries[d]
           ready == DeliverableIn(queue)
           i == LeastOf(ready)
           tells == queue[i].state = "ready" /\ queue[i].entries # <<>>
           left == Without(loop.waiting, d)
           event == BuildAcceptedEvent(d, queue[i])
<1>1. /\ hook = None /\ loop.running /\ scene' = scene /\ first' = first
      /\ sequencer' = sequencer /\ stores' = stores /\ appends' = appends /\ failed' = failed
  BY DEF Deliver
<1>2. \/ /\ ready = {}
         /\ loop' = [running |-> left # <<>>, waiting |-> left, turn |-> Tail(line)]
         /\ deliveries' = deliveries /\ sent' = sent /\ events' = events /\ hook' = hook
      \/ /\ ready # {}
         /\ loop' = [loop EXCEPT !.turn = Tail(line)]
         /\ deliveries' = [deliveries EXCEPT ![d] = RemoveAt(@, i)]
         /\ sent' = IF tells THEN [sent EXCEPT ![d] = Append(@, queue[i].entries[1].rev)] ELSE sent
         /\ events' = IF tells /\ scene \in Hooked THEN [events EXCEPT ![d] = Append(@, event)]
                      ELSE events
         /\ hook' = [kind |-> "accepted", doc |-> d] \/ hook' = hook
  BY Zenon DEF Deliver
<1>3. /\ TablesOfDocuments /\ DOMAIN events = Doc /\ LoopSound
  BY DEF ServeInv, TellInv, DocumentsTell
<1>4. d \in Doc /\ Tail(line) \in Seq(Doc)
  BY <1>1, <1>3, LoopTurns
<1>5. HookKnows'
  <2>1. hook' = [kind |-> "accepted", doc |-> d] \/ hook' = hook
    BY <1>2, Zenon
  <2> HIDE DEF d
  <2>2. hook'.kind = "accepted" \/ hook' = None
    BY <1>1, <2>1
  <2> QED
    BY <2>2 DEF HookKnows
<1>6. Doc' = Doc
  BY <1>1 DEF Doc
<1> HIDE DEF line, d, i, tells, event, left
<1>7. CASE /\ ready = {}
           /\ loop' = [running |-> left # <<>>, waiting |-> left, turn |-> Tail(line)]
           /\ deliveries' = deliveries /\ sent' = sent /\ events' = events /\ hook' = hook
  <2>1. DocumentsTell'
    BY <1>1, <1>7, NoneTells
  <2>2. left \in Seq(Doc) /\ ToSet(loop.waiting) \ {d} \subseteq ToSet(left)
    BY <1>3, WithoutOne DEF LoopSound, left
  <2>3. /\ DOMAIN loop' = {"running", "waiting", "turn"}
        /\ loop'.running = (left # <<>>) /\ loop'.waiting = left /\ loop'.turn = Tail(line)
    BY <1>7
  <2>4. \A x \in Doc : DeliverableIn(deliveries'[x]) # {} => x \in ToSet(left)
    BY <1>3, <1>7, <2>2 DEF LoopSound
  <2>5. LoopSound'
    BY <1>4, <1>6, <2>2, <2>3, <2>4 DEF LoopSound
  <2> QED
    BY <1>5, <2>1, <2>5 DEF TellInv
<1>8. CASE /\ ready # {}
           /\ loop' = [loop EXCEPT !.turn = Tail(line)]
           /\ deliveries' = [deliveries EXCEPT ![d] = RemoveAt(@, i)]
           /\ sent' = IF tells THEN [sent EXCEPT ![d] = Append(@, queue[i].entries[1].rev)] ELSE sent
           /\ events' = IF tells /\ scene \in Hooked THEN [events EXCEPT ![d] = Append(@, event)]
                        ELSE events
  <2> DEFINE told == sent[d]
             heard == events[d]
             hooked == scene \in Hooked
             q2 == RemoveAt(queue, i)
             t2 == IF tells THEN Append(told, queue[i].entries[1].rev) ELSE told
             h2 == IF tells /\ hooked THEN Append(heard, event) ELSE heard
  <2>1. ServedSoundly(Kept(d), sequencer[d], stores[d], appends[d], failed[d], queue, told,
                      spent.submits)
    BY <1>4 DEF ServeInv, DocumentSound
  <2>2. ToldSoundly(Kept(d), hooked, first[d], sequencer[d], stores[d], failed[d],
                    appends[d], queue, told, heard)
    BY <1>4 DEF TellInv, DocumentsTell, TellsInOrder
  <2>3. i \in DeliverableIn(queue) /\ \A j \in DeliverableIn(queue) : i <= j
    <3>1. ready \subseteq DOMAIN queue
      BY DEF DeliverableIn
    <3>2. DOMAIN queue \subseteq Nat
      <4>1. queue \in Seq(ToSet(queue))
        BY <2>1 DEF ServedSoundly, ResultsSound
      <4> HIDE DEF queue
      <4> QED
        BY <4>1
    <3>3. \E k \in ready : \A j \in ready : k <= j
      BY <1>8, <3>1, <3>2, Smallest
    <3> QED
      BY <3>3 DEF i, LeastOf
  <2>4. /\ event.op = queue[i].entries[1].op /\ event.revision = queue[i].entries[1].rev
        /\ event.origin = queue[i].origin
        /\ event.changes = AcceptedCellChanges(queue[i].entries[1].operation, queue[i].before)
    BY DEF event, BuildAcceptedEvent, DocumentBefore
  <2>5. tells = (queue[i].state = "ready" /\ queue[i].entries # <<>>)
    BY DEF tells
  <2>6. /\ deliveries' = [deliveries EXCEPT ![d] = q2]
        /\ sent' = IF tells THEN [sent EXCEPT ![d] = t2] ELSE sent
        /\ events' = IF tells /\ hooked THEN [events EXCEPT ![d] = h2] ELSE events
        /\ ~tells => t2 = told
        /\ ~(tells /\ hooked) => h2 = heard
    BY <1>8
  <2>7. hooked \in BOOLEAN
    OBVIOUS
  <2>8. t2 = (IF tells THEN Append(told, queue[i].entries[1].rev) ELSE told)
        /\ h2 = (IF tells /\ hooked THEN Append(heard, event) ELSE heard)
    OBVIOUS
  <2>9. /\ DOMAIN deliveries = Doc /\ DOMAIN sent = Doc /\ DOMAIN events = Doc
    BY <1>3 DEF TablesOfDocuments
  <2>14. DeliverableIn(queue) # {}
    BY <1>8
  <2>15. queue = deliveries[d] /\ told = sent[d] /\ heard = events[d] /\ hooked = (scene \in Hooked)
    OBVIOUS
  <2>17. q2 = RemoveAt(queue, i)
    OBVIOUS
  <2> HIDE DEF queue, told, heard, hooked, t2, h2, q2
  <2>10. ToldSoundly(Kept(d), hooked, first[d], sequencer[d], stores[d], failed[d],
                     appends[d], q2, t2, h2)
    <3>1. DeliversAs(queue, i, told, heard, hooked, q2, tells, t2, event, h2)
      BY <2>3, <2>4, <2>5, <2>8, <2>17, Zenon DEF DeliversAs
    <3> QED
      BY <2>1, <2>2, <2>7, <3>1, DeliveredTells
  <2>11. /\ OnlyAt(deliveries, deliveries', d) /\ deliveries'[d] = q2
         /\ OnlyAt(sent, sent', d) /\ sent'[d] = t2
         /\ OnlyAt(events, events', d) /\ events'[d] = h2
    <3>1. OnlyAt(deliveries, deliveries', d) /\ deliveries'[d] = q2
      BY <1>4, <2>6, <2>9, OneAt
    <3>2. OnlyAt(sent, sent', d) /\ sent'[d] = t2
      BY <1>4, <2>6, <2>9, <2>15, OneAt
    <3>3. OnlyAt(events, events', d) /\ events'[d] = h2
      BY <1>4, <2>6, <2>9, <2>15, OneAt
    <3> QED
      BY <3>1, <3>2, <3>3
  <2>12. /\ OnlyAt(first, first', d) /\ OnlyAt(sequencer, sequencer', d)
         /\ OnlyAt(stores, stores', d) /\ OnlyAt(appends, appends', d)
         /\ OnlyAt(failed, failed', d)
    BY <1>1, <1>3, <1>4, OneAt DEF TablesOfDocuments
  <2>13. DocumentsTell'
    BY <1>1, <1>4, <2>10, <2>11, <2>12, <2>15, TellsAt
  <2>16. LoopSound'
    <3>1. \A x \in Doc : DeliverableIn(deliveries'[x]) # {} => DeliverableIn(deliveries[x]) # {}
      BY <2>9, <2>11, <2>14, <2>15 DEF OnlyAt
    <3>2. DOMAIN loop = {"running", "waiting", "turn"}
      BY <1>3 DEF LoopSound
    <3>3. /\ DOMAIN loop' = {"running", "waiting", "turn"}
          /\ loop'.running = loop.running /\ loop'.waiting = loop.waiting
          /\ loop'.turn = Tail(line)
      BY <1>8, <3>2
    <3> QED
      BY <1>3, <1>4, <1>6, <3>1, <3>3 DEF LoopSound
  <2> QED
    BY <1>5, <2>13, <2>16 DEF TellInv
<1> QED
  BY <1>2, <1>7, <1>8

(* What the invariant speaks of stands still.                               *)
LEMMA TellsStill ==
  ASSUME TellInv, scene' = scene, first' = first, sequencer' = sequencer, stores' = stores,
         appends' = appends, failed' = failed, deliveries' = deliveries, sent' = sent,
         events' = events, loop' = loop, hook' = hook \/ hook' = None
  PROVE  TellInv'
<1>1. DocumentsTell'
  BY NoneTells
<1>2. LoopSound'
  BY LoopStays DEF TellInv
<1>3. HookKnows'
  BY DEF TellInv, HookKnows
<1> QED
  BY <1>1, <1>2, <1>3 DEF TellInv

LEMMA RestartTell ==
  ASSUME ServeInv, TellInv, NEW d \in Doc, Restart(d)
  PROVE  TellInv'
<1>1. /\ hook = None
      /\ \E rows \in FirstRows[scene] :
           first' = [first EXCEPT ![d] = FirstState(ServedWith[scene][d], stores[d], rows, OtherServe)]
      /\ sequencer' = [sequencer EXCEPT ![d] = first'[d]]
      /\ stores' = [stores EXCEPT ![d] = FirstStores(ServedWith[scene][d], stores[d], first'[d])]
      /\ appends' = [appends EXCEPT ![d] = <<>>]
      /\ failed' = [failed EXCEPT ![d] = FALSE]
      /\ deliveries' = [deliveries EXCEPT ![d] = <<>>]
      /\ sent' = [sent EXCEPT ![d] = <<>>]
      /\ events' = [events EXCEPT ![d] = <<>>]
      /\ scene' = scene /\ hook' = hook /\ loop' = loop
  BY DEF Restart, Idle
<1>2. TablesOfDocuments /\ DOMAIN events = Doc
  BY DEF ServeInv, TellInv, DocumentsTell
<1>3. Doc' = Doc /\ Kept(d)' = Kept(d)
  BY <1>1 DEF Doc, Kept
<1>4. StateSound(sequencer'[d])
  <2>1. ServeInv'
    BY RestartServe
  <2>2. DocumentSound(d)'
    BY <1>3, <2>1 DEF ServeInv
  <2> QED
    BY <2>2 DEF DocumentSound, ServedSoundly
<1> DEFINE t == first'[d]
           st2 == FirstStores(ServedWith[scene][d], stores[d], t)
           none == <<>>
           alive == FALSE
<1>5. /\ sequencer' = [sequencer EXCEPT ![d] = t] /\ stores' = [stores EXCEPT ![d] = st2]
      /\ appends' = [appends EXCEPT ![d] = none] /\ failed' = [failed EXCEPT ![d] = alive]
      /\ deliveries' = [deliveries EXCEPT ![d] = none] /\ sent' = [sent EXCEPT ![d] = none]
      /\ events' = [events EXCEPT ![d] = none]
  BY <1>1
<1>6. OnlyAt(first, first', d)
  <2>1. PICK rows \in FirstRows[scene] :
          first' = [first EXCEPT ![d] = FirstState(ServedWith[scene][d], stores[d], rows, OtherServe)]
    BY <1>1
  <2> DEFINE u == FirstState(ServedWith[scene][d], stores[d], rows, OtherServe)
  <2>2. first' = [first EXCEPT ![d] = u] /\ d \in DOMAIN first
    BY <1>2, <2>1 DEF TablesOfDocuments
  <2> HIDE DEF u
  <2> QED
    BY <2>2, OneAt
<1>7. d \in DOMAIN sequencer /\ d \in DOMAIN stores /\ d \in DOMAIN appends /\ d \in DOMAIN failed
      /\ d \in DOMAIN deliveries /\ d \in DOMAIN sent /\ d \in DOMAIN events
  BY <1>2 DEF TablesOfDocuments
<1>8. \A kept, hooked \in BOOLEAN : StateSound(t) =>
        ToldSoundly(kept, hooked, t, t, st2, alive, none, none, none, none)
  BY BeginningTells
<1>9. \A x \in Doc \ {d} : deliveries'[x] = deliveries[x]
  BY <1>2, <1>1 DEF TablesOfDocuments
<1>10. deliveries'[d] = <<>>
  BY <1>1, <1>7
<1> HIDE DEF t, st2, none, alive
<1>11. OnlyAt(sequencer, sequencer', d) /\ sequencer'[d] = t
  BY <1>5, <1>7, OneAt
<1>12. OnlyAt(stores, stores', d) /\ stores'[d] = st2
  BY <1>5, <1>7, OneAt
<1>13. OnlyAt(appends, appends', d) /\ appends'[d] = none
  BY <1>5, <1>7, OneAt
<1>14. OnlyAt(failed, failed', d) /\ failed'[d] = alive
  BY <1>5, <1>7, OneAt
<1>15. OnlyAt(deliveries, deliveries', d) /\ deliveries'[d] = none
  BY <1>5, <1>7, OneAt
<1>16. OnlyAt(sent, sent', d) /\ sent'[d] = none
  BY <1>5, <1>7, OneAt
<1>17. OnlyAt(events, events', d) /\ events'[d] = none
  BY <1>5, <1>7, OneAt
<1>18. ToldSoundly(Kept(d), scene \in Hooked, t, t, st2, alive, none, none, none, none)
  <2>1. Kept(d) \in BOOLEAN /\ (scene \in Hooked) \in BOOLEAN
    BY DEF Kept, Persistent
  <2> QED
    BY <1>4, <1>8, <1>11, <2>1
<1>19. first'[d] = t
  BY DEF t
<1>20. DocumentsTell'
  BY <1>1, <1>6, <1>11, <1>12, <1>13, <1>14, <1>15, <1>16, <1>17, <1>18, <1>19, TellsAt
<1>21. LoopSound'
  BY <1>1, <1>9, <1>10, LoopStays, NothingDeliverable DEF TellInv
<1>22. HookKnows'
  BY <1>1 DEF HookKnows
<1> QED
  BY <1>20, <1>21, <1>22 DEF TellInv

(* The serve begins: nothing is told yet.                                   *)
LEMMA InitTell == Init => TellInv
<1> SUFFICES ASSUME Init PROVE TellInv
  OBVIOUS
<1>1. /\ sequencer = first
      /\ appends = [d \in Doc |-> <<>>] /\ failed = [d \in Doc |-> FALSE]
      /\ deliveries = [d \in Doc |-> <<>>] /\ sent = [d \in Doc |-> <<>>]
      /\ events = [d \in Doc |-> <<>>] /\ loop = Resting /\ hook = None
  BY DEF Init
<1>2. ServeInv
  BY InitServe
<1>3. ASSUME NEW d \in Doc PROVE TellsInOrder(d)
  <2>1. StateSound(sequencer[d])
    BY <1>2 DEF ServeInv, DocumentSound, ServedSoundly
  <2>2. \A kept, hooked \in BOOLEAN :
          ToldSoundly(kept, hooked, sequencer[d], sequencer[d], stores[d], failed[d],
                      <<>>, <<>>, <<>>, <<>>)
    BY <2>1, BeginningTells
  <2>3. Kept(d) \in BOOLEAN /\ (scene \in Hooked) \in BOOLEAN
    BY DEF Kept, Persistent
  <2>4. /\ first[d] = sequencer[d] /\ appends[d] = <<>> /\ deliveries[d] = <<>>
        /\ sent[d] = <<>> /\ events[d] = <<>>
    BY <1>1
  <2> QED
    BY <2>2, <2>3, <2>4 DEF TellsInOrder
<1>4. DocumentsTell
  BY <1>1, <1>3 DEF DocumentsTell
<1>5. HookKnows
  BY <1>1 DEF HookKnows
<1>6. LoopSound
  <2>1. \A d \in Doc : DeliverableIn(deliveries[d]) = {}
    BY <1>1, NothingDeliverable
  <2>2. /\ DOMAIN loop = {"running", "waiting", "turn"}
        /\ loop.running = FALSE /\ loop.waiting = <<>> /\ loop.turn = <<>>
    BY <1>1 DEF Resting
  <2>3. loop.waiting \in Seq(Doc) /\ loop.turn \in Seq(Doc)
    <3>1. <<>> \in Seq(Doc)
      BY EmptySeq
    <3> QED
      BY <2>2, <3>1, Zenon
  <2>4. loop.running = (loop.waiting # <<>>)
    BY <2>2, Zenon
  <2> QED
    BY <2>1, <2>2, <2>3, <2>4 DEF LoopSound
<1> QED
  BY <1>4, <1>5, <1>6 DEF TellInv

LEMMA NextTell == ServeInv /\ TellInv /\ [Next]_vars => TellInv'
<1> SUFFICES ASSUME ServeInv, TellInv, [Next]_vars PROVE TellInv'
  OBVIOUS
<1>1. CASE ClientSubmits
  BY <1>1, ClientSubmitsTell
<1>2. CASE ServerSubmits
  BY <1>2, ServerSubmitsTell
<1>3. CASE AuthorizeReturns
  BY <1>3, AuthorizeReturnsTell
<1>4. CASE HookSubmits
  BY <1>4, HookSubmitsTell
<1>5. CASE Deliver
  BY <1>5, DeliverTell
<1>6. CASE AcceptedReturns
  BY <1>6, TellsStill DEF AcceptedReturns
<1>7. ASSUME NEW d \in Doc, StoreAppends(d) PROVE TellInv'
  BY <1>7, StoreAppendsTell
<1>8. ASSUME NEW d \in Doc, StoreFails(d) PROVE TellInv'
  BY <1>8, StoreFailsTell
<1>9. ASSUME NEW d \in Doc, TurnEnds(d) PROVE TellInv'
  BY <1>9, TurnEndsTell
<1>10. ASSUME NEW d \in Doc, TakeSnapshot(d) PROVE TellInv'
  BY <1>10, TellsStill DEF TakeSnapshot
<1>11. ASSUME NEW d \in Doc, Restart(d) PROVE TellInv'
  BY <1>11, RestartTell
<1>12. CASE UNCHANGED vars
  BY <1>12, TellsStill DEF vars
<1> QED
  BY <1>1, <1>2, <1>3, <1>4, <1>5, <1>6, <1>7, <1>8, <1>9, <1>10, <1>11, <1>12 DEF Next

(* Whatever is submitted from outside or from inside a hook, whichever      *)
(* append fails and whenever a document is started again, each result that  *)
(* waits carries the entry it was made for, and no document with a result   *)
(* to deliver is off the loop's list.                                       *)
THEOREM TellInvariance == Spec => []TellInv
<1>1. Init => TellInv
  BY InitTell
<1>2. ServeInv /\ TellInv /\ [Next]_vars => TellInv'
  BY NextTell
<1> QED
  BY <1>1, <1>2, ServeInvariance, PTL DEF Spec

-----------------------------------------------------------------------------
(* What the consumer learns.                                                *)

(* The i-th of what the consumer was told, against the i-th entry fresh[i]. *)
Told(f, s, entry, event) ==
  /\ event.op = entry.op
  /\ event.revision = entry.rev
  /\ (event.origin = "server") = (entry.client = ServerClient)
  /\ event.changes = ToldOneByOne(entry.operation, At(f, s.operationLog, entry.rev - 1), entry.rev)

(* The entries accepted since, and the log they are the end of.             *)
EndOf(start, log, fresh) ==
  /\ DOMAIN fresh = 1..Len(log) - start
  /\ \A i \in 1..Len(log) - start : fresh[i] = log[start + i]

LEMMA EndOfLog ==
  ASSUME NEW log, log \in Seq(ToSet(log)), NEW start \in Nat, start <= Len(log),
         NEW fresh, fresh = SubSeq(log, start + 1, Len(log))
  PROVE  EndOf(start, log, fresh)
<1> DEFINE end == Len(log)
           m == start + 1
<1>1. /\ m \in Int /\ end \in Int /\ \A i \in m..end : log[i] \in ToSet(log)
  BY DEF ToSet
<1>2. fresh = SubSeq(log, m, end) /\ m = start + 1 /\ end \in Nat /\ start <= end
  OBVIOUS
<1> HIDE DEF m, end
<1>3. /\ SubSeq(log, m, end) \in Seq(ToSet(log))
      /\ Len(SubSeq(log, m, end)) = IF m <= end THEN end - m + 1 ELSE 0
      /\ \A i \in 1..end - m + 1 : SubSeq(log, m, end)[i] = log[m + i - 1]
  BY <1>1, SubSeqProperties
<1>4. end - m + 1 = end - start /\ (m <= end \/ end - start = 0)
  BY <1>2
<1>5. \A i \in 1..end - start : m + i - 1 = start + i
  BY <1>2
<1>6. Len(fresh) = end - start
  BY <1>2, <1>3, <1>4
<1>7. fresh \in Seq(ToSet(log))
  BY <1>2, <1>3
<1>8. DOMAIN fresh = 1..end - start
  BY <1>6, <1>7
<1>9. \A i \in 1..end - start : fresh[i] = log[start + i]
  BY <1>2, <1>3, <1>4, <1>5
<1> QED
  BY <1>8, <1>9 DEF end, EndOf

EndsWith(start, log, fresh) ==
  /\ start \in Nat /\ Len(log) \in Nat
  /\ DOMAIN fresh = 1..Len(log) - start
  /\ \A i \in DOMAIN fresh :
       /\ fresh[i] = log[start + i]
       /\ fresh[i].rev = start + i
       /\ start + i \in start+1..Len(log)

LEMMA FreshEntries ==
  ASSUME NEW f, NEW s, StateSound(s), HistorySound(f, s), NEW fresh,
         fresh = SubSeq(s.operationLog, Len(f.operationLog) + 1, Len(s.operationLog))
  PROVE  EndsWith(Len(f.operationLog), s.operationLog, fresh)
<1> DEFINE log == s.operationLog
           start == Len(f.operationLog)
<1>1. StateSound(f) /\ start <= Len(log)
  BY Zenon DEF HistorySound
<1>2. /\ start \in Nat /\ Len(log) \in Nat /\ log \in Seq(ToSet(log))
      /\ \A i \in DOMAIN log : log[i].rev = i
  BY <1>1 DEF StateSound
<1>3. fresh = SubSeq(log, start + 1, Len(log)) /\ DOMAIN log = 1..Len(log)
  BY <1>2
<1>3a. /\ DOMAIN fresh = 1..Len(log) - start
       /\ \A i \in 1..Len(log) - start : fresh[i] = log[start + i]
  <2>1. /\ log \in Seq(ToSet(log)) /\ start \in Nat /\ start <= Len(log)
        /\ fresh = SubSeq(log, start + 1, Len(log))
    BY <1>1, <1>2, <1>3
  <2> HIDE DEF log, start
  <2>2. EndOf(start, log, fresh)
    BY <2>1, EndOfLog
  <2> QED
    BY <2>2, Zenon DEF EndOf
<1> DEFINE end == Len(log)
<1>6. start \in Nat /\ end \in Nat /\ start <= end
  BY <1>1, <1>2
<1>4. /\ DOMAIN fresh = 1..end - start
      /\ \A i \in 1..end - start : fresh[i] = log[start + i]
  BY <1>3a
<1> HIDE DEF log, start, end
<1>5. \A i \in 1..end - start : start + i \in start+1..end /\ start + i \in 1..end
  BY <1>6
<1>10. \A i \in 1..end - start : fresh[i].rev = start + i
  BY <1>2, <1>3, <1>4, <1>5 DEF end
<1>11. EndsWith(start, log, fresh)
  BY <1>4, <1>5, <1>6, <1>10 DEF EndsWith, end
<1> QED
  BY <1>11 DEF log, start

LEMMA HeardIsTold ==
  ASSUME NEW f, NEW s, StateSound(s), HistorySound(f, s), NEW fresh,
         fresh = SubSeq(s.operationLog, Len(f.operationLog) + 1, Len(s.operationLog)),
         NEW i \in DOMAIN fresh, NEW event, Heard(f, s, event, i)
  PROVE  Told(f, s, fresh[i], event)
<1> DEFINE log == s.operationLog
           n == Len(f.operationLog) + i
           entry == fresh[i]
           op == entry.operation
           before == At(f, log, n - 1)
           rev == entry.rev
<1>1. /\ Len(f.operationLog) \in Nat /\ Len(log) \in Nat
      /\ entry = log[n] /\ rev = n /\ n \in Len(f.operationLog)+1..Len(log)
  <2>1. EndsWith(Len(f.operationLog), log, fresh)
    BY FreshEntries
  <2> QED
    BY <2>1 DEF EndsWith
<1>2. n - 1 \in Len(f.operationLog)..Len(log) /\ n - 1 >= Len(f.operationLog)
  <2> HIDE DEF n
  <2> QED
    BY <1>1
<1>3. /\ \A m \in Len(f.operationLog)..Len(log) : WellFormed(At(f, log, m))
      /\ \A m \in Len(f.operationLog)+1..Len(log) :
           /\ IsOperation(log[m].operation)
           /\ Violations(At(f, log, m - 1), log[m].operation) = {}
  BY Zenon DEF HistorySound
<1>4. /\ event.op = log[n].op /\ event.revision = log[n].rev
      /\ (event.origin = "server") = (log[n].client = ServerClient)
      /\ event.changes = AcceptedCellChanges(log[n].operation, before)
  BY Zenon DEF Heard
<1> HIDE DEF n
<1>5. WellFormed(before) /\ IsOperation(op) /\ Violations(before, op) = {}
  BY <1>1, <1>2, <1>3
<1>6. /\ event.op = entry.op /\ event.revision = rev
      /\ (event.origin = "server") = (entry.client = ServerClient)
      /\ event.changes = AcceptedCellChanges(op, before)
  BY <1>1, <1>4
<1>7. At(f, log, rev - 1) = before
  BY <1>1
<1> HIDE DEF op, before, rev
<1>8. AcceptedCellChanges(op, before) = ToldOneByOne(op, before, rev)
  BY <1>5, EventTellsReplaced
<1>9. event.changes = ToldOneByOne(op, At(f, log, rev - 1), rev)
  BY <1>6, <1>7, <1>8
<1>10. op = fresh[i].operation /\ rev = fresh[i].rev /\ log = s.operationLog
  BY DEF op, rev
<1> HIDE DEF log
<1> QED
  BY <1>6, <1>9, <1>10 DEF Told

LEMMA EventsOf ==
  ASSUME NEW kept, NEW hooked, NEW f, NEW s, NEW store, NEW dead, NEW waiting, NEW queue,
         NEW told, NEW heard, StateSound(s), told \in Seq(Nat),
         ToldSoundly(kept, hooked, f, s, store, dead, waiting, queue, told, heard), NEW fresh,
         fresh = SubSeq(s.operationLog, Len(f.operationLog) + 1, Len(s.operationLog))
  PROVE  /\ hooked => Len(heard) = Len(told)
         /\ \A i \in DOMAIN told : told[i] = fresh[i].rev
         /\ \A i \in DOMAIN heard : Told(f, s, fresh[i], heard[i])
<1> DEFINE start == Len(f.operationLog)
           end == Len(s.operationLog)
           len == Len(told)
<1>1. /\ HistorySound(f, s)
      /\ QueueInOrder(kept, hooked, f, s, store, dead, waiting, queue, told)
      /\ HeardInOrder(hooked, f, s, told, heard)
  BY DEF ToldSoundly
<1>2. /\ start \in Nat /\ end \in Nat /\ DOMAIN fresh = 1..end - start
      /\ \A i \in DOMAIN fresh : fresh[i].rev = start + i
  <2>1. EndsWith(start, s.operationLog, fresh)
    BY <1>1, FreshEntries
  <2> QED
    BY <2>1 DEF EndsWith
<1>3. /\ len \in Nat /\ DOMAIN told = 1..len
      /\ start + len + 1 <= end + 1
      /\ \A i \in DOMAIN told : told[i] = start + i
  BY <1>1 DEF QueueInOrder, NextTold
<1>4. /\ heard \in Seq(ToSet(heard)) /\ Len(heard) = IF hooked THEN len ELSE 0
      /\ \A i \in DOMAIN heard : Heard(f, s, heard[i], i)
  BY <1>1 DEF HeardInOrder
<1>5. DOMAIN heard \subseteq 1..len
  BY <1>3, <1>4
<1>6. 1..len \subseteq DOMAIN fresh
  <2> HIDE DEF start, end, len
  <2>1. len <= end - start
    BY <1>2, <1>3
  <2>2. 1..len \subseteq 1..end - start
    BY <1>2, <1>3, <2>1
  <2> QED
    BY <1>2, <2>2
<1>7. \A i \in DOMAIN heard : Told(f, s, fresh[i], heard[i])
  BY <1>1, <1>4, <1>5, <1>6, HeardIsTold
<1> QED
  BY <1>2, <1>3, <1>4, <1>6, <1>7

LEMMA EventsInOrder == ServeInv /\ TellInv => EventsMatchTheLog
<1> SUFFICES ASSUME ServeInv, TellInv PROVE EventsMatchTheLog
  OBVIOUS
<1>1. ASSUME NEW d \in Doc
      PROVE  /\ scene \in Hooked => Len(events[d]) = Len(sent[d])
             /\ \A i \in DOMAIN sent[d] : sent[d][i] = NewEntries(d)[i].rev
             /\ \A i \in DOMAIN events[d] :
                  Told(first[d], sequencer[d], NewEntries(d)[i], events[d][i])
  <2>1. StateSound(sequencer[d]) /\ sent[d] \in Seq(Nat)
    BY DEF ServeInv, DocumentSound, ServedSoundly, ResultsSound
  <2>2. ToldSoundly(Kept(d), scene \in Hooked, first[d], sequencer[d], stores[d], failed[d],
                    appends[d], deliveries[d], sent[d], events[d])
    BY DEF TellInv, DocumentsTell, TellsInOrder
  <2>3. NewEntries(d) = SubSeq(sequencer[d].operationLog, Len(first[d].operationLog) + 1,
                               Len(sequencer[d].operationLog))
    BY DEF NewEntries
  <2> QED
    BY <2>1, <2>2, <2>3, EventsOf
<1> QED
  BY <1>1, Zenon DEF EventsMatchTheLog, Told, ToldOneByOne, DocumentAt, At

(* A change saw what it replaced, by the entry that carries it.             *)
SawBefore(f, s, entry, k) ==
  LET ch == entry.operation.changes[k]
  IN  ValueIn(At(f, s.operationLog, ch.before), ch.row, ch.col)
        = ValueIn(At(f, s.operationLog, entry.rev - 1), ch.row, ch.col)

(* A change behind f that names the revision its writer saw.                *)
WritesBehind(f, s, n, k) ==
  /\ n \in Len(f.operationLog)+1..Len(s.operationLog)
  /\ s.operationLog[n].rev = n
  /\ s.operationLog[n].operation.type = "setCells"
  /\ k \in DOMAIN s.operationLog[n].operation.changes
  /\ s.operationLog[n].operation.changes[k].before # NoBefore

(* Such a change saw what it replaced.                                      *)
LEMMA SawBeforeAt ==
  ASSUME NEW f, NEW s, StateSound(s), HistorySound(f, s), NEW n, NEW k, WritesBehind(f, s, n, k)
  PROVE  SawBefore(f, s, s.operationLog[n], k)
  BY SawWhatItReplaced DEF WritesBehind, SawBefore

(* And so did every change of the entries behind f.                         *)
LEMMA SeenBefore ==
  ASSUME NEW f, NEW s, StateSound(s), HistorySound(f, s), NEW fresh,
         fresh = SubSeq(s.operationLog, Len(f.operationLog) + 1, Len(s.operationLog)),
         NEW i \in DOMAIN fresh, fresh[i].operation.type = "setCells",
         NEW k \in DOMAIN fresh[i].operation.changes,
         fresh[i].operation.changes[k].before # NoBefore
  PROVE  SawBefore(f, s, fresh[i], k)
<1> DEFINE n == Len(f.operationLog) + i
<1>1. /\ fresh[i] = s.operationLog[n] /\ fresh[i].rev = n
      /\ n \in Len(f.operationLog)+1..Len(s.operationLog)
  <2>1. EndsWith(Len(f.operationLog), s.operationLog, fresh)
    BY FreshEntries
  <2> QED
    BY <2>1 DEF EndsWith
<1> HIDE DEF n
<1>2. WritesBehind(f, s, n, k)
  BY <1>1 DEF WritesBehind
<1>3. SawBefore(f, s, s.operationLog[n], k)
  BY <1>2, SawBeforeAt
<1> QED
  BY <1>1, <1>3

LEMMA NoLostUpdate == ServeInv /\ TellInv => WriterSawWhatItReplaced
<1> SUFFICES ASSUME ServeInv, TellInv PROVE WriterSawWhatItReplaced
  OBVIOUS
<1>1. ASSUME NEW d \in Doc, NEW i \in DOMAIN NewEntries(d),
             NewEntries(d)[i].operation.type = "setCells",
             NEW k \in DOMAIN NewEntries(d)[i].operation.changes,
             NewEntries(d)[i].operation.changes[k].before # NoBefore
      PROVE  SawBefore(first[d], sequencer[d], NewEntries(d)[i], k)
  <2> DEFINE fresh == NewEntries(d)
             f == first[d]
             s == sequencer[d]
  <2>1. StateSound(s)
    BY DEF ServeInv, DocumentSound, ServedSoundly
  <2>2. HistorySound(f, s)
    BY DEF TellInv, DocumentsTell, TellsInOrder, ToldSoundly
  <2>3. fresh = SubSeq(s.operationLog, Len(f.operationLog) + 1, Len(s.operationLog))
    BY DEF NewEntries
  <2>4. /\ i \in DOMAIN fresh /\ fresh[i].operation.type = "setCells"
        /\ k \in DOMAIN fresh[i].operation.changes
        /\ fresh[i].operation.changes[k].before # NoBefore
    BY <1>1
  <2> HIDE DEF fresh, f, s
  <2>5. SawBefore(f, s, fresh[i], k)
    BY <2>1, <2>2, <2>3, <2>4, SeenBefore
  <2> QED
    BY <2>5 DEF fresh, f, s
<1> QED
  BY <1>1, Zenon DEF WriterSawWhatItReplaced, SawBefore, DocumentAt, At

LEMMA NothingIsLeft == TellInv => NothingLeftBehind
<1> SUFFICES ASSUME TellInv, ~loop.running, NEW d \in Doc PROVE DeliverableIn(deliveries[d]) = {}
  BY DEF NothingLeftBehind
<1>1. loop.waiting = <<>>
  BY DEF TellInv, LoopSound
<1>2. ToSet(loop.waiting) = {}
  BY <1>1 DEF ToSet
<1> QED
  BY <1>2 DEF TellInv, LoopSound

(* The consumer of the server is told the log: each accepted operation      *)
(* once, in order, after it was sent, with the values its writer replaced   *)
(* and saw, whatever is submitted from inside its own hooks; and when the   *)
(* loop rests nothing that may go is left behind.                           *)
THEOREM ConsumerHearsTheLog == Spec => []EventsTellTheLog
<1>1. ServeInv /\ TellInv => EventsTellTheLog
  BY EventsInOrder, NoLostUpdate, NothingIsLeft DEF EventsTellTheLog
<1> QED
  BY <1>1, ServeInvariance, TellInvariance, PTL

-----------------------------------------------------------------------------
(* What is exported.                                                        *)

(* An exported snapshot is of a revision of the document served: the        *)
(* document at that revision and the log up to it.                          *)
ExportSound(f, s, x) ==
  LET log == s.operationLog
      n   == x.currentRevision
  IN  /\ DOMAIN x = SequencerFields
      /\ n \in Len(f.operationLog)..Len(log)
      /\ x.operationLog = SubSeq(log, 1, n)
      /\ x.document = SerializeDocument(At(f, log, n))

ExportInv ==
  /\ DOMAIN exported = Doc
  /\ \A d \in Doc : ExportSound(first[d], sequencer[d], exported[d])

LEMMA ExportTaken ==
  ASSUME NEW f, NEW s, StateSound(s), HistorySound(f, s)
  PROVE  ExportSound(f, s, SerializeSnapshot(s))
<1> DEFINE log == s.operationLog
           x == SerializeSnapshot(s)
<1>1. /\ DOMAIN x = SequencerFields /\ x.currentRevision = s.currentRevision
      /\ x.operationLog = log /\ x.document = SerializeDocument(s.document)
  BY DEF SerializeSnapshot, SequencerFields
<1>2. StateSound(f) /\ Len(f.operationLog) <= Len(log) /\ s.document = At(f, log, Len(log))
  BY Zenon DEF HistorySound
<1>3. /\ s.currentRevision = Len(log) /\ Len(log) \in Nat /\ Len(f.operationLog) \in Nat
      /\ log \in Seq(ToSet(log))
  BY <1>2 DEF StateSound
<1>4. SubSeq(log, 1, Len(log)) = log
  BY <1>3
<1>5. Len(log) \in Len(f.operationLog)..Len(log)
  BY <1>2, <1>3
<1> HIDE DEF x, log
<1>6. ExportSound(f, s, x)
  BY <1>1, <1>2, <1>3, <1>4, <1>5 DEF ExportSound, log
<1> QED
  BY <1>6 DEF x

(* A log that took one entry or none.                                       *)
GrowsByOne(s, t) ==
  t.operationLog = s.operationLog \/ \E y : t.operationLog = Append(s.operationLog, y)

(* What was exported before stays true of the longer log.                   *)
LEMMA ExportStays ==
  ASSUME NEW f, NEW s, StateSound(s), HistorySound(f, s), NEW t, GrowsByOne(s, t),
         NEW x, ExportSound(f, s, x)
  PROVE  ExportSound(f, t, x)
<1>1. CASE t.operationLog = s.operationLog
  BY <1>1 DEF ExportSound
<1>2. CASE \E y : t.operationLog = Append(s.operationLog, y)
  <2> PICK y : t.operationLog = Append(s.operationLog, y)
    BY <1>2
  <2> DEFINE log == s.operationLog
             longer == t.operationLog
             n == x.currentRevision
             a == Len(f.operationLog)
             m == Len(log)
             T == ToSet(log) \cup {y}
  <2>1. StateSound(f) /\ a <= m
    BY Zenon DEF HistorySound
  <2>2. a \in Nat /\ m \in Nat /\ log \in Seq(ToSet(log)) /\ longer = Append(log, y)
    BY <2>1 DEF StateSound
  <2>3. /\ DOMAIN x = SequencerFields /\ n \in a..m /\ x.operationLog = SubSeq(log, 1, n)
        /\ x.document = SerializeDocument(At(f, log, n))
    BY DEF ExportSound
  <2>4. /\ log \in Seq(T) /\ longer \in Seq(T) /\ Len(longer) = m + 1
        /\ \A i \in 1..m : longer[i] = log[i]
    BY <2>2
  <2> HIDE DEF log, longer
  <2>5. \A k \in 0..Len(log) : At(f, longer, k) = At(f, log, k)
    <3>1. Grown(f, log, y, longer)
      BY <2>1, <2>2, AtGrows
    <3> QED
      BY <3>1 DEF Grown
  <2> HIDE DEF n, a, m
  <2>6. n \in 0..m /\ n \in a..m + 1 /\ n \in Int /\ n >= 0
    BY <2>2, <2>3
  <2>7. SubSeq(longer, 1, n) = SubSeq(log, 1, n)
    <3>1. \A i \in 1..n : longer[i] = log[i] /\ longer[i] \in T
      BY <2>2, <2>4, <2>6 DEF m
    <3>2. /\ SubSeq(longer, 1, n) \in Seq(T) /\ Len(SubSeq(longer, 1, n)) = n
          /\ \A i \in 1..n : SubSeq(longer, 1, n)[i] = longer[i]
      BY <2>6, <3>1, SubSeqProperties
    <3>3. /\ SubSeq(log, 1, n) \in Seq(T) /\ Len(SubSeq(log, 1, n)) = n
          /\ \A i \in 1..n : SubSeq(log, 1, n)[i] = log[i]
      BY <2>6, <3>1, SubSeqProperties
    <3> QED
      BY <2>6, <3>1, <3>2, <3>3
  <2>8. At(f, longer, n) = At(f, log, n)
    BY <2>5, <2>6 DEF m
  <2> QED
    BY <2>3, <2>4, <2>6, <2>7, <2>8 DEF ExportSound, log, longer, n, a, m
<1> QED
  BY <1>1, <1>2 DEF GrowsByOne

LEMMA SubmittedGrows ==
  ASSUME NEW s, DOMAIN s = SequencerFields, NEW e, NEW verdict
  PROVE  GrowsByOne(s, Submitted(s, e, verdict))
<1>1. CASE verdict \in {"duplicate", "client-sequence-violation"}
  BY <1>1 DEF Submitted, GrowsByOne
<1>2. CASE verdict = "accepted"
  <2>1. Submitted(s, e, verdict) = Accepted(s, e)
    BY <1>2 DEF Submitted
  <2> QED
    BY <2>1, AcceptedFields DEF GrowsByOne
<1>3. CASE verdict \notin {"duplicate", "client-sequence-violation", "accepted"}
  <2>1. Submitted(s, e, verdict) \in {Consumed(s, e), Noop(s, e)}
    BY <1>3 DEF Submitted
  <2> QED
    BY <2>1, OtherFields DEF GrowsByOne
<1> QED
  BY <1>1, <1>2, <1>3

(* Nothing is exported or served anew, and every log takes one entry or     *)
(* none.                                                                    *)
LogsGrow ==
  /\ scene' = scene /\ first' = first /\ exported' = exported
  /\ \A d \in Doc : GrowsByOne(sequencer[d], sequencer'[d])

LEMMA EnterGrows ==
  ASSUME ServeInv, NEW d \in Doc, NEW e, NEW origin, NEW before, NEW revision, NEW granted,
         Enter(d, sequencer[d], e, origin, before, revision, granted), OnSubmit
  PROVE  LogsGrow
<1> DEFINE after == Submitted(sequencer[d], e, Judged(sequencer[d], e, granted))
<1>1. sequencer' = [sequencer EXCEPT ![d] = after]
  BY Zenon DEF Enter
<1>2. DOMAIN sequencer = Doc /\ DOMAIN sequencer[d] = SequencerFields
  BY DEF ServeInv, TablesOfDocuments, DocumentSound, ServedSoundly, StateSound
<1>3. GrowsByOne(sequencer[d], after)
  BY <1>2, SubmittedGrows
<1> HIDE DEF after
<1>4. \A x \in Doc : GrowsByOne(sequencer[x], sequencer'[x])
  BY <1>1, <1>2, <1>3 DEF GrowsByOne
<1> QED
  BY <1>4 DEF LogsGrow, OnSubmit

LEMMA StandingGrows ==
  ASSUME scene' = scene, first' = first, exported' = exported, sequencer' = sequencer
  PROVE  LogsGrow
  BY DEF LogsGrow, GrowsByOne

LEMMA SubmitGrows ==
  ASSUME ServeInv, NEW d \in Doc, NEW op, SubmitFromServer(d, op), OnSubmit
  PROVE  LogsGrow
<1>1. CASE Kept(d) /\ failed[d]
  <2>1. sequencer' = sequencer
    BY <1>1 DEF SubmitFromServer, Poisoned
  <2> QED
    BY <2>1, StandingGrows DEF OnSubmit
<1>2. CASE ~(Kept(d) /\ failed[d])
  <2>1. Enter(d, sequencer[d], Envelope(d, ServerClient, op), "server", Before(d),
              sequencer[d].currentRevision, TRUE)
    BY <1>2, Zenon DEF SubmitFromServer
  <2> QED
    BY <2>1, EnterGrows
<1> QED
  BY <1>1, <1>2

LEMMA ClientSubmitsGrows == ServeInv /\ ClientSubmits => LogsGrow
<1> SUFFICES ASSUME ServeInv, ClientSubmits PROVE LogsGrow
  OBVIOUS
<1>1. OnSubmit
  BY DEF ClientSubmits
<1>2. PICK d \in Doc, op \in ClientOperation[scene] :
        \/ Poisoned(d, Envelope(d, Author, op), "client", Before(d))
        \/ Enter(d, sequencer[d], Envelope(d, Author, op), "client", None,
                 sequencer[d].currentRevision, TRUE)
        \/ sequencer' = [sequencer EXCEPT ![d] = Consumed(@, Envelope(d, Author, op))]
  BY Zenon DEF ClientSubmits
<1> DEFINE e == Envelope(d, Author, op)
<1> HIDE DEF e
<1>3. CASE Poisoned(d, e, "client", Before(d))
  BY <1>1, <1>3, StandingGrows DEF Poisoned, OnSubmit
<1>4. CASE Enter(d, sequencer[d], e, "client", None, sequencer[d].currentRevision, TRUE)
  BY <1>1, <1>4, EnterGrows
<1>5. CASE sequencer' = [sequencer EXCEPT ![d] = Consumed(@, e)]
  <2>1. DOMAIN sequencer = Doc /\ DOMAIN sequencer[d] = SequencerFields
    BY DEF ServeInv, TablesOfDocuments, DocumentSound, ServedSoundly, StateSound
  <2>2. GrowsByOne(sequencer[d], Consumed(sequencer[d], e))
    BY <2>1, OtherFields DEF GrowsByOne
  <2>3. \A x \in Doc : GrowsByOne(sequencer[x], sequencer'[x])
    BY <1>5, <2>1, <2>2 DEF GrowsByOne
  <2> QED
    BY <1>1, <2>3 DEF LogsGrow, OnSubmit
<1> QED
  BY <1>2, <1>3, <1>4, <1>5 DEF e

LEMMA HookSubmitsGrows == ServeInv /\ HookSubmits => LogsGrow
<1> SUFFICES ASSUME ServeInv, HookSubmits PROVE LogsGrow
  OBVIOUS
<1>1. OnSubmit
  BY DEF HookSubmits
<1>2. sequencer' = sequencer \/ \E d \in Doc, op \in ServerOperation[scene] : SubmitFromServer(d, op)
  BY DEF HookSubmits
<1> QED
  BY <1>1, <1>2, StandingGrows, SubmitGrows DEF OnSubmit

LEMMA ExportsStay == ServeInv /\ TellInv /\ ExportInv /\ LogsGrow => ExportInv'
<1> SUFFICES ASSUME ServeInv, TellInv, ExportInv, LogsGrow PROVE ExportInv'
  OBVIOUS
<1>1. /\ scene' = scene /\ first' = first /\ exported' = exported
      /\ \A d \in Doc : GrowsByOne(sequencer[d], sequencer'[d])
  BY DEF LogsGrow
<1>2. Doc' = Doc
  BY <1>1 DEF Doc
<1>3. ASSUME NEW d \in Doc PROVE ExportSound(first[d], sequencer'[d], exported[d])
  <2>1. StateSound(sequencer[d]) /\ HistorySound(first[d], sequencer[d])
    BY DEF ServeInv, DocumentSound, ServedSoundly, TellInv, DocumentsTell, TellsInOrder, ToldSoundly
  <2>2. ExportSound(first[d], sequencer[d], exported[d]) /\ GrowsByOne(sequencer[d], sequencer'[d])
    BY <1>1 DEF ExportInv
  <2> QED
    BY <2>1, <2>2, ExportStays
<1> QED
  BY <1>1, <1>2, <1>3 DEF ExportInv

LEMMA ExportsTaken ==
  ASSUME ServeInv, TellInv, ExportInv, NEW d \in Doc, TakeSnapshot(d)
  PROVE  ExportInv'
<1>1. /\ scene' = scene /\ first' = first /\ sequencer' = sequencer
      /\ exported' = [exported EXCEPT ![d] = SerializeSnapshot(sequencer[d])]
  BY DEF TakeSnapshot
<1>2. Doc' = Doc
  BY <1>1 DEF Doc
<1>3. DOMAIN exported = Doc /\ \A x \in Doc : ExportSound(first[x], sequencer[x], exported[x])
  BY DEF ExportInv
<1>4. StateSound(sequencer[d]) /\ HistorySound(first[d], sequencer[d])
  BY DEF ServeInv, DocumentSound, ServedSoundly, TellInv, DocumentsTell, TellsInOrder, ToldSoundly
<1>5. ExportSound(first[d], sequencer[d], SerializeSnapshot(sequencer[d]))
  BY <1>4, ExportTaken
<1>6. /\ DOMAIN exported' = Doc /\ exported'[d] = SerializeSnapshot(sequencer[d])
      /\ \A x \in Doc \ {d} : exported'[x] = exported[x]
  BY <1>1, <1>3
<1>7. \A x \in Doc : ExportSound(first[x], sequencer[x], exported'[x])
  BY <1>3, <1>5, <1>6
<1> QED
  BY <1>1, <1>2, <1>6, <1>7 DEF ExportInv

(* A document just served.                                                  *)
LEMMA ExportBegins ==
  ASSUME NEW s, StateSound(s)
  PROVE  ExportSound(s, s, SerializeSnapshot(s))
  BY HistoryBegins, ExportTaken

LEMMA ExportsRestart ==
  ASSUME ServeInv, ServeInv', ExportInv, NEW d \in Doc, Restart(d)
  PROVE  ExportInv'
<1>1. PICK new : first' = [first EXCEPT ![d] = new]
  BY DEF Restart
<1>2. /\ scene' = scene /\ sequencer' = [sequencer EXCEPT ![d] = first'[d]]
      /\ exported' = [exported EXCEPT ![d] = SerializeSnapshot(first'[d])]
  BY DEF Restart
<1>3. DOMAIN first = Doc /\ DOMAIN sequencer = Doc
  BY DEF ServeInv, TablesOfDocuments
<1>4. DOMAIN exported = Doc /\ \A x \in Doc : ExportSound(first[x], sequencer[x], exported[x])
  BY DEF ExportInv
<1>5. Doc' = Doc
  BY <1>2 DEF Doc
<1>6. StateSound(sequencer'[d])
  BY <1>5 DEF ServeInv, DocumentSound, ServedSoundly
<1>7. sequencer'[d] = first'[d] /\ exported'[d] = SerializeSnapshot(first'[d])
  BY <1>2, <1>3, <1>4
<1>8. ExportSound(first'[d], sequencer'[d], exported'[d])
  BY <1>6, <1>7, ExportBegins
<1>9. \A x \in Doc \ {d} :
        first'[x] = first[x] /\ sequencer'[x] = sequencer[x] /\ exported'[x] = exported[x]
  BY <1>1, <1>2, <1>3, <1>4
<1>10. \A x \in Doc : ExportSound(first'[x], sequencer'[x], exported'[x])
  BY <1>4, <1>8, <1>9
<1>11. DOMAIN exported' = Doc
  BY <1>2, <1>4
<1> QED
  BY <1>5, <1>10, <1>11 DEF ExportInv

LEMMA InitExports == Init => ExportInv
<1> SUFFICES ASSUME Init PROVE ExportInv
  OBVIOUS
<1>1. /\ sequencer = first /\ exported = [d \in Doc |-> SerializeSnapshot(first[d])]
  BY DEF Init
<1>2. \A d \in Doc : StateSound(sequencer[d])
  BY InitServe DEF ServeInv, DocumentSound, ServedSoundly
<1>3. \A d \in Doc : ExportSound(first[d], sequencer[d], exported[d])
  BY <1>1, <1>2, ExportBegins
<1> QED
  BY <1>1, <1>3 DEF ExportInv

LEMMA NextExports ==
  ServeInv /\ ServeInv' /\ TellInv /\ ExportInv /\ [Next]_vars => ExportInv'
<1> SUFFICES ASSUME ServeInv, ServeInv', TellInv, ExportInv, [Next]_vars PROVE ExportInv'
  OBVIOUS
<1>1. CASE ClientSubmits
  BY <1>1, ClientSubmitsGrows, ExportsStay
<1>2. CASE ServerSubmits
  BY <1>2, SubmitGrows, ExportsStay DEF ServerSubmits
<1>3. CASE AuthorizeReturns
  <2>1. hook.doc \in Doc
    BY <1>3 DEF AuthorizeReturns, ServeInv, HookSound
  <2> QED
    BY <1>3, <2>1, EnterGrows, ExportsStay DEF AuthorizeReturns
<1>4. CASE HookSubmits
  BY <1>4, HookSubmitsGrows, ExportsStay
<1>5. CASE Deliver
  BY <1>5, StandingGrows, ExportsStay DEF Deliver
<1>6. CASE AcceptedReturns
  BY <1>6, StandingGrows, ExportsStay DEF AcceptedReturns
<1>7. ASSUME NEW d \in Doc, StoreAppends(d) PROVE ExportInv'
  BY <1>7, StandingGrows, ExportsStay DEF StoreAppends
<1>8. ASSUME NEW d \in Doc, StoreFails(d) PROVE ExportInv'
  BY <1>8, StandingGrows, ExportsStay DEF StoreFails
<1>9. ASSUME NEW d \in Doc, TurnEnds(d) PROVE ExportInv'
  BY <1>9, StandingGrows, ExportsStay DEF TurnEnds
<1>10. ASSUME NEW d \in Doc, TakeSnapshot(d) PROVE ExportInv'
  BY <1>10, ExportsTaken
<1>11. ASSUME NEW d \in Doc, Restart(d) PROVE ExportInv'
  BY <1>11, ExportsRestart
<1>12. CASE UNCHANGED vars
  BY <1>12, StandingGrows, ExportsStay DEF vars
<1> QED
  BY <1>1, <1>2, <1>3, <1>4, <1>5, <1>6, <1>7, <1>8, <1>9, <1>10, <1>11, <1>12 DEF Next

(* Every exported snapshot is the document at a revision and the log up to  *)
(* it, whatever was accepted since.                                         *)
THEOREM ExportInvariance == Spec => []ExportInv
<1>1. Init => ExportInv
  BY InitExports
<1>2. ServeInv /\ ServeInv' /\ TellInv /\ ExportInv /\ [Next]_vars => ExportInv'
  BY NextExports
<1> QED
  BY <1>1, <1>2, ServeInvariance, TellInvariance, PTL DEF Spec

-----------------------------------------------------------------------------
(* The integrity check of a snapshot.                                       *)

(* x is what a serve that began empty exports at document doc.              *)
IsExport(x, doc) ==
  /\ DOMAIN x = SequencerFields
  /\ WellFormed(doc)
  /\ x.document = SerializeDocument(doc)
  /\ x.operationLog \in Seq(ToSet(x.operationLog))
  /\ \A i \in DOMAIN x.operationLog : x.operationLog[i].rev = i
  /\ Replay(EmptyDocument, x.operationLog) = doc
  /\ x.currentRevision = Len(x.operationLog)
  /\ doc.revision = x.currentRevision

LEMMA ExportPasses ==
  ASSUME NEW x, NEW doc, IsExport(x, doc)
  PROVE  VerifySnapshotIntegrity(x)
<1>1. DeserializeDocument(x.document) = doc /\ x.document.revision = doc.revision
  BY SnapshotRoundTrip DEF IsExport
<1>2. StructuralMatch(doc, doc)
  BY DEF StructuralMatch
<1> QED
  BY <1>1, <1>2, Zenon DEF VerifySnapshotIntegrity, IsExport

(* What the check compares, read off a snapshot that passed it.             *)
LEMMA PassedCheck ==
  ASSUME NEW t, VerifySnapshotIntegrity(t), NEW restored, restored = DeserializeDocument(t.document),
         NEW replay, replay = Replay(EmptyDocument, t.operationLog)
  PROVE  /\ HashedContent(restored) = HashedContent(replay)
         /\ t.currentRevision = Len(t.operationLog)
         /\ restored.rowOrder = replay.rowOrder
         /\ \A i \in DOMAIN restored.rowOrder :
              Tombstoned(restored, restored.rowOrder[i]) = Tombstoned(replay, restored.rowOrder[i])
  BY Zenon DEF VerifySnapshotIntegrity, StructuralMatch

(* A revision too high, with or without that of the document.               *)
LEMMA RevisionShows ==
  ASSUME NEW x, NEW doc, IsExport(x, doc), NEW t,
         t.operationLog = x.operationLog, t.currentRevision = x.currentRevision + 1
  PROVE  ~VerifySnapshotIntegrity(t)
<1>1. Len(x.operationLog) \in Nat /\ x.currentRevision = Len(x.operationLog)
  BY DEF IsExport
<1>2. t.currentRevision # Len(t.operationLog)
  BY <1>1
<1> QED
  BY <1>2, PassedCheck

(* A log that lost its last entry.                                          *)
LEMMA LostEntryShows ==
  ASSUME NEW x, NEW doc, IsExport(x, doc), x.operationLog # <<>>, NEW t,
         t.operationLog = Front(x.operationLog), t.currentRevision = x.currentRevision
  PROVE  ~VerifySnapshotIntegrity(t)
<1> DEFINE log == x.operationLog
           m == Len(log)
<1>1. log \in Seq(ToSet(log)) /\ m \in Nat /\ x.currentRevision = m /\ m # 0
  BY DEF IsExport
<1>2. \A i \in 1..m - 1 : log[i] \in ToSet(log)
  BY <1>1 DEF ToSet
<1>3. Front(log) = SubSeq(log, 1, m - 1)
  BY DEF Front
<1> HIDE DEF log, m
<1>4. Len(SubSeq(log, 1, m - 1)) = IF 1 <= m - 1 THEN (m - 1) - 1 + 1 ELSE 0
  BY <1>1, <1>2, SubSeqProperties
<1>5. Len(Front(log)) # m
  BY <1>1, <1>3, <1>4
<1> QED
  BY <1>1, <1>5, PassedCheck DEF log

(* What the restored document of a changed snapshot has.                    *)
LEMMA RestoredFields ==
  ASSUME NEW data
  PROVE  /\ DeserializeDocument(data).rowOrder = data.rowOrder
         /\ DeserializeDocument(data).row = data.row
  BY DEF DeserializeDocument

(* Rows in another order.                                                   *)
LEMMA OrderShows ==
  ASSUME NEW x, NEW doc, IsExport(x, doc), Len(doc.rowOrder) >= 2, NEW t,
         t.operationLog = x.operationLog, t.document.rowOrder = Reverse(doc.rowOrder)
  PROVE  ~VerifySnapshotIntegrity(t)
<1> DEFINE order == doc.rowOrder
           m == Len(order)
<1>1. order \in Seq(DOMAIN doc.row) /\ IsInjective(order) /\ m \in Nat /\ m >= 2
  BY DEF IsExport, WellFormed, OrderSound
<1>2. Reverse(order)[1] = order[m]
  BY <1>1 DEF Reverse
<1>3. order[1] # order[m]
  <2>1. 1 \in DOMAIN order /\ m \in DOMAIN order /\ m # 1
    BY <1>1
  <2> HIDE DEF order, m
  <2> QED
    BY <1>1, <2>1 DEF IsInjective
<1>4. Reverse(order) # order
  BY <1>2, <1>3
<1>5. Replay(EmptyDocument, t.operationLog) = doc
  BY DEF IsExport
<1> QED
  BY <1>4, <1>5, RestoredFields, PassedCheck

(* A deleted row that is shown, or the reverse.                             *)
LEMMA TombstoneShows ==
  ASSUME NEW x, NEW doc, IsExport(x, doc), NEW r \in DOMAIN doc.row, NEW t,
         t.operationLog = x.operationLog, t.document.rowOrder = doc.rowOrder,
         r \in DOMAIN t.document.row,
         t.document.row[r].tombstone = ~doc.row[r].tombstone
  PROVE  ~VerifySnapshotIntegrity(t)
<1> DEFINE order == doc.rowOrder
           restored == DeserializeDocument(t.document)
<1>1. order \in Seq(DOMAIN doc.row) /\ ToSet(order) = DOMAIN doc.row
  BY DEF IsExport, WellFormed, OrderSound
<1>2. PICK i \in DOMAIN order : order[i] = r
  BY <1>1 DEF ToSet
<1>3. doc.row[r].tombstone \in BOOLEAN
  BY DEF IsExport, WellFormed, SlotsSound, RowMeta
<1>4. restored.row = t.document.row /\ restored.rowOrder = order
  BY RestoredFields
<1> HIDE DEF restored
<1>5. Tombstoned(restored, r) # Tombstoned(doc, r)
  BY <1>3, <1>4 DEF Tombstoned, Known
<1>6. Replay(EmptyDocument, t.operationLog) = doc
  BY DEF IsExport
<1> SUFFICES ASSUME VerifySnapshotIntegrity(t) PROVE FALSE
  OBVIOUS
<1>7. \A j \in DOMAIN restored.rowOrder :
        Tombstoned(restored, restored.rowOrder[j]) = Tombstoned(doc, restored.rowOrder[j])
  BY <1>6, PassedCheck DEF restored
<1> QED
  BY <1>2, <1>4, <1>5, <1>7

(* The cells that are hashed.                                               *)
HashedCells(doc) ==
  {rc \in ToSet(doc.rowOrder) \X Column :
     /\ ~Tombstoned(doc, rc[1])
     /\ CellKey(doc, rc[1], rc[2]) \in DOMAIN doc.cell
     /\ doc.cell[CellKey(doc, rc[1], rc[2])].value # Blank}

HashedCell(doc) == [rc \in HashedCells(doc) |-> doc.cell[CellKey(doc, rc[1], rc[2])]]

LEMMA HashTellsCells ==
  ASSUME NEW a, NEW b, HashedContent(a) = HashedContent(b)
  PROVE  HashedCell(a) = HashedCell(b)
<1>1. HashedContent(a).cell = HashedCell(a) /\ HashedContent(b).cell = HashedCell(b)
  BY DEF HashedContent, HashedCell, HashedCells
<1> QED
  BY <1>1

(* A cell of another value.                                                 *)
LEMMA HashTellsValues ==
  ASSUME NEW a, NEW b, NEW r, NEW c \in Column, r \in ToSet(a.rowOrder), r \in ToSet(b.rowOrder),
         ~Tombstoned(a, r), ~Tombstoned(b, r),
         CellKey(a, r, c) \in DOMAIN a.cell, CellKey(b, r, c) \in DOMAIN b.cell,
         a.cell[CellKey(a, r, c)].value # b.cell[CellKey(b, r, c)].value
  PROVE  HashedContent(a) # HashedContent(b)
<1> DEFINE rc == <<r, c>>
<1>1. rc \in HashedCells(a) <=> a.cell[CellKey(a, r, c)].value # Blank
  BY DEF HashedCells
<1>2. rc \in HashedCells(b) <=> b.cell[CellKey(b, r, c)].value # Blank
  BY DEF HashedCells
<1>3. rc \in HashedCells(a) => HashedCell(a)[rc] = a.cell[CellKey(a, r, c)]
  BY DEF HashedCell
<1>4. rc \in HashedCells(b) => HashedCell(b)[rc] = b.cell[CellKey(b, r, c)]
  BY DEF HashedCell
<1>5. DOMAIN HashedCell(a) = HashedCells(a) /\ DOMAIN HashedCell(b) = HashedCells(b)
  BY DEF HashedCell
<1> HIDE DEF rc
<1>6. HashedCell(a) # HashedCell(b)
  BY <1>1, <1>2, <1>3, <1>4, <1>5
<1> QED
  BY <1>6, HashTellsCells

LEMMA CellShows ==
  ASSUME NEW x, NEW doc, IsExport(x, doc), NEW rc \in DOMAIN x.document.cell,
         ~doc.row[rc[1]].tombstone, NEW v, v # x.document.cell[rc].value, NEW t,
         t.operationLog = x.operationLog, t.document.rowOrder = doc.rowOrder,
         t.document.row = doc.row, DOMAIN t.document.cell = DOMAIN x.document.cell,
         t.document.cell[rc].value = v
  PROVE  ~VerifySnapshotIntegrity(t)
<1> DEFINE data == x.document
           r == rc[1]
           c == rc[2]
           k == CellKey(doc, r, c)
           restored == DeserializeDocument(t.document)
           keyOf(p) == <<t.document.row[p[1]].slot, p[2]>>
<1>1. /\ DOMAIN data.cell = {p \in (DOMAIN doc.row) \X Column : CellKey(doc, p[1], p[2]) \in DOMAIN doc.cell}
      /\ data.cell[rc] = doc.cell[k]
  BY DEF IsExport, SerializeDocument
<1>2. rc = <<r, c>> /\ r \in DOMAIN doc.row /\ c \in Column /\ k \in DOMAIN doc.cell
  BY <1>1
<1>3. /\ \A p, q \in DOMAIN doc.row : p # q => doc.row[p].slot # doc.row[q].slot
      /\ ToSet(doc.rowOrder) = DOMAIN doc.row
  BY DEF IsExport, WellFormed, SlotsSound, OrderSound
<1>4. \A p \in DOMAIN t.document.cell : keyOf(p) = k => p = rc
  <2> SUFFICES ASSUME NEW p \in DOMAIN t.document.cell, keyOf(p) = k PROVE p = rc
    OBVIOUS
  <2>1. p \in (DOMAIN doc.row) \X Column
    BY <1>1
  <2>2. doc.row[p[1]].slot = doc.row[r].slot /\ p[2] = c
    BY DEF CellKey
  <2> QED
    BY <1>2, <1>3, <2>1, <2>2
<1>5. keyOf(rc) = k /\ rc \in DOMAIN t.document.cell
  BY <1>2 DEF CellKey
<1> DEFINE chosen(q) == CHOOSE p \in DOMAIN t.document.cell : keyOf(p) = q
           keys == {keyOf(p) : p \in DOMAIN t.document.cell}
<1>6. chosen(k) = rc /\ k \in keys
  BY <1>4, <1>5
<1>7. restored.cell = [q \in keys |-> t.document.cell[chosen(q)]]
  BY DEF DeserializeDocument
<1> HIDE DEF restored, k, chosen, keys
<1>8. k \in DOMAIN restored.cell /\ restored.cell[k] = t.document.cell[rc]
  BY <1>6, <1>7
<1> USE DEF restored
<1>9. restored.row = doc.row /\ restored.rowOrder = doc.rowOrder
  BY RestoredFields
<1> HIDE DEF restored, k, r, c
<1>10. CellKey(restored, r, c) = k
  BY <1>9 DEF CellKey, k
<1>11. /\ r \in ToSet(doc.rowOrder) /\ r \in ToSet(restored.rowOrder)
       /\ ~Tombstoned(doc, r) /\ ~Tombstoned(restored, r)
  BY <1>2, <1>3, <1>9 DEF Tombstoned, Known, r
<1>12. restored.cell[k].value # doc.cell[k].value
  BY <1>1, <1>8
<1>13. HashedContent(restored) # HashedContent(doc)
  BY <1>2, <1>8, <1>10, <1>11, <1>12, HashTellsValues DEF k
<1>14. Replay(EmptyDocument, t.operationLog) = doc
  BY DEF IsExport
<1> QED
  BY <1>13, <1>14, PassedCheck DEF restored

LEMMA TamperingShows ==
  ASSUME NEW x, NEW doc, IsExport(x, doc), NEW t \in Tampered(x)
  PROVE  ~VerifySnapshotIntegrity(t)
<1> DEFINE data == x.document
<1>1. /\ DOMAIN x = {"document", "operationLog", "currentRevision", "ackCache", "clientSequenceTable"}
      /\ DOMAIN data = {"revision", "rowOrder", "row", "cell"}
      /\ data.rowOrder = doc.rowOrder /\ data.row = doc.row
  BY DEF IsExport, SequencerFields, SerializeDocument
<1>2. doc.row \in [DOMAIN doc.row -> RowMeta]
  BY DEF IsExport, WellFormed, SlotsSound
<1>3. CASE t = [x EXCEPT !.currentRevision = @ + 1]
  <2>1. t.operationLog = x.operationLog /\ t.currentRevision = x.currentRevision + 1
    BY <1>1, <1>3
  <2> QED
    BY <2>1, RevisionShows
<1>4. CASE t = [x EXCEPT !.currentRevision = @ + 1, !.document.revision = @ + 1]
  <2>1. t.operationLog = x.operationLog /\ t.currentRevision = x.currentRevision + 1
    BY <1>1, <1>4
  <2> QED
    BY <2>1, RevisionShows
<1>5. CASE x.operationLog # <<>> /\ t = [x EXCEPT !.operationLog = Front(@)]
  <2>1. t.operationLog = Front(x.operationLog) /\ t.currentRevision = x.currentRevision
    BY <1>1, <1>5
  <2> QED
    BY <1>5, <2>1, LostEntryShows
<1>6. CASE ~(Len(data.rowOrder) < 2) /\ t = [x EXCEPT !.document.rowOrder = Reverse(@)]
  <2>1. t.operationLog = x.operationLog /\ t.document.rowOrder = Reverse(doc.rowOrder)
    BY <1>1, <1>6
  <2>2. Len(doc.rowOrder) >= 2
    <3>1. Len(doc.rowOrder) \in Nat
      BY DEF IsExport, WellFormed, OrderSound
    <3> QED
      BY <1>1, <1>6, <3>1
  <2> QED
    BY <2>1, <2>2, OrderShows
<1>7. ASSUME NEW r \in DOMAIN data.row, t = [x EXCEPT !.document.row[r].tombstone = ~@]
      PROVE  ~VerifySnapshotIntegrity(t)
  <2>1. r \in DOMAIN doc.row /\ DOMAIN doc.row[r] = {"slot", "tombstone", "rev"}
    BY <1>1, <1>2, <1>7 DEF RowMeta
  <2>2. t.operationLog = x.operationLog /\ t.document.rowOrder = doc.rowOrder
    BY <1>1, <1>7
  <2>3. t.document.row = [doc.row EXCEPT ![r].tombstone = ~@]
    BY <1>1, <1>7
  <2>4. r \in DOMAIN t.document.row /\ t.document.row[r].tombstone = ~doc.row[r].tombstone
    BY <2>1, <2>3
  <2> QED
    BY <2>1, <2>2, <2>4, TombstoneShows
<1>8. ASSUME NEW rc \in DOMAIN data.cell, NEW v, ~data.row[rc[1]].tombstone,
             v # data.cell[rc].value,
             t = [x EXCEPT !.document.cell[rc] = [value |-> v, rev |-> @.rev]]
      PROVE  ~VerifySnapshotIntegrity(t)
  <2>1. /\ t.operationLog = x.operationLog /\ t.document.rowOrder = doc.rowOrder
        /\ t.document.row = doc.row
    BY <1>1, <1>8
  <2>2. t.document.cell = [data.cell EXCEPT ![rc] = [value |-> v, rev |-> @.rev]]
    BY <1>1, <1>8
  <2>3. DOMAIN t.document.cell = DOMAIN data.cell /\ t.document.cell[rc].value = v
    BY <1>8, <2>2
  <2>4. ~doc.row[rc[1]].tombstone
    BY <1>1, <1>8
  <2> QED
    BY <1>8, <2>1, <2>3, <2>4, CellShows
<1>9. \/ t = [x EXCEPT !.currentRevision = @ + 1]
      \/ t = [x EXCEPT !.currentRevision = @ + 1, !.document.revision = @ + 1]
      \/ x.operationLog # <<>> /\ t = [x EXCEPT !.operationLog = Front(@)]
      \/ ~(Len(data.rowOrder) < 2) /\ t = [x EXCEPT !.document.rowOrder = Reverse(@)]
      \/ \E r \in DOMAIN data.row : t = [x EXCEPT !.document.row[r].tombstone = ~@]
      \/ \E rcv \in (DOMAIN data.cell) \X (Value \cup {Blank}) :
           /\ ~data.row[rcv[1][1]].tombstone /\ rcv[2] # data.cell[rcv[1]].value
           /\ t = [x EXCEPT !.document.cell[rcv[1]] = [value |-> rcv[2], rev |-> @.rev]]
  BY Zenon DEF Tampered
<1>10. ASSUME NEW rcv \in (DOMAIN data.cell) \X (Value \cup {Blank}),
              ~data.row[rcv[1][1]].tombstone, rcv[2] # data.cell[rcv[1]].value,
              t = [x EXCEPT !.document.cell[rcv[1]] = [value |-> rcv[2], rev |-> @.rev]]
       PROVE  ~VerifySnapshotIntegrity(t)
  <2>1. rcv[1] \in DOMAIN data.cell
    BY <1>10
  <2> QED
    BY <1>8, <1>10, <2>1
<1> QED
  BY <1>3, <1>4, <1>5, <1>6, <1>7, <1>9, <1>10

(* A serve that began empty.                                                *)
LEMMA ExportOfEmpty ==
  ASSUME NEW f, NEW s, StateSound(s), HistorySound(f, s), f.document = EmptyDocument,
         NEW x, ExportSound(f, s, x)
  PROVE  /\ Len(f.operationLog) = 0
         /\ x.currentRevision \in 0..Len(s.operationLog)
         /\ IsExport(x, At(f, s.operationLog, x.currentRevision))
         /\ Replay(EmptyDocument, s.operationLog) = s.document
         /\ At(f, s.operationLog, x.currentRevision)
              = Replay(EmptyDocument, SubSeq(s.operationLog, 1, x.currentRevision))
<1> DEFINE log == s.operationLog
           n == x.currentRevision
           m == Len(log)
           doc == At(f, log, n)
<1>1. /\ StateSound(f) /\ s.document = At(f, log, m)
      /\ \A k \in Len(f.operationLog)..m : WellFormed(At(f, log, k)) /\ At(f, log, k).revision = k
  BY Zenon DEF HistorySound
<1>2. Len(f.operationLog) = 0
  <2>1. EmptyDocument.revision = 0
    BY DEF EmptyDocument
  <2> QED
    BY <1>1, <2>1 DEF StateSound
<1>3. /\ log \in Seq(ToSet(log)) /\ m \in Nat
      /\ \A i \in DOMAIN log : log[i].rev = i
  BY DEF StateSound
<1>4. /\ DOMAIN x = SequencerFields /\ n \in 0..m /\ x.operationLog = SubSeq(log, 1, n)
      /\ x.document = SerializeDocument(doc)
  BY <1>2 DEF ExportSound
<1>5. \A k : At(f, log, k) = Replay(EmptyDocument, SubSeq(log, 1, k))
  BY <1>2 DEF At
<1>6. SubSeq(log, 1, m) = log
  BY <1>3
<1>7. WellFormed(doc) /\ doc.revision = n
  BY <1>1, <1>2, <1>4
<1> HIDE DEF log, n, m, doc
<1>8. n \in Int /\ n >= 0 /\ \A i \in 1..n : log[i] \in ToSet(log) /\ log[i].rev = i
  BY <1>3, <1>4 DEF m, ToSet
<1> DEFINE part == SubSeq(log, 1, n)
<1>9. part \in Seq(ToSet(log)) /\ Len(part) = n /\ \A i \in 1..n : part[i] = log[i]
  BY <1>8, SubSeqProperties
<1> HIDE DEF part
<1>10. part \in Seq(ToSet(part)) /\ DOMAIN part = 1..n
  BY <1>8, <1>9, SeqSelf
<1>11. x.operationLog = part /\ Replay(EmptyDocument, part) = doc
  BY <1>4, <1>5 DEF part, doc
<1>12. IsExport(x, doc)
  BY <1>4, <1>7, <1>8, <1>9, <1>10, <1>11 DEF IsExport, n
<1>13. Replay(EmptyDocument, log) = s.document
  BY <1>1, <1>5, <1>6 DEF m
<1> QED
  BY <1>2, <1>4, <1>5, <1>12, <1>13 DEF log, n, m, doc

(* What is said of one exported snapshot x of a serve in state s.           *)
ExportedRight(s, x) ==
  /\ ~SnapshotRejected(x.document)
  /\ Replay(DeserializeSnapshot(x).document, OperationsSince(s, x.currentRevision)) = s.document
  /\ Replay(EmptyDocument, s.operationLog) = s.document
  /\ VerifySnapshotIntegrity(x)
  /\ \A t \in Tampered(x) : ~VerifySnapshotIntegrity(t)

LEMMA ExportIsRight ==
  ASSUME NEW f, NEW s, StateSound(s), HistorySound(f, s), f.document = EmptyDocument,
         NEW x, ExportSound(f, s, x)
  PROVE  ExportedRight(s, x)
<1> DEFINE log == s.operationLog
           n == x.currentRevision
           doc == At(f, log, n)
<1>1. /\ n \in 0..Len(log) /\ IsExport(x, doc)
      /\ Replay(EmptyDocument, log) = s.document
      /\ doc = Replay(EmptyDocument, SubSeq(log, 1, n))
  BY ExportOfEmpty
<1>2. log \in Seq(ToSet(log)) /\ \A i \in DOMAIN log : log[i].rev = i
  BY DEF StateSound
<1> HIDE DEF doc, n
<1>3. /\ WellFormed(doc) /\ x.document = SerializeDocument(doc) /\ DOMAIN x = SequencerFields
  BY <1>1 DEF IsExport
<1>4. ~SnapshotRejected(x.document) /\ DeserializeDocument(x.document) = doc
  BY <1>3, SnapshotRoundTrip
<1>5. DeserializeSnapshot(x).document = doc
  BY <1>3, <1>4 DEF DeserializeSnapshot, SequencerFields
<1>6. OperationsSince(s, n) = SubSeq(log, n + 1, Len(log))
  BY <1>1, <1>2, SinceIsTail
<1>7. Replay(doc, SubSeq(log, n + 1, Len(log))) = Replay(EmptyDocument, log)
  BY <1>1, <1>2, ReplayContinues
<1>8. VerifySnapshotIntegrity(x) /\ \A t \in Tampered(x) : ~VerifySnapshotIntegrity(t)
  BY <1>1, ExportPasses, TamperingShows
<1> QED
  BY <1>1, <1>4, <1>5, <1>6, <1>7, <1>8 DEF ExportedRight, n

(* Of a document first served empty, an exported snapshot and the log after *)
(* it give the document that is served, as the whole log does; the          *)
(* integrity check passes what is exported, and none of the ways to change  *)
(* it that Tampered lists.                                                  *)
THEOREM SnapshotsAreFaithful == Spec => []SnapshotPlusTailIsDocument
<1>1. ServeInv /\ TellInv /\ ExportInv => SnapshotPlusTailIsDocument
  <2> SUFFICES ASSUME ServeInv, TellInv, ExportInv, NEW d \in Doc, first[d].document = EmptyDocument
               PROVE  ExportedRight(sequencer[d], exported[d])
    BY Zenon DEF SnapshotPlusTailIsDocument, ExportedRight
  <2>1. StateSound(sequencer[d]) /\ HistorySound(first[d], sequencer[d])
    BY DEF ServeInv, DocumentSound, ServedSoundly, TellInv, DocumentsTell, TellsInOrder, ToldSoundly
  <2>2. ExportSound(first[d], sequencer[d], exported[d])
    BY DEF ExportInv
  <2> QED
    BY <2>1, <2>2, ExportIsRight
<1> QED
  BY <1>1, ServeInvariance, TellInvariance, ExportInvariance, PTL
=============================================================================
