------------------------ MODULE HostedDocumentsProofs ------------------------
(***************************************************************************)
(* Every document of a serve stays sound, and its stores hold what was     *)
(* accepted: proofs about HostedDocuments for any number of documents,     *)
(* rows, operations, failures and restarts.                                *)
(*                                                                         *)
(* The lemmas speak of one document: where it begins, an operation that    *)
(* enters it, an append that ends, a result that is delivered.  What the   *)
(* actions of the serve do is put together from them at the end.           *)
(***************************************************************************)
EXTENDS HostedDocuments, DocumentLemmas

-----------------------------------------------------------------------------
(* Where a document begins.                                                 *)

(* The document without rows is one.                                        *)
LEMMA EmptyWellFormed == WellFormed(EmptyDocument) /\ EmptyDocument.revision = 0
<1> DEFINE e == EmptyDocument
<1>1. /\ e.revision = 0 /\ e.rowOrder = <<>> /\ e.row = <<>> /\ e.cell = <<>>
      /\ e.maxSlot = -1 /\ IsDocument(e)
  BY DocumentFields DEF EmptyDocument
<1>2. DOMAIN <<>> = {} /\ ToSet(<<>>) = {} /\ <<>> = [k \in {} |-> <<>>[k]]
  BY DEF ToSet
<1>3. OrderSound(e)
  BY <1>1, <1>2 DEF OrderSound, IsInjective
<1>4. SlotsSound(e)
  BY <1>1, <1>2 DEF SlotsSound
<1>5. CellsSound(e)
  BY <1>1, <1>2 DEF CellsSound
<1> QED
  BY <1>1, <1>3, <1>4, <1>5 DEF WellFormed

(* Nothing is known to it.                                                  *)
LEMMA NothingKnown == \A r : ~Known(EmptyDocument, r)
  BY DEF Known, EmptyDocument

(* The rows an insertion leaves.                                            *)
LEMMA InsertedRows ==
  ASSUME NEW doc, IsDocument(doc), NEW after, NEW rows, NEW revision
  PROVE  DOMAIN ApplyInsertRows(doc, after, rows, revision).row = DOMAIN doc.row \cup ToSet(rows)
<1> DEFINE next == ApplyInsertRows(doc, after, rows, revision)
           added == ToSet(rows)
           at == InsertionPoint(doc, after)
           indexOf(r) == IndexIn(rows, r)
<1>1. /\ IsDocument(next)
      /\ next.revision = revision
      /\ next.rowOrder = Spliced(doc.rowOrder, at, rows)
      /\ DOMAIN next.row = DOMAIN doc.row \cup added
      /\ next.row = [r \in DOMAIN next.row |-> next.row[r]]
      /\ \A r \in added : next.row[r] =
           [slot |-> doc.maxSlot + indexOf(r), tombstone |-> FALSE, rev |-> revision]
      /\ \A r \in DOMAIN doc.row \ added : next.row[r] = doc.row[r]
      /\ next.maxSlot = doc.maxSlot + Len(rows)
      /\ next.cell = doc.cell
  BY InsertRowsFields
<1> QED
  BY <1>1

(* The first rows of the consumer make a document of revision 0.            *)
LEMMA BuiltWellFormed ==
  ASSUME NEW rows, rows \in Seq(ToSet(rows)), ~InitialDocumentRefused(rows)
  PROVE  WellFormed(BuildInitialDocument(rows)) /\ BuildInitialDocument(rows).revision = 0
<1>1. CASE rows = <<>>
  BY <1>1, EmptyWellFormed DEF BuildInitialDocument
<1>2. CASE rows # <<>>
  <2> DEFINE ids == [i \in DOMAIN rows |-> rows[i].row]
             op == InsertRows(Top, ids)
             shown == ApplyInsertRows(EmptyDocument, Top, ids, 0)
             written == {ic \in (DOMAIN rows) \X Column : ic[2] \in DOMAIN rows[ic[1]].cells}
             cells == [k \in {CellKey(shown, rows[ic[1]].row, ic[2]) : ic \in written} |->
                        [value |-> rows[CHOOSE i \in DOMAIN rows :
                                          shown.row[rows[i].row].slot = k[1]].cells[k[2]],
                         rev   |-> 0]]
             built == [shown EXCEPT !.cell = cells]
  <2>1. BuildInitialDocument(rows) = built
    BY <1>2 DEF BuildInitialDocument
  <2>2. DOMAIN rows = 1..Len(rows) /\ Len(rows) \in Nat
    OBVIOUS
  <2>3. DOMAIN ids = 1..Len(rows) /\ ids \in Seq({rows[i].row : i \in DOMAIN rows})
    BY <2>2
  <2>4. ids \in Seq(ToSet(ids))
    BY <2>3, SeqSelf
  <2>5. op.type = "insertRows" /\ op.after = Top /\ op.rows = ids
    BY DEF InsertRows
  <2>6. IsOperation(op)
    BY <2>4, <2>5 DEF IsOperation
  <2>7. InsertRowsViolations(EmptyDocument, Top, ids) = {}
    <3>1. AnchorIndexes(EmptyDocument, Top) # {}
      BY DEF AnchorIndexes
    <3>2. \A i \in DOMAIN ids : ~Known(EmptyDocument, ids[i])
      BY NothingKnown
    <3>3. \A i \in DOMAIN ids : \A j \in 1..i-1 : ids[j] # ids[i]
      BY <2>2 DEF InitialDocumentRefused
    <3> QED
      BY <3>1, <3>2, <3>3 DEF InsertRowsViolations
  <2>8. Violations(EmptyDocument, op) = {}
    BY <2>5, <2>7 DEF Violations
  <2>9. WellFormed(shown) /\ shown.revision = 0
    BY <2>5, <2>6, <2>8, EmptyWellFormed, InsertRowsWellFormed
  <2>10. DOMAIN shown.row = DOMAIN EmptyDocument.row \cup ToSet(ids)
    <3>1. IsDocument(EmptyDocument)
      BY EmptyWellFormed DEF WellFormed
    <3> HIDE DEF ids
    <3>2. DOMAIN ApplyInsertRows(EmptyDocument, Top, ids, 0).row
            = DOMAIN EmptyDocument.row \cup ToSet(ids)
      BY <3>1, InsertedRows
    <3> QED
      BY <3>2
  <2>11. \A i \in DOMAIN rows : rows[i].row \in DOMAIN shown.row
    BY <2>2, <2>3, <2>10 DEF ToSet
  <2>12. /\ cells = [k \in DOMAIN cells |-> cells[k]]
         /\ \A k \in DOMAIN cells :
              \E r \in DOMAIN shown.row, c \in Column : k = CellKey(shown, r, c)
         /\ \A k \in DOMAIN cells : cells[k].rev = 0
    <3>1. DOMAIN cells = {CellKey(shown, rows[ic[1]].row, ic[2]) : ic \in written}
      OBVIOUS
    <3>2. \A ic \in written : rows[ic[1]].row \in DOMAIN shown.row /\ ic[2] \in Column
      BY <2>11
    <3> HIDE DEF shown, written
    <3>3. \A k \in DOMAIN cells :
              \E r \in DOMAIN shown.row, c \in Column : k = CellKey(shown, r, c)
      BY <3>1, <3>2
    <3>4. \A k \in DOMAIN cells : cells[k].rev = 0
      OBVIOUS
    <3> QED
      BY <3>3, <3>4
  <2> HIDE DEF shown, cells
  <2>13. /\ IsDocument(built) /\ built.revision = shown.revision
         /\ built.rowOrder = shown.rowOrder /\ built.row = shown.row
         /\ built.cell = cells /\ built.maxSlot = shown.maxSlot
    <3>1. IsDocument(shown)
      BY <2>9 DEF WellFormed
    <3> QED
      BY <3>1, Zenon DEF IsDocument
  <2> HIDE DEF built
  <2>14. OrderSound(built) /\ SlotsSound(built)
    BY <2>9, <2>13 DEF WellFormed, OrderSound, SlotsSound
  <2>15. CellsSound(built)
    BY <2>9, <2>12, <2>13 DEF CellsSound, CellKey
  <2> QED
    BY <2>1, <2>9, <2>13, <2>14, <2>15 DEF WellFormed
<1> QED
  BY <1>1, <1>2

-----------------------------------------------------------------------------
(* An operation enters.                                                     *)

(* The document and its store after an operation took a revision.           *)
LEMMA StoreAfterAccept ==
  ASSUME NEW s, StateSound(s), NEW store, StoreSound(s, store),
         NEW t, StateSound(t), NEW x,
         t.operationLog = Append(s.operationLog, x),
         t.document = ApplyOperation(s.document, x.operation, x.rev)
  PROVE  StoreSound(t, store)
<1> DEFINE log == s.operationLog
           base == BaseOf(store)
<1>1. /\ log \in Seq(ToSet(log)) /\ store.log \in Seq(ToSet(store.log))
      /\ Len(log) \in Nat /\ Len(store.log) \in Nat /\ Len(store.log) <= Len(log)
      /\ DOMAIN store.log = 1..Len(store.log)
      /\ ReplaysSoundly(base, log) /\ s.document = Replay(base, log)
  BY DEF StateSound, StoreSound
<1>2. Len(t.operationLog) = Len(log) + 1 /\ \A i \in 1..Len(log) : t.operationLog[i] = log[i]
  BY <1>1
<1>3. WellFormed(t.document) /\ t.document.revision = Len(log) + 1
  BY <1>2 DEF StateSound
<1> HIDE DEF log, base
<1>4. ReplaysSoundly(base, t.operationLog) /\ Replay(base, t.operationLog) = t.document
  <2>1. t.operationLog = Append(log, x)
    BY DEF log
  <2>2. t.document = ApplyOperation(Replay(base, log), x.operation, x.rev)
    BY <1>1
  <2> QED
    BY <1>1, <1>3, <2>1, <2>2, ReplayAppend
<1>5. \A i \in DOMAIN store.log : store.log[i] = t.operationLog[i]
  <2> SUFFICES ASSUME NEW i \in DOMAIN store.log PROVE store.log[i] = t.operationLog[i]
    OBVIOUS
  <2>1. i \in 1..Len(log)
    BY <1>1
  <2> QED
    BY <1>2, <2>1 DEF StoreSound, log
<1>6. Len(store.log) <= Len(t.operationLog)
  BY <1>1, <1>2
<1> QED
  BY <1>4, <1>5, <1>6 DEF StoreSound, base

(* Nothing is accepted: all of it stays.                                    *)
LEMMA StoreAfterOther ==
  ASSUME NEW s, NEW store, StoreSound(s, store), NEW t,
         t.operationLog = s.operationLog, t.document = s.document
  PROVE  StoreSound(t, store)
  BY DEF StoreSound

(* The parts of a result.                                                   *)
LEMMA ResultFields ==
  ASSUME NEW e, NEW origin, NEW before, NEW state, NEW waits, NEW entries
  PROVE  /\ Result(e, origin, before, state, waits, entries).id = e.op
         /\ Result(e, origin, before, state, waits, entries).state = state
         /\ Result(e, origin, before, state, waits, entries).waits = waits
         /\ Result(e, origin, before, state, waits, entries).entries = entries
         /\ DOMAIN Result(e, origin, before, state, waits, entries)
              = {"id", "origin", "before", "state", "waits", "entries"}
  BY DEF Result

(* The elements of a sequence with one more at its end.                     *)
LEMMA LastIsNew ==
  ASSUME NEW S, NEW s \in Seq(S), NEW x
  PROVE  /\ DOMAIN Append(s, x) = 1..Len(s) + 1 /\ Len(s) \in Nat
         /\ Append(s, x)[Len(s) + 1] = x
         /\ \A k \in DOMAIN Append(s, x) :
              Append(s, x)[k] = x \/ (k \in DOMAIN s /\ Append(s, x)[k] = s[k])
<1> DEFINE T == S \cup {x}
           t == Append(s, x)
<1>1. s \in Seq(T) /\ x \in T /\ Len(s) \in Nat /\ DOMAIN s = 1..Len(s)
  OBVIOUS
<1> HIDE DEF T
<1>2. /\ t \in Seq(T) /\ DOMAIN t = 1..Len(s) + 1 /\ t[Len(s) + 1] = x
      /\ \A k \in 1..Len(s) : t[k] = s[k]
  BY <1>1
<1> HIDE DEF t
<1>3. \A k \in DOMAIN t : t[k] = x \/ (k \in DOMAIN s /\ t[k] = s[k])
  <2> SUFFICES ASSUME NEW k \in DOMAIN t
               PROVE  t[k] = x \/ (k \in DOMAIN s /\ t[k] = s[k])
    OBVIOUS
  <2>1. k = Len(s) + 1 \/ k \in 1..Len(s)
    BY <1>1, <1>2
  <2> QED
    BY <1>1, <1>2, <2>1
<1> QED
  BY <1>1, <1>2, <1>3 DEF t

(* A result with an id of its own may be added, and its append with it.     *)
LEMMA ResultAdded ==
  ASSUME NEW kept, NEW store, NEW waiting, NEW queue, NEW told, NEW n,
         ResultsSound(kept, store, waiting, queue, told, n),
         NEW r, DOMAIN r = {"id", "origin", "before", "state", "waits", "entries"},
         r.id \in 1..n,
         \A i \in DOMAIN queue : queue[i].id # r.id,
         \A k \in DOMAIN waiting : waiting[k].id # r.id,
         r.waits \in {"turn", "throw"} => r.entries = <<>>,
         r.entries # <<>> => r.entries[1].rev \in Nat,
         kept /\ r.state = "ready" => r.entries = <<>>,
         NEW a, a.id = r.id, a.entries = r.entries,
         NEW longer \in {waiting, Append(waiting, a)}
  PROVE  ResultsSound(kept, store, longer, Append(queue, r), told, n)
<1> DEFINE q == Append(queue, r)
           m == Len(queue)
<1> HIDE DEF q, m
<1>2. /\ queue \in Seq(ToSet(queue)) /\ m \in Nat /\ DOMAIN queue = 1..m
      /\ waiting \in Seq(ToSet(waiting)) /\ Len(waiting) \in Nat
      /\ DOMAIN waiting = 1..Len(waiting)
  BY DEF ResultsSound, m
<1>3. /\ q \in Seq(ToSet(q)) /\ DOMAIN q = 1..m + 1 /\ q[m + 1] = r
      /\ \A i \in 1..m : q[i] = queue[i]
  BY <1>2, AppendElements DEF q, m
<1>4. longer \in Seq(ToSet(longer))
  <2>1. Append(waiting, a) \in Seq(ToSet(Append(waiting, a)))
    BY <1>2, AppendElements
  <2> QED
    BY <1>2, <2>1
<1>5. \A k \in DOMAIN longer : longer[k] = a \/ (k \in DOMAIN waiting /\ longer[k] = waiting[k])
  <2>1. CASE longer = waiting
    BY <2>1
  <2>2. CASE longer = Append(waiting, a)
    <3>1. \A k \in DOMAIN Append(waiting, a) :
            Append(waiting, a)[k] = a \/ (k \in DOMAIN waiting /\ Append(waiting, a)[k] = waiting[k])
      BY <1>2, LastIsNew
    <3> QED
      BY <2>2, <3>1
  <2> QED
    BY <2>1, <2>2
<1>6. \A i \in 1..m + 1 : q[i] = r \/ (i \in DOMAIN queue /\ q[i] = queue[i])
  BY <1>2, <1>3
<1>7. \A i \in DOMAIN q : ResultSound(kept, store, q[i], n)
  <2>1. ResultSound(kept, store, r, n)
    BY DEF ResultSound
  <2>2. \A i \in DOMAIN queue : ResultSound(kept, store, queue[i], n)
    BY DEF ResultsSound
  <2> QED
    BY <1>3, <1>6, <2>1, <2>2
<1>8. \A i, j \in DOMAIN q : q[i].id = q[j].id => i = j
  <2> SUFFICES ASSUME NEW i \in DOMAIN q, NEW j \in DOMAIN q, q[i].id = q[j].id PROVE i = j
    OBVIOUS
  <2>1. i \in 1..m \/ i = m + 1
    BY <1>2, <1>3
  <2>2. j \in 1..m \/ j = m + 1
    BY <1>2, <1>3
  <2>3. i \in 1..m => q[i].id # r.id /\ q[i] = queue[i]
    BY <1>2, <1>3
  <2>4. j \in 1..m => q[j].id # r.id /\ q[j] = queue[j]
    BY <1>2, <1>3
  <2> QED
    BY <1>2, <1>3, <2>1, <2>2, <2>3, <2>4 DEF ResultsSound
<1>9. \A k \in DOMAIN longer :
        /\ longer[k].id \in 1..n
        /\ \A i \in DOMAIN q : q[i].id = longer[k].id => q[i].entries = longer[k].entries
  <2> SUFFICES ASSUME NEW k \in DOMAIN longer
               PROVE  /\ longer[k].id \in 1..n
                      /\ \A i \in DOMAIN q :
                           q[i].id = longer[k].id => q[i].entries = longer[k].entries
    OBVIOUS
  <2>1. CASE longer[k] = a
    BY <1>3, <1>6, <2>1
  <2>2. CASE k \in DOMAIN waiting /\ longer[k] = waiting[k]
    <3>1. /\ waiting[k].id \in 1..n /\ waiting[k].id # r.id
          /\ \A i \in DOMAIN queue :
               queue[i].id = waiting[k].id => queue[i].entries = waiting[k].entries
      BY <2>2 DEF ResultsSound
    <3>2. \A i \in DOMAIN q : q[i].id = waiting[k].id => q[i].entries = waiting[k].entries
      BY <1>3, <1>6, <3>1
    <3> QED
      BY <2>2, <3>1, <3>2
  <2> QED
    BY <1>5, <2>1, <2>2
<1>10. /\ told \in Seq(Nat)
       /\ kept => \A i \in DOMAIN told : told[i] <= Len(store.log)
  BY DEF ResultsSound
<1>11. ResultsSound(kept, store, longer, q, told, n)
  BY <1>3, <1>4, <1>7, <1>8, <1>9, <1>10, Zenon DEF ResultsSound
<1> QED
  BY <1>11 DEF q

(* A result that waits for the store, with its append.                      *)
LEMMA AppendAdded ==
  ASSUME NEW kept, NEW store, NEW waiting, NEW queue, NEW told, NEW n,
         ResultsSound(kept, store, waiting, queue, told, n),
         NEW e, e.op \in 1..n, NEW origin, NEW before, NEW entries,
         \A i \in DOMAIN queue : queue[i].id # e.op,
         \A k \in DOMAIN waiting : waiting[k].id # e.op,
         entries # <<>> => entries[1].rev \in Nat
  PROVE  ResultsSound(kept, store, Append(waiting, [id |-> e.op, entries |-> entries]),
                      Append(queue, Result(e, origin, before, "pending", "store", entries)),
                      told, n)
<1> DEFINE r == Result(e, origin, before, "pending", "store", entries)
           a == [id |-> e.op, entries |-> entries]
<1>1. /\ r.id = e.op /\ r.state = "pending" /\ r.waits = "store" /\ r.entries = entries
      /\ DOMAIN r = {"id", "origin", "before", "state", "waits", "entries"}
  BY ResultFields
<1>2. a.id = e.op /\ a.entries = entries
  OBVIOUS
<1>3. "store" \notin {"turn", "throw"} /\ "pending" # "ready"
  OBVIOUS
<1> HIDE DEF r, a
<1>4. ResultsSound(kept, store, Append(waiting, a), Append(queue, r), told, n)
  BY <1>1, <1>2, <1>3, ResultAdded
<1> QED
  BY <1>4 DEF r, a

(* A result that appends nothing.                                           *)
LEMMA AnswerAdded ==
  ASSUME NEW kept, NEW store, NEW waiting, NEW queue, NEW told, NEW n,
         ResultsSound(kept, store, waiting, queue, told, n),
         NEW e, e.op \in 1..n, NEW origin, NEW before, NEW state, NEW waits, NEW entries,
         \A i \in DOMAIN queue : queue[i].id # e.op,
         \A k \in DOMAIN waiting : waiting[k].id # e.op,
         waits \in {"turn", "throw"} => entries = <<>>,
         entries # <<>> => entries[1].rev \in Nat,
         kept /\ state = "ready" => entries = <<>>
  PROVE  ResultsSound(kept, store, waiting,
                      Append(queue, Result(e, origin, before, state, waits, entries)), told, n)
<1> DEFINE r == Result(e, origin, before, state, waits, entries)
           a == [id |-> e.op, entries |-> entries]
<1>1. /\ r.id = e.op /\ r.state = state /\ r.waits = waits /\ r.entries = entries
      /\ DOMAIN r = {"id", "origin", "before", "state", "waits", "entries"}
  BY ResultFields
<1>2. a.id = e.op /\ a.entries = entries
  OBVIOUS
<1>3. waiting \in {waiting, Append(waiting, a)}
  OBVIOUS
<1> HIDE DEF r, a
<1>4. ResultsSound(kept, store, waiting, Append(queue, r), told, n)
  BY <1>1, <1>2, <1>3, ResultAdded
<1> QED
  BY <1>4 DEF r

(* What the sequencer says.                                                 *)
LEMMA JudgedMeaning ==
  ASSUME NEW s, NEW e, IsOperation(e.operation), NEW granted,
         Judged(s, e, granted) = "accepted"
  PROVE  Violations(s.document, e.operation) = {}
<1>1. Violations(s.document, e.operation) # {} =>
        PrimaryRejectCode(Violations(s.document, e.operation)) \in RejectCodes
  BY RejectedWithCode
<1>2. "accepted" \notin RejectCodes
  BY DEF RejectCodes
<1> QED
  BY <1>1, <1>2 DEF Judged
(* What waits for the store after one more entry was accepted.              *)
LEMMA AppendsAfterAccept ==
  ASSUME NEW s, StateSound(s), NEW store, StoreSound(s, store), NEW dead,
         NEW waiting, waiting \in Seq(ToSet(waiting)), AppendsSound(s, store, waiting, dead),
         NEW t, NEW x, t.operationLog = Append(s.operationLog, x),
         NEW a, a.entries = <<x>>
  PROVE  AppendsSound(t, store, Append(waiting, a), dead)
<1> DEFINE log == s.operationLog
           more == Append(waiting, a)
           c == Len(store.log)
           w == Len(waiting)
<1> SUFFICES ASSUME ~dead
             PROVE  /\ Len(t.operationLog) = c + Len(more)
                    /\ \A k \in DOMAIN more : more[k].entries = <<t.operationLog[c + k]>>
  BY DEF AppendsSound
<1>1. /\ log \in Seq(ToSet(log)) /\ Len(log) \in Nat /\ c \in Nat /\ w \in Nat
      /\ DOMAIN log = 1..Len(log)
      /\ Len(log) = c + w
      /\ \A k \in DOMAIN waiting : waiting[k].entries = <<log[c + k]>>
  BY DEF StateSound, StoreSound, AppendsSound
<1> HIDE DEF log, c, w, more
<1>2. /\ DOMAIN t.operationLog = 1..Len(log) + 1 /\ Len(t.operationLog) = Len(log) + 1
      /\ t.operationLog[Len(log) + 1] = x
      /\ \A i \in 1..Len(log) : t.operationLog[i] = log[i]
  <2>1. t.operationLog = Append(log, x)
    BY DEF log
  <2> QED
    BY <1>1, <2>1
<1>3. /\ DOMAIN waiting = 1..w /\ DOMAIN more = 1..w + 1 /\ Len(more) = w + 1
      /\ more[w + 1] = a /\ \A k \in 1..w : more[k] = waiting[k]
  BY LastIsNew DEF more, w
<1>4. \A k \in 1..w + 1 : more[k].entries = <<t.operationLog[c + k]>>
  <2> SUFFICES ASSUME NEW k \in 1..w + 1 PROVE more[k].entries = <<t.operationLog[c + k]>>
    OBVIOUS
  <2>1. CASE k = w + 1
    <3>1. c + k = Len(log) + 1
      BY <1>1, <2>1
    <3> QED
      BY <1>2, <1>3, <2>1, <3>1
  <2>2. CASE k \in 1..w
    <3>1. c + k \in 1..Len(log)
      BY <1>1, <2>2
    <3> QED
      BY <1>1, <1>2, <1>3, <2>2, <3>1
  <2>3. k = w + 1 \/ k \in 1..w
    BY <1>1
  <2> QED
    BY <2>1, <2>2, <2>3
<1>5. Len(t.operationLog) = c + Len(more)
  BY <1>1, <1>2, <1>3
<1>6. \A k \in DOMAIN more : more[k].entries = <<t.operationLog[c + k]>>
  BY <1>3, <1>4
<1> QED
  BY <1>5, <1>6

(* What Enter does to one document: t, w2 and q2 are its next state.        *)
EntersAs(kept, s, waiting, queue, e, origin, before, granted, verdict, t, entries, made, w2, q2) ==
  /\ verdict = Judged(s, e, granted)
  /\ t = Submitted(s, e, verdict)
  /\ entries = IF verdict = "accepted" THEN <<Last(t.operationLog)>> ELSE <<>>
  /\ made = OperationsSince(t, s.currentRevision)
  /\ kept => /\ w2 = IF made = <<>> THEN waiting
                     ELSE Append(waiting, [id |-> e.op, entries |-> made])
             /\ q2 = Append(queue, Result(e, origin, before, "pending",
                                          IF made = <<>> THEN "turn" ELSE "store", entries))
  /\ ~kept => /\ w2 = waiting
              /\ q2 = Append(queue, Result(e, origin, before, "ready", "none", entries))

(* An operation enters a sound document.                                    *)
LEMMA EnterSound ==
  ASSUME NEW kept \in BOOLEAN, NEW s, NEW store, NEW waiting, NEW dead, NEW queue, NEW told,
         NEW n, ServedSoundly(kept, s, store, waiting, dead, queue, told, n),
         NEW e, IsOperation(e.operation), e.op \in 1..n,
         \A i \in DOMAIN queue : queue[i].id # e.op,
         \A k \in DOMAIN waiting : waiting[k].id # e.op,
         NEW origin, NEW before, NEW granted, NEW verdict, NEW t, NEW entries, NEW made,
         NEW w2, NEW q2,
         EntersAs(kept, s, waiting, queue, e, origin, before, granted, verdict, t, entries,
                  made, w2, q2)
  PROVE  ServedSoundly(kept, t, store, w2, dead, q2, told, n)
<1>0. /\ verdict = Judged(s, e, granted)
      /\ t = Submitted(s, e, verdict)
      /\ entries = IF verdict = "accepted" THEN <<Last(t.operationLog)>> ELSE <<>>
      /\ made = OperationsSince(t, s.currentRevision)
      /\ kept => /\ w2 = IF made = <<>> THEN waiting
                         ELSE Append(waiting, [id |-> e.op, entries |-> made])
                 /\ q2 = Append(queue, Result(e, origin, before, "pending",
                                              IF made = <<>> THEN "turn" ELSE "store", entries))
      /\ ~kept => /\ w2 = waiting
                  /\ q2 = Append(queue, Result(e, origin, before, "ready", "none", entries))
  BY DEF EntersAs
<1> USE <1>0
<1>1. /\ StateSound(s)
      /\ kept => StoreSound(s, store) /\ AppendsSound(s, store, waiting, dead)
      /\ ~kept => waiting = <<>>
      /\ ResultsSound(kept, store, waiting, queue, told, n)
  BY DEF ServedSoundly
<1>2. waiting \in Seq(ToSet(waiting))
  BY <1>1 DEF ResultsSound
<1>3. CASE verdict = "accepted"
  <2> DEFINE x == LogEntry(e, s.currentRevision + 1)
             a == [id |-> e.op, entries |-> <<x>>]
  <2>1. Violations(s.document, e.operation) = {} /\ t = Accepted(s, e)
    BY <1>3, JudgedMeaning DEF Submitted
  <2> HIDE DEF x
  <2>2. /\ StateSound(t) /\ t.operationLog = Append(s.operationLog, x)
        /\ t.document = ApplyOperation(s.document, x.operation, x.rev)
        /\ t.operationLog[Len(t.operationLog)] = x
        /\ OperationsSince(t, s.currentRevision) = <<x>>
        /\ x.rev = Len(s.operationLog) + 1
    BY <1>1, <2>1, SequencerAccepts DEF x
  <2>3. entries = <<x>> /\ made = <<x>> /\ made # <<>> /\ entries[1].rev \in Nat
    <3>1. Last(t.operationLog) = x
      BY <2>2 DEF Last
    <3>2. <<x>> # <<>>
      OBVIOUS
    <3> QED
      <4>1. entries = <<x>> /\ made = <<x>>
        BY <1>3, <2>2, <3>1
      <4>2. entries[1] = x
        <5>1. \A z : <<z>>[1] = z
          OBVIOUS
        <5> QED
          BY <4>1, <5>1
      <4>3. x.rev \in Nat
        BY <1>1, <2>2 DEF StateSound
      <4> QED
        BY <3>2, <4>1, <4>2, <4>3
  <2>4. a.entries = <<x>>
    OBVIOUS
  <2> HIDE DEF a
  <2>5. CASE kept
    <3>1. w2 = Append(waiting, a)
      BY <2>3, <2>5 DEF a
    <3>2. StoreSound(t, store)
      BY <1>1, <2>2, <2>5, StoreAfterAccept
    <3>3. AppendsSound(t, store, w2, dead)
      BY <1>1, <1>2, <2>2, <2>4, <2>5, <3>1, AppendsAfterAccept, ZenonT(30)
    <3>4. ResultsSound(kept, store, w2, q2, told, n)
      <4>1. /\ q2 = Append(queue, Result(e, origin, before, "pending", "store", entries))
            /\ w2 = Append(waiting, [id |-> e.op, entries |-> entries])
        BY <2>3, <2>5
      <4> QED
        BY <1>1, <2>3, <4>1, AppendAdded
    <3> QED
      BY <2>2, <2>5, <3>2, <3>3, <3>4 DEF ServedSoundly
  <2>6. CASE ~kept
    <3>1. ResultsSound(kept, store, w2, q2, told, n)
      <4>1. /\ q2 = Append(queue, Result(e, origin, before, "ready", "none", entries))
            /\ w2 = waiting
        BY <2>6
      <4>2. "none" \notin {"turn", "throw"}
        OBVIOUS
      <4> QED
        BY <1>1, <2>3, <2>6, <4>1, <4>2, AnswerAdded
    <3> QED
      BY <1>1, <2>2, <2>6, <3>1 DEF ServedSoundly
  <2> QED
    BY <2>5, <2>6
<1>4. CASE verdict # "accepted"
  <2>1. t \in {s, Consumed(s, e), Noop(s, e)} /\ entries = <<>>
    BY <1>4 DEF Submitted
  <2>2. /\ StateSound(t)
        /\ t.document = s.document /\ t.operationLog = s.operationLog
        /\ made = <<>>
    BY <1>1, <2>1, SequencerKeeps, ZenonT(30)
  <2>3. w2 = waiting
    BY <2>2
  <2>4. kept => StoreSound(t, store) /\ AppendsSound(t, store, w2, dead)
    <3>1. kept => StoreSound(t, store)
      BY <1>1, <2>2, StoreAfterOther
    <3>2. kept => AppendsSound(t, store, w2, dead)
      BY <1>1, <2>2, <2>3 DEF AppendsSound
    <3> QED
      BY <3>1, <3>2
  <2>5. ResultsSound(kept, store, w2, q2, told, n)
    <3>1. CASE kept
      <4>1. q2 = Append(queue, Result(e, origin, before, "pending", "turn", entries))
        BY <2>2, <3>1
      <4> QED
        BY <1>1, <2>1, <2>3, <4>1, AnswerAdded
    <3>2. CASE ~kept
      <4>1. q2 = Append(queue, Result(e, origin, before, "ready", "none", entries))
        BY <3>2
      <4> QED
        BY <1>1, <2>1, <2>3, <4>1, AnswerAdded
    <3> QED
      BY <3>1, <3>2
  <2> QED
    BY <1>1, <2>2, <2>3, <2>4, <2>5 DEF ServedSoundly
<1> QED
  BY <1>3, <1>4

(* A poisoned room takes nothing; the failure is delivered one turn later.  *)
LEMMA PoisonedSound ==
  ASSUME NEW kept \in BOOLEAN, NEW s, NEW store, NEW waiting, NEW dead, NEW queue, NEW told,
         NEW n, ServedSoundly(kept, s, store, waiting, dead, queue, told, n),
         NEW e, e.op \in 1..n,
         \A i \in DOMAIN queue : queue[i].id # e.op,
         \A k \in DOMAIN waiting : waiting[k].id # e.op,
         NEW origin, NEW before
  PROVE  ServedSoundly(kept, s, store, waiting, dead,
                       Append(queue, Result(e, origin, before, "pending", "throw", <<>>)), told, n)
<1>1. ResultsSound(kept, store, waiting, queue, told, n)
  BY DEF ServedSoundly
<1>2. ResultsSound(kept, store, waiting,
                   Append(queue, Result(e, origin, before, "pending", "throw", <<>>)), told, n)
  BY <1>1, AnswerAdded
<1> QED
  BY <1>2 DEF ServedSoundly

(* Consuming a number touches nothing else.                                 *)
LEMMA ConsumedSound ==
  ASSUME NEW kept, NEW s, NEW store, NEW waiting, NEW dead, NEW queue, NEW told, NEW n,
         ServedSoundly(kept, s, store, waiting, dead, queue, told, n), NEW e
  PROVE  /\ ServedSoundly(kept, Consumed(s, e), store, waiting, dead, queue, told, n)
         /\ Consumed(s, e).currentRevision = s.currentRevision
<1> DEFINE t == Consumed(s, e)
<1>1. StateSound(s)
  BY DEF ServedSoundly
<1>2. /\ StateSound(t) /\ t.document = s.document /\ t.operationLog = s.operationLog
      /\ t.currentRevision = s.currentRevision
  BY <1>1, SequencerKeeps
<1> HIDE DEF t
<1>3. kept => StoreSound(t, store) /\ AppendsSound(t, store, waiting, dead)
  BY <1>2, StoreAfterOther DEF ServedSoundly, AppendsSound
<1>4. ServedSoundly(kept, t, store, waiting, dead, queue, told, n)
  BY <1>2, <1>3 DEF ServedSoundly
<1> QED
  BY <1>2, <1>4 DEF t

(* The count of operations may grow.                                        *)
LEMMA MoreSubmits ==
  ASSUME NEW kept, NEW s, NEW store, NEW waiting, NEW dead, NEW queue, NEW told,
         NEW n \in Nat, ServedSoundly(kept, s, store, waiting, dead, queue, told, n)
  PROVE  /\ ServedSoundly(kept, s, store, waiting, dead, queue, told, n + 1)
         /\ \A i \in DOMAIN queue : queue[i].id # n + 1
         /\ \A k \in DOMAIN waiting : waiting[k].id # n + 1
<1>1. ResultsSound(kept, store, waiting, queue, told, n)
  BY DEF ServedSoundly
<1>2. \A i \in 1..n : i \in 1..n + 1 /\ i # n + 1
  OBVIOUS
<1>3. ResultsSound(kept, store, waiting, queue, told, n + 1)
  BY <1>1, <1>2 DEF ResultsSound, ResultSound
<1> QED
  BY <1>1, <1>2, <1>3 DEF ServedSoundly, ResultsSound, ResultSound
-----------------------------------------------------------------------------
(* An append ends, a result is settled, a result is delivered.              *)

(* A result changes its state.                                              *)
LEMMA SettledFacts ==
  ASSUME NEW S, NEW queue \in Seq(S), NEW id, NEW state, NEW q, q = SettledAt(queue, id, state),
         \A i \in DOMAIN queue :
           DOMAIN queue[i] = {"id", "origin", "before", "state", "waits", "entries"}
  PROVE  /\ q \in Seq(ToSet(q))
         /\ DOMAIN q = DOMAIN queue
         /\ \A i \in DOMAIN queue :
              /\ DOMAIN q[i] = {"id", "origin", "before", "state", "waits", "entries"}
              /\ q[i].id = queue[i].id /\ q[i].entries = queue[i].entries
              /\ queue[i].id = id => q[i].state = state /\ q[i].waits = "none"
              /\ queue[i].id # id => q[i] = queue[i]
<1> DEFINE at(i) == IF queue[i].id = id THEN [queue[i] EXCEPT !.state = state, !.waits = "none"]
                    ELSE queue[i]
<1>1. Len(queue) \in Nat /\ DOMAIN queue = 1..Len(queue)
  OBVIOUS
<1>2. q = [i \in 1..Len(queue) |-> at(i)]
  BY <1>1 DEF SettledAt
<1>3. \A i \in DOMAIN queue :
        /\ DOMAIN at(i) = {"id", "origin", "before", "state", "waits", "entries"}
        /\ at(i).id = queue[i].id /\ at(i).entries = queue[i].entries
        /\ queue[i].id = id => at(i).state = state /\ at(i).waits = "none"
        /\ queue[i].id # id => at(i) = queue[i]
  OBVIOUS
<1> HIDE DEF at
<1>4. DOMAIN q = 1..Len(queue) /\ \A i \in 1..Len(queue) : q[i] = at(i)
  BY <1>2
<1>5. [i \in 1..Len(queue) |-> at(i)] \in Seq({at(i) : i \in 1..Len(queue)})
  BY <1>1, SeqDef
<1>6. q \in Seq(ToSet(q))
  BY <1>2, <1>5, SeqSelf
<1> QED
  BY <1>1, <1>3, <1>4, <1>6

(* A settled result waits for nothing; its id and its entries stay.         *)
LEMMA SettledSound ==
  ASSUME NEW kept, NEW store, NEW waiting, NEW queue, NEW told, NEW n,
         ResultsSound(kept, store, waiting, queue, told, n), NEW id, NEW state,
         \A i \in DOMAIN queue :
           queue[i].id = id /\ kept /\ state = "ready" /\ queue[i].entries # <<>>
             => queue[i].entries[1].rev <= Len(store.log)
  PROVE  ResultsSound(kept, store, waiting, SettledAt(queue, id, state), told, n)
<1> DEFINE q == SettledAt(queue, id, state)
<1>1. /\ q \in Seq(ToSet(q)) /\ DOMAIN q = DOMAIN queue
      /\ \A i \in DOMAIN queue :
           /\ DOMAIN q[i] = {"id", "origin", "before", "state", "waits", "entries"}
           /\ q[i].id = queue[i].id /\ q[i].entries = queue[i].entries
           /\ queue[i].id = id => q[i].state = state /\ q[i].waits = "none"
           /\ queue[i].id # id => q[i] = queue[i]
  <2>1. /\ queue \in Seq(ToSet(queue))
        /\ \A i \in DOMAIN queue :
             DOMAIN queue[i] = {"id", "origin", "before", "state", "waits", "entries"}
    BY DEF ResultsSound, ResultSound
  <2>2. q = SettledAt(queue, id, state)
    OBVIOUS
  <2> HIDE DEF q
  <2> QED
    BY <2>1, <2>2, SettledFacts
<1> HIDE DEF q
<1>2. \A i \in DOMAIN q : ResultSound(kept, store, q[i], n)
  <2> SUFFICES ASSUME NEW i \in DOMAIN queue PROVE ResultSound(kept, store, q[i], n)
    BY <1>1
  <2>0. ResultSound(kept, store, queue[i], n)
    BY DEF ResultsSound
  <2>1. CASE queue[i].id = id
    BY <1>1, <2>0, <2>1 DEF ResultSound
  <2>2. CASE queue[i].id # id
    BY <1>1, <2>0, <2>2
  <2> QED
    BY <2>1, <2>2
<1>3. \A i, j \in DOMAIN q : q[i].id = q[j].id => i = j
  BY <1>1 DEF ResultsSound
<1>4. \A k \in DOMAIN waiting :
       /\ waiting[k].id \in 1..n
       /\ \A i \in DOMAIN q : q[i].id = waiting[k].id => q[i].entries = waiting[k].entries
  <2> SUFFICES ASSUME NEW k \in DOMAIN waiting
               PROVE  /\ waiting[k].id \in 1..n
                      /\ \A i \in DOMAIN q :
                           q[i].id = waiting[k].id => q[i].entries = waiting[k].entries
    OBVIOUS
  <2>1. /\ waiting[k].id \in 1..n
        /\ \A i \in DOMAIN queue :
             queue[i].id = waiting[k].id => queue[i].entries = waiting[k].entries
    BY DEF ResultsSound
  <2> QED
    BY <1>1, <2>1
<1>5. ResultsSound(kept, store, waiting, q, told, n)
  BY <1>1, <1>2, <1>3, <1>4, Zenon DEF ResultsSound
<1> QED
  BY <1>5 DEF q

(* Fewer appends, or a longer store: results stay sound.                    *)
LEMMA ResultsFrame ==
  ASSUME NEW kept, NEW store, NEW waiting, NEW queue, NEW told, NEW n,
         ResultsSound(kept, store, waiting, queue, told, n),
         NEW longer, NEW fewer, fewer \in Seq(ToSet(fewer)),
         ToSet(fewer) \subseteq ToSet(waiting),
         kept => /\ Len(store.log) \in Nat /\ Len(longer.log) \in Nat
                 /\ Len(store.log) <= Len(longer.log)
  PROVE  ResultsSound(kept, longer, fewer, queue, told, n)
<1>1. \A k \in DOMAIN fewer : \E j \in DOMAIN waiting : fewer[k] = waiting[j]
  BY DEF ToSet
<1>2. \A k \in DOMAIN fewer :
       /\ fewer[k].id \in 1..n
       /\ \A i \in DOMAIN queue : queue[i].id = fewer[k].id => queue[i].entries = fewer[k].entries
  <2> SUFFICES ASSUME NEW k \in DOMAIN fewer
               PROVE  /\ fewer[k].id \in 1..n
                      /\ \A i \in DOMAIN queue :
                           queue[i].id = fewer[k].id => queue[i].entries = fewer[k].entries
    OBVIOUS
  <2>1. PICK j \in DOMAIN waiting : fewer[k] = waiting[j]
    BY <1>1
  <2> QED
    BY <2>1 DEF ResultsSound
<1>3. \A i \in DOMAIN queue : ResultSound(kept, longer, queue[i], n)
  <2> SUFFICES ASSUME NEW i \in DOMAIN queue,
                      kept, queue[i].state = "ready", queue[i].entries # <<>>
               PROVE  queue[i].entries[1].rev <= Len(longer.log)
    BY DEF ResultsSound, ResultSound
  <2> DEFINE rev == queue[i].entries[1].rev
             old == Len(store.log)
             new == Len(longer.log)
  <2>1. rev \in Nat /\ rev <= old /\ old \in Nat /\ new \in Nat /\ old <= new
    BY DEF ResultsSound, ResultSound
  <2> HIDE DEF rev, old, new
  <2>2. rev <= new
    BY <2>1
  <2> QED
    BY <2>2 DEF rev, new
<1>4. kept => \A i \in DOMAIN told : told[i] <= Len(longer.log)
  <2> SUFFICES ASSUME kept, NEW i \in DOMAIN told PROVE told[i] <= Len(longer.log)
    OBVIOUS
  <2> DEFINE old == Len(store.log)
             new == Len(longer.log)
  <2>1. told[i] \in Nat /\ told[i] <= old /\ old \in Nat /\ new \in Nat /\ old <= new
    BY DEF ResultsSound
  <2> HIDE DEF old, new
  <2>2. told[i] <= new
    BY <2>1
  <2> QED
    BY <2>2 DEF new
<1> QED
  BY <1>2, <1>3, <1>4, Zenon DEF ResultsSound

(* What is left when one element is taken out.                              *)
LEMMA RemoveAtFacts ==
  ASSUME NEW S, NEW s \in Seq(S), NEW i \in DOMAIN s, NEW t, t = RemoveAt(s, i)
  PROVE  /\ t \in Seq(ToSet(t)) /\ ToSet(t) \subseteq ToSet(s)
         /\ Len(s) \in Nat /\ Len(t) = Len(s) - 1 /\ DOMAIN t = 1..Len(s) - 1
         /\ \A k \in DOMAIN t : /\ k < i => k \in DOMAIN s /\ t[k] = s[k]
                                /\ k >= i => k + 1 \in DOMAIN s /\ t[k] = s[k + 1]
<1> DEFINE a == SubSeq(s, 1, i - 1)
           b == SubSeq(s, i + 1, Len(s))
           m == Len(s)
<1>1. m \in Nat /\ DOMAIN s = 1..m /\ i \in 1..m /\ i \in Nat
  OBVIOUS
<1>2. a \in Seq(S) /\ Len(a) = i - 1 /\ \A k \in 1..i - 1 : a[k] = s[k]
  BY <1>1, SubSeqProperties
<1>3. b \in Seq(S) /\ Len(b) = m - i /\ \A k \in 1..m - i : b[k] = s[i + k]
  BY <1>1, SubSeqProperties
<1>4. t = a \o b
  BY DEF RemoveAt
<1>5. t \in Seq(ToSet(t)) /\ ToSet(t) \subseteq ToSet(s)
  BY RemoveAtElements
<1> HIDE DEF a, b, m
<1>6. /\ Len(t) = m - 1 /\ DOMAIN t = 1..m - 1
      /\ \A k \in 1..m - 1 : t[k] = IF k <= i - 1 THEN a[k] ELSE b[k - (i - 1)]
  <2>1. /\ Len(a \o b) = Len(a) + Len(b) /\ DOMAIN (a \o b) = 1..Len(a) + Len(b)
        /\ \A k \in 1..Len(a) + Len(b) :
             (a \o b)[k] = IF k <= Len(a) THEN a[k] ELSE b[k - Len(a)]
    <3>1. /\ a \o b \in Seq(S) /\ Len(a \o b) = Len(a) + Len(b)
          /\ \A k \in 1..Len(a) + Len(b) :
               (a \o b)[k] = IF k <= Len(a) THEN a[k] ELSE b[k - Len(a)]
      BY <1>2, <1>3, ConcatProperties, Zenon
    <3>2. DOMAIN (a \o b) = 1..Len(a \o b)
      BY <3>1
    <3> QED
      BY <3>1, <3>2, Zenon
  <2>2. Len(a) + Len(b) = m - 1
    BY <1>1, <1>2, <1>3
  <2> QED
    BY <1>2, <1>4, <2>1, <2>2
<1>7. \A k \in DOMAIN t : /\ k < i => k \in DOMAIN s /\ t[k] = s[k]
                          /\ k >= i => k + 1 \in DOMAIN s /\ t[k] = s[k + 1]
  <2> SUFFICES ASSUME NEW k \in 1..m - 1
               PROVE  /\ k < i => k \in DOMAIN s /\ t[k] = s[k]
                      /\ k >= i => k + 1 \in DOMAIN s /\ t[k] = s[k + 1]
    BY <1>6
  <2>1. ASSUME k < i PROVE k \in DOMAIN s /\ t[k] = s[k]
    BY <1>1, <1>2, <1>6, <2>1
  <2>2. ASSUME k >= i PROVE k + 1 \in DOMAIN s /\ t[k] = s[k + 1]
    <3>1. /\ k - (i - 1) \in 1..m - i /\ i + (k - (i - 1)) = k + 1 /\ ~(k <= i - 1)
          /\ k + 1 \in 1..m
      BY <1>1, <2>2
    <3> QED
      BY <1>1, <1>3, <1>6, <3>1
  <2> QED
    BY <2>1, <2>2
<1> QED
  BY <1>1, <1>5, <1>6, <1>7 DEF m

(* The first append is stored.                                              *)
LEMMA AppendStored ==
  ASSUME NEW s, NEW store, NEW waiting, NEW queue, NEW told, NEW n,
         ServedSoundly(TRUE, s, store, waiting, FALSE, queue, told, n), 1 \in DOMAIN waiting,
         NEW st2, st2 = [store EXCEPT !.log = @ \o waiting[1].entries],
         NEW w2, w2 = RemoveAt(waiting, 1),
         NEW q2, q2 = SettledAt(queue, waiting[1].id, "ready")
  PROVE  ServedSoundly(TRUE, s, st2, w2, FALSE, q2, told, n)
<1> DEFINE log == s.operationLog
           c == Len(store.log)
           w == Len(waiting)
           x == log[c + 1]
           old == store.log
<1>1. /\ StateSound(s) /\ StoreSound(s, store) /\ AppendsSound(s, store, waiting, FALSE)
      /\ ResultsSound(TRUE, store, waiting, queue, told, n)
  BY DEF ServedSoundly
<1>2. /\ log \in Seq(ToSet(log)) /\ Len(log) \in Nat /\ DOMAIN log = 1..Len(log)
      /\ \A i \in DOMAIN log : log[i].rev = i
  BY <1>1 DEF StateSound
<1>3. /\ old \in Seq(ToSet(old)) /\ c \in Nat /\ DOMAIN old = 1..c
      /\ \A i \in DOMAIN old : old[i] = log[i]
      /\ DOMAIN store = {"snapshot", "log"}
  BY <1>1 DEF StoreSound
<1>4. waiting \in Seq(ToSet(waiting)) /\ w \in Nat /\ DOMAIN waiting = 1..w /\ w >= 1
  BY <1>1 DEF ResultsSound
<1>5. Len(log) = c + w /\ \A k \in DOMAIN waiting : waiting[k].entries = <<log[c + k]>>
  BY <1>1 DEF AppendsSound
<1>6. waiting[1].entries = <<x>> /\ c + 1 \in 1..Len(log) /\ x.rev = c + 1
  BY <1>2, <1>3, <1>4, <1>5
<1>7. /\ DOMAIN st2 = {"snapshot", "log"} /\ st2.snapshot = store.snapshot
      /\ st2.log = old \o <<x>>
  BY <1>3, <1>6
<1> HIDE DEF log, c, w, x, old
<1>8. /\ Len(st2.log) = c + 1 /\ st2.log \in Seq(ToSet(st2.log)) /\ DOMAIN st2.log = 1..c + 1
      /\ st2.log[c + 1] = x /\ \A i \in 1..c : st2.log[i] = old[i]
  <2>1. old \o <<x>> = Append(old, x)
    BY <1>3
  <2>2. Append(old, x) \in Seq(ToSet(Append(old, x)))
    BY <1>3, AppendElements
  <2>3. Len(old) = c
    BY DEF old, c
  <2>4. old \in Seq(ToSet(old) \cup {x}) /\ x \in ToSet(old) \cup {x}
    BY <1>3
  <2>5. /\ Len(Append(old, x)) = c + 1 /\ DOMAIN Append(old, x) = 1..c + 1
        /\ Append(old, x)[c + 1] = x /\ \A i \in 1..c : Append(old, x)[i] = old[i]
    BY <2>3, <2>4, AppendProperties
  <2> QED
    BY <1>7, <2>1, <2>2, <2>5
<1>9. \A i \in DOMAIN st2.log : st2.log[i] = log[i]
  <2> SUFFICES ASSUME NEW i \in 1..c + 1 PROVE st2.log[i] = log[i]
    BY <1>8
  <2>1. i = c + 1 \/ i \in 1..c
    BY <1>3
  <2> QED
    BY <1>3, <1>8, <2>1 DEF x
<1>10. StoreSound(s, st2)
  <2>1. SnapshotOf(st2) = SnapshotOf(store)
    BY <1>7 DEF SnapshotOf
  <2>2. BaseOf(st2) = BaseOf(store)
    BY <2>1 DEF BaseOf
  <2>3. Len(st2.log) <= Len(s.operationLog)
    BY <1>2, <1>6, <1>8 DEF log
  <2> QED
    BY <1>1, <1>7, <1>8, <1>9, <2>1, <2>2, <2>3 DEF StoreSound, log
<1>11. /\ w2 \in Seq(ToSet(w2)) /\ ToSet(w2) \subseteq ToSet(waiting)
       /\ Len(w2) = w - 1 /\ DOMAIN w2 = 1..w - 1
       /\ \A k \in DOMAIN w2 : k + 1 \in DOMAIN waiting /\ w2[k] = waiting[k + 1]
  <2>0. waiting \in Seq(ToSet(waiting)) /\ 1 \in DOMAIN waiting /\ w2 = RemoveAt(waiting, 1)
    BY <1>4
  <2>1. /\ w2 \in Seq(ToSet(w2)) /\ ToSet(w2) \subseteq ToSet(waiting)
        /\ Len(waiting) \in Nat /\ Len(w2) = Len(waiting) - 1 /\ DOMAIN w2 = 1..Len(waiting) - 1
        /\ \A k \in DOMAIN w2 : /\ k < 1 => k \in DOMAIN waiting /\ w2[k] = waiting[k]
                                /\ k >= 1 => k + 1 \in DOMAIN waiting /\ w2[k] = waiting[k + 1]
    BY <2>0, RemoveAtFacts, SMTT(30)
  <2>2. \A k \in 1..w - 1 : k >= 1
    BY <1>4
  <2> QED
    BY <2>1, <2>2 DEF w
<1>12. AppendsSound(s, st2, w2, FALSE)
  <2> DEFINE a == Len(st2.log)
             b == Len(w2)
             m == Len(log)
  <2>0. a = c + 1 /\ b = w - 1 /\ m = c + w /\ c \in Nat /\ w \in Nat
    BY <1>3, <1>4, <1>5, <1>8, <1>11
  <2>1. Len(log) = Len(st2.log) + Len(w2)
    <3> HIDE DEF a, b, m
    <3>1. m = a + b
      BY <2>0
    <3> QED
      BY <3>1 DEF a, b, m
  <2>2. \A k \in DOMAIN w2 : w2[k].entries = <<log[Len(st2.log) + k]>>
    <3> SUFFICES ASSUME NEW k \in DOMAIN w2 PROVE w2[k].entries = <<log[Len(st2.log) + k]>>
      OBVIOUS
    <3>1. Len(st2.log) + k = c + (k + 1)
      <4>1. k \in 1..w - 1
        BY <1>11
      <4>2. k \in Int
        BY <2>0, <4>1
      <4> HIDE DEF a, b, m
      <4>3. a + k = c + (k + 1)
        BY <2>0, <4>2
      <4> QED
        BY <4>3 DEF a
    <3> QED
      BY <1>5, <1>11, <3>1
  <2> QED
    BY <2>1, <2>2 DEF AppendsSound, log
<1>13. ResultsSound(TRUE, st2, w2, queue, told, n)
  <2>1. Len(store.log) \in Nat /\ Len(st2.log) \in Nat /\ Len(store.log) <= Len(st2.log)
    BY <1>3, <1>8 DEF c
  <2> QED
    BY <1>1, <1>11, <2>1, ResultsFrame
<1>14. \A i \in DOMAIN queue :
         queue[i].id = waiting[1].id /\ TRUE /\ "ready" = "ready" /\ queue[i].entries # <<>>
           => queue[i].entries[1].rev <= Len(st2.log)
  <2> SUFFICES ASSUME NEW i \in DOMAIN queue, queue[i].id = waiting[1].id
               PROVE  queue[i].entries[1].rev <= Len(st2.log)
    OBVIOUS
  <2>1. queue[i].entries = <<x>>
    BY <1>1, <1>6 DEF ResultsSound
  <2>2. \A z : <<z>>[1] = z
    OBVIOUS
  <2>3. queue[i].entries[1] = x
    BY <2>1, <2>2
  <2> QED
    BY <1>3, <1>6, <1>8, <2>3
<1>15. ResultsSound(TRUE, st2, w2, q2, told, n)
  BY <1>13, <1>14, SettledSound
<1> QED
  BY <1>1, <1>10, <1>12, <1>15 DEF ServedSoundly

(* An append fails: every later one will.                                   *)
LEMMA AppendFailed ==
  ASSUME NEW kept, NEW s, NEW store, NEW waiting, NEW dead, NEW queue, NEW told, NEW n,
         ServedSoundly(kept, s, store, waiting, dead, queue, told, n), waiting # <<>>,
         NEW q2, q2 = SettledAt(queue, waiting[1].id, "failed")
  PROVE  ServedSoundly(kept, s, store, Tail(waiting), TRUE, q2, told, n)
<1>1. /\ StateSound(s) /\ kept /\ StoreSound(s, store)
      /\ ResultsSound(kept, store, waiting, queue, told, n)
  BY DEF ServedSoundly
<1>2. waiting \in Seq(ToSet(waiting))
  BY <1>1 DEF ResultsSound
<1>3. Tail(waiting) \in Seq(ToSet(waiting))
  BY <1>2
<1>4. Tail(waiting) \in Seq(ToSet(Tail(waiting))) /\ ToSet(Tail(waiting)) \subseteq ToSet(waiting)
  <2> DEFINE v == Tail(waiting)
             T == ToSet(waiting)
  <2>1. v \in Seq(T)
    BY <1>3
  <2> HIDE DEF v, T
  <2>2. v \in Seq(ToSet(v))
    BY <2>1, SeqSelf
  <2>3. ToSet(v) \subseteq T
    BY <2>1 DEF ToSet
  <2> QED
    BY <2>2, <2>3 DEF v, T
<1>5. ResultsSound(kept, store, Tail(waiting), queue, told, n)
  <2>1. Len(store.log) \in Nat
    BY <1>1 DEF StoreSound
  <2>2. Len(store.log) <= Len(store.log)
    BY <2>1
  <2> QED
    BY <1>1, <1>4, <2>1, <2>2, ResultsFrame
<1>6. ResultsSound(kept, store, Tail(waiting), q2, told, n)
  BY <1>5, SettledSound
<1>7. AppendsSound(s, store, Tail(waiting), TRUE)
  BY DEF AppendsSound
<1> QED
  BY <1>1, <1>6, <1>7 DEF ServedSoundly

(* The turn of a result ends.                                               *)
LEMMA TurnEnded ==
  ASSUME NEW kept, NEW s, NEW store, NEW waiting, NEW dead, NEW queue, NEW told, NEW n,
         ServedSoundly(kept, s, store, waiting, dead, queue, told, n),
         NEW i \in DOMAIN queue, queue[i].waits \in {"turn", "throw"},
         NEW state, NEW q2, q2 = SettledAt(queue, queue[i].id, state)
  PROVE  ServedSoundly(kept, s, store, waiting, dead, q2, told, n)
<1>1. ResultsSound(kept, store, waiting, queue, told, n)
  BY DEF ServedSoundly
<1>2. queue[i].entries = <<>> /\ \A j \in DOMAIN queue : queue[j].id = queue[i].id => j = i
  BY <1>1 DEF ResultsSound, ResultSound
<1>3. ResultsSound(kept, store, waiting, q2, told, n)
  BY <1>1, <1>2, SettledSound
<1> QED
  BY <1>3 DEF ServedSoundly

(* A result is delivered.                                                   *)
LEMMA Delivered ==
  ASSUME NEW kept, NEW s, NEW store, NEW waiting, NEW dead, NEW queue, NEW told, NEW n,
         ServedSoundly(kept, s, store, waiting, dead, queue, told, n),
         NEW i \in DOMAIN queue, NEW q2, q2 = RemoveAt(queue, i),
         NEW told2, told2 = IF queue[i].state = "ready" /\ queue[i].entries # <<>>
                            THEN Append(told, queue[i].entries[1].rev) ELSE told
  PROVE  ServedSoundly(kept, s, store, waiting, dead, q2, told2, n)
<1>1. ResultsSound(kept, store, waiting, queue, told, n)
  BY DEF ServedSoundly
<1>2. queue \in Seq(ToSet(queue)) /\ DOMAIN queue = 1..Len(queue)
  BY <1>1 DEF ResultsSound
<1>3. /\ q2 \in Seq(ToSet(q2)) /\ ToSet(q2) \subseteq ToSet(queue)
      /\ Len(queue) \in Nat /\ Len(q2) = Len(queue) - 1 /\ DOMAIN q2 = 1..Len(queue) - 1
      /\ \A k \in DOMAIN q2 : /\ k < i => k \in DOMAIN queue /\ q2[k] = queue[k]
                              /\ k >= i => k + 1 \in DOMAIN queue /\ q2[k] = queue[k + 1]
  <2>1. queue \in Seq(ToSet(queue))
    BY <1>2
  <2> QED
    BY <2>1, RemoveAtFacts
<1>4. \A k \in DOMAIN q2 : \E j \in DOMAIN queue : q2[k] = queue[j]
  BY <1>2, <1>3
<1>5. \A k \in DOMAIN q2 : ResultSound(kept, store, q2[k], n)
  BY <1>1, <1>4 DEF ResultsSound
<1>6. \A u, v \in DOMAIN q2 : q2[u].id = q2[v].id => u = v
  <2> SUFFICES ASSUME NEW u \in DOMAIN q2, NEW v \in DOMAIN q2, q2[u].id = q2[v].id PROVE u = v
    OBVIOUS
  <2>1. \A j, k \in DOMAIN queue : queue[j].id = queue[k].id => j = k
    BY <1>1 DEF ResultsSound
  <2>2. u \in Nat /\ v \in Nat /\ i \in Nat
    BY <1>2, <1>3
  <2>3. (u < i \/ u >= i) /\ (v < i \/ v >= i)
    BY <2>2
  <2>4. CASE u < i /\ v < i
    BY <1>3, <2>1, <2>4
  <2>5. CASE u < i /\ v >= i
    BY <1>3, <2>1, <2>2, <2>5
  <2>6. CASE u >= i /\ v < i
    BY <1>3, <2>1, <2>2, <2>6
  <2>7. CASE u >= i /\ v >= i
    BY <1>3, <2>1, <2>2, <2>7
  <2> QED
    BY <2>3, <2>4, <2>5, <2>6, <2>7
<1>7. \A k \in DOMAIN waiting :
        /\ waiting[k].id \in 1..n
        /\ \A j \in DOMAIN q2 : q2[j].id = waiting[k].id => q2[j].entries = waiting[k].entries
  <2> SUFFICES ASSUME NEW k \in DOMAIN waiting
               PROVE  /\ waiting[k].id \in 1..n
                      /\ \A j \in DOMAIN q2 :
                           q2[j].id = waiting[k].id => q2[j].entries = waiting[k].entries
    OBVIOUS
  <2>1. /\ waiting[k].id \in 1..n
        /\ \A j \in DOMAIN queue :
             queue[j].id = waiting[k].id => queue[j].entries = waiting[k].entries
    BY <1>1 DEF ResultsSound
  <2> QED
    BY <1>4, <2>1
<1>8. told2 \in Seq(Nat) /\ (kept => \A k \in DOMAIN told2 : told2[k] <= Len(store.log))
  <2>1. told \in Seq(Nat) /\ (kept => \A k \in DOMAIN told : told[k] <= Len(store.log))
    BY <1>1 DEF ResultsSound
  <2>2. CASE queue[i].state = "ready" /\ queue[i].entries # <<>>
    <3> DEFINE rev == queue[i].entries[1].rev
    <3>1. rev \in Nat /\ (kept => rev <= Len(store.log))
      BY <1>1, <2>2 DEF ResultsSound, ResultSound
    <3>2. told2 = Append(told, rev)
      BY <2>2
    <3> HIDE DEF rev
    <3>3. told2 \in Seq(Nat)
      BY <2>1, <3>1, <3>2
    <3>4. \A k \in DOMAIN Append(told, rev) :
            Append(told, rev)[k] = rev \/ (k \in DOMAIN told /\ Append(told, rev)[k] = told[k])
      BY <2>1, LastIsNew
    <3> QED
      BY <2>1, <3>1, <3>2, <3>3, <3>4
  <2>3. CASE ~(queue[i].state = "ready" /\ queue[i].entries # <<>>)
    BY <2>1, <2>3
  <2> QED
    BY <2>2, <2>3
<1>9. waiting \in Seq(ToSet(waiting))
  BY <1>1 DEF ResultsSound
<1>10. ResultsSound(kept, store, waiting, q2, told2, n)
  BY <1>3, <1>5, <1>6, <1>7, <1>8, <1>9, Zenon DEF ResultsSound
<1> QED
  BY <1>10 DEF ServedSoundly

-----------------------------------------------------------------------------
(* Where a serve begins.                                                    *)

(* A document of revision 0 makes a state without a log.                    *)
LEMMA FreshSound ==
  ASSUME NEW doc, WellFormed(doc), doc.revision = 0, NEW s, s = FreshState(doc)
  PROVE  /\ StateSound(s) /\ s.document = doc /\ s.operationLog = <<>> /\ s.currentRevision = 0
         /\ ReplaysSoundly(doc, s.operationLog)
         /\ s.document = Replay(doc, s.operationLog)
<1>1. /\ DOMAIN s = SequencerFields /\ s.document = doc /\ s.operationLog = <<>>
      /\ s.currentRevision = 0
  BY DEF FreshState, SequencerFields
<1>2. <<>> \in Seq(ToSet(<<>>)) /\ Len(<<>>) = 0 /\ DOMAIN <<>> = {} /\ SubSeq(<<>>, 1, 0) = <<>>
  BY DEF ToSet
<1>3. StateSound(s)
  BY <1>1, <1>2 DEF StateSound
<1>4. Replay(doc, <<>>) = doc
  BY ReplayEmpty
<1>5. ReplaysSoundly(doc, <<>>)
  <2> SUFFICES ASSUME NEW n \in 0..0
               PROVE  /\ WellFormed(Replay(doc, SubSeq(<<>>, 1, n)))
                      /\ Replay(doc, SubSeq(<<>>, 1, n)).revision = n
    BY <1>2 DEF ReplaysSoundly
  <2>1. n = 0
    OBVIOUS
  <2>2. SubSeq(<<>>, 1, n) = <<>>
    BY <1>2, <2>1
  <2> QED
    BY <1>4, <2>1, <2>2
<1> QED
  BY <1>1, <1>3, <1>4, <1>5

(* The seed is an accepted operation.                                       *)
LEMMA SeededSound ==
  ASSUME NEW s, s = Seeded(FreshState(EmptyDocument))
  PROVE  /\ StateSound(s)
         /\ ReplaysSoundly(EmptyDocument, s.operationLog)
         /\ s.document = Replay(EmptyDocument, s.operationLog)
<1> DEFINE fresh == FreshState(EmptyDocument)
           e == [op |-> 0, client |-> SystemClient, seq |-> 1, base |-> 0,
                 operation |-> InsertRows(Top, <<SeedRow>>)]
           x == LogEntry(e, fresh.currentRevision + 1)
           ids == <<SeedRow>>
<1>1. /\ StateSound(fresh) /\ fresh.document = EmptyDocument /\ fresh.operationLog = <<>>
      /\ ReplaysSoundly(EmptyDocument, <<>>)
  BY EmptyWellFormed, FreshSound
<1>2. /\ e.operation.type = "insertRows" /\ e.operation.after = Top /\ e.operation.rows = ids
  BY DEF InsertRows
<1>3. ids \in Seq(ToSet(ids)) /\ DOMAIN ids = 1..1 /\ \A i \in 1..1 : \A j \in 1..i-1 : FALSE
  BY DEF ToSet
<1>4. InsertRowsViolations(EmptyDocument, Top, ids) = {}
  <2>1. AnchorIndexes(EmptyDocument, Top) # {}
    BY DEF AnchorIndexes
  <2> QED
    BY <1>3, <2>1, NothingKnown DEF InsertRowsViolations
<1>5. IsOperation(e.operation) /\ Violations(EmptyDocument, e.operation) = {}
  BY <1>2, <1>3, <1>4 DEF IsOperation, Violations
<1>6. s = Accepted(fresh, e)
  BY DEF Seeded
<1> HIDE DEF fresh, e, x
<1>7. /\ StateSound(s) /\ s.operationLog = Append(fresh.operationLog, x)
      /\ s.document = ApplyOperation(fresh.document, x.operation, x.rev)
  BY <1>1, <1>5, <1>6, SequencerAccepts DEF x
<1>8. ReplaysSoundly(EmptyDocument, s.operationLog) /\ Replay(EmptyDocument, s.operationLog) = s.document
  <2>1. <<>> \in Seq({}) /\ Len(<<>>) = 0
    OBVIOUS
  <2>2. s.operationLog = Append(<<>>, x)
    BY <1>1, <1>7
  <2>3. s.document = ApplyOperation(Replay(EmptyDocument, <<>>), x.operation, x.rev)
    BY <1>1, <1>7, ReplayEmpty
  <2>4. Len(s.operationLog) = 1
    BY <2>2
  <2>5. WellFormed(s.document) /\ s.document.revision = Len(<<>>) + 1
    BY <1>7, <2>1, <2>4 DEF StateSound
  <2> DEFINE none == <<>>
  <2> HIDE DEF none
  <2>6. /\ none \in Seq({}) /\ ReplaysSoundly(EmptyDocument, none)
        /\ s.operationLog = Append(none, x)
        /\ s.document = ApplyOperation(Replay(EmptyDocument, none), x.operation, x.rev)
        /\ s.document.revision = Len(none) + 1
    BY <1>1, <2>1, <2>2, <2>3, <2>5 DEF none
  <2> QED
    BY <2>5, <2>6, ReplayAppend
<1> QED
  BY <1>7, <1>8

(* A store that begins with a document of revision 0 and the log over it.   *)
LEMMA StoreBegins ==
  ASSUME NEW doc, WellFormed(doc), doc.revision = 0, NEW s, StateSound(s),
         ReplaysSoundly(doc, s.operationLog), s.document = Replay(doc, s.operationLog),
         NEW store, DOMAIN store = {"snapshot", "log"},
         SnapshotOf(store) = PersistedSnapshot(FreshState(doc)), store.log = s.operationLog
  PROVE  StoreSound(s, store) /\ AppendsSound(s, store, <<>>, FALSE)
<1> DEFINE snapshot == SnapshotOf(store)
<1>1. /\ snapshot.revision = 0 /\ snapshot.currentRevision = 0
      /\ snapshot.document = SerializeDocument(doc)
  BY DEF PersistedSnapshot, FreshState
<1>2. /\ DeserializeDocument(SerializeDocument(doc)) = doc
      /\ ~SnapshotRejected(SerializeDocument(doc))
      /\ SerializeDocument(doc).revision = 0
  BY SnapshotRoundTrip
<1>3. BaseOf(store) = doc
  BY <1>1, <1>2 DEF BaseOf
<1>4. s.operationLog \in Seq(ToSet(s.operationLog)) /\ Len(s.operationLog) \in Nat
  BY DEF StateSound
<1>5. StoreSound(s, store)
  BY <1>1, <1>2, <1>3, <1>4 DEF StoreSound
<1>6. Len(<<>>) = 0 /\ DOMAIN <<>> = {}
  OBVIOUS
<1>7. AppendsSound(s, store, <<>>, FALSE)
  BY <1>4, <1>6 DEF AppendsSound
<1> QED
  BY <1>5, <1>7

(* A restart from a sound store.                                            *)
LEMMA RecoveredSound ==
  ASSUME NEW s, StateSound(s), NEW store, StoreSound(s, store),
         NEW t, t = Recovered(SnapshotOf(store), store.log)
  PROVE  StateSound(t) /\ StoreSound(t, store) /\ AppendsSound(t, store, <<>>, FALSE)
<1> DEFINE log == s.operationLog
           kept == store.log
           base == BaseOf(store)
<1>1. log \in Seq(ToSet(log)) /\ \A i \in DOMAIN log : log[i].rev = i
  BY DEF StateSound
<1>2. /\ kept \in Seq(ToSet(kept)) /\ Len(kept) <= Len(log)
      /\ \A i \in DOMAIN kept : kept[i] = log[i]
      /\ ReplaysSoundly(base, log) /\ SnapshotOf(store).revision = 0
  BY DEF StoreSound
<1>3. SubSeq(kept, 0 + 1, Len(kept)) = kept
  BY <1>2
<1>4. /\ DOMAIN t = SequencerFields
      /\ t.document = Replay(base, kept) /\ t.operationLog = kept
      /\ t.currentRevision = Len(kept)
  BY <1>2, <1>3 DEF Recovered, SequencerFields, BaseOf
<1> HIDE DEF log, kept, base
<1>5. /\ ReplaysSoundly(base, kept)
      /\ WellFormed(Replay(base, kept)) /\ Replay(base, kept).revision = Len(kept)
  BY <1>1, <1>2, BeginningReplays
<1>6. /\ Len(kept) \in Nat /\ DOMAIN kept = 1..Len(kept)
      /\ Len(log) \in Nat /\ DOMAIN log = 1..Len(log)
  BY <1>1, <1>2
<1>7. \A i \in DOMAIN kept : kept[i].rev = i
  <2> SUFFICES ASSUME NEW i \in DOMAIN kept PROVE kept[i].rev = i
    OBVIOUS
  <2>1. i \in DOMAIN log
    BY <1>2, <1>6
  <2> QED
    BY <1>1, <1>2, <2>1
<1>8. StateSound(t)
  BY <1>2, <1>4, <1>5, <1>7 DEF StateSound
<1>9. StoreSound(t, store)
  BY <1>2, <1>4, <1>5, <1>6 DEF StoreSound, kept, base
<1>10. Len(<<>>) = 0 /\ DOMAIN <<>> = {}
  OBVIOUS
<1>11. AppendsSound(t, store, <<>>, FALSE)
  BY <1>4, <1>6, <1>10 DEF AppendsSound, kept
<1> QED
  BY <1>8, <1>9, <1>11

(* An exported snapshot read back.                                          *)
LEMMA RestoredSound ==
  ASSUME NEW s, StateSound(s), NEW t, t = DeserializeSnapshot(SerializeSnapshot(s))
  PROVE  StateSound(t)
<1> DEFINE data == SerializeSnapshot(s)
<1>1. /\ DOMAIN data = SequencerFields
      /\ data.document = SerializeDocument(s.document) /\ data.operationLog = s.operationLog
      /\ data.currentRevision = s.currentRevision
  BY DEF SerializeSnapshot, SequencerFields
<1> HIDE DEF data
<1>2. /\ DOMAIN t = SequencerFields /\ t.operationLog = s.operationLog
      /\ t.currentRevision = s.currentRevision
      /\ t.document = DeserializeDocument(data.document)
  BY <1>1 DEF DeserializeSnapshot, data, SequencerFields
<1>3. t.document = s.document
  BY <1>1, <1>2, SnapshotRoundTrip DEF StateSound
<1> QED
  BY <1>2, <1>3 DEF StateSound

(* A document without results and appends.                                  *)
LEMMA QuietSound ==
  ASSUME NEW kept, NEW s, StateSound(s), NEW store,
         kept => StoreSound(s, store) /\ AppendsSound(s, store, <<>>, FALSE), NEW n
  PROVE  ServedSoundly(kept, s, store, <<>>, FALSE, <<>>, <<>>, n)
<1>1. <<>> \in Seq(ToSet(<<>>)) /\ DOMAIN <<>> = {} /\ <<>> \in Seq(Nat)
  BY DEF ToSet
<1>2. ResultsSound(kept, store, <<>>, <<>>, <<>>, n)
  BY <1>1 DEF ResultsSound
<1> QED
  BY <1>2 DEF ServedSoundly

(* However a document is first served, it is sound, and so is its store.    *)
LEMMA FirstSound ==
  ASSUME NEW options, ~Conflicting(options),
         "restoreFrom" \in options => ~(Injected \subseteq options),
         NEW rows, rows \in Seq(ToSet(rows)), ~InitialDocumentRefused(rows),
         PersistedSnapshot(FreshState(BuildInitialDocument(rows))) # None,
         NEW store,
         \/ store = EmptyStores
         \/ Persistent(options) => \E s : StateSound(s) /\ StoreSound(s, store),
         NEW t, t = FirstState(options, store, rows, OtherServe), NEW n
  PROVE  ServedSoundly(Persistent(options), t, FirstStores(options, store, t),
                       <<>>, FALSE, <<>>, <<>>, n)
<1> DEFINE next == FirstStores(options, store, t)
           built == BuildInitialDocument(rows)
<1>1. DOMAIN EmptyStores = {"snapshot", "log"} /\ EmptyStores.log = <<>> /\ EmptyStores.snapshot = None
  BY DEF EmptyStores
<1>2. /\ WellFormed(EmptyDocument) /\ EmptyDocument.revision = 0
      /\ WellFormed(built) /\ built.revision = 0
  BY EmptyWellFormed, BuiltWellFormed
<1>3. "restoreFrom" \in options => ~Persistent(options)
  BY DEF Conflicting, Persistent
<1> HIDE DEF built
<1>4. CASE Persistent(options) /\ Recovers(store)
  <2>1. store # EmptyStores
    BY <1>1, <1>4 DEF Recovers
  <2>2. PICK s : StateSound(s) /\ StoreSound(s, store)
    BY <1>4, <2>1
  <2>3. t = Recovered(SnapshotOf(store), store.log) /\ next = store
    BY <1>4 DEF FirstState, FirstStores
  <2> HIDE DEF next
  <2>4. StateSound(t) /\ StoreSound(t, next) /\ AppendsSound(t, next, <<>>, FALSE)
    BY <2>2, <2>3, RecoveredSound
  <2>5. ServedSoundly(Persistent(options), t, next, <<>>, FALSE, <<>>, <<>>, n)
    BY <2>4, QuietSound
  <2> QED
    BY <2>5 DEF next
<1>5. CASE ~(Persistent(options) /\ Recovers(store))
  <2>1. Persistent(options) =>
          /\ store.log = <<>> /\ store.snapshot = None
          /\ DOMAIN store = {"snapshot", "log"}
    BY <1>1, <1>5 DEF Recovers, StoreSound
  <2>2. CASE "restoreFrom" \in options
    <3>1. t = DeserializeSnapshot(OtherServe) /\ ~Persistent(options)
      BY <1>3, <1>5, <2>2 DEF FirstState
    <3>2. StateSound(Seeded(FreshState(EmptyDocument)))
      BY SeededSound
    <3>3. StateSound(t)
      BY <3>1, <3>2, RestoredSound DEF OtherServe
    <3> HIDE DEF next
    <3>4. ServedSoundly(Persistent(options), t, next, <<>>, FALSE, <<>>, <<>>, n)
      BY <3>1, <3>3, QuietSound
    <3> QED
      BY <3>4 DEF next
  <2>3. CASE "restoreFrom" \notin options /\ "initialDocument" \in options
    <3>1. t = FreshState(built)
      BY <1>5, <2>3 DEF FirstState, built
    <3>2. /\ StateSound(t) /\ t.operationLog = <<>>
          /\ ReplaysSoundly(built, t.operationLog) /\ t.document = Replay(built, t.operationLog)
      BY <1>2, <3>1, FreshSound
    <3>3. ASSUME Persistent(options)
          PROVE  StoreSound(t, next) /\ AppendsSound(t, next, <<>>, FALSE)
      <4>1. next = [store EXCEPT !.snapshot = PersistedSnapshot(t)]
        BY <1>5, <2>3, <3>3 DEF FirstStores
      <4>2. DOMAIN next = {"snapshot", "log"} /\ next.log = <<>> /\ next.snapshot = PersistedSnapshot(t)
        BY <2>1, <3>3, <4>1
      <4>3. SnapshotOf(next) = PersistedSnapshot(FreshState(built))
        BY <3>1, <4>2 DEF SnapshotOf, built
      <4> HIDE DEF next
      <4> QED
        BY <1>2, <3>2, <4>2, <4>3, StoreBegins
    <3> HIDE DEF next
    <3>4. ServedSoundly(Persistent(options), t, next, <<>>, FALSE, <<>>, <<>>, n)
      BY <3>2, <3>3, QuietSound
    <3> QED
      BY <3>4 DEF next
  <2>4. CASE "restoreFrom" \notin options /\ "initialDocument" \notin options
    <3>1. t \in {FreshState(EmptyDocument), Seeded(FreshState(EmptyDocument))}
      BY <1>5, <2>4 DEF FirstState
    <3>2. /\ StateSound(t) /\ ReplaysSoundly(EmptyDocument, t.operationLog)
          /\ t.document = Replay(EmptyDocument, t.operationLog)
      BY <1>2, <3>1, FreshSound, SeededSound
    <3>3. ASSUME Persistent(options)
          PROVE  StoreSound(t, next) /\ AppendsSound(t, next, <<>>, FALSE)
      <4>1. next = [store EXCEPT !.log = t.operationLog]
        BY <1>5, <2>4, <3>3 DEF FirstStores
      <4>2. DOMAIN next = {"snapshot", "log"} /\ next.log = t.operationLog /\ next.snapshot = None
        BY <2>1, <3>3, <4>1
      <4>3. SnapshotOf(next) = PersistedSnapshot(FreshState(EmptyDocument))
        BY <4>2 DEF SnapshotOf
      <4> HIDE DEF next
      <4> QED
        BY <1>2, <3>2, <4>2, <4>3, StoreBegins
    <3> HIDE DEF next
    <3>4. ServedSoundly(Persistent(options), t, next, <<>>, FALSE, <<>>, <<>>, n)
      BY <3>2, <3>3, QuietSound
    <3> QED
      BY <3>4 DEF next
  <2> QED
    BY <2>2, <2>3, <2>4
<1> QED
  BY <1>4, <1>5

-----------------------------------------------------------------------------
(* The serve.                                                               *)

(* What is left to show of a step.                                          *)
LEMMA StepSound ==
  ASSUME ServeInv, scene' = scene, TablesOfDocuments', \A x \in Doc : DocumentSound(x)',
         HookSound', DOMAIN spent' = DOMAIN spent,
         spent'.submits \in {spent.submits, spent.submits + 1}
  PROVE  ServeInv'
  BY DEF ServeInv, Doc

(* A step of one document leaves the others as they are.                    *)
LEMMA OthersStay ==
  ASSUME ServeInv, scene' = scene, NEW d \in Doc, DocumentSound(d)',
         \A x \in Doc \ {d} :
           /\ sequencer'[x] = sequencer[x] /\ stores'[x] = stores[x] /\ appends'[x] = appends[x]
           /\ failed'[x] = failed[x] /\ deliveries'[x] = deliveries[x] /\ sent'[x] = sent[x],
         spent'.submits \in {spent.submits, spent.submits + 1}
  PROVE  \A x \in Doc : DocumentSound(x)'
<1> SUFFICES ASSUME NEW x \in Doc, x # d PROVE DocumentSound(x)'
  OBVIOUS
<1>1. Kept(x)' = Kept(x)
  BY DEF Kept
<1>2. /\ sequencer'[x] = sequencer[x] /\ stores'[x] = stores[x] /\ appends'[x] = appends[x]
      /\ failed'[x] = failed[x] /\ deliveries'[x] = deliveries[x] /\ sent'[x] = sent[x]
  OBVIOUS
<1>3. /\ spent.submits \in Nat
      /\ ServedSoundly(Kept(x), sequencer[x], stores[x], appends[x], failed[x], deliveries[x],
                       sent[x], spent.submits)
  BY DEF ServeInv, DocumentSound
<1>4. ServedSoundly(Kept(x), sequencer[x], stores[x], appends[x], failed[x], deliveries[x],
                    sent[x], spent.submits + 1)
  BY <1>3, MoreSubmits
<1>5. ServedSoundly(Kept(x), sequencer[x], stores[x], appends[x], failed[x], deliveries[x],
                    sent[x], spent'.submits)
  BY <1>3, <1>4
<1> QED
  BY <1>1, <1>2, <1>5 DEF DocumentSound

(* A serve begins soundly.                                                  *)
LEMMA InitServe == Init => ServeInv
<1> SUFFICES ASSUME Init PROVE ServeInv
  OBVIOUS
<1>1. /\ scene \in Scene /\ \A d \in Doc : ~Conflicting(ServedWith[scene][d])
      /\ hook = None /\ spent = [submits |-> 0, failures |-> 0, restarts |-> 0]
      /\ stores = [d \in Doc |-> FirstStores(ServedWith[scene][d], EmptyStores, first[d])]
      /\ appends = [d \in Doc |-> <<>>] /\ failed = [d \in Doc |-> FALSE]
      /\ deliveries = [d \in Doc |-> <<>>] /\ sent = [d \in Doc |-> <<>>]
      /\ sequencer = first
  BY DEF Init
<1>2. PICK rows \in [Doc -> FirstRows[scene]] :
        /\ \A d \in Doc : ~InitialDocumentRefused(rows[d])
        /\ first = [d \in Doc |-> FirstState(ServedWith[scene][d], EmptyStores, rows[d], OtherServe)]
  BY DEF Init
<1>3. TablesOfDocuments
  BY <1>1, <1>2 DEF TablesOfDocuments
<1>4. ASSUME NEW d \in Doc PROVE DocumentSound(d)
  <2> DEFINE options == ServedWith[scene][d]
             r == rows[d]
             t == FirstState(options, EmptyStores, r, OtherServe)
  <2>1. /\ sequencer[d] = t /\ stores[d] = FirstStores(options, EmptyStores, t)
        /\ appends[d] = <<>> /\ failed[d] = FALSE /\ deliveries[d] = <<>> /\ sent[d] = <<>>
    BY <1>1, <1>2
  <2>2. /\ r \in FirstRows[scene] /\ ~InitialDocumentRefused(r)
        /\ r \in Seq(ToSet(r))
        /\ PersistedSnapshot(FreshState(BuildInitialDocument(r))) # None
    BY <1>1, <1>2, RowsAssumption, NoneAssumption
  <2>3. /\ ~Conflicting(options) /\ ("restoreFrom" \in options => ~(Injected \subseteq options))
    BY <1>1, RestoreAssumption DEF Doc
  <2>4. Kept(d) = Persistent(options)
    BY DEF Kept
  <2> HIDE DEF options, r, t
  <2>5. ServedSoundly(Persistent(options), t, FirstStores(options, EmptyStores, t),
                      <<>>, FALSE, <<>>, <<>>, spent.submits)
    BY <2>2, <2>3, FirstSound DEF t
  <2> QED
    BY <2>1, <2>4, <2>5 DEF DocumentSound
<1>5. HookSound
  BY <1>1 DEF HookSound
<1>6. DOMAIN spent = {"submits", "failures", "restarts"} /\ spent.submits \in Nat
  BY <1>1
<1> QED
  BY <1>1, <1>3, <1>4, <1>5, <1>6 DEF ServeInv

(* An operation that passes the poison enters.                              *)
LEMMA EnterKeeps ==
  ASSUME ServeInv, NEW d \in Doc, NEW e, IsOperation(e.operation), NEW origin, NEW before,
         NEW granted, NEW revision, revision = sequencer[d].currentRevision,
         Enter(d, sequencer[d], e, origin, before, revision, granted), OnSubmit,
         spent'.submits \in {spent.submits, spent.submits + 1},
         ServedSoundly(Kept(d), sequencer[d], stores[d], appends[d], failed[d], deliveries[d],
                       sent[d], spent'.submits),
         e.op \in 1..spent'.submits,
         \A i \in DOMAIN deliveries[d] : deliveries[d][i].id # e.op,
         \A k \in DOMAIN appends[d] : appends[d][k].id # e.op
  PROVE  TablesOfDocuments' /\ \A x \in Doc : DocumentSound(x)'
<1> DEFINE s == sequencer[d]
           verdict == Judged(s, e, granted)
           after == Submitted(s, e, verdict)
           entries == IF verdict = "accepted" THEN <<Last(after.operationLog)>> ELSE <<>>
           made == OperationsSince(after, revision)
           waiting == appends[d]
           queue == deliveries[d]
<1>1. /\ sequencer' = [sequencer EXCEPT ![d] = after]
      /\ Kept(d) =>
           /\ appends' = IF made = <<>> THEN appends
                         ELSE [appends EXCEPT ![d] = Append(@, [id |-> e.op, entries |-> made])]
           /\ deliveries' = [deliveries EXCEPT ![d] =
                Append(@, Result(e, origin, before, "pending",
                                 IF made = <<>> THEN "turn" ELSE "store", entries))]
      /\ ~Kept(d) =>
           /\ deliveries' = [deliveries EXCEPT ![d] =
                Append(@, Result(e, origin, before, "ready", "none", entries))]
           /\ appends' = appends
  BY Zenon DEF Enter
<1>2. /\ scene' = scene /\ first' = first /\ stores' = stores /\ failed' = failed /\ sent' = sent
  BY DEF OnSubmit
<1>3. TablesOfDocuments
  BY DEF ServeInv
<1> HIDE DEF after, entries, made
<1>4. TablesOfDocuments'
  <2>1. Doc' = Doc
    BY <1>2 DEF Doc
  <2>2. DOMAIN sequencer' = Doc
    BY <1>1, <1>3 DEF TablesOfDocuments
  <2>3. DOMAIN appends' = Doc /\ DOMAIN deliveries' = Doc
    BY <1>1, <1>3 DEF TablesOfDocuments
  <2> QED
    BY <1>2, <1>3, <2>1, <2>2, <2>3 DEF TablesOfDocuments
<1>5. sequencer'[d] = after
  BY <1>1, <1>3 DEF TablesOfDocuments
<1>6. Kept(d) =>
        /\ appends'[d] = IF made = <<>> THEN waiting
                         ELSE Append(waiting, [id |-> e.op, entries |-> made])
        /\ deliveries'[d] = Append(queue, Result(e, origin, before, "pending",
                                                 IF made = <<>> THEN "turn" ELSE "store", entries))
  BY <1>1, <1>3 DEF TablesOfDocuments
<1>7. ~Kept(d) =>
        /\ appends'[d] = waiting
        /\ deliveries'[d] = Append(queue, Result(e, origin, before, "ready", "none", entries))
  BY <1>1, <1>3 DEF TablesOfDocuments
<1>8. ServedSoundly(Kept(d), after, stores[d], appends'[d], failed[d], deliveries'[d],
                    sent[d], spent'.submits)
  <2> DEFINE w2 == appends'[d]
             q2 == deliveries'[d]
             n == spent'.submits
             kept == Kept(d)
             store == stores[d]
             dead == failed[d]
             told == sent[d]
  <2>1. kept \in BOOLEAN
    BY DEF Kept, Persistent
  <2>2. /\ after = Submitted(s, e, verdict)
        /\ entries = IF verdict = "accepted" THEN <<Last(after.operationLog)>> ELSE <<>>
        /\ made = OperationsSince(after, s.currentRevision)
    BY DEF after, entries, made
  <2>3. /\ kept =>
             /\ w2 = IF made = <<>> THEN waiting
                     ELSE Append(waiting, [id |-> e.op, entries |-> made])
             /\ q2 = Append(queue, Result(e, origin, before, "pending",
                                          IF made = <<>> THEN "turn" ELSE "store", entries))
        /\ ~kept =>
             /\ w2 = waiting
             /\ q2 = Append(queue, Result(e, origin, before, "ready", "none", entries))
    BY <1>6, <1>7
  <2>4. /\ ServedSoundly(kept, s, store, waiting, dead, queue, told, n)
        /\ e.op \in 1..n
        /\ \A i \in DOMAIN queue : queue[i].id # e.op
        /\ \A k \in DOMAIN waiting : waiting[k].id # e.op
    OBVIOUS
  <2>5. verdict = Judged(s, e, granted)
    OBVIOUS
  <2> HIDE DEF w2, q2, n, kept, s, waiting, queue, verdict, store, dead, told
  <2>6. EntersAs(kept, s, waiting, queue, e, origin, before, granted, verdict, after, entries,
                 made, w2, q2)
    BY <2>2, <2>3, <2>5 DEF EntersAs
  <2>7. ServedSoundly(kept, after, store, w2, dead, q2, told, n)
    BY <2>1, <2>4, <2>6, EnterSound
  <2> QED
    BY <2>7 DEF w2, q2, n, kept, store, dead, told
<1>9. DocumentSound(d)'
  <2>1. Kept(d)' = Kept(d)
    BY <1>2 DEF Kept
  <2> QED
    BY <1>2, <1>5, <1>8, <2>1 DEF DocumentSound
<1>10. \A x \in Doc \ {d} :
         /\ sequencer'[x] = sequencer[x] /\ stores'[x] = stores[x] /\ appends'[x] = appends[x]
         /\ failed'[x] = failed[x] /\ deliveries'[x] = deliveries[x] /\ sent'[x] = sent[x]
  <2> SUFFICES ASSUME NEW x \in Doc, x # d
               PROVE  /\ sequencer'[x] = sequencer[x] /\ appends'[x] = appends[x]
                      /\ deliveries'[x] = deliveries[x]
    BY <1>2
  <2>1. sequencer'[x] = sequencer[x]
    BY <1>1, <1>3 DEF TablesOfDocuments
  <2>2. appends'[x] = appends[x]
    BY <1>1, <1>3 DEF TablesOfDocuments
  <2>3. deliveries'[x] = deliveries[x]
    BY <1>1, <1>3 DEF TablesOfDocuments
  <2> QED
    BY <2>1, <2>2, <2>3
<1>11. \A x \in Doc : DocumentSound(x)'
  BY <1>2, <1>9, <1>10, OthersStay
<1> QED
  BY <1>4, <1>11

(* A table that changes for one document at most.                           *)
OnlyAt(f, g, d) == DOMAIN g = DOMAIN f /\ \A x \in DOMAIN f \ {d} : g[x] = f[x]

LEMMA OneAt ==
  ASSUME NEW f, NEW d \in DOMAIN f, NEW v
  PROVE  OnlyAt(f, f, d) /\ OnlyAt(f, [f EXCEPT ![d] = v], d) /\ [f EXCEPT ![d] = v][d] = v
  BY DEF OnlyAt

(* A step of one document.                                                  *)
LEMMA StepAt ==
  ASSUME ServeInv, NEW d \in Doc, scene' = scene, DOMAIN first' = DOMAIN first,
         OnlyAt(sequencer, sequencer', d), OnlyAt(stores, stores', d),
         OnlyAt(appends, appends', d), OnlyAt(failed, failed', d),
         OnlyAt(deliveries, deliveries', d), OnlyAt(sent, sent', d),
         spent'.submits \in {spent.submits, spent.submits + 1},
         ServedSoundly(Kept(d), sequencer'[d], stores'[d], appends'[d], failed'[d],
                       deliveries'[d], sent'[d], spent'.submits)
  PROVE  TablesOfDocuments' /\ \A x \in Doc : DocumentSound(x)'
<1>1. TablesOfDocuments
  BY DEF ServeInv
<1>2. Doc' = Doc /\ Kept(d)' = Kept(d)
  BY DEF Doc, Kept
<1>3. TablesOfDocuments'
  BY <1>1, <1>2 DEF TablesOfDocuments, OnlyAt
<1>4. DocumentSound(d)'
  BY <1>2 DEF DocumentSound
<1>5. \A x \in Doc \ {d} :
        /\ sequencer'[x] = sequencer[x] /\ stores'[x] = stores[x] /\ appends'[x] = appends[x]
        /\ failed'[x] = failed[x] /\ deliveries'[x] = deliveries[x] /\ sent'[x] = sent[x]
  BY <1>1 DEF TablesOfDocuments, OnlyAt
<1>6. \A x \in Doc : DocumentSound(x)'
  BY <1>4, <1>5, OthersStay
<1> QED
  BY <1>3, <1>6

(* The number of the next operation is a new id.                            *)
LEMMA NumberIsNew ==
  ASSUME ServeInv, NEW d \in Doc, NEW client, NEW op
  PROVE  /\ ServedSoundly(Kept(d), sequencer[d], stores[d], appends[d], failed[d], deliveries[d],
                          sent[d], spent.submits + 1)
         /\ Envelope(d, client, op).op = spent.submits + 1
         /\ Envelope(d, client, op).operation = op
         /\ Envelope(d, client, op).op \in 1..spent.submits + 1
         /\ \A i \in DOMAIN deliveries[d] : deliveries[d][i].id # Envelope(d, client, op).op
         /\ \A k \in DOMAIN appends[d] : appends[d][k].id # Envelope(d, client, op).op
<1>1. /\ spent.submits \in Nat
      /\ ServedSoundly(Kept(d), sequencer[d], stores[d], appends[d], failed[d], deliveries[d],
                       sent[d], spent.submits)
  BY DEF ServeInv, DocumentSound
<1>2. Envelope(d, client, op).op = spent.submits + 1 /\ Envelope(d, client, op).operation = op
  BY DEF Envelope
<1>3. spent.submits + 1 \in 1..spent.submits + 1
  BY <1>1
<1>4. /\ ServedSoundly(Kept(d), sequencer[d], stores[d], appends[d], failed[d], deliveries[d],
                       sent[d], spent.submits + 1)
      /\ \A i \in DOMAIN deliveries[d] : deliveries[d][i].id # spent.submits + 1
      /\ \A k \in DOMAIN appends[d] : appends[d][k].id # spent.submits + 1
  BY <1>1, MoreSubmits
<1> QED
  BY <1>2, <1>3, <1>4

(* A poisoned document.                                                     *)
LEMMA PoisonedKeeps ==
  ASSUME ServeInv, NEW d \in Doc, NEW client, NEW op, NEW origin, NEW before,
         Poisoned(d, Envelope(d, client, op), origin, before), OnSubmit,
         spent'.submits = spent.submits + 1
  PROVE  TablesOfDocuments' /\ \A x \in Doc : DocumentSound(x)'
<1> DEFINE e == Envelope(d, client, op)
           r == Result(e, origin, before, "pending", "throw", <<>>)
<1>1. /\ deliveries' = [deliveries EXCEPT ![d] = Append(deliveries[d], r)]
      /\ sequencer' = sequencer /\ appends' = appends
  BY DEF Poisoned
<1>2. scene' = scene /\ first' = first /\ stores' = stores /\ failed' = failed /\ sent' = sent
  BY DEF OnSubmit
<1>3. TablesOfDocuments
  BY DEF ServeInv
<1>4. /\ ServedSoundly(Kept(d), sequencer[d], stores[d], appends[d], failed[d], deliveries[d],
                       sent[d], spent.submits + 1)
      /\ e.op \in 1..spent.submits + 1
      /\ \A i \in DOMAIN deliveries[d] : deliveries[d][i].id # e.op
      /\ \A k \in DOMAIN appends[d] : appends[d][k].id # e.op
  BY NumberIsNew
<1>5. Kept(d) \in BOOLEAN
  BY DEF Kept, Persistent
<1> HIDE DEF e
<1>6. ServedSoundly(Kept(d), sequencer[d], stores[d], appends[d], failed[d],
                    Append(deliveries[d], r), sent[d], spent.submits + 1)
  BY <1>4, <1>5, PoisonedSound
<1> HIDE DEF r
<1>7. /\ OnlyAt(sequencer, sequencer', d) /\ OnlyAt(stores, stores', d)
      /\ OnlyAt(appends, appends', d) /\ OnlyAt(failed, failed', d)
      /\ OnlyAt(deliveries, deliveries', d) /\ OnlyAt(sent, sent', d)
      /\ deliveries'[d] = Append(deliveries[d], r)
  BY <1>1, <1>2, <1>3, OneAt DEF TablesOfDocuments
<1> QED
  BY <1>1, <1>2, <1>6, <1>7, StepAt

(* ServerInstance.submit.                                                   *)
LEMMA ServerKeeps ==
  ASSUME ServeInv, NEW d \in Doc, NEW op, IsOperation(op), SubmitFromServer(d, op), OnSubmit,
         spent'.submits = spent.submits + 1
  PROVE  TablesOfDocuments' /\ \A x \in Doc : DocumentSound(x)'
<1> DEFINE e == Envelope(d, ServerClient, op)
<1>1. CASE Kept(d) /\ failed[d]
  <2>1. Poisoned(d, e, "server", Before(d))
    BY <1>1 DEF SubmitFromServer
  <2> QED
    BY <2>1, PoisonedKeeps
<1>2. CASE ~(Kept(d) /\ failed[d])
  <2>1. Enter(d, sequencer[d], e, "server", Before(d), sequencer[d].currentRevision, TRUE)
    BY <1>2 DEF SubmitFromServer
  <2>2. /\ ServedSoundly(Kept(d), sequencer[d], stores[d], appends[d], failed[d], deliveries[d],
                         sent[d], spent'.submits)
        /\ e.op \in 1..spent'.submits /\ IsOperation(e.operation)
        /\ \A i \in DOMAIN deliveries[d] : deliveries[d][i].id # e.op
        /\ \A k \in DOMAIN appends[d] : appends[d][k].id # e.op
    BY NumberIsNew
  <2> HIDE DEF e
  <2> QED
    BY <2>1, <2>2, EnterKeeps
<1> QED
  BY <1>1, <1>2

LEMMA CountSubmits ==
  ASSUME ServeInv, Count("submits")
  PROVE  DOMAIN spent' = DOMAIN spent /\ spent'.submits = spent.submits + 1
  BY DEF Count, ServeInv

LEMMA ServerSubmitsServe == ServeInv /\ ServerSubmits => ServeInv'
<1> SUFFICES ASSUME ServeInv, ServerSubmits PROVE ServeInv'
  OBVIOUS
<1>1. /\ hook' = None /\ OnSubmit /\ Count("submits")
      /\ \E d \in Doc, op \in ServerOperation[scene] : SubmitFromServer(d, op)
  BY DEF ServerSubmits, Idle
<1>2. DOMAIN spent' = DOMAIN spent /\ spent'.submits = spent.submits + 1 /\ scene' = scene
  BY <1>1, CountSubmits DEF OnSubmit
<1>3. PICK d \in Doc : \E op \in ServerOperation[scene] : SubmitFromServer(d, op)
  BY <1>1
<1>4. PICK op \in ServerOperation[scene] : SubmitFromServer(d, op)
  BY <1>3
<1>5. IsOperation(op)
  BY OperationAssumption DEF ServeInv
<1>6. TablesOfDocuments' /\ \A x \in Doc : DocumentSound(x)'
  BY <1>1, <1>2, <1>4, <1>5, ServerKeeps
<1>7. HookSound'
  BY <1>1 DEF HookSound
<1> QED
  BY <1>2, <1>6, <1>7, StepSound

LEMMA HookSubmitsServe == ServeInv /\ HookSubmits => ServeInv'
<1> SUFFICES ASSUME ServeInv, HookSubmits PROVE ServeInv'
  OBVIOUS
<1>1. hook' = hook /\ OnSubmit /\ Count("submits")
  BY DEF HookSubmits
<1>2. DOMAIN spent' = DOMAIN spent /\ spent'.submits = spent.submits + 1 /\ scene' = scene
  BY <1>1, CountSubmits DEF OnSubmit
<1>3. CASE RejectedInside
  <2>1. /\ sequencer' = sequencer /\ appends' = appends /\ deliveries' = deliveries
        /\ first' = first /\ stores' = stores /\ failed' = failed /\ sent' = sent
    BY <1>1, <1>3 DEF HookSubmits, OnSubmit
  <2>2. TablesOfDocuments' /\ HookSound'
    <3>1. Doc' = Doc
      BY <1>2 DEF Doc
    <3>2. TablesOfDocuments'
      BY <2>1, <3>1 DEF ServeInv, TablesOfDocuments
    <3>3. spent.submits \in Nat
      BY DEF ServeInv
    <3>4. \A i \in 1..spent.submits : i \in 1..spent'.submits
      BY <1>2, <3>3
    <3>5. HookSound'
      BY <1>1, <2>1, <3>1, <3>4 DEF ServeInv, HookSound
    <3> QED
      BY <3>2, <3>5
  <2>3. ASSUME NEW x \in Doc PROVE DocumentSound(x)'
    <3>1. ServedSoundly(Kept(x), sequencer[x], stores[x], appends[x], failed[x], deliveries[x],
                        sent[x], spent.submits + 1)
      BY NumberIsNew
    <3>2. Kept(x)' = Kept(x)
      BY <1>2 DEF Kept
    <3> QED
      BY <1>2, <2>1, <3>1, <3>2 DEF DocumentSound
  <2> QED
    BY <1>2, <2>2, <2>3, StepSound
<1>4. CASE ~RejectedInside
  <2>1. PICK d \in Doc : \E op \in ServerOperation[scene] : SubmitFromServer(d, op)
    BY <1>4 DEF HookSubmits
  <2>2. PICK op \in ServerOperation[scene] : SubmitFromServer(d, op)
    BY <2>1
  <2>3. IsOperation(op)
    BY OperationAssumption DEF ServeInv
  <2>4. TablesOfDocuments' /\ \A x \in Doc : DocumentSound(x)'
    BY <1>1, <1>2, <2>2, <2>3, ServerKeeps
  <2>5. HookSound'
    BY <1>1, <1>4 DEF HookSound, RejectedInside
  <2> QED
    BY <1>2, <2>4, <2>5, StepSound
<1> QED
  BY <1>3, <1>4

LEMMA ClientSubmitsServe == ServeInv /\ ClientSubmits => ServeInv'
<1> SUFFICES ASSUME ServeInv, ClientSubmits PROVE ServeInv'
  OBVIOUS
<1>1. hook = None /\ OnSubmit /\ Count("submits")
  BY DEF ClientSubmits, Idle
<1>2. /\ DOMAIN spent' = DOMAIN spent /\ spent'.submits = spent.submits + 1 /\ scene' = scene
      /\ first' = first /\ stores' = stores /\ failed' = failed /\ sent' = sent
  BY <1>1, CountSubmits DEF OnSubmit
<1>3. PICK d \in Doc : \E op \in ClientOperation[scene] :
        LET e == Envelope(d, Author, op)
        IN  \/ /\ Kept(d) /\ failed[d]
               /\ Poisoned(d, e, "client", Before(d))
               /\ UNCHANGED hook
            \/ /\ ~(Kept(d) /\ failed[d])
               /\ scene \notin Hooked
               /\ Enter(d, sequencer[d], e, "client", None, sequencer[d].currentRevision, TRUE)
               /\ UNCHANGED hook
            \/ /\ ~(Kept(d) /\ failed[d])
               /\ scene \in Hooked
               /\ sequencer' = [sequencer EXCEPT ![d] = Consumed(@, e)]
               /\ hook' = [kind |-> "authorize", doc |-> d, envelope |-> e,
                           before |-> Before(d), revision |-> sequencer[d].currentRevision]
               /\ UNCHANGED <<appends, deliveries, loop>>
  BY DEF ClientSubmits
<1>4. PICK op \in ClientOperation[scene] :
        LET e == Envelope(d, Author, op)
        IN  \/ /\ Kept(d) /\ failed[d]
               /\ Poisoned(d, e, "client", Before(d))
               /\ UNCHANGED hook
            \/ /\ ~(Kept(d) /\ failed[d])
               /\ scene \notin Hooked
               /\ Enter(d, sequencer[d], e, "client", None, sequencer[d].currentRevision, TRUE)
               /\ UNCHANGED hook
            \/ /\ ~(Kept(d) /\ failed[d])
               /\ scene \in Hooked
               /\ sequencer' = [sequencer EXCEPT ![d] = Consumed(@, e)]
               /\ hook' = [kind |-> "authorize", doc |-> d, envelope |-> e,
                           before |-> Before(d), revision |-> sequencer[d].currentRevision]
               /\ UNCHANGED <<appends, deliveries, loop>>
  BY <1>3
<1> DEFINE e == Envelope(d, Author, op)
<1>5. IsOperation(op)
  BY OperationAssumption DEF ServeInv
<1>6. /\ ServedSoundly(Kept(d), sequencer[d], stores[d], appends[d], failed[d], deliveries[d],
                       sent[d], spent.submits + 1)
      /\ e.op = spent.submits + 1 /\ e.operation = op
      /\ e.op \in 1..spent.submits + 1
      /\ \A i \in DOMAIN deliveries[d] : deliveries[d][i].id # e.op
      /\ \A k \in DOMAIN appends[d] : appends[d][k].id # e.op
  BY NumberIsNew
<1>7. CASE Poisoned(d, e, "client", Before(d)) /\ hook' = hook
  <2>1. TablesOfDocuments' /\ \A x \in Doc : DocumentSound(x)'
    BY <1>1, <1>2, <1>7, PoisonedKeeps
  <2>2. HookSound'
    BY <1>1, <1>7 DEF HookSound
  <2> QED
    BY <1>2, <2>1, <2>2, StepSound
<1>8. CASE /\ Enter(d, sequencer[d], e, "client", None, sequencer[d].currentRevision, TRUE)
           /\ hook' = hook
  <2>1. TablesOfDocuments' /\ \A x \in Doc : DocumentSound(x)'
    <3> HIDE DEF e
    <3> QED
      BY <1>1, <1>2, <1>5, <1>6, <1>8, EnterKeeps
  <2>2. HookSound'
    BY <1>1, <1>8 DEF HookSound
  <2> QED
    BY <1>2, <2>1, <2>2, StepSound
<1>9. CASE /\ sequencer' = [sequencer EXCEPT ![d] = Consumed(@, e)]
           /\ hook' = [kind |-> "authorize", doc |-> d, envelope |-> e,
                       before |-> Before(d), revision |-> sequencer[d].currentRevision]
           /\ UNCHANGED <<appends, deliveries, loop>>
  <2> HIDE DEF e
  <2>1. /\ sequencer' = [sequencer EXCEPT ![d] = Consumed(sequencer[d], e)]
        /\ appends' = appends /\ deliveries' = deliveries
    BY <1>9
  <2>2. TablesOfDocuments
    BY DEF ServeInv
  <2>3. /\ OnlyAt(sequencer, sequencer', d) /\ OnlyAt(stores, stores', d)
        /\ OnlyAt(appends, appends', d) /\ OnlyAt(failed, failed', d)
        /\ OnlyAt(deliveries, deliveries', d) /\ OnlyAt(sent, sent', d)
        /\ sequencer'[d] = Consumed(sequencer[d], e)
    BY <1>2, <2>1, <2>2, OneAt DEF TablesOfDocuments
  <2>4. /\ ServedSoundly(Kept(d), sequencer'[d], stores[d], appends[d], failed[d], deliveries[d],
                         sent[d], spent.submits + 1)
        /\ sequencer'[d].currentRevision = sequencer[d].currentRevision
    BY <1>6, <2>3, ConsumedSound
  <2>5. TablesOfDocuments' /\ \A x \in Doc : DocumentSound(x)'
    BY <1>2, <2>1, <2>3, <2>4, StepAt
  <2>6. HookSound'
    <3>1. /\ hook'.doc = d /\ hook'.envelope = e
          /\ hook'.revision = sequencer[d].currentRevision
      BY <1>9
    <3>2. Doc' = Doc
      BY <1>2 DEF Doc
    <3> QED
      BY <1>2, <1>5, <1>6, <2>1, <2>4, <3>1, <3>2 DEF HookSound
  <2> QED
    BY <1>2, <2>5, <2>6, StepSound
<1> QED
  BY <1>4, <1>7, <1>8, <1>9

LEMMA AuthorizeReturnsServe == ServeInv /\ AuthorizeReturns => ServeInv'
<1> SUFFICES ASSUME ServeInv, AuthorizeReturns PROVE ServeInv'
  OBVIOUS
<1> DEFINE d == hook.doc
           e == hook.envelope
           before == hook.before
           revision == hook.revision
<1>1. /\ hook # None /\ hook.kind = "authorize" /\ hook' = None /\ spent' = spent /\ OnSubmit
      /\ \E granted \in BOOLEAN : Enter(d, sequencer[d], e, "client", before, revision, granted)
  BY DEF AuthorizeReturns
<1>2. /\ d \in Doc /\ IsOperation(e.operation)
      /\ revision = sequencer[d].currentRevision
      /\ e.op \in 1..spent.submits
      /\ \A i \in DOMAIN deliveries[d] : deliveries[d][i].id # e.op
      /\ \A k \in DOMAIN appends[d] : appends[d][k].id # e.op
  BY <1>1 DEF ServeInv, HookSound
<1>3. ServedSoundly(Kept(d), sequencer[d], stores[d], appends[d], failed[d], deliveries[d],
                    sent[d], spent'.submits)
  BY <1>1, <1>2 DEF ServeInv, DocumentSound
<1>4. PICK granted \in BOOLEAN : Enter(d, sequencer[d], e, "client", before, revision, granted)
  BY <1>1
<1>5. scene' = scene /\ spent'.submits = spent.submits /\ DOMAIN spent' = DOMAIN spent
  BY <1>1 DEF OnSubmit
<1> HIDE DEF d, e, before, revision
<1>6. TablesOfDocuments' /\ \A x \in Doc : DocumentSound(x)'
  BY <1>1, <1>2, <1>3, <1>4, <1>5, EnterKeeps
<1>7. HookSound'
  BY <1>1 DEF HookSound
<1> QED
  BY <1>5, <1>6, <1>7, StepSound

LEMMA StoreAppendsServe ==
  ASSUME ServeInv, NEW d \in Doc, StoreAppends(d)
  PROVE  ServeInv'
<1>1. /\ hook = None /\ ~failed[d] /\ 1 \in DOMAIN appends[d]
      /\ stores' = [stores EXCEPT ![d].log = @ \o appends[d][1].entries]
      /\ appends' = [appends EXCEPT ![d] = RemoveAt(appends[d], 1)]
      /\ deliveries' = [deliveries EXCEPT ![d] = SettledAt(deliveries[d], appends[d][1].id, "ready")]
      /\ scene' = scene /\ first' = first /\ sequencer' = sequencer /\ failed' = failed
      /\ sent' = sent /\ hook' = hook /\ spent' = spent
  BY DEF StoreAppends, NextAppend, Idle
<1>2. TablesOfDocuments /\ spent.submits \in Nat
  BY DEF ServeInv
<1> DEFINE st2 == [stores[d] EXCEPT !.log = @ \o appends[d][1].entries]
           w2 == RemoveAt(appends[d], 1)
           q2 == SettledAt(deliveries[d], appends[d][1].id, "ready")
<1>3. /\ stores' = [stores EXCEPT ![d] = st2] /\ appends' = [appends EXCEPT ![d] = w2]
      /\ deliveries' = [deliveries EXCEPT ![d] = q2]
  BY <1>1
<1>4. ServedSoundly(Kept(d), sequencer[d], stores[d], appends[d], failed[d], deliveries[d],
                    sent[d], spent.submits)
  BY DEF ServeInv, DocumentSound
<1>5. Kept(d) = TRUE
  BY <1>1, <1>4 DEF ServedSoundly, Kept, Persistent
<1>6. ServedSoundly(TRUE, sequencer[d], stores[d], appends[d], FALSE, deliveries[d],
                    sent[d], spent.submits)
  BY <1>1, <1>4, <1>5 DEF ServedSoundly, AppendsSound
<1>7. ServedSoundly(TRUE, sequencer[d], st2, w2, FALSE, q2, sent[d], spent.submits)
  BY <1>1, <1>6, AppendStored
<1> HIDE DEF st2, w2, q2
<1>8. ServedSoundly(Kept(d), sequencer[d], st2, w2, failed[d], q2, sent[d], spent.submits)
  BY <1>1, <1>5, <1>7 DEF ServedSoundly, AppendsSound
<1>9. /\ OnlyAt(sequencer, sequencer', d) /\ OnlyAt(stores, stores', d)
      /\ OnlyAt(appends, appends', d) /\ OnlyAt(failed, failed', d)
      /\ OnlyAt(deliveries, deliveries', d) /\ OnlyAt(sent, sent', d)
      /\ stores'[d] = st2 /\ appends'[d] = w2 /\ deliveries'[d] = q2
  <2>0. /\ d \in DOMAIN sequencer /\ d \in DOMAIN stores /\ d \in DOMAIN appends
        /\ d \in DOMAIN failed /\ d \in DOMAIN deliveries /\ d \in DOMAIN sent
    BY <1>2 DEF TablesOfDocuments
  <2>1. OnlyAt(stores, stores', d) /\ stores'[d] = st2
    BY <1>3, <2>0, OneAt
  <2>2. OnlyAt(appends, appends', d) /\ appends'[d] = w2
    BY <1>3, <2>0, OneAt
  <2>3. OnlyAt(deliveries, deliveries', d) /\ deliveries'[d] = q2
    BY <1>3, <2>0, OneAt
  <2>4. OnlyAt(sequencer, sequencer', d) /\ OnlyAt(failed, failed', d) /\ OnlyAt(sent, sent', d)
    BY <1>1, <2>0, OneAt
  <2> QED
    BY <2>1, <2>2, <2>3, <2>4
<1>10. TablesOfDocuments' /\ \A x \in Doc : DocumentSound(x)'
  BY <1>1, <1>8, <1>9, StepAt
<1>11. HookSound'
  BY <1>1 DEF HookSound
<1> QED
  BY <1>1, <1>10, <1>11, StepSound

LEMMA StoreFailsServe ==
  ASSUME ServeInv, NEW d \in Doc, StoreFails(d)
  PROVE  ServeInv'
<1>1. /\ hook = None /\ appends[d] # <<>>
      /\ spent' = [spent EXCEPT !.failures = IF failed[d] THEN @ ELSE @ + 1]
      /\ failed' = [failed EXCEPT ![d] = TRUE]
      /\ appends' = [appends EXCEPT ![d] = Tail(appends[d])]
      /\ deliveries' = [deliveries EXCEPT ![d] = SettledAt(deliveries[d], appends[d][1].id, "failed")]
      /\ scene' = scene /\ first' = first /\ sequencer' = sequencer /\ stores' = stores
      /\ sent' = sent /\ hook' = hook
  BY DEF StoreFails, Idle
<1>2. /\ TablesOfDocuments /\ DOMAIN spent' = DOMAIN spent
      /\ spent'.submits = spent.submits
  BY <1>1 DEF ServeInv
<1> DEFINE w2 == Tail(appends[d])
           q2 == SettledAt(deliveries[d], appends[d][1].id, "failed")
<1>3. ServedSoundly(Kept(d), sequencer[d], stores[d], appends[d], failed[d], deliveries[d],
                    sent[d], spent.submits)
  BY DEF ServeInv, DocumentSound
<1>4. ServedSoundly(Kept(d), sequencer[d], stores[d], w2, TRUE, q2, sent[d], spent.submits)
  BY <1>1, <1>3, AppendFailed
<1> HIDE DEF w2, q2
<1>5. /\ OnlyAt(sequencer, sequencer', d) /\ OnlyAt(stores, stores', d)
      /\ OnlyAt(appends, appends', d) /\ OnlyAt(failed, failed', d)
      /\ OnlyAt(deliveries, deliveries', d) /\ OnlyAt(sent, sent', d)
      /\ failed'[d] = TRUE /\ appends'[d] = w2 /\ deliveries'[d] = q2
  <2>0. /\ d \in DOMAIN sequencer /\ d \in DOMAIN stores /\ d \in DOMAIN appends
        /\ d \in DOMAIN failed /\ d \in DOMAIN deliveries /\ d \in DOMAIN sent
    BY <1>2 DEF TablesOfDocuments
  <2>1. OnlyAt(failed, failed', d) /\ failed'[d] = TRUE
    BY <1>1, <2>0, OneAt
  <2>2. OnlyAt(appends, appends', d) /\ appends'[d] = w2
    BY <1>1, <2>0, OneAt DEF w2
  <2>3. OnlyAt(deliveries, deliveries', d) /\ deliveries'[d] = q2
    BY <1>1, <2>0, OneAt, ZenonT(30) DEF q2
  <2>4. OnlyAt(sequencer, sequencer', d) /\ OnlyAt(stores, stores', d) /\ OnlyAt(sent, sent', d)
    BY <1>1, <2>0, OneAt
  <2> QED
    BY <2>1, <2>2, <2>3, <2>4
<1>6. TablesOfDocuments' /\ \A x \in Doc : DocumentSound(x)'
  BY <1>1, <1>2, <1>4, <1>5, StepAt
<1>7. HookSound'
  BY <1>1 DEF HookSound
<1> QED
  BY <1>1, <1>2, <1>6, <1>7, StepSound

LEMMA TurnEndsServe ==
  ASSUME ServeInv, NEW d \in Doc, TurnEnds(d)
  PROVE  ServeInv'
<1>1. /\ hook = None
      /\ \E i \in DOMAIN deliveries[d] :
           /\ deliveries[d][i].waits \in {"turn", "throw"}
           /\ deliveries' = [deliveries EXCEPT ![d] =
                SettledAt(deliveries[d], deliveries[d][i].id,
                          IF deliveries[d][i].waits = "turn" THEN "ready" ELSE "failed")]
      /\ scene' = scene /\ first' = first /\ sequencer' = sequencer /\ stores' = stores
      /\ appends' = appends /\ failed' = failed /\ sent' = sent /\ hook' = hook
      /\ spent' = spent
  BY DEF TurnEnds, Idle
<1>2. PICK i \in DOMAIN deliveries[d] :
           /\ deliveries[d][i].waits \in {"turn", "throw"}
           /\ deliveries' = [deliveries EXCEPT ![d] =
                SettledAt(deliveries[d], deliveries[d][i].id,
                          IF deliveries[d][i].waits = "turn" THEN "ready" ELSE "failed")]
  BY <1>1
<1>3. TablesOfDocuments
  BY DEF ServeInv
<1> DEFINE state == IF deliveries[d][i].waits = "turn" THEN "ready" ELSE "failed"
           q2 == SettledAt(deliveries[d], deliveries[d][i].id, state)
<1>4. ServedSoundly(Kept(d), sequencer[d], stores[d], appends[d], failed[d], deliveries[d],
                    sent[d], spent.submits)
  BY DEF ServeInv, DocumentSound
<1>5. deliveries' = [deliveries EXCEPT ![d] = q2]
  BY <1>2
<1> HIDE DEF state
<1>6. ServedSoundly(Kept(d), sequencer[d], stores[d], appends[d], failed[d], q2, sent[d],
                    spent.submits)
  BY <1>2, <1>4, TurnEnded
<1> HIDE DEF q2
<1>7. /\ OnlyAt(sequencer, sequencer', d) /\ OnlyAt(stores, stores', d)
      /\ OnlyAt(appends, appends', d) /\ OnlyAt(failed, failed', d)
      /\ OnlyAt(deliveries, deliveries', d) /\ OnlyAt(sent, sent', d)
      /\ deliveries'[d] = q2
  BY <1>1, <1>3, <1>5, OneAt DEF TablesOfDocuments
<1>8. TablesOfDocuments' /\ \A x \in Doc : DocumentSound(x)'
  BY <1>1, <1>6, <1>7, StepAt
<1>9. HookSound'
  BY <1>1 DEF HookSound
<1> QED
  BY <1>1, <1>8, <1>9, StepSound

LEMMA DeliverServe == ServeInv /\ Deliver => ServeInv'
<1> SUFFICES ASSUME ServeInv, Deliver PROVE ServeInv'
  OBVIOUS
<1> DEFINE line == IF loop.turn = <<>> THEN loop.waiting ELSE loop.turn
           d == Head(line)
           ready == DeliverableIn(deliveries[d])
           i == LeastOf(ready)
           delivery == deliveries[d][i]
           tells == delivery.state = "ready" /\ delivery.entries # <<>>
<1>1. /\ hook = None /\ scene' = scene /\ first' = first /\ sequencer' = sequencer
      /\ stores' = stores /\ appends' = appends /\ failed' = failed /\ spent' = spent
  BY DEF Deliver
<1>2. \/ ready = {} /\ deliveries' = deliveries /\ sent' = sent /\ hook' = hook
      \/ /\ ready # {}
         /\ deliveries' = [deliveries EXCEPT ![d] = RemoveAt(@, i)]
         /\ sent' = IF tells THEN [sent EXCEPT ![d] = Append(@, delivery.entries[1].rev)] ELSE sent
         /\ hook' = [kind |-> "accepted", doc |-> d] \/ hook' = hook
  BY Zenon DEF Deliver
<1>3. TablesOfDocuments
  BY DEF ServeInv
<1>4. HookSound'
  <2>1. hook' = [kind |-> "accepted", doc |-> d] \/ hook' = hook
    BY <1>2, Zenon
  <2> HIDE DEF d
  <2>2. hook'.kind = "accepted" \/ hook' = None
    BY <1>1, <2>1
  <2> QED
    BY <2>2 DEF HookSound
<1> HIDE DEF line, d, ready, i, tells
<1>5. CASE /\ DOMAIN deliveries' = Doc /\ \A x \in Doc : deliveries'[x] = deliveries[x]
           /\ DOMAIN sent' = Doc /\ \A x \in Doc : sent'[x] = sent[x]
  <2>1. Doc' = Doc
    BY <1>1 DEF Doc
  <2>2. TablesOfDocuments'
    BY <1>1, <1>3, <1>5, <2>1 DEF TablesOfDocuments
  <2>3. ASSUME NEW x \in Doc PROVE DocumentSound(x)'
    BY <1>1, <1>5 DEF ServeInv, DocumentSound, Kept
  <2> QED
    BY <1>1, <1>4, <2>2, <2>3, StepSound
<1>6. CASE /\ ready # {}
           /\ deliveries' = [deliveries EXCEPT ![d] = RemoveAt(@, i)]
           /\ sent' = IF tells THEN [sent EXCEPT ![d] = Append(@, delivery.entries[1].rev)] ELSE sent
  <2>1. CASE d \notin Doc
    <3>1. /\ DOMAIN deliveries' = Doc /\ \A x \in Doc : deliveries'[x] = deliveries[x]
          /\ DOMAIN sent' = Doc /\ \A x \in Doc : sent'[x] = sent[x]
      BY <1>3, <1>6, <2>1 DEF TablesOfDocuments
    <3> QED
      BY <1>5, <3>1
  <2>2. CASE d \in Doc
    <3> DEFINE queue == deliveries[d]
               told == sent[d]
               q2 == RemoveAt(queue, i)
               told2 == IF tells THEN Append(told, queue[i].entries[1].rev) ELSE told
    <3>1. ServedSoundly(Kept(d), sequencer[d], stores[d], appends[d], failed[d], queue, told,
                        spent.submits)
      BY <2>2 DEF ServeInv, DocumentSound
    <3>2. queue \in Seq(ToSet(queue))
      BY <3>1 DEF ServedSoundly, ResultsSound
    <3>3. i \in DOMAIN queue
      <4>1. ready \subseteq DOMAIN queue
        BY DEF ready, DeliverableIn
      <4>2. DOMAIN queue \subseteq Nat
        BY <3>2
      <4>3. \E k \in ready : \A j \in ready : k <= j
        BY <1>6, <4>1, <4>2, Smallest
      <4>4. i \in ready
        BY <4>3 DEF i, LeastOf
      <4> QED
        BY <4>1, <4>4
    <3>4. told2 = IF queue[i].state = "ready" /\ queue[i].entries # <<>>
                  THEN Append(told, queue[i].entries[1].rev) ELSE told
      BY DEF tells
    <3>5. /\ deliveries' = [deliveries EXCEPT ![d] = q2]
          /\ sent' = IF tells THEN [sent EXCEPT ![d] = told2] ELSE sent
      BY <1>6
    <3>6. ~tells => told2 = told
      OBVIOUS
    <3> HIDE DEF told2, queue, told
    <3>7. ServedSoundly(Kept(d), sequencer[d], stores[d], appends[d], failed[d], q2, told2,
                        spent.submits)
      BY <3>1, <3>3, <3>4, Delivered
    <3> HIDE DEF q2
    <3>8. OnlyAt(deliveries, deliveries', d) /\ deliveries'[d] = q2
      BY <1>3, <2>2, <3>5, OneAt DEF TablesOfDocuments
    <3>9. OnlyAt(sent, sent', d) /\ sent'[d] = told2
      BY <1>3, <2>2, <3>5, <3>6, OneAt DEF TablesOfDocuments, told
    <3>10. /\ OnlyAt(sequencer, sequencer', d) /\ OnlyAt(stores, stores', d)
           /\ OnlyAt(appends, appends', d) /\ OnlyAt(failed, failed', d)
      BY <1>1, <1>3, <2>2, OneAt DEF TablesOfDocuments
    <3>11. TablesOfDocuments' /\ \A x \in Doc : DocumentSound(x)'
      BY <1>1, <2>2, <3>7, <3>8, <3>9, <3>10, StepAt
    <3> QED
      BY <1>1, <1>4, <3>11, StepSound
  <2> QED
    BY <2>1, <2>2
<1>7. deliveries' = deliveries /\ sent' = sent =>
        /\ DOMAIN deliveries' = Doc /\ \A x \in Doc : deliveries'[x] = deliveries[x]
        /\ DOMAIN sent' = Doc /\ \A x \in Doc : sent'[x] = sent[x]
  BY <1>3 DEF TablesOfDocuments
<1> QED
  BY <1>2, <1>5, <1>6, <1>7

LEMMA AcceptedReturnsServe == ServeInv /\ AcceptedReturns => ServeInv'
<1> SUFFICES ASSUME ServeInv, AcceptedReturns PROVE ServeInv'
  OBVIOUS
<1>1. /\ hook' = None /\ scene' = scene /\ first' = first /\ sequencer' = sequencer
      /\ stores' = stores /\ appends' = appends /\ failed' = failed /\ deliveries' = deliveries
      /\ sent' = sent /\ spent' = spent
  BY DEF AcceptedReturns
<1>2. Doc' = Doc /\ HookSound'
  BY <1>1 DEF Doc, HookSound
<1>3. TablesOfDocuments'
  BY <1>1, <1>2 DEF ServeInv, TablesOfDocuments
<1>4. ASSUME NEW x \in Doc PROVE DocumentSound(x)'
  BY <1>1 DEF ServeInv, DocumentSound, Kept
<1> QED
  BY <1>1, <1>2, <1>3, <1>4, StepSound

(* What the invariant speaks of stands still.                               *)
LEMMA StandsStill ==
  ASSUME ServeInv,
         UNCHANGED <<scene, first, sequencer, stores, appends, failed, deliveries, sent, hook, spent>>
  PROVE  ServeInv'
<1>1. /\ hook' = hook /\ scene' = scene /\ first' = first /\ sequencer' = sequencer
      /\ stores' = stores /\ appends' = appends /\ failed' = failed /\ deliveries' = deliveries
      /\ sent' = sent /\ spent' = spent
  OBVIOUS
<1>2. Doc' = Doc
  BY <1>1 DEF Doc
<1>3. TablesOfDocuments' /\ HookSound'
  BY <1>1, <1>2 DEF ServeInv, TablesOfDocuments, HookSound
<1>4. ASSUME NEW x \in Doc PROVE DocumentSound(x)'
  BY <1>1 DEF ServeInv, DocumentSound, Kept
<1> QED
  BY <1>1, <1>3, <1>4, StepSound

LEMMA RestartServe ==
  ASSUME ServeInv, NEW d \in Doc, Restart(d)
  PROVE  ServeInv'
<1> DEFINE options == ServedWith[scene][d]
           store == stores[d]
<1>1. /\ hook = None
      /\ \E rows \in FirstRows[scene] :
           /\ ~InitialDocumentRefused(rows)
           /\ first' = [first EXCEPT ![d] = FirstState(options, store, rows, OtherServe)]
      /\ sequencer' = [sequencer EXCEPT ![d] = first'[d]]
      /\ stores' = [stores EXCEPT ![d] = FirstStores(options, store, first'[d])]
      /\ appends' = [appends EXCEPT ![d] = <<>>]
      /\ failed' = [failed EXCEPT ![d] = FALSE]
      /\ deliveries' = [deliveries EXCEPT ![d] = <<>>]
      /\ sent' = [sent EXCEPT ![d] = <<>>]
      /\ Count("restarts") /\ scene' = scene /\ hook' = hook
  BY DEF Restart, Idle
<1>2. PICK rows \in FirstRows[scene] :
        /\ ~InitialDocumentRefused(rows)
        /\ first' = [first EXCEPT ![d] = FirstState(options, store, rows, OtherServe)]
  BY <1>1
<1> DEFINE t == FirstState(options, store, rows, OtherServe)
           st2 == FirstStores(options, store, t)
<1>3. TablesOfDocuments /\ DOMAIN spent' = DOMAIN spent /\ spent'.submits = spent.submits
  BY <1>1 DEF Count, ServeInv
<1>4. first'[d] = t /\ DOMAIN first' = DOMAIN first
  BY <1>2, <1>3 DEF TablesOfDocuments
<1>5. /\ scene \in Scene /\ ~Conflicting(options)
      /\ ("restoreFrom" \in options => ~(Injected \subseteq options))
  BY RestoreAssumption DEF ServeInv, Doc
<1>6. /\ rows \in Seq(ToSet(rows))
      /\ PersistedSnapshot(FreshState(BuildInitialDocument(rows))) # None
  BY <1>2, <1>5, RowsAssumption, NoneAssumption
<1>7. Kept(d) = Persistent(options)
  BY DEF Kept
<1>8. Persistent(options) => \E s : StateSound(s) /\ StoreSound(s, store)
  BY <1>7 DEF ServeInv, DocumentSound, ServedSoundly
<1>9. /\ sequencer' = [sequencer EXCEPT ![d] = t] /\ stores' = [stores EXCEPT ![d] = st2]
  BY <1>1, <1>4
<1> HIDE DEF options, store, t
<1>10. ServedSoundly(Persistent(options), t, st2, <<>>, FALSE, <<>>, <<>>, spent.submits)
  BY <1>2, <1>5, <1>6, <1>8, FirstSound DEF t
<1> HIDE DEF st2
<1>11. /\ OnlyAt(sequencer, sequencer', d) /\ OnlyAt(stores, stores', d)
       /\ OnlyAt(appends, appends', d) /\ OnlyAt(failed, failed', d)
       /\ OnlyAt(deliveries, deliveries', d) /\ OnlyAt(sent, sent', d)
       /\ sequencer'[d] = t /\ stores'[d] = st2 /\ appends'[d] = <<>> /\ failed'[d] = FALSE
       /\ deliveries'[d] = <<>> /\ sent'[d] = <<>>
  <2>0. /\ d \in DOMAIN sequencer /\ d \in DOMAIN stores /\ d \in DOMAIN appends
        /\ d \in DOMAIN failed /\ d \in DOMAIN deliveries /\ d \in DOMAIN sent
    BY <1>3 DEF TablesOfDocuments
  <2>1. OnlyAt(sequencer, sequencer', d) /\ sequencer'[d] = t
    BY <1>9, <2>0, OneAt
  <2>2. OnlyAt(stores, stores', d) /\ stores'[d] = st2
    BY <1>9, <2>0, OneAt
  <2>3. OnlyAt(appends, appends', d) /\ appends'[d] = <<>>
    BY <1>1, <2>0, OneAt
  <2>4. OnlyAt(failed, failed', d) /\ failed'[d] = FALSE
    BY <1>1, <2>0, OneAt
  <2>5. OnlyAt(deliveries, deliveries', d) /\ deliveries'[d] = <<>>
    BY <1>1, <2>0, OneAt
  <2>6. OnlyAt(sent, sent', d) /\ sent'[d] = <<>>
    BY <1>1, <2>0, OneAt
  <2> QED
    BY <2>1, <2>2, <2>3, <2>4, <2>5, <2>6
<1>12. TablesOfDocuments' /\ \A x \in Doc : DocumentSound(x)'
  BY <1>1, <1>3, <1>4, <1>7, <1>10, <1>11, StepAt
<1>13. HookSound'
  BY <1>1 DEF HookSound
<1> QED
  BY <1>1, <1>3, <1>12, <1>13, StepSound

(* Every step keeps the documents of the serve sound.                       *)
LEMMA NextServe == ServeInv /\ [Next]_vars => ServeInv'
<1> SUFFICES ASSUME ServeInv, [Next]_vars PROVE ServeInv'
  OBVIOUS
<1>1. CASE ClientSubmits
  BY <1>1, ClientSubmitsServe
<1>2. CASE ServerSubmits
  BY <1>2, ServerSubmitsServe
<1>3. CASE AuthorizeReturns
  BY <1>3, AuthorizeReturnsServe
<1>4. CASE HookSubmits
  BY <1>4, HookSubmitsServe
<1>5. CASE Deliver
  BY <1>5, DeliverServe
<1>6. CASE AcceptedReturns
  BY <1>6, AcceptedReturnsServe
<1>7. ASSUME NEW d \in Doc, StoreAppends(d) PROVE ServeInv'
  BY <1>7, StoreAppendsServe
<1>8. ASSUME NEW d \in Doc, StoreFails(d) PROVE ServeInv'
  BY <1>8, StoreFailsServe
<1>9. ASSUME NEW d \in Doc, TurnEnds(d) PROVE ServeInv'
  BY <1>9, TurnEndsServe
<1>10. ASSUME NEW d \in Doc, TakeSnapshot(d) PROVE ServeInv'
  BY <1>10, StandsStill DEF TakeSnapshot
<1>11. ASSUME NEW d \in Doc, Restart(d) PROVE ServeInv'
  BY <1>11, RestartServe
<1>12. CASE UNCHANGED vars
  BY <1>12, StandsStill DEF vars
<1> QED
  BY <1>1, <1>2, <1>3, <1>4, <1>5, <1>6, <1>7, <1>8, <1>9, <1>10, <1>11, <1>12 DEF Next

(* The documents of the serve and their stores stay sound, whatever is      *)
(* submitted, from outside or from inside a hook, and whichever append      *)
(* fails and whenever a document is started again.                          *)
THEOREM ServeInvariance == Spec => []ServeInv
<1>1. Init => ServeInv
  BY InitServe
<1>2. ServeInv /\ [Next]_vars => ServeInv'
  BY NextServe
<1> QED
  BY <1>1, <1>2, PTL DEF Spec

(* No operation a client may send can make applyOperation throw in the      *)
(* middle of the sequencer's work, and slots and order stay as insertRows   *)
(* and the cell store need them.                                            *)
THEOREM DocumentsStaySound == Spec => []DocumentStaysSound
<1>1. ServeInv => DocumentStaysSound
  <2> SUFFICES ASSUME ServeInv, NEW d \in Doc
               PROVE  LET document == sequencer[d].document
                      IN  /\ IsInjective(document.rowOrder)
                          /\ ToSet(document.rowOrder) = DOMAIN document.row
                          /\ \A r, q \in DOMAIN document.row :
                               r # q => document.row[r].slot # document.row[q].slot
                          /\ document.maxSlot = MaxSlotOf(document.row)
                          /\ \A op \in ClientOperation[scene] :
                               ApplyThrows(document, op) => Violations(document, op) # {}
    BY DEF DocumentStaysSound, SlotsAndOrderSound, ValidationCoversApply
  <2> DEFINE document == sequencer[d].document
  <2>1. WellFormed(document)
    BY DEF ServeInv, DocumentSound, ServedSoundly, StateSound
  <2> HIDE DEF document
  <2>2. /\ IsInjective(document.rowOrder) /\ ToSet(document.rowOrder) = DOMAIN document.row
        /\ \A r, q \in DOMAIN document.row :
             r # q => document.row[r].slot # document.row[q].slot
    BY <2>1 DEF WellFormed, OrderSound, SlotsSound
  <2>3. document.maxSlot = MaxSlotOf(document.row)
    BY <2>1, MaxSlotFound DEF WellFormed
  <2>4. \A op \in ClientOperation[scene] :
          ApplyThrows(document, op) => Violations(document, op) # {}
    BY ValidCoversApply
  <2> QED
    BY <2>2, <2>3, <2>4 DEF document
<1> QED
  BY <1>1, ServeInvariance, PTL

(* What a kept document has stored is a beginning of what it accepted, what *)
(* was told is stored, and a restart from the stores is possible and gives  *)
(* the document that is served.                                             *)
THEOREM StoresHoldWhatWasAccepted == Spec => []StoredAsAccepted
<1>1. ServeInv => StoredAsAccepted
  <2> SUFFICES ASSUME ServeInv, NEW d \in Doc, Kept(d)
               PROVE  LET kept == stores[d].log
                      IN  /\ kept = SubSeq(sequencer[d].operationLog, 1, Len(kept))
                          /\ ~RecoveryRefused(SnapshotOf(stores[d]), kept)
                          /\ \A i \in DOMAIN sent[d] : sent[d][i] <= Len(kept)
                          /\ appends[d] = <<>> /\ ~failed[d] /\ hook = None =>
                               Recovered(SnapshotOf(stores[d]), kept).document
                                 = sequencer[d].document
    BY DEF StoredAsAccepted
  <2> DEFINE s == sequencer[d]
             store == stores[d]
             kept == store.log
             log == s.operationLog
             waiting == appends[d]
  <2>1. /\ StateSound(s) /\ StoreSound(s, store) /\ AppendsSound(s, store, waiting, failed[d])
        /\ ResultsSound(Kept(d), store, waiting, deliveries[d], sent[d], spent.submits)
    BY DEF ServeInv, DocumentSound, ServedSoundly
  <2>2. /\ log \in Seq(ToSet(log)) /\ Len(log) \in Nat /\ DOMAIN log = 1..Len(log)
        /\ \A i \in DOMAIN log : log[i].rev = i
    BY <2>1 DEF StateSound
  <2>3. /\ kept \in Seq(ToSet(kept)) /\ Len(kept) \in Nat /\ DOMAIN kept = 1..Len(kept)
        /\ Len(kept) <= Len(log) /\ \A i \in DOMAIN kept : kept[i] = log[i]
        /\ SnapshotOf(store).revision = 0 /\ SnapshotOf(store).currentRevision = 0
        /\ SnapshotOf(store).document.revision = 0
        /\ ~SnapshotRejected(SnapshotOf(store).document)
        /\ s.document = Replay(BaseOf(store), log)
    BY <2>1 DEF StoreSound
  <2>4. \A i \in DOMAIN sent[d] : sent[d][i] <= Len(kept)
    BY <2>1 DEF ResultsSound
  <2> HIDE DEF s, store, kept, log, waiting
  <2>5. kept = SubSeq(log, 1, Len(kept))
    <3>1. /\ SubSeq(log, 1, Len(kept)) \in Seq(ToSet(log)) /\ Len(SubSeq(log, 1, Len(kept))) = Len(kept)
          /\ \A i \in 1..Len(kept) : SubSeq(log, 1, Len(kept))[i] = log[i]
      BY <2>2, <2>3, SubSeqProperties
    <3> QED
      BY <2>3, <3>1
  <2>6. ~RecoveryRefused(SnapshotOf(store), kept)
    <3>1. \A i \in DOMAIN kept : kept[i].rev = i
      <4> SUFFICES ASSUME NEW i \in DOMAIN kept PROVE kept[i].rev = i
        OBVIOUS
      <4>1. i \in DOMAIN log
        BY <2>2, <2>3
      <4> QED
        BY <2>2, <2>3, <4>1
    <3>2. ~(0 > Len(kept))
      BY <2>3
    <3> QED
      BY <2>3, <3>1, <3>2 DEF RecoveryRefused
  <2>7. ASSUME waiting = <<>>, ~failed[d]
        PROVE  Recovered(SnapshotOf(store), kept).document = s.document
    <3>1. Len(log) = Len(kept)
      <4>1. Len(s.operationLog) = Len(store.log) + Len(waiting) /\ Len(<<>>) = 0
        BY <2>1, <2>7 DEF AppendsSound
      <4> QED
        BY <2>2, <2>3, <2>7, <4>1 DEF log, kept
    <3>2. SubSeq(log, 1, Len(log)) = log
      BY <2>2
    <3>3. kept = log
      BY <2>5, <3>1, <3>2
    <3>4. SubSeq(kept, 0 + 1, Len(kept)) = kept
      BY <2>3
    <3>5. Recovered(SnapshotOf(store), kept).document = Replay(BaseOf(store), kept)
      BY <2>3, <3>4 DEF Recovered, BaseOf
    <3> QED
      BY <2>3, <3>3, <3>5
  <2> QED
    BY <2>4, <2>5, <2>6, <2>7 DEF s, store, kept, log, waiting
<1> QED
  BY <1>1, ServeInvariance, PTL
=============================================================================
