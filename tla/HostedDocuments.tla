-------------------------- MODULE HostedDocuments --------------------------
(***************************************************************************)
(* The documents of one serve and the hooks of its consumer: every way an  *)
(* operation enters a document (a client, ServerInstance.submit, a submit  *)
(* from inside a hook), the consumer's stores, and the loop that delivers  *)
(* results and calls onAccepted.                                           *)
(*                                                                         *)
(* JavaScript runs one task at a time: while a hook or the loop runs,      *)
(* nothing from outside happens, but a hook may submit.  A hook that       *)
(* throws, or that answers anything but true, is one that returns or one   *)
(* that denies.  Sockets, presence and the life of a document are in       *)
(* DocumentServer; crashes and frontier snapshots are in DurableRoom.      *)
(***************************************************************************)
EXTENDS DocumentStart

CONSTANTS
  Row,              \* row ids
  Value,            \* cell contents
  ServerClient,     \* the client id of ServerInstance.submit
  Author,           \* the client of the connected user
  Scene,            \* the serves looked at
  Hooked,           \* the scenes with hooks
  ServedWith,       \* scene -> document -> its options
  FirstRows,        \* scene -> possible answers of initialDocument
  ClientOperation,  \* scene -> operations a client may send
  ServerOperation,  \* scene -> operations of ServerInstance.submit
  MaxSubmits,       \* scene -> bound on the operations of a behaviour
  MaxRestarts,      \* scene -> bound on restarts
  MaxFailures       \* bound on failing appends

ASSUME ClientAssumption ==
  /\ {ServerClient, Author, SystemClient} \subseteq Client
  /\ ServerClient # Author

(* The answers of initialDocument are arrays, and so are the lists inside   *)
(* an operation.                                                            *)
ASSUME RowsAssumption ==
  \A s \in Scene : \A rows \in FirstRows[s] : rows \in Seq(ToSet(rows))
ASSUME OperationAssumption ==
  \A s \in Scene : \A op \in ClientOperation[s] \cup ServerOperation[s] : IsOperation(op)

(* undefined is no snapshot.                                                *)
ASSUME NoneAssumption ==
  \A s \in Scene : \A rows \in FirstRows[s] :
    ~InitialDocumentRefused(rows) => PersistedSnapshot(FreshState(BuildInitialDocument(rows))) # None

(* A restored document has no stores of its own: restoreFrom is a matter of *)
(* tests, in memory only (server.ts:1013-1015).                             *)
ASSUME RestoreAssumption ==
  \A s \in Scene : \A d \in DOMAIN ServedWith[s] :
    "restoreFrom" \in ServedWith[s][d] => ~(Injected \subseteq ServedWith[s][d])

VARIABLES
  scene,
  first,        \* document -> the state it was first served in
  sequencer,    \* document -> state of its sequencer
  stores,       \* document -> what its stores hold
  appends,      \* document -> entries handed to the log store, first in first out
  failed,       \* document -> a store append has failed: every later one does
  deliveries,   \* document -> results not yet delivered, in the order of entry
  sent,         \* document -> revisions broadcast, in order
  events,       \* document -> what onAccepted was told since it is served
  loop,         \* the delivery loop, one for all documents
  hook,         \* the hook that is running, None if none
  exported,     \* document -> the last snapshot exported since it is served
  spent         \* what the bounds count

vars == <<scene, first, sequencer, stores, appends, failed, deliveries, sent,
          events, loop, hook, exported, spent>>

Doc == DOMAIN ServedWith[scene]

Kept(d) == Persistent(ServedWith[scene][d])

OnSubmit == UNCHANGED <<scene, first, stores, failed, sent, events, exported>>

-----------------------------------------------------------------------------
(* The delivery loop.                                                       *)

Resting == [running |-> FALSE, waiting |-> <<>>, turn |-> <<>>]

(* Slip: a request made from inside a hook is not remembered.               *)
RequestedAtRest(l, d) ==
  IF l.running THEN l ELSE [running |-> TRUE, waiting |-> <<d>>, turn |-> <<>>]

(* request: one loop runs; a call made from inside it only leaves its mark. *)
Requested(l, d) ==
  [l EXCEPT !.running = TRUE,
            !.waiting = IF d \in ToSet(@) THEN @ ELSE Append(@, d)]

(* Set.delete.                                                              *)
Without(seq, d) ==
  IF d \in ToSet(seq) THEN RemoveAt(seq, CHOOSE i \in DOMAIN seq : seq[i] = d) ELSE seq

(* takeDeliverableSubmit: what consumed a revision does not pass an         *)
(* unsettled result before it; anything else settled may go.                *)
DeliverableIn(queue) ==
  {i \in DOMAIN queue :
     /\ queue[i].state # "pending"
     /\ \/ queue[i].state = "failed"
        \/ queue[i].entries = <<>>
        \/ \A j \in 1..i-1 : queue[j].state # "pending"}

LeastOf(S) == CHOOSE i \in S : \A j \in S : i <= j

-----------------------------------------------------------------------------
(* An operation enters a document.                                          *)

Envelope(d, client, op) ==
  [op |-> spent.submits + 1, client |-> client,
   seq |-> ExpectedSequence(sequencer[d], client),
   base |-> sequencer[d].currentRevision, operation |-> op]

(* The rest of Sequencer.submit, once the number is consumed.               *)
Judged(s, e, granted) ==
  IF ~granted THEN "permission-denied"
  ELSE IF Violations(s.document, e.operation) # {}
       THEN PrimaryRejectCode(Violations(s.document, e.operation))
  ELSE IF IsEmptyChangeSet(s.document, e.operation) THEN "noop"
  ELSE "accepted"

Result(e, origin, before, state, waits, entries) ==
  [id |-> e.op, origin |-> origin, before |-> before, state |-> state,
   waits |-> waits, entries |-> entries]

(* PersistentRoom is poisoned: it throws, which the caller sees one turn    *)
(* later.                                                                   *)
Poisoned(d, e, origin, before) ==
  /\ deliveries' = [deliveries EXCEPT ![d] =
       Append(@, Result(e, origin, before, "pending", "throw", <<>>))]
  /\ UNCHANGED <<sequencer, appends, loop>>

(* The verdict falls on state s.  A kept document appends the entries made  *)
(* since `revision` and answers when they are stored, or one turn later if  *)
(* there are none; a document in memory answers at once.                    *)
Enter(d, s, e, origin, before, revision, granted) ==
  LET verdict == Judged(s, e, granted)
      after   == Submitted(s, e, verdict)
      entries == IF verdict = "accepted" THEN <<Last(after.operationLog)>> ELSE <<>>
      made    == OperationsSince(after, revision)
  IN  /\ sequencer' = [sequencer EXCEPT ![d] = after]
      /\ IF Kept(d)
         THEN /\ appends' = IF made = <<>> THEN appends
                            ELSE [appends EXCEPT ![d] = Append(@, [id |-> e.op, entries |-> made])]
              /\ deliveries' = [deliveries EXCEPT ![d] =
                   Append(@, Result(e, origin, before, "pending",
                                    IF made = <<>> THEN "turn" ELSE "store", entries))]
              /\ loop' = loop
         ELSE /\ deliveries' = [deliveries EXCEPT ![d] =
                   Append(@, Result(e, origin, before, "ready", "none", entries))]
              /\ loop' = Requested(loop, d)
              /\ UNCHANGED appends

(* captureDocumentBeforeSubmit: only where there is a hook to tell.         *)
Before(d) == IF scene \in Hooked THEN sequencer[d].document ELSE None

(* ServerInstance.submit: numbered and entered without an await between.    *)
(* The authorization hook is not asked about the server's own operations.   *)
SubmitFromServer(d, op) ==
  LET e == Envelope(d, ServerClient, op)
  IN  IF Kept(d) /\ failed[d] THEN Poisoned(d, e, "server", Before(d))
      ELSE Enter(d, sequencer[d], e, "server", Before(d), sequencer[d].currentRevision, TRUE)

Count(field) == spent' = [spent EXCEPT ![field] = @ + 1]

MaySubmit == spent.submits < MaxSubmits[scene]

Idle == hook = None /\ ~loop.running

(* Promise callbacks run before the next message of a client.               *)
TurnOver == \A d \in Doc : \A i \in DOMAIN deliveries[d] :
              deliveries[d][i].waits \notin {"turn", "throw"}

ServerSubmits ==
  /\ Idle /\ MaySubmit
  /\ \E d \in Doc, op \in ServerOperation[scene] : SubmitFromServer(d, op)
  /\ Count("submits")
  /\ UNCHANGED hook
  /\ OnSubmit

(* A client's operation reaches the sequencer.  With an authorization hook  *)
(* its number is consumed, then the hook is called in the middle of the     *)
(* sequencer's work.                                                        *)
ClientSubmits ==
  /\ Idle /\ TurnOver /\ MaySubmit
  /\ \E d \in Doc, op \in ClientOperation[scene] :
       LET e == Envelope(d, Author, op)
       IN  \/ /\ Kept(d) /\ failed[d]
              /\ Poisoned(d, e, "client", Before(d))
              /\ UNCHANGED hook
           \/ /\ ~(Kept(d) /\ failed[d])
              /\ scene \notin Hooked
              /\ Enter(d, sequencer[d], e, "client", None, sequencer[d].currentRevision, TRUE)
              /\ UNCHANGED hook
           \/ /\ ~(Kept(d) /\ failed[d])
              /\ scene \in Hooked
              /\ sequencer' = [sequencer EXCEPT ![d] = Consumed(@, e)]
              /\ hook' = [kind |-> "authorize", doc |-> d, envelope |-> e,
                          before |-> Before(d), revision |-> sequencer[d].currentRevision]
              /\ UNCHANGED <<appends, deliveries, loop>>
  /\ Count("submits")
  /\ OnSubmit

(* The hook answers: true and nothing else lets the operation through.      *)
AuthorizeReturns ==
  /\ hook # None /\ hook.kind = "authorize"
  /\ \E granted \in BOOLEAN :
       Enter(hook.doc, sequencer[hook.doc], hook.envelope, "client", hook.before,
             hook.revision, granted)
  /\ hook' = None
  /\ UNCHANGED spent
  /\ OnSubmit

(* Slip: no mark is set while the authorization hook runs.                  *)
NeverRejectedInside == FALSE

(* rejectInsideAuthorization: the serve takes nothing from that hook.       *)
RejectedInside == hook.kind = "authorize"

(* A hook submits to a document of the serve, its own or another.           *)
HookSubmits ==
  /\ hook # None /\ MaySubmit
  /\ IF RejectedInside THEN UNCHANGED <<sequencer, appends, deliveries, loop>>
     ELSE \E d \in Doc, op \in ServerOperation[scene] : SubmitFromServer(d, op)
  /\ Count("submits")
  /\ UNCHANGED hook
  /\ OnSubmit

-----------------------------------------------------------------------------
(* The consumer's log store behind its adapter: one append at a time, in    *)
(* the order they were made, and none after one that failed.                *)

SettledAt(queue, id, state) ==
  [i \in DOMAIN queue |->
     IF queue[i].id = id THEN [queue[i] EXCEPT !.state = state, !.waits = "none"]
     ELSE queue[i]]

(* Slip: the adapter hands all appends to the store at once.                *)
AnyAppend(d) == DOMAIN appends[d]

NextAppend(d) == {i \in DOMAIN appends[d] : i = 1}

StoreAppends(d) ==
  /\ Idle /\ ~failed[d]
  /\ \E i \in NextAppend(d) :
       /\ stores' = [stores EXCEPT ![d].log = @ \o appends[d][i].entries]
       /\ appends' = [appends EXCEPT ![d] = RemoveAt(@, i)]
       /\ deliveries' = [deliveries EXCEPT ![d] = SettledAt(@, appends[d][i].id, "ready")]
  /\ loop' = Requested(loop, d)
  /\ UNCHANGED <<scene, first, sequencer, failed, sent, events, hook, exported, spent>>

StoreFails(d) ==
  /\ Idle
  /\ appends[d] # <<>>
  /\ failed[d] \/ spent.failures < MaxFailures
  /\ spent' = [spent EXCEPT !.failures = IF failed[d] THEN @ ELSE @ + 1]
  /\ failed' = [failed EXCEPT ![d] = TRUE]
  /\ appends' = [appends EXCEPT ![d] = Tail(@)]
  /\ deliveries' = [deliveries EXCEPT ![d] = SettledAt(@, appends[d][1].id, "failed")]
  /\ loop' = Requested(loop, d)
  /\ UNCHANGED <<scene, first, sequencer, stores, sent, events, hook, exported>>

(* A result that waited for nothing but its turn.                           *)
TurnEnds(d) ==
  /\ Idle
  /\ \E i \in DOMAIN deliveries[d] :
       /\ deliveries[d][i].waits \in {"turn", "throw"}
       /\ deliveries' = [deliveries EXCEPT ![d] =
            SettledAt(@, @[i].id, IF @[i].waits = "turn" THEN "ready" ELSE "failed")]
  /\ loop' = Requested(loop, d)
  /\ UNCHANGED <<scene, first, sequencer, stores, appends, failed, sent, events, hook,
                 exported, spent>>

-----------------------------------------------------------------------------
(* What onAccepted is told.                                                 *)

ValueIn(doc, r, c) ==
  IF ~Known(doc, r) \/ CellKey(doc, r, c) \notin DOMAIN doc.cell THEN Blank
  ELSE doc.cell[CellKey(doc, r, c)].value

(* Slip: every change of an operation is told against the document before   *)
(* the operation.                                                           *)
AcceptedCellChangesAtOnce(op, before) ==
  IF op.type # "setCells" THEN <<>>
  ELSE [i \in DOMAIN op.changes |->
          [row |-> op.changes[i].row, col |-> op.changes[i].col, value |-> op.changes[i].value,
           previous |-> ValueIn(before, op.changes[i].row, op.changes[i].col)]]

(* acceptedCellChanges: a cell written twice by one operation had, before   *)
(* the second write, the value of the first.                                *)
AcceptedCellChanges(op, before) ==
  IF op.type # "setCells" THEN <<>>
  ELSE LET same(i) == {j \in 1..i-1 : /\ op.changes[j].row = op.changes[i].row
                                      /\ op.changes[j].col = op.changes[i].col}
       IN  [i \in DOMAIN op.changes |->
              [row |-> op.changes[i].row, col |-> op.changes[i].col,
               value |-> op.changes[i].value,
               previous |->
                 IF same(i) = {} THEN ValueIn(before, op.changes[i].row, op.changes[i].col)
                 ELSE op.changes[CHOOSE j \in same(i) : \A k \in same(i) : k <= j].value]]

(* Slip: the document is read when the result is delivered.                 *)
DocumentThen(d, delivery) == sequencer[d].document

DocumentBefore(d, delivery) == delivery.before

BuildAcceptedEvent(d, delivery) ==
  LET entry == delivery.entries[1]
  IN  [revision |-> entry.rev, origin |-> delivery.origin, op |-> entry.op,
       changes |-> AcceptedCellChanges(entry.operation, DocumentBefore(d, delivery))]

(* One step of the loop: the document whose turn it is delivers a result    *)
(* (dispatch, then the hook, then the promise of a submit), or has none and *)
(* leaves the loop.  A failed result cuts its client off or rejects.        *)
Deliver ==
  /\ hook = None /\ loop.running
  /\ LET queue == IF loop.turn = <<>> THEN loop.waiting ELSE loop.turn
         d     == Head(queue)
         ready == DeliverableIn(deliveries[d])
     IN  IF ready = {}
         THEN LET left == Without(loop.waiting, d)
              IN  /\ loop' = [running |-> left # <<>>, waiting |-> left, turn |-> Tail(queue)]
                  /\ UNCHANGED <<deliveries, sent, events, hook>>
         ELSE LET i        == LeastOf(ready)
                  delivery == deliveries[d][i]
                  tells    == delivery.state = "ready" /\ delivery.entries # <<>>
              IN  /\ loop' = [loop EXCEPT !.turn = Tail(queue)]
                  /\ deliveries' = [deliveries EXCEPT ![d] = RemoveAt(@, i)]
                  /\ sent' = IF tells THEN [sent EXCEPT ![d] = Append(@, delivery.entries[1].rev)]
                             ELSE sent
                  /\ IF tells /\ scene \in Hooked
                     THEN /\ events' = [events EXCEPT ![d] =
                               Append(@, BuildAcceptedEvent(d, delivery))]
                          /\ hook' = [kind |-> "accepted", doc |-> d]
                     ELSE UNCHANGED <<events, hook>>
  /\ UNCHANGED <<scene, first, sequencer, stores, appends, failed, exported, spent>>

(* The hook returns or throws: a failure of the hook is reported and        *)
(* touches nothing.                                                         *)
AcceptedReturns ==
  /\ hook # None /\ hook.kind = "accepted"
  /\ hook' = None
  /\ UNCHANGED <<scene, first, sequencer, stores, appends, failed, deliveries, sent, events,
                 loop, exported, spent>>

-----------------------------------------------------------------------------
(* Export, restart, start.                                                  *)

TakeSnapshot(d) ==
  /\ Idle /\ ~Kept(d)
  /\ scene \notin Hooked
  /\ exported' = [exported EXCEPT ![d] = SerializeSnapshot(sequencer[d])]
  /\ UNCHANGED <<scene, first, sequencer, stores, appends, failed, deliveries, sent, events,
                 loop, hook, spent>>

(* The snapshot of another serve, for restoreFrom.                          *)
OtherServe == SerializeSnapshot(Seeded(FreshState(EmptyDocument)))

(* The process ends and starts again with the same options: what is in      *)
(* memory is lost, the stores stay, the consumer is asked again for its     *)
(* first rows.                                                              *)
Restart(d) ==
  /\ Idle
  /\ spent.restarts < MaxRestarts[scene]
  /\ \E rows \in FirstRows[scene] :
       /\ ~InitialDocumentRefused(rows)
       /\ first' = [first EXCEPT ![d] =
                     FirstState(ServedWith[scene][d], stores[d], rows, OtherServe)]
  /\ sequencer' = [sequencer EXCEPT ![d] = first'[d]]
  /\ stores' = [stores EXCEPT ![d] = FirstStores(ServedWith[scene][d], stores[d], first'[d])]
  /\ appends' = [appends EXCEPT ![d] = <<>>]
  /\ failed' = [failed EXCEPT ![d] = FALSE]
  /\ deliveries' = [deliveries EXCEPT ![d] = <<>>]
  /\ sent' = [sent EXCEPT ![d] = <<>>]
  /\ events' = [events EXCEPT ![d] = <<>>]
  /\ exported' = [exported EXCEPT ![d] = SerializeSnapshot(first'[d])]
  /\ Count("restarts")
  /\ UNCHANGED <<scene, loop, hook>>

Init ==
  /\ scene \in Scene
  /\ \A d \in Doc : ~Conflicting(ServedWith[scene][d])
  /\ \E rows \in [Doc -> FirstRows[scene]] :
       /\ \A d \in Doc : ~InitialDocumentRefused(rows[d])
       /\ first = [d \in Doc |-> FirstState(ServedWith[scene][d], EmptyStores, rows[d], OtherServe)]
  /\ sequencer = first
  /\ stores = [d \in Doc |-> FirstStores(ServedWith[scene][d], EmptyStores, first[d])]
  /\ appends = [d \in Doc |-> <<>>]
  /\ failed = [d \in Doc |-> FALSE]
  /\ deliveries = [d \in Doc |-> <<>>]
  /\ sent = [d \in Doc |-> <<>>]
  /\ events = [d \in Doc |-> <<>>]
  /\ loop = Resting
  /\ hook = None
  /\ exported = [d \in Doc |-> SerializeSnapshot(first[d])]
  /\ spent = [submits |-> 0, failures |-> 0, restarts |-> 0]

Next ==
  \/ ClientSubmits
  \/ ServerSubmits
  \/ AuthorizeReturns
  \/ HookSubmits
  \/ Deliver
  \/ AcceptedReturns
  \/ \E d \in Doc : \/ StoreAppends(d)
                    \/ StoreFails(d)
                    \/ TurnEnds(d)
                    \/ TakeSnapshot(d)
                    \/ Restart(d)

Spec == Init /\ [][Next]_vars

-----------------------------------------------------------------------------
(* Properties.                                                              *)

(* The entries accepted since a document was first served.                  *)
NewEntries(d) == SubSeq(sequencer[d].operationLog, Len(first[d].operationLog) + 1,
                        Len(sequencer[d].operationLog))

(* The document at a revision, by replay of what was accepted until then.   *)
DocumentAt(d, revision) ==
  Replay(first[d].document, SubSeq(sequencer[d].operationLog, Len(first[d].operationLog) + 1, revision))

(* Type invariant.                                                          *)
TypeOK ==
  /\ scene \in Scene
  /\ \A d \in Doc :
       /\ sequencer[d].currentRevision = sequencer[d].document.revision
       /\ sequencer[d].document.rowOrder \in Seq(Row \cup {SeedRow})
       /\ DOMAIN sequencer[d].document.cell \subseteq Nat \X Column
       /\ failed[d] \in BOOLEAN
  /\ loop.running \in BOOLEAN
  /\ ToSet(loop.waiting) \cup ToSet(loop.turn) \subseteq Doc
  /\ hook = None \/ hook.kind \in {"authorize", "accepted"}

(* rowOrder lists every row of rowMeta once, no two rows share a slot, and  *)
(* maxSlot is the largest slot handed out: what insertRows' O(1) numbering  *)
(* (apply.ts:202-221) and the slot-keyed cell store stand on.  A shared     *)
(* slot would let two rows overwrite each other's cells.                    *)
SlotsAndOrderSound ==
  \A d \in Doc :
    LET document == sequencer[d].document
    IN  /\ IsInjective(document.rowOrder)
        /\ ToSet(document.rowOrder) = DOMAIN document.row
        /\ \A r, q \in DOMAIN document.row :
             r # q => document.row[r].slot # document.row[q].slot
        /\ document.maxSlot = MaxSlotOf(document.row)

(* The contract of validate.ts:9-10: every operation apply would throw on   *)
(* is reported by the validation.                                           *)
ValidationCoversApply ==
  \A d \in Doc : \A op \in ClientOperation[scene] :
    ApplyThrows(sequencer[d].document, op) => Violations(sequencer[d].document, op) # {}

(* Whatever operations were accepted, the document is well formed and the   *)
(* next operation cannot make applyOperation throw in the middle of the     *)
(* sequencer's work.                                                        *)
DocumentStaysSound == SlotsAndOrderSound /\ ValidationCoversApply

(* Every way a snapshot may disagree with its own log that a reader of the  *)
(* document would notice, one at a time.                                    *)
Tampered(data) ==
  {[data EXCEPT !.currentRevision = @ + 1],
   [data EXCEPT !.currentRevision = @ + 1, !.document.revision = @ + 1]}
  \cup (IF data.operationLog = <<>> THEN {}
        ELSE {[data EXCEPT !.operationLog = Front(@)]})
  \cup (IF Len(data.document.rowOrder) < 2 THEN {}
        ELSE {[data EXCEPT !.document.rowOrder = Reverse(@)]})
  \cup {[data EXCEPT !.document.row[r].tombstone = ~@] : r \in DOMAIN data.document.row}
  \cup {[data EXCEPT !.document.cell[rcv[1]] = [value |-> rcv[2], rev |-> @.rev]] :
          rcv \in {rcv \in (DOMAIN data.document.cell) \X (Value \cup {Blank}) :
                     /\ ~data.document.row[rcv[1][1]].tombstone
                     /\ rcv[2] # data.document.cell[rcv[1]].value}}

(* A restart from any exported snapshot and the log after it yields the     *)
(* very document a replay of the whole log yields, and the live one:        *)
(* tombstones, slots and cell revisions included.  The integrity check      *)
(* (snapshot.ts:85-94) passes what the server exports, and notices every    *)
(* difference a reader would.                                               *)
SnapshotPlusTailIsDocument ==
  \A d \in Doc : first[d].document = EmptyDocument =>
    LET data == exported[d]
    IN  /\ ~SnapshotRejected(data.document)
        /\ Replay(DeserializeSnapshot(data).document,
                  OperationsSince(sequencer[d], data.currentRevision)) = sequencer[d].document
        /\ Replay(EmptyDocument, sequencer[d].operationLog) = sequencer[d].document
        /\ VerifySnapshotIntegrity(data)
        /\ \A t \in Tampered(data) : ~VerifySnapshotIntegrity(t)

(* The consumer is told every accepted operation of a document once, in     *)
(* the order of the revisions, with the values each change replaced; and    *)
(* none before it was sent to the clients.                                  *)
EventsMatchTheLog ==
  \A d \in Doc :
    LET told == events[d]
    IN  /\ scene \in Hooked => Len(told) = Len(sent[d])
        /\ \A i \in DOMAIN sent[d] : sent[d][i] = NewEntries(d)[i].rev
        /\ \A i \in DOMAIN told :
             LET entry == NewEntries(d)[i]
                 op    == entry.operation
                 at(k) == ApplySetCells(DocumentAt(d, entry.rev - 1),
                                        SubSeq(op.changes, 1, k - 1), entry.rev)
             IN  /\ told[i].op = entry.op
                 /\ told[i].revision = entry.rev
                 /\ (told[i].origin = "server") = (entry.client = ServerClient)
                 /\ told[i].changes =
                      IF op.type # "setCells" THEN <<>>
                      ELSE [k \in DOMAIN op.changes |->
                              [row      |-> op.changes[k].row,
                               col      |-> op.changes[k].col,
                               value    |-> op.changes[k].value,
                               previous |-> ValueIn(at(k), op.changes[k].row, op.changes[k].col)]]

(* No lost update (validate.ts:70-84): a change that names the revision its *)
(* writer saw replaces what the document held at that revision.             *)
WriterSawWhatItReplaced ==
  \A d \in Doc : \A i \in DOMAIN NewEntries(d) :
    LET entry == NewEntries(d)[i]
    IN  entry.operation.type = "setCells" =>
          \A k \in DOMAIN entry.operation.changes :
            LET ch == entry.operation.changes[k]
            IN  ch.before # NoBefore =>
                  ValueIn(DocumentAt(d, ch.before), ch.row, ch.col)
                    = ValueIn(DocumentAt(d, entry.rev - 1), ch.row, ch.col)

(* When the loop rests nothing that may go is left behind: an answer lost   *)
(* there would wait for the next submit, a client's or the consumer's.      *)
NothingLeftBehind ==
  ~loop.running => \A d \in Doc : DeliverableIn(deliveries[d]) = {}

(* What the consumer learns of a document is the document's history, whole  *)
(* and in order, whatever it submits from inside its hooks.                 *)
EventsTellTheLog == EventsMatchTheLog /\ WriterSawWhatItReplaced /\ NothingLeftBehind

(* The log store holds the accepted operations from the first on, each once *)
(* and none missing; what was broadcast is stored; and a restart from the   *)
(* stores is possible and gives the document that is served.  An operation  *)
(* stored twice or a missing revision would stop every later start          *)
(* (persistent-room.ts:108-122, server.ts:1006-1036).                       *)
StoredAsAccepted ==
  \A d \in Doc : Kept(d) =>
    LET kept == stores[d].log
    IN  /\ kept = SubSeq(sequencer[d].operationLog, 1, Len(kept))
        /\ ~RecoveryRefused(SnapshotOf(stores[d]), kept)
        /\ \A i \in DOMAIN sent[d] : sent[d][i] <= Len(kept)
        /\ appends[d] = <<>> /\ ~failed[d] /\ hook = None =>
             Recovered(SnapshotOf(stores[d]), kept).document = sequencer[d].document

-----------------------------------------------------------------------------
(* The inductive invariant behind DocumentStaysSound and StoredAsAccepted,  *)
(* part by part for one document: its sequencer's state s, its store, the   *)
(* appends waiting for the store, the results waiting for delivery, the     *)
(* revisions told, and the number n of operations so far.                   *)

(* What the first restart starts from.                                      *)
BaseOf(store) == DeserializeDocument(SnapshotOf(store).document)

(* The store's snapshot is of revision 0, and the served document is what   *)
(* the log makes of it.                                                     *)
StoreSound(s, store) ==
  /\ DOMAIN store = {"snapshot", "log"}
  /\ SnapshotOf(store).revision = 0 /\ SnapshotOf(store).currentRevision = 0
  /\ SnapshotOf(store).document.revision = 0
  /\ ~SnapshotRejected(SnapshotOf(store).document)
  /\ ReplaysSoundly(BaseOf(store), s.operationLog)
  /\ s.document = Replay(BaseOf(store), s.operationLog)
  /\ store.log \in Seq(ToSet(store.log))
  /\ Len(store.log) <= Len(s.operationLog)
  /\ \A i \in DOMAIN store.log : store.log[i] = s.operationLog[i]

(* Until an append fails the log is what is stored and what waits.          *)
AppendsSound(s, store, waiting, dead) ==
  ~dead => /\ Len(s.operationLog) = Len(store.log) + Len(waiting)
           /\ \A k \in DOMAIN waiting :
                waiting[k].entries = <<s.operationLog[Len(store.log) + k]>>

(* An entry about to be told is stored.                                     *)
ResultSound(kept, store, r, n) ==
  /\ DOMAIN r = {"id", "origin", "before", "state", "waits", "entries"}
  /\ r.id \in 1..n
  /\ r.waits \in {"turn", "throw"} => r.entries = <<>>
  /\ r.entries # <<>> => r.entries[1].rev \in Nat
  /\ kept /\ r.state = "ready" /\ r.entries # <<>> => r.entries[1].rev <= Len(store.log)

(* Results have ids of their own, and an append and its result carry the    *)
(* same entry.                                                              *)
ResultsSound(kept, store, waiting, queue, told, n) ==
  /\ queue \in Seq(ToSet(queue)) /\ waiting \in Seq(ToSet(waiting))
  /\ \A i \in DOMAIN queue : ResultSound(kept, store, queue[i], n)
  /\ \A i, j \in DOMAIN queue : queue[i].id = queue[j].id => i = j
  /\ \A k \in DOMAIN waiting :
       /\ waiting[k].id \in 1..n
       /\ \A i \in DOMAIN queue :
            queue[i].id = waiting[k].id => queue[i].entries = waiting[k].entries
  /\ told \in Seq(Nat)
  /\ kept => \A i \in DOMAIN told : told[i] <= Len(store.log)

ServedSoundly(kept, s, store, waiting, dead, queue, told, n) ==
  /\ StateSound(s)
  /\ kept => StoreSound(s, store) /\ AppendsSound(s, store, waiting, dead)
  /\ ~kept => waiting = <<>>
  /\ ResultsSound(kept, store, waiting, queue, told, n)

(* While the authorization hook runs its document stands still.             *)
HookSound ==
  hook # None /\ hook.kind = "authorize" =>
    /\ hook.doc \in Doc
    /\ IsOperation(hook.envelope.operation)
    /\ hook.revision = sequencer[hook.doc].currentRevision
    /\ hook.envelope.op \in 1..spent.submits
    /\ \A i \in DOMAIN deliveries[hook.doc] :
         deliveries[hook.doc][i].id # hook.envelope.op
    /\ \A k \in DOMAIN appends[hook.doc] : appends[hook.doc][k].id # hook.envelope.op

TablesOfDocuments ==
  /\ DOMAIN first = Doc /\ DOMAIN sequencer = Doc /\ DOMAIN stores = Doc
  /\ DOMAIN appends = Doc /\ DOMAIN failed = Doc /\ DOMAIN deliveries = Doc
  /\ DOMAIN sent = Doc

DocumentSound(d) ==
  ServedSoundly(Kept(d), sequencer[d], stores[d], appends[d], failed[d], deliveries[d],
                sent[d], spent.submits)

ServeInv ==
  /\ scene \in Scene /\ \A d \in Doc : ~Conflicting(ServedWith[scene][d])
  /\ DOMAIN spent = {"submits", "failures", "restarts"} /\ spent.submits \in Nat
  /\ TablesOfDocuments
  /\ \A d \in Doc : DocumentSound(d)
  /\ HookSound
=============================================================================
