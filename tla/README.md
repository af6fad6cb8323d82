# nanairo-sheet in TLA+

nanairo-sheet is a collaborative spreadsheet in TypeScript: browsers hold a
copy of a sheet, edit it optimistically, and send operations to a server that
gives every accepted operation one revision, logs it durably and broadcasts it.
This directory models the system from the log file to the pixels, checks the
models with TLC on small instances, and proves with TLAPS what the server
promises, for every value of the constants.

## 1. Inventory

| Component (packages/) | State | Operations | Hard part |
|---|---|---|---|
| Sheet document (`core`) | row order, row metadata with tombstones and slots, cells with the revision of their last change | validate, apply, replay, serialise, deserialise | slots shared by rows, stale writes, a restore that differs from the original |
| Sequencer (`server`) | document, operation log, revision, ACK cache, client sequence table | submit, operationsSince, exportState | duplicates, sequence slots consumed by rejections |
| Persistent room (`server`) | durable frontier, poisoned and closing flags, snapshot bookkeeping | handleMessage around an await, maybeSnapshot, durableSnapshot, close, recovery | what runs during the await; a crash between any two steps |
| Operation log store, snapshot store (`server`) | queue, write in flight, fail-stop flag; files | append with group commit, readAll, save, loadLatest, prune | torn tails, failed batches, half-done saves |
| Room (`server`) | connections, presence | join, catch-up, bootstrap, disconnect, sweep | tail cut at the frontier while live tables answer the reconcile |
| Presence registry (`server`) | client to presence, TTL, colours | register, touch, update, remove, sweep | late updates, expiry against activity |
| WebSocket server (`server-hono`) | sockets, submit delivery queue, documents, hooks, the consumer's stores | onMessage, delivery, hooks, addDocument, removeDocument, start, stop | delivery order against revision order, submits from inside hooks, stop against late frames |
| Client session (`collab`) | committed document, pending queue, conflict queue, apply buffer | local submit, ack, rejection, operations, welcome, bootstrap, tick | reconnect with operations in every state of progress |
| Undo controller (`grid`) | undo and redo stacks, owned revisions, limbo | record, begin, compensate, resolve, block | foreign edits and rejections between begin and resolve |
| IME editor (`ime`) | editor mode, composition, suppressed keys | keyboard, composition, input, pointer | event orders that differ between browsers |
| Grid mount and editors (`grid`) | editing session, popups, dirty marks, locks | inputs, injection, flush, range commands, frames | what a task reads that an earlier one left behind |
| Browser transport, session sync (`grid`) | socket, marks for the view | connect, reconnect, send | retries against a live socket |
| Selection (`selection`, `grid`) | anchor, focus, drag | press, drag, extend, rebase | rows that come and go under a drag |
| Formula engine (`formula`) | texts, values, dependency graph | parse, set, recalculate, bind | dirty sets and cycles |
| Rendering (`render`) | axes, scroll, sizes, dirty layers | paint, scroll, resize, anchor | caches of sizes and positions across frames |
| React wrapper (`react`), IME helpers | - | - | not modelled |

How they interact. A client's session sends `join` and `submitOperation` frames
over one WebSocket. The server's bridge hands each frame to the room of the
document; the room calls the sequencer synchronously, and the persistent room
then awaits the log append before the answer and the broadcast go back through
the bridge's delivery queue. Joins and catch-ups are answered from the durable
frontier, not from the live state. Snapshots are written in the background from
the same thread. A restart rebuilds the sequencer from the newest snapshot and
the log after it. The grid takes what the user types from the IME editor to the
session as operations, the session tells the view and the undo controller what
became of them, and a frame brings what the view has marked to the canvas.

What makes each correct:

- document: slots and row order stay sound, validation covers everything apply
  throws on, a snapshot plus its tail is the document;
- sequencer: an operation id takes at most one revision, a client's operations
  keep their order;
- persistent room and stores: nothing is told to the outside that a crash takes
  back, a restart is never refused and forgets nothing it must know;
- delivery queue and hooks: every connection sees consecutive revisions, the
  consumer is told the log, nothing waits forever;
- documents of a serve: one open store each, presence lists that agree, a stop
  that ends;
- client session: all replicas converge, every edit is decided, none is silently
  lost, applied twice or reported and applied;
- undo: a compensation covers own writes only and takes back the last one;
- editing: what was typed reaches its row and no other, locks hold;
- view: what is painted is the document, selection stays on its rows;
- formulas: every value is that of its formula.

## 2. Modules

The server.

| Module | Models | State and actions against the code |
|---|---|---|
| `SheetDocument` | `core/src/document.ts`, `validate.ts`, `apply.ts`, `document-snapshot.ts` | pure operators named after the functions; `row` is rowMeta, `cell` the cell store keyed by slot |
| `Sequencer` | `server/src/sequencer.ts`, recovery in `persistent-room.ts` | `Verdict` is the order of checks in `submit`, `Submitted` its effect, `Recovered` is `recoverSequencerState` |
| `DurableRoom` | `persistent-room.ts`, `oplog-store.ts`, `snapshot-store.ts`, join and catch-up of `room.ts`, the delivery queue of `server-hono/src/server.ts` | one action per stretch of code between two awaits, see below |
| `DocumentStart` | how a document of a serve begins: `validateDocumentSpec`, `buildInitialDocument`, `restoreFrom`, seeding, the integrity check | pure operators on sets of options and stores |
| `HostedDocuments` | the hooks of the consumer, its stores, the delivery loop with `onAccepted`, restarts of documents | an action is what runs between two returns to foreign code: the body of a hook, one append, one turn of the loop |
| `DocumentServer` | the registry of documents, sockets, authentication, upgrade, presence, sweep, retire and stop | one action per frame, timer, promise, microtask or stage of `stop` |
| `OrderedLog` | no code: the promise of a durable document | abstract specification that `DurableRoom` and `Collab` implement |

The clients.

| Module | Models | State and actions against the code |
|---|---|---|
| `ClientSession` | `collab/src/session.ts` | one operator per handler, from a session to the session it leaves |
| `Collab` | sessions, connections and one served document | one action per handler run, see below |
| `UndoStack` | `grid/src/undo-stack.ts` | operators on a controller record |
| `UndoHistory` | the undo controllers on a shared document | extends the actions of `Collab` |
| `GridSelection`, `SheetView` | selection controller and package; the document view, range, clipboard and row operations | operators on a grid record |
| `CollabView` | the grid on a shared document: commands, drags, marks, frames, bootstrap | extends the actions of `Collab` |
| `EditorMachine` | `ime/src/editor-state-machine.ts` | one operator per event handler, returning machine and effects |
| `GridEditor` | standalone session, resident textarea, run-time lock, flush, data injection | operators on one grid record |
| `CellPopups`, `GridPopups` | column types, lists of candidates, calendar; opening them and taking their choice | operators on a popup and on the grid |
| `GridTasks` | the event loop around a grid | one action per task: an input as the browser delivers it, a call of the consumer, a timer, a frame |
| `FormulaParser`, `FormulaCalc`, `FormulaSheet` | tokenizer, parser, serializer; evaluator and values; graph, recalculation, binding | pure functions; `FormulaSheet` has one action per call |
| `Viewport`, `CellFormats`, `Painting`, `GridCanvas` | axes, scroll and resize arithmetic; cell input, formats and rules; what is painted where; the canvas between frames | `GridCanvas` has one action per input and one for the frame |
| `CellMeaning` | no code: the meaning of a text as a number or date, which `CellFormats` is checked against | reference definition |

`MC*` modules give the constants their values for TLC. `DurableRoomInvariant`
and `CollabInvariant` hold the inductive invariants of `DurableRoom` and
`Collab`; the modules named `*Lemmas`, `*Proofs`, `DurableRoomOutside` and
`HostedDocumentsEvents` hold the proofs of section 5.

`DurableRoom` in the code's terms. `sequencer`, `frontier`, `poisoned`,
`closing`, `opsSinceSnapshot` and `snapshotWrite` are the fields of
PersistentRoom. `queue`, `writing`, `failed` and `storeClosed` are those of
FileOpLogStore; `file` and `tornTail` are the log file, `snapshots` the
snapshot directory. `deliveries` is RoomBridge.submitDeliveries: one element
from the arrival of a submit to its dispatch, with the state of its append and
the frontier captured for it. `connections` keeps for every socket the revision
up to which it was told. `acknowledged` and `published` are history variables.

- `Submit`, `SubmitFromServer`: one frame, up to the await in
  `PersistentRoom.handleMessage`. The append is taken by an idle flush loop at
  once and otherwise waits for the next batch.
- `FlushSucceeds`, `FlushFails`: the end of one write+fsync.
- `Settle`: the continuation after the await (frontier, snapshot or poisoning).
- `Deliver`: `takeDeliverableSubmit` and the dispatch.
- `SnapshotEnds`: the end of a save, with every outcome a rename and a prune
  can have.
- `Join`, `Catchup`, `Disconnect`; `Close`, `CloseStore`.
- `Crash`, `Recover`: the process loses its memory; any prefix of the unsynced
  batch and part of a line may be on disk; the restart runs the recovery code.

Frames may come between two continuations of the same tick, where Node would
run the second continuation first: the model has more interleavings than the
program, never fewer. The server's stop path closes rooms before it terminates
the sockets, so frames after `Close` are real.

`HostedDocuments` in the code's terms. `hook` is the hook that is running, if
any, with what it will return to; `loop` is `deliverSubmits` with its
`pendingAccepted`; `deliveries`, `appends`, `sent` are per document. While a
hook or the loop runs nothing from outside happens, but the hook may submit.
`authorize` runs before the sequencer and `onAccepted` after the delivery, so a
document may have moved while a hook was asked about it.

`ClientSession` in the code's terms. `committed`, `pending`, `conflicts`,
`buffer` (revisionBuffer), `known` (knownServerRevision), `gapRequested`
(lastCatchupRequestedRevision), `reconcile` (reconcileInfo) and the flags are
the fields of the class. The optimistic `view` is a function of committed and
pending, so it is computed (`View`) where a handler reads it. A handler appends
what it sends to `out`, which `Collab` moves to the connection in the same step,
as `transport.send` does.

`Collab` composes sessions with the server as `OrderedLog` promises it: the
sequencer, the frontier `durable`, and the accepted submits `waiting` for their
fsync and their turn. `Sync` is the end of an fsync, `Dispatch` the delivery,
`ServerReceives` the bridge's route with the room's handler. All other answers
leave at once, before the fsync, as the delivery queue lets them.

- A connection is two FIFO channels. `Break` loses everything on the way to the
  client and any suffix of what is on the way to the server; the rest becomes
  `late`: the server may read it at any later time, also after the client has
  joined again on a new socket, since the two sockets are independent.
- `Restart(n)` keeps the log up to n, which covers what is durable: a batch in
  flight may or may not have reached the disk. It recovers from the initial
  snapshot, so sequence slots without a log entry are forgotten; that is the
  case the code's comments single out.
- `Resend` and `Poll` are the two timers of `tick`. They run out only when no
  frame is under way on their connection (`Quiet`): timeouts are seconds, and a
  storm of premature timeouts adds nothing but duplicates, which `Break` with
  late frames and `Duplicate` produce already. `GiveUp` is the offline limit.
- Faults on a lasting connection (`Lose`, `Duplicate`, `Overtake`) are those of
  the in-process test transport; a socket has none, so they have a bound of
  their own.

## 3. Runs

| Run | Question | Bounds |
|---|---|---|
| `documents` | do documents stay well formed, do snapshots with their tails give them back, is the consumer told the log, do its stores hold it | scene "any": one document in memory, any three operations of one or two changes or rows on 3 rows, 1 column, 2 values; "hooks": a document in stores and one in memory, both hooks, 3 submits, 1 failed append; seven combinations of options with 2 submits, blank values among them, and 1 restart |
| `room` | is what the outside was told durable, is a restart ever refused or wrong, is a revision skipped, is `RoomInv` an invariant, does the room implement `OrderedLog`, is all work done | 3 operations (one write, two deletions of one row, one of them the server's own), 3 submits, 2 crashes, 1 connection, a snapshot after every operation, 2 generations: operations share a batch or follow each other, a recovered process crashes again |
| `collab_live` | is every edit durable, pending or reported, never reported as refused and logged; do the queues empty | two scenes: 2 users delete the same row, 1 break; or 1 user alone with a write that is refused, a write on top of it and a deletion, 1 break with late frames, 1 restart with any surviving tail; bootstraps at every join |
| `collab_queue` | are committed documents replays of the durable log, is the log in the order of issue, do replicas converge, do session and server keep `OrderedLog`'s promise | 1 user, 2 insertions, 1 break, 1 restart with any surviving tail, 1 lost, doubled or overtaken message |
| `undo` | does a compensation cover own writes only, take back the last one, bring back only what was in the document, and does the controller come back | 1 user with 2 writes, one that is refused, an undo and a redo, a foreign write, 1 break; at most 5 of these, a refused or foreign write counted twice; a client two revisions behind gets a bootstrap, one revision behind the tail |
| `view` | does the canvas show the session's document, does the selection stay on its rows | clear, paste, insert and delete (one of them refused) of one user, an insertion and a deletion of others, 1 break |
| `grid` | do texts and choices reach their cell, does the Enter of a composition do nothing else, do locks hold, does flush save, does undo fit, is the calendar right | ten scenes of 4 to 7 inputs on 2 or 3 rows (typing, cancelling, locking, locked cells, history, four kinds of list, dates) |
| `server` | has every open store one owner, do presence lists agree, is a removal sealed, does a stop end | 1 document, up to 3 runtimes, 4 runtimes and connections together, 2 sockets at a time, 1 presence message, 1 submit, 1 failure (a recovery, with or without its clean-up, an append or a close) |
| `formula` | does the parser follow the grammar, does a printed tree read back, is every formula current, does a bound value follow its ids | all texts of up to 4 pieces, strings and long numbers among them, and longer ones from given beginnings (calls of two and three arguments, nested operators); 4 edits on 2x2 cells, values up to 8 |
| `canvas` | does every pixel show the right cell as its format says, do heights fit, is what was asked for visible, do rows keep their place | 3 inputs, 4 rows, 5 columns, one frozen row and column, screens of 7x6 and 6x8 pixels; 1 input-free scene per format and text |
| `collab_lost` | expected violation: is an edit silently lost over a restart | 2 users, 2 edits, 1 restart |
| `undo_erases` | expected violation: does an undo keep what somebody else wrote | 2 writes and 2 undos of one user, a foreign write |

The operations of the room run race on one cell and one row. Frames carry any
sequence number up to the bound, a base the client may know or one ahead of the
server, and may be unauthorised; so every verdict of `submit` occurs.

In the collab runs `MaxFrames` bounds each channel: no handler runs whose output
does not fit. It is above the three frames a welcome with a bootstrap and an
echo takes and above a resend of the whole queue. A write carries the revision
of the cell in committed, as the commit bridge does. The faults start from an
empty sheet: with an initial document at revision 0, an operation that overtakes
the bootstrap would be applied to an empty document (section 6); only the
reordering test transport can do that. `FewAtOnce` and
`FewTogether` are state constraints that keep the number of frames and edits
small; the runs that have them check no liveness. `Scenes`, the constraint of
`collab_live`, stops users, restarts and the first connection of a user only: it
never cuts off a step that `FairSpec` promises, except where bob stays away, and
there no behaviour is fair. So `EventuallyConverged` is checked of the race, and
`EditsHaveOneFate` of both scenes.

Every property has a mutant in PROJECT.json: a plausible slip in one mapped
definition under which TLC finds the property violated.

Deadlock checking is off where every behaviour is bounded: once the frames,
joins and crashes of a run are used up the system has nothing left to do.

Findings.

- `collab_lost`. A second frame of an operation whose append is in flight is
  answered from the ACK cache at once, before the fsync, although
  `persistent-room.ts:4-5` says an ACK received is not lost by a restart
  (`OnlyTheFileIsTold` is what does hold, and it is proved). If the server
  restarts before that fsync, another operation may take the revision, and the
  bootstrap filter (`session.ts:519`), which takes every ACK at or below the
  bootstrap's revision to be inside it, drops the client's entry. The edit is
  gone without a report.
- `undo_erases`. `undo-stack.ts:7-9` says a later change of somebody else makes
  the server refuse the whole undo. A foreign value between two writes of a user
  is brought back by the first undo, becomes the user's own by that, and the
  second undo erases it without a refusal.

## 4. Fairness

`DurableRoom!FairSpec` gives weak fairness to what the program itself is
committed to: `FlushSucceeds` or `FlushFails` (a write and an fsync end, one way
or the other), `Settle` and `Deliver` (continuations of resolved promises run),
`SnapshotEnds` (a save ends), `Recover`. No frame, join, crash or close is
required to happen. A snapshot save may fail every time; `WorkIsDone` therefore
says that a due one is started, not that it succeeds.

`Collab!FairSpec` assumes that timers run, the transport reconnects, frames on a
lasting connection arrive and are handled, and an fsync ends. No user has to
edit, no late frame has to be read, nothing has to fail. Its conjuncts are the
weak fairness of the actions with ENABLED written out as the guard of each
(`Fits` and `Reply` say whether an output has room), because TLC evaluates
ENABLED of the handlers very slowly. The polls justify themselves: `tick` is
called periodically by the application for as long as the sheet is open. Where
liveness is checked no operation is refused: one may lead to resends that are
answered by violations for ever (see the remarks).

`DocumentServer!FairSpec` assumes that a microtask runs, that recovery, append,
drain and close of a store end (the code awaits them), that a handshake ends,
that a socket told to close is gone at some time (the code terminates it), and
that `stop` goes on. An authentication hook need never answer.

## 5. Proofs

Assumptions. `DurableRoom`: every operation has an owning client, the server is
a client, the snapshot interval and the kept generations are at least one, the
initial document is well formed and at revision 0 (`buildInitialDocument` makes
it so, which is itself proved in `HostedDocumentsProofs`), the contents of
operations are operations, bounds are naturals. `HostedDocuments`: the author of
a client's frames is not the server's own client, rows of an initial document
and lists in operations are arrays, a snapshot is not `undefined`, and a
restored document has no injected stores (`server.ts:1013-1015`: restoring is a
matter of tests, in memory). `DocumentServer`: finitely many documents, "none" is
not a number, bounds are naturals. `Collab`: every operation has an author,
insertions and deletions of rows are operations (`isDocumentOperation` lets
nothing else through), the initial document is well formed and at revision 0, and
bounds are naturals. TLC evaluates all of them on every run.

| Theorem | Says | Rests on |
|---|---|---|
| `DurableRoomProofs!Invariance`, `TypeCorrect` | `Spec => []IInv`, `[]TypeOK` | one lemma per action, `DocumentLemmas` |
| `AckAfterFsync`, `PublishAfterFsync` | the ACK of an accepted operation and everything shown to a connection are in the synced log and stay there | `IInv` |
| `ExactlyOnceInOrder` | `LoggedExactlyOnceInOrder` | `IInv` |
| `DurableRoomOutside!TellAfterFsync` | `OnlyTheFileIsTold`, ACKs of retries and no-ops included | `IInv`, `RestartInv`, `AckInv` |
| `DurableRoomOutside!GapInvariance`, `NoGapShown` | `[]GapInv`, `BroadcastHasNoGap` | `IInv` |
| `DurableRoomOutside!RoomImplementsOrderedLog` | every behaviour of the room is one of `OrderedLog` | `IInv`; `OrderedLogProofs` has what that buys: what was told stays true, one place each |
| `DurableRoomOutside!RestartInvariance`, `RoomInvariance`, `RestartsFaithfully` | `[]RestartInv`, `[]RoomInv`, `RecoveryIsFaithful` | `IInv`, `DocumentLemmas` |
| `DocumentLemmas!ApplyWellFormed`, `ValidCoversApply`, `SnapshotRoundTrip` | apply keeps documents well formed, validation covers apply, a snapshot is read back as what was written | the operators of `SheetDocument` |
| `HostedDocumentsProofs!ServeInvariance`, `DocumentsStaySound`, `StoresHoldWhatWasAccepted` | `[]ServeInv`, `DocumentStaysSound`, `StoredAsAccepted` | `DocumentLemmas` |
| `HostedDocumentsEvents!TellInvariance`, `ConsumerHearsTheLog` | `[]TellInv`, `EventsTellTheLog` | `ServeInv` |
| `HostedDocumentsEvents!ExportInvariance`, `SnapshotsAreFaithful` | `[]ExportInv`, `SnapshotPlusTailIsDocument` | `ServeInv`, `TellInv` |
| `DocumentServerProofs!ServerInvariance`, `OwnersAreUnique`, `RemovedStaysSealed`, `ListsAgree`, `ColorsStayDistinct` | `[]ServerInv`, `StoresHaveOneOwner`, `RemovedIsSealed`, `PresenceListsAgree`, `ColorsAreDistinct` | one lemma per action |
| `CollabProofs!CollabInvariance` | `[]CollabInv` | one lemma per handler and per action, `DocumentLemmas` |
| `CollabProofs!CollabImplementsOrderedLog` | every behaviour of server, transport and sessions is one of `OrderedLog` | `CollabInv` |
| `CollabProofs!CommittedStaysDurable` | `CommittedIsDurablePrefix`, where `MaxFaults = 0` or the document begins empty | `CollabInv`, `InOrderInv` |

The room. None of its safety properties is inductive by itself. An ACK is
durable because its delivery became ready only after its append resolved
(`DeliverySound`), because the file, the batch in flight and the queue are
consecutive pieces of the log in memory (`PiecesOfLog`), and because the log in
memory, its ACK cache and its sequence table agree (`LogSound`). A restart
re-establishes `LogSound` from the file and the newest snapshot, for which the
snapshots must know every operation they cover (`SnapshotsSound`, which rests
on the barrier in `maybeSnapshot`) and the file must hold each operation once
and in sequence order (`FileSound`). Together these are `IInv`. The ACK of a
retry or a no-op comes from the ACK cache. `AckInv` says that a cached ACK at a
synced revision names that operation in the file, or one that changes nothing
there (`AckHolds`), and that a synced prefix is never taken back; it covers the
cache that a restart rebuilds, and leaves out what `OnlyTheFileIsTold` leaves out:
an ACK that goes out before the fsync of the operation it stands for.

`GapInv` adds what the outside sees: waiting deliveries stand in the order of
their revisions, and between what a connection was told (or the frontier) and
the next thing it will be shown nothing is missing (`NoHole`), unless the room
is poisoned and shows nothing any more. It needs `IInv` for the revisions of the
deliveries, and the failure of one append is where it is close: everything
behind it must fail with it.

`RestartInv` adds documents: every revision has one document, the replay of the
log up to it (`HistorySound`), and memory, captured frontiers and snapshots are
of some revision. The step that matters is `Recover`: the replay of the tail
over a snapshot equals the replay of the whole. The document of a revision is
defined by a recursive function over the log, so the proof steps from one
revision to the next and needs no law of folds. The attempt showed that an
earlier form of the property, that a restart knows the logged operations and no
others, was false: the ACK of a no-op, which is not logged, is kept in a
snapshot. `RecoveryIsFaithful` now says what holds.

The refinement maps `log` to the operations in memory (in the file while the
process is down), `durable` to the length of the file and `told` to what was
acknowledged or published. `FlushSucceeds` is `Sync`, a submit is `Accept` or a
stutter, `Settle` and the bookkeeping are stutters, a crash forgets what was not
durable.

The documents of a serve. `ServeInv` says of each document (`DocumentSound`) that
its sequencer is well formed and at the revision of its log, that every revision
of it can be replayed from the snapshot in its store and the served document is
the last of them (`StoreSound`), that the store holds a beginning of the log and
the running appends hold the rest, in order, until one fails (`AppendsSound`),
and that an append and the result that waits for it carry the same entry, which
is stored before the result is told (`ResultsSound`). While the authorization
hook runs its document stands still (`HookSound`): that is why a decision made on
one revision can be carried out after the hook returns. `DocumentLemmas` supplies
the document half: `ApplyWellFormed` for the accepted operation,
`ValidCoversApply` for the next one, `SnapshotRoundTrip` for the restart, and
`BuiltWellFormed` shows that `buildInitialDocument` begins well formed. A step
touches one document; `OthersStay`, `OneAt` and `StepAt` carry the invariant over
to the others. TLC agrees that `ServeInv` holds on the instance of the
`documents` run; the run lists its consequences. The attempt showed a missing
guard: a document whose first rows are refused does not start again, so
`Restart` must not go on with them.

What the consumer is told. `TellInv` extends `ServeInv` to the results under way
and to the past. `HistorySound`: every revision since the document is served has
one document, was valid on the one before, and a cell not written after a
revision holds what it held then. So a change that names the revision its writer
saw replaces what the document held at that revision (`SawWhatItReplaced`): no
update is lost. This rests on no cell being newer than its document, a part of
`CellsSound` that the attempt showed to be missing. `QueueInOrder`: the results
that wait carry the revisions not told yet, each once and in order, with the
document before it where a hook will ask for it, unless a failed append has lost
them. `LoopSound`: a document with a result to deliver is on the loop's list, also
when the request came from inside a hook. `PreviousIsReplaced` shows that
`acceptedCellChanges`, which looks back over one operation for an earlier write
of the cell, tells what a write-by-write application would replace. The attempt
also showed that a restart must begin `events` and `exported` anew: they are of
the document as it is served now.

What is exported. `ExportInv`: a snapshot is of some revision, with the document
of that revision and the log up to it; the log grows only at its end, so this
stays true. Reading the snapshot back gives that document (`SnapshotRoundTrip`), what
`operationsSince` returns is the rest of the log (`SinceIsTail`), and a replay may
stop anywhere and go on from there (`ReplayContinues`). The integrity check passes
what is exported because both sides of each comparison are then the same; each
change of `Tampered` is caught by one comparison (`OrderShows`, `TombstoneShows`,
`CellShows` and their neighbours). The hash stands for the content it is taken
of: two contents with the same 64 bits are not told apart by the code.

The documents, sockets and presences of a server. `ServerInv` has one part for
each table. A document is served, or retiring, or in work, and these three name
the same runtime where they name any (`Accounted`); conversely an open store is
named by one of the three entries of its document (`Owned`), which makes it the
only one. The attempt showed that the entries of a running server must also be
known to have open stores: otherwise `removeDocument` could retire a runtime
whose store was closed under a waiting submit. Sockets listen only to bridges
that are not retired, and the members of a registry are sockets of that bridge
(`SocketsSound`), so `retire` leaves nobody behind. `PresenceListsAgree` speaks of
clients that have read everything; its invariant, `ListsSound`, speaks of all of
them: for each client and each connection c, the last message on the way that is
about c says what the registry has of c, or there is none and the client knows it
already (`WillKnow`). Reading a message keeps it (`ReadingKeeps`), messages about
others do not touch it (`OthersNews`), and of several messages about c the last
counts (`News`). The delta of a presence is sent in a microtask, and until then a
farewell may overtake it. What comes to a client includes the deltas that wait
(`Coming`), and connections that were cut off behind such a delta are set aside
(`spent.overtaken`, `OvertakenSound`): they are in no registry, and clients may
keep them. Most actions are tasks, before which the microtasks have run; for
them `BeforeTask` and `AfterTask` pass between `ServerInv` and `InvBut(X)`, the
invariant without waiting deltas and without the connections X, and the lemma of
the action is about that. `PresenceKeeps`, `BadFrameKeeps` and
`DispatchDeltaKeeps` treat the three actions of one chunk. A store that the
clean-up of a failed recovery could not close is set aside by name too
(`spent.leaked`), since no table of the server knows it. The last message is found by the least-number principle for
sets (`Smallest`), which is an induction in a form the provers can use. A free
colour exists because a room has fewer connections than numbers up to their
count (`ColorIsNew`). TLC agrees that `ServerInv` holds on the instance of the
`server` run.

The server and its sessions. `CollabInv` says that there is one log. The log
replays from the initial document at every revision to a well-formed document,
holds every operation once and knows it by its ACK (`ServerSound`); what is on
the way to a client and what its buffer holds are entries of the durable part of
it, and a bootstrap is the document of a durable revision (`MessagesSound`,
`BufferSound`); the committed document of a session is the replay of a beginning
of the durable part (`CommittedSound`). A late frame is a submit with a sound
envelope whichever connection it was written on, so `Restart`, `Break` and the
faults only drop, repeat or exchange sound pieces. Each handler of a session has
one lemma over a single session, and the actions apply it to the session they
run. The step that matters is `DrainBuffer`: what leaves the buffer is consecutive
from the committed revision on, so applying it continues the replay
(`ReplayContinues`). The optimistic view and the queue are folds in the code; the
model has them as recursive functions over the length, whose shape is proved with
the least-number principle. That the base of a committed document may be the
empty document, besides the initial one, is not slack of the proof: the attempt to prove it away
failed, and TLC shows the behaviour on the in-process transport (section 6,
client session).

The refinement maps `log` to the operations in the server's memory, `durable` to
the synced ones, and `told` to what some committed document holds. `Sync` is the
step of that name, an accepted submit is `Accept`, `Restart` is a crash that
forgets what was not synced, and a session that commits more tells it.

`CommittedStaysDurable` pins the base down where frames are not reordered.
`InOrderInv`: a session is built on the initial document, or it has none yet, and
then nothing that would change its document is ahead of the bootstrap that
answers its join (`FirstContact`). The server answers a join at revision 0 by a
bootstrap at once, and delivers what it syncs later behind it; a connection that
breaks takes everything along. If the document begins empty, both bases are the
same and no order is needed. TLC agrees that `CollabInv` holds on the instance of
`collab_queue`, and with `InOrderInv` on the race of `collab_live`, also with
restarts and two breaks; in its other scene there are writes, and a write
replayed from the empty document is nothing TLC can evaluate.

What stays with TLC:

- liveness (`WorkIsDone`, `EventuallyConverged`, `StopEnds`): the temporal
  prover has no ENABLED;
- what recursive definitions compute on every input (the formula parser and
  evaluator, calendars, axes): the library's inductions take operator parameters
  the provers cannot instantiate, and folds and RECURSIVE operators have no laws
  they can use; `Replay` and `OperationsSince` are recursive functions, for which
  the least-number principle does;
- `EditsHaveOneFate` and `LoggedInIssueOrder`, which relate a session's queue to
  the log: both are stated with the exceptions the code makes (section 6, client
  session);
- the users' side of the grid (`UndoHistory`, `CollabView`), and the single-user
  side (`GridTasks`, `GridCanvas`, `FormulaSheet`), where the hard part is what
  the recursive definitions compute.

## 6. Not modelled, and remarks

Not modelled: the React wrapper (a lifecycle around the mount), the IME helpers
for geometry and event recording, HTTP routes, the development dataset, message
encoding and hashing, the paged array behind the cell store, drawing below the
level of texts, grounds and marks, benchmarks, demos and test harnesses.

What the models leave out on purpose, or where a property has a named exception:

- Rooms. Damage to files from outside and their checksums are left out.
- Hosted documents. Injected stores together with `restoreFrom` are not refused
  by `validateDocumentSpec` (`server.ts:1016-1021` looks at `persistenceDir`
  only) and would leave a gap of revisions; `RestoreAssumption` keeps them
  apart. `verifySnapshotIntegrity` replays from an empty document and so reports
  false for a document that began with `initialDocument`;
  `SnapshotPlusTailIsDocument` looks at those first served empty.
- Rooms, ACKs. `OnlyTheFileIsTold` leaves out the ACK of a retry or a no-op that is
  answered from the cache while the operation, or one before it, waits for its
  fsync (`sequencer.ts:102-105`, `persistent-room.ts:265-289`); `collab_lost` shows
  what follows.
- Server. With persistence the delta of a presence is sent in a microtask, and
  further frames of the same chunk come first. A frame that cuts the connection
  then has its `presenceRemoved` sent before the delta (`server.ts:397-401`,
  469-483): the others keep a connection that is gone until they join again.
  `PresenceListsAgree` names these (`spent.overtaken`). The other frames of a chunk
  are taken one at a time, and a room in memory has its delta follow at once. When
  a recovery fails, the store it had opened is closed quietly
  (`server.ts:1204-1223`); if that close fails too the store stays open, the
  document may be added again with a store of its own, and `stop` neither closes
  nor reports the first one. `StoresHaveOneOwner` names these (`spent.leaked`).
  Documents whose recovery fails while the server starts are closed in the same
  way and are not modelled. An upgrade that arrives after the pending authentications
  were destroyed, with a hook that never settles, keeps `stop` from ending
  (`spent.late` in `StopEnds`). A store whose close fails stays open
  (`spent.unclosed`). The upgrade callback of `ws` is synchronous and is a step
  of its own because the code guards it as such.
- Client session. `EventuallyConverged` excepts restarts (see `collab_lost`).
  A refused operation consumes its number, and a resend answered by a violation
  can go round for ever (`session.ts:602-604`); only a new connection ends it.
  An edit that fails the optimistic replay goes to the Conflict Queue as a
  dependency and to the server all the same, which may accept it
  (`session.ts:260`): it is reported and in the log, an exception of
  `EditsHaveOneFate`, which speaks of edits reported as refused. An edit that was
  acknowledged to a resend before its fsync may be lost in a restart
  (`spent.unkept`), and a third exception is this:
  after a reconnect `applyReconcile` takes an operation to be refused when the
  server has consumed its number without accepting it (`session.ts:434-435`), but
  the number may have been consumed by an edit that was given up and sent all the
  same, and given to a later edit (`rebaselinePendingSequence` looks at what is
  pending only). The later edit is then reported as refused while a late frame of
  it is still on its way, which the server accepts. TLC shows this with two
  breaks. The log
  can then depart from the order of issue: alice writes z and a into row r1 and b
  into r2, the connection breaks with the frames of z and a still to be read, and
  bob's write makes z stale. Her client puts z and, as its dependency, a into the
  Conflict Queue (`session.ts:661-662`), renumbers b after a sequence violation
  (`session.ts:737`) and has it accepted; then the late frame of a is accepted
  too. The log has b before a, although a was made first, and a is in the Conflict
  Queue: the exception of `LoggedInIssueOrder`.
- Client session, first contact. An `operations` message is applied or buffered
  whether or not a bootstrap is awaited (`session.ts:530-538`). If it overtakes the
  bootstrap, its entries are applied to the empty document: a write throws, an
  insertion at the top gives a document without the initial rows, and the late
  bootstrap, of a revision that is not ahead, is ignored. Only the in-process
  transport with reordering can do that, a socket cannot; `CommittedStaysDurable`
  therefore has its condition.
- Undo. A compensation for a row locked meanwhile is dropped by the read-only
  guard and resolved as committed (`mount-controller.ts:2811-2822` with
  2211-2240), so the scenes do not lock rows and undo together. A compensation
  that a bootstrap confirms leaves its controller busy for good:
  the bootstrap drops the pending operation (`session.ts:518-523`) and session-sync
  tells the controller of own operations in an `operations` message only
  (`session-sync.ts:144`), although `undo-stack.ts:51` describes the limbo as in
  flight. `ControllerComesBack` names it and says that nothing else leaves a
  controller waiting. A write on a
  cell whose own write is still pending is refused by the view itself, which
  validates it against the revision of the cell (`validate.ts:70-75`), and gets no
  entry (`mount-controller.ts:2259-2272`), though it is sent; so `before` is never
  a value of an operation that may still be refused. Committing the value already there advances the revision without
  an entry (`idle` in `HistoryFitsDocument`).
- Editing. A `compositionstart` while a confirmed text is awaited keeps the old
  base: a cancel drops the first composition although the textarea shows it
  (`editor-state-machine.ts:351,375`). Locking a cell in a composition closes its
  listeners (`integration-editor.ts:155,359-380`), so locked rows and
  compositions are in different scenes. A suggestion list opened over one row
  keeps it until the next frame, also when the edit ends and another begins
  (`mount-controller.ts:3298-3302`). Where the confirming Enter comes after the
  composition and the pointer is over a suggestion, that Enter takes the
  suggestion; a choice from a picker in the frame after a composition began over
  it is overwritten by the composed text. Both are exceptions by name in
  `InputReachesItsCell`. The calendar at its two ends (0001-01, 9999-12) repeats
  days. Every row is on screen; links and NFKC are left out.
- View. The reconcile after a welcome rolls back a refused insertion without a
  mark (`unmarked` in `DisplayFollowsDocument`). A range that is not anchored at
  the active cell (`selection-controller.ts:10`), and the cursor during an
  edit, are exceptions of `SelectionFollowsItsRows`. Commands before the first
  draw are left out.
- Formulas. Numbers are bounded integers and quotients are rounded; characters
  inside a piece are not told apart. `serialize`, which prints trees for tests and
  for debugging, prints strings as JSON and numbers as JavaScript does: a string
  with a quote or a backslash, and a number that needs an exponent, do not read
  back (`ast.ts:38-42`, `tokenizer.ts:70-93`); `ParserFollowsGrammar` says that every
  other tree does.
- Canvas. `hitTest` throws on an empty axis, and right of or below a sheet that
  is frozen whole. Heights that follow a column during a drag remain after it is
  cancelled (`mount-controller.ts:1430-1463`, `stale`). `scrollToRow` right after
  a wrapped row grew is clamped by the spacer of the frame before
  (`mount-controller.ts:900-907`, 1000-1004). A text that overflows from more than
  20 columns away is not drawn, as documented. Fonts, device pixels and captions
  are left out, and numbers are short enough for 32-bit reference arithmetic.
