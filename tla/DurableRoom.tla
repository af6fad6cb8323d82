----------------------------- MODULE DurableRoom -----------------------------
(***************************************************************************)
(* One document served with persistence: the sequencer, the room's durable *)
(* boundary (PersistentRoom, DurableFrontier), the append-only operation   *)
(* log with its group commit (FileOpLogStore), the snapshot store, and the *)
(* delivery queue that orders what connections are told (RoomBridge).      *)
(*                                                                         *)
(* The server is one JavaScript thread.  An action is what runs between    *)
(* two awaits: the handling of one frame, the end of one write+fsync, one  *)
(* continuation after it, one delivery, the end of one snapshot write.  A  *)
(* crash may come between any two of them and loses everything but the     *)
(* files.                                                                  *)
(***************************************************************************)
EXTENDS Sequencer

CONSTANTS
  OpId,             \* operation ids
  Owner,            \* OpId -> the client that created the operation
  Content,          \* OpId -> its document operation
  ServerClient,     \* SERVER_CLIENT_ID: operations the server itself submits
  InitialDocument,  \* the consumer's initialDocument, saved as snapshot@0
  SnapshotInterval, \* snapshotIntervalOps
  KeepGenerations,  \* snapshots kept on disk
  MaxSequence,      \* bound on the clientSequence of a frame
  MaxSubmits,       \* bound on the submitOperation frames of a behaviour
  MaxJoins,         \* bound on the connections of a behaviour
  MaxCrashes        \* bound on the crashes of a behaviour

ASSUME OwnerAssumption == Owner \in [OpId -> Client]
ASSUME ServerAssumption == ServerClient \in Client
ASSUME IntervalAssumption == SnapshotInterval \in Nat \ {0}
(* The consumer's document is built by buildInitialDocument.                *)
ASSUME InitialAssumption == WellFormed(InitialDocument) /\ InitialDocument.revision = 0
ASSUME ContentAssumption == \A o \in OpId : IsOperation(Content[o])
ASSUME GenerationsAssumption == KeepGenerations \in Nat \ {0}
ASSUME BoundsAssumption ==
  /\ MaxSequence \in Nat
  /\ MaxSubmits \in Nat
  /\ MaxJoins \in Nat
  /\ MaxCrashes \in Nat

VARIABLES
  up,               \* the process is running
  (* memory of the process *)
  sequencer,        \* SequencerState
  frontier,         \* DurableFrontier: [revision, document, sequences]
  poisoned,         \* an append failed, submits are refused
  closing,          \* PersistentRoom.close was called
  opsSinceSnapshot,
  snapshotWrite,    \* the snapshot being written, or NoSnapshot
  queue,            \* log entries appended but not handed to a write
  writing,          \* log entries of the write+fsync in flight
  failed,           \* the log store is fail-stop
  storeClosed,      \* the log store was closed
  deliveries,       \* submitDeliveries, in submission order
  connections,      \* connection -> revision up to which it was told
  (* the disk *)
  file,             \* complete lines of the log file
  tornTail,         \* the file ends in a line without its newline
  snapshots,        \* persisted snapshots
  (* history *)
  acknowledged,     \* ACKs dispatched: [op, rev, status, synced]
  published,        \* log entries shown to some connection: <<op, rev>>
  submits, joins, crashes

processVars == <<sequencer, frontier, poisoned, closing, opsSinceSnapshot, snapshotWrite,
                 queue, writing, failed, storeClosed, deliveries, connections>>
storeVars == <<queue, writing, failed, storeClosed>>
snapshotVars == <<opsSinceSnapshot, snapshotWrite>>
diskVars == <<file, tornTail, snapshots>>
historyVars == <<acknowledged, published>>
countVars == <<submits, joins, crashes>>

vars == <<up, processVars, diskVars, historyVars, countVars>>

-----------------------------------------------------------------------------
NoSnapshot == [revision |-> -1]

(* The pseudo connection of operations submitted by the server itself.      *)
ServerConnection == 0

Garbled == [rev |-> -1]

Frontier(s) ==
  [revision |-> s.currentRevision, document |-> s.document,
   sequences |-> s.clientSequenceTable]

LatestSnapshot ==
  CHOOSE s \in snapshots : \A t \in snapshots : t.revision <= s.revision

(* prune: only the newest KeepGenerations revisions stay.                   *)
Pruned(S) ==
  {s \in S : Cardinality({t \in S : t.revision > s.revision}) < KeepGenerations}

(* A delivery stands for one submit from its arrival to its dispatch.       *)
(*   appending  its log append is outstanding                               *)
(*   synced     the append resolved, the continuation has not run           *)
(*   broken     the append rejected, the continuation has not run           *)
(*   ready      the outbound messages are known                             *)
(*   failed     the submit threw                                            *)
NoCapture == [revision |-> -1]

Delivery(k, e, status, state, captured) ==
  [from |-> k, op |-> e.op, status |-> status, state |-> state, frontier |-> captured]

(* The code of a rejection makes no difference to its delivery.             *)
ReplyKind(verdict) == IF Rejection(verdict) THEN "rejected" ELSE verdict

Pending(d) == d.state \in {"appending", "synced", "broken"}

Init ==
  /\ up = TRUE
  /\ sequencer = FreshState(InitialDocument)
  /\ frontier = Frontier(FreshState(InitialDocument))
  /\ poisoned = FALSE
  /\ closing = FALSE
  /\ opsSinceSnapshot = 0
  /\ snapshotWrite = NoSnapshot
  /\ queue = <<>>
  /\ writing = <<>>
  /\ failed = FALSE
  /\ storeClosed = FALSE
  /\ deliveries = <<>>
  /\ connections = <<>>
  /\ file = <<>>
  /\ tornTail = FALSE
  /\ snapshots = {PersistedSnapshot(FreshState(InitialDocument))}
  /\ acknowledged = {}
  /\ published = {}
  /\ submits = 0
  /\ joins = 0
  /\ crashes = 0

-----------------------------------------------------------------------------
(* Connections.                                                             *)

(* Slip: the tail is cut at the current revision, not at the frontier.      *)
AllEntries(s, revision) ==
  {<<s.operationLog[i].op, s.operationLog[i].rev>> : i \in DOMAIN s.operationLog}

EntriesUpTo(s, revision) ==
  {<<s.operationLog[i].op, s.operationLog[i].rev>> :
     i \in {i \in DOMAIN s.operationLog : s.operationLog[i].rev <= revision}}

(* handleJoin: welcome, then a bootstrap or the tail, up to the frontier.   *)
Join ==
  /\ up /\ joins < MaxJoins
  /\ joins' = joins + 1
  /\ connections' = Put(connections, joins', frontier.revision)
  /\ published' = published \cup EntriesUpTo(sequencer, frontier.revision)
  /\ UNCHANGED <<up, sequencer, frontier, poisoned, closing, snapshotVars, storeVars,
                 deliveries, diskVars, acknowledged, submits, crashes>>

(* requestCatchup: the tail up to the frontier.                             *)
Catchup(k) ==
  /\ up
  /\ connections' = [connections EXCEPT ![k] = frontier.revision]
  /\ published' = published \cup EntriesUpTo(sequencer, frontier.revision)
  /\ UNCHANGED <<up, sequencer, frontier, poisoned, closing, snapshotVars, storeVars,
                 deliveries, diskVars, acknowledged, countVars>>

Without(k) == [j \in DOMAIN connections \ {k} |-> connections[j]]

Disconnect(k) ==
  /\ up
  /\ connections' = Without(k)
  /\ UNCHANGED <<up, sequencer, frontier, poisoned, closing, snapshotVars, storeVars,
                 deliveries, diskVars, historyVars, countVars>>

-----------------------------------------------------------------------------
(* One submitOperation frame: PersistentRoom.handleMessage up to its await. *)

(* append: refused at once when the store is closed or has failed.  The     *)
(* flush loop takes the entry immediately when it is idle, otherwise the    *)
(* entry waits for the next group commit.                                   *)
AppendToStore(entry) ==
  IF storeClosed \/ failed THEN UNCHANGED storeVars
  ELSE /\ IF writing = <<>>
          THEN writing' = <<entry>> /\ UNCHANGED queue
          ELSE queue' = Append(queue, entry) /\ UNCHANGED writing
       /\ UNCHANGED <<failed, storeClosed>>

(* After a failed append every submit throws before it reaches the          *)
(* sequencer.                                                               *)
SubmitPoisoned(k, e) ==
  /\ poisoned
  /\ deliveries' = Append(deliveries, Delivery(k, e, "poisoned", "failed", NoCapture))
  /\ UNCHANGED <<sequencer, storeVars>>

(* Nothing to log: the outbound reply is ready without waiting for any      *)
(* append in flight.                                                        *)
SubmitReplied(k, e, verdict) ==
  /\ ~poisoned
  /\ verdict # "accepted"
  /\ sequencer' = Submitted(sequencer, e, verdict)
  /\ deliveries' = Append(deliveries, Delivery(k, e, ReplyKind(verdict), "ready", NoCapture))
  /\ UNCHANGED storeVars

(* Slip: the ACK does not wait for the append.                              *)
SubmitAcceptedWithoutWaiting(k, e, verdict) ==
  /\ ~poisoned
  /\ verdict = "accepted"
  /\ sequencer' = Submitted(sequencer, e, verdict)
  /\ deliveries' = Append(deliveries, Delivery(k, e, verdict, "ready", Frontier(sequencer')))
  /\ AppendToStore(LogEntry(e, sequencer'.currentRevision))

(* Accepted: the revision is assigned and logged in memory, the frontier    *)
(* this revision will make durable is captured, and the append starts.      *)
SubmitAccepted(k, e, verdict) ==
  /\ ~poisoned
  /\ verdict = "accepted"
  /\ sequencer' = Submitted(sequencer, e, verdict)
  /\ deliveries' = Append(deliveries,
       Delivery(k, e, verdict, IF storeClosed \/ failed THEN "broken" ELSE "appending",
                Frontier(sequencer')))
  /\ AppendToStore(LogEntry(e, sequencer'.currentRevision))

HandleSubmit(k, e, authorized) ==
  /\ up /\ submits < MaxSubmits
  /\ submits' = submits + 1
  /\ LET verdict == Verdict(sequencer, e, authorized)
     IN  \/ SubmitPoisoned(k, e)
         \/ SubmitReplied(k, e, verdict)
         \/ SubmitAccepted(k, e, verdict)
  /\ UNCHANGED <<up, frontier, poisoned, closing, snapshotVars, connections, diskVars,
                 historyVars, joins, crashes>>

(* Frames a connection may send: any operation of a client, any sequence    *)
(* within the bound, a base the client has seen or one ahead of the server. *)
Envelope(o, n, b) ==
  [op |-> o, client |-> Owner[o], seq |-> n, base |-> b, operation |-> Content[o]]

Submit(k, e, authorized) ==
  /\ e.client # ServerClient
  /\ HandleSubmit(k, e, authorized)

(* submit / submitFromServer: numbered and handed to the room in one step,  *)
(* under an operation id never used before.  Refused once the server stops. *)
(* The consumer's authorization is not asked.                               *)
SubmitFromServer(o) ==
  /\ ~closing
  /\ Owner[o] = ServerClient
  /\ ~Acked(sequencer, o)
  /\ HandleSubmit(ServerConnection,
       Envelope(o, ExpectedSequence(sequencer, ServerClient), sequencer.currentRevision), TRUE)

-----------------------------------------------------------------------------
(* The flush loop of the log store.                                         *)

(* A delivery whose entry is in S moves to state t.                         *)
Resolve(S, t) ==
  deliveries' = [i \in DOMAIN deliveries |->
    IF deliveries[i].state = "appending" /\ deliveries[i].frontier.revision \in S
    THEN [deliveries[i] EXCEPT !.state = t]
    ELSE deliveries[i]]

Revisions(entries) == {entries[i].rev : i \in DOMAIN entries}

(* Slip: an unterminated last line stays in the file.                       *)
TailLeftOpen(torn) == torn

(* ensureOpen truncates an unterminated last line before the first append   *)
(* of the process.                                                          *)
TailAfterOpen(torn) == FALSE

(* Appending behind an unterminated line would glue the two together.       *)
Lines(torn, entries) == IF torn /\ entries # <<>> THEN <<Garbled>> \o Tail(entries) ELSE entries

(* write+fsync of the batch succeeded; the loop takes what has queued up    *)
(* meanwhile as the next batch.                                             *)
FlushSucceeds ==
  /\ up /\ ~failed /\ writing # <<>>
  /\ file' = file \o Lines(TailAfterOpen(tornTail), writing)
  /\ tornTail' = FALSE
  /\ Resolve(Revisions(writing), "synced")
  /\ writing' = queue
  /\ queue' = <<>>
  /\ UNCHANGED <<up, sequencer, frontier, poisoned, closing, snapshotVars, failed, storeClosed,
                 connections, snapshots, historyVars, countVars>>

(* Slip: the waiters queued behind the failed batch are forgotten.          *)
FlushFailsForgettingQueue ==
  /\ up /\ ~failed /\ writing # <<>>
  /\ failed' = TRUE
  /\ Resolve(Revisions(writing), "broken")
  /\ queue' = <<>>
  /\ UNCHANGED <<up, sequencer, frontier, poisoned, closing, snapshotVars, writing, storeClosed,
                 connections, diskVars, historyVars, countVars>>

(* Slip: the error of the write is swallowed.                               *)
FlushFailsSilently ==
  /\ up /\ ~failed /\ writing # <<>>
  /\ failed' = TRUE
  /\ Resolve(Revisions(writing) \cup Revisions(queue), "synced")
  /\ queue' = <<>>
  /\ UNCHANGED <<up, sequencer, frontier, poisoned, closing, snapshotVars, writing, storeClosed,
                 connections, diskVars, historyVars, countVars>>

(* The write or the fsync failed: the batch and everything queued behind it *)
(* is rejected and the store stops.  The bytes of the batch may or may not  *)
(* have reached the file, so they stay in `writing`.                        *)
FlushFails ==
  /\ up /\ ~failed /\ writing # <<>>
  /\ failed' = TRUE
  /\ Resolve(Revisions(writing) \cup Revisions(queue), "broken")
  /\ queue' = <<>>
  /\ UNCHANGED <<up, sequencer, frontier, poisoned, closing, snapshotVars, writing, storeClosed,
                 connections, diskVars, historyVars, countVars>>

-----------------------------------------------------------------------------
(* Snapshots.                                                               *)

(* Slip: a snapshot is written although operations are in flight.           *)
MaybeSnapshotWithoutBarrier(revision, sinceSnapshot, inProgress) ==
  IF closing \/ inProgress \/ sinceSnapshot < SnapshotInterval
  THEN /\ opsSinceSnapshot' = sinceSnapshot
       /\ snapshotWrite' = IF inProgress THEN snapshotWrite ELSE NoSnapshot
  ELSE /\ opsSinceSnapshot' = 0
       /\ snapshotWrite' = PersistedSnapshot(sequencer)

(* maybeSnapshot, for the values the continuation leaves behind: only a     *)
(* fully durable state is written.                                          *)
MaybeSnapshot(revision, sinceSnapshot, inProgress) ==
  IF closing \/ inProgress \/ sinceSnapshot < SnapshotInterval
     \/ revision # sequencer.currentRevision
  THEN /\ opsSinceSnapshot' = sinceSnapshot
       /\ snapshotWrite' = IF inProgress THEN snapshotWrite ELSE NoSnapshot
  ELSE /\ opsSinceSnapshot' = 0
       /\ snapshotWrite' = PersistedSnapshot(sequencer)

(* What a save leaves on disk when it ends or is cut short: the rename puts *)
(* the whole snapshot in place or it does not happen; the prune after it    *)
(* may not happen.                                                          *)
AfterSave(s) ==
  {snapshots, snapshots \cup {s}, Pruned(snapshots \cup {s})}

(* The end of a snapshot write, successful or not; then the interval is     *)
(* looked at again.                                                         *)
SnapshotEnds ==
  /\ up /\ snapshotWrite # NoSnapshot
  /\ snapshots' \in AfterSave(snapshotWrite)
  /\ MaybeSnapshot(frontier.revision, opsSinceSnapshot, FALSE)
  /\ UNCHANGED <<up, sequencer, frontier, poisoned, closing, storeVars, deliveries, connections,
                 file, tornTail, historyVars, countVars>>

-----------------------------------------------------------------------------
(* Continuations of handleMessage after the append settled, in the order    *)
(* the appends settled.                                                     *)

NextSettled(i) ==
  /\ deliveries[i].state \in {"synced", "broken"}
  /\ \A j \in 1..i-1 : deliveries[j].state \notin {"synced", "broken"}

SetState(i, t) == deliveries' = [deliveries EXCEPT ![i].state = t]

(* DurableFrontier.advance: forward only.                                   *)
Advance(captured) ==
  IF captured.revision > frontier.revision THEN captured ELSE frontier

SettleDurable(i) ==
  /\ deliveries[i].state = "synced" /\ ~poisoned
  /\ SetState(i, "ready")
  /\ frontier' = Advance(deliveries[i].frontier)
  /\ MaybeSnapshot(frontier'.revision, opsSinceSnapshot + 1, snapshotWrite # NoSnapshot)
  /\ UNCHANGED poisoned

SettleFailed(i) ==
  /\ deliveries[i].state = "broken" \/ poisoned
  /\ SetState(i, "failed")
  /\ poisoned' = (poisoned \/ deliveries[i].state = "broken")
  /\ UNCHANGED <<frontier, snapshotVars>>

Settle(i) ==
  /\ up
  /\ NextSettled(i)
  /\ SettleDurable(i) \/ SettleFailed(i)
  /\ UNCHANGED <<up, sequencer, closing, storeVars, connections, diskVars, historyVars, countVars>>

-----------------------------------------------------------------------------
(* Delivery.                                                                *)

(* takeDeliverableSubmit: an accepted submit never passes one that is still *)
(* waiting; replies and failures do.                                        *)
MayPass(i) ==
  /\ ~Pending(deliveries[i])
  /\ deliveries[i].state = "ready" /\ deliveries[i].status = "accepted"
       => \A j \in 1..i-1 : ~Pending(deliveries[j])

(* Slip: whatever is ready goes out, not the first of them.                 *)
DeliverableInAnyOrder(i) == MayPass(i)

Deliverable(i) ==
  /\ MayPass(i)
  /\ \A j \in 1..i-1 : ~MayPass(j)

Reachable(k) == k = ServerConnection \/ k \in DOMAIN connections

(* The revision a reply acknowledges, and whether the file reaches it.      *)
AckOf(d) ==
  LET rev == sequencer.ackCache[d.op]
  IN  [op |-> d.op, rev |-> rev, status |-> d.status, synced |-> rev <= Len(file)]

(* Accepted: the ACK to its sender and the operation to every connection.   *)
DispatchAccepted(d) ==
  /\ d.state = "ready" /\ d.status = "accepted"
  /\ connections' = [k \in DOMAIN connections |->
       IF d.frontier.revision > connections[k] THEN d.frontier.revision ELSE connections[k]]
  /\ published' = IF connections = <<>> THEN published
                  ELSE published \cup {<<d.op, d.frontier.revision>>}
  /\ acknowledged' = IF Reachable(d.from) THEN acknowledged \cup {AckOf(d)} ELSE acknowledged

(* A duplicate or a no-op: the cached ACK.                                  *)
DispatchAck(d) ==
  /\ d.state = "ready" /\ d.status \in {"duplicate", "noop"}
  /\ acknowledged' = IF Reachable(d.from) THEN acknowledged \cup {AckOf(d)} ELSE acknowledged
  /\ UNCHANGED <<connections, published>>

(* A rejection changes nothing on the server.                               *)
DispatchRejection(d) ==
  /\ d.state = "ready" /\ d.status = "rejected"
  /\ UNCHANGED <<connections, published, acknowledged>>

(* A submit that threw closes the connection it came from.                  *)
DispatchFailure(d) ==
  /\ d.state = "failed"
  /\ connections' = Without(d.from)
  /\ UNCHANGED <<published, acknowledged>>

Deliver(i) ==
  /\ up
  /\ Deliverable(i)
  /\ deliveries' = RemoveAt(deliveries, i)
  /\ \/ DispatchAccepted(deliveries[i])
     \/ DispatchAck(deliveries[i])
     \/ DispatchRejection(deliveries[i])
     \/ DispatchFailure(deliveries[i])
  /\ UNCHANGED <<up, sequencer, frontier, poisoned, closing, snapshotVars, storeVars, diskVars, countVars>>

-----------------------------------------------------------------------------
(* Stopping and restarting.                                                 *)

Close ==
  /\ up /\ ~closing
  /\ closing' = TRUE
  /\ UNCHANGED <<up, sequencer, frontier, poisoned, snapshotVars, storeVars, deliveries,
                 connections, diskVars, historyVars, countVars>>

(* The log store is closed once no snapshot is being written; appends in    *)
(* flight still finish.                                                     *)
CloseStore ==
  /\ up /\ closing /\ ~storeClosed
  /\ snapshotWrite = NoSnapshot
  /\ storeClosed' = TRUE
  /\ UNCHANGED <<up, sequencer, frontier, poisoned, closing, snapshotVars, queue, writing, failed,
                 deliveries, connections, diskVars, historyVars, countVars>>

(* Memory at start-up, for a recovered sequencer state.                     *)
Booted(s) ==
  /\ sequencer' = s
  /\ frontier' = Frontier(s)
  /\ poisoned' = FALSE
  /\ closing' = FALSE
  /\ opsSinceSnapshot' = 0
  /\ snapshotWrite' = NoSnapshot
  /\ queue' = <<>>
  /\ writing' = <<>>
  /\ failed' = FALSE
  /\ storeClosed' = FALSE
  /\ deliveries' = <<>>
  /\ connections' = <<>>

(* The process dies.  Of a batch that was handed to the file but not        *)
(* synced, any number of leading lines may survive, then part of a line.    *)
Crash(n, torn) ==
  /\ up /\ crashes < MaxCrashes
  /\ crashes' = crashes + 1
  /\ up' = FALSE
  /\ file' = file \o SubSeq(Lines(TailAfterOpen(tornTail), writing), 1, n)
  /\ torn => n < Len(writing)
  /\ tornTail' = IF writing = <<>> THEN tornTail ELSE torn
  /\ snapshots' \in IF snapshotWrite = NoSnapshot THEN {snapshots} ELSE AfterSave(snapshotWrite)
  /\ Booted(FreshState(InitialDocument))
  /\ UNCHANGED <<historyVars, submits, joins>>

(* readAll drops an unterminated last line and fails on any other damage.   *)
LogUnreadable == Garbled \in ToSet(file)

StartRefused == LogUnreadable \/ RecoveryRefused(LatestSnapshot, file)

Recover ==
  /\ ~up
  /\ ~StartRefused
  /\ up' = TRUE
  /\ Booted(Recovered(LatestSnapshot, file))
  /\ UNCHANGED <<diskVars, historyVars, countVars>>

-----------------------------------------------------------------------------
Next ==
  \/ Join
  \/ \E k \in DOMAIN connections : Disconnect(k)
  \/ \E k \in DOMAIN connections : Catchup(k)
  \/ \E k \in DOMAIN connections, o \in OpId, n \in 1..MaxSequence,
        b \in {0, sequencer.currentRevision + 1}, authorized \in BOOLEAN :
       Submit(k, Envelope(o, n, b), authorized)
  \/ \E o \in OpId : SubmitFromServer(o)
  \/ FlushSucceeds
  \/ FlushFails
  \/ SnapshotEnds
  \/ \E i \in DOMAIN deliveries : Settle(i)
  \/ \E i \in DOMAIN deliveries : Deliver(i)
  \/ Close
  \/ CloseStore
  \/ \E n \in 0..Len(writing), torn \in BOOLEAN : Crash(n, torn)
  \/ Recover

Spec == Init /\ [][Next]_vars

(* Input and output end, and the JavaScript event loop runs every queued    *)
(* continuation and delivery; nothing obliges clients to send, a process to *)
(* crash, or a write to succeed.                                            *)
Fairness ==
  /\ WF_vars(FlushSucceeds \/ FlushFails)
  /\ WF_vars(SnapshotEnds)
  /\ WF_vars(\E i \in DOMAIN deliveries : Settle(i))
  /\ WF_vars(\E i \in DOMAIN deliveries : Deliver(i))
  /\ WF_vars(Recover)

FairSpec == Spec /\ Fairness
-----------------------------------------------------------------------------
(* Slip: acknowledgements beyond the frontier are included.                 *)
DurableSnapshotWithLiveAcks ==
  [document            |-> frontier.document,
   operationLog        |-> SelectSeq(sequencer.operationLog, LAMBDA x : x.rev <= frontier.revision),
   currentRevision     |-> frontier.revision,
   ackCache            |-> sequencer.ackCache,
   clientSequenceTable |-> frontier.sequences]

(* durableSnapshot: what the /snapshot endpoint and an inspection see.      *)
DurableSnapshot ==
  [document            |-> frontier.document,
   operationLog        |-> SelectSeq(sequencer.operationLog, LAMBDA x : x.rev <= frontier.revision),
   currentRevision     |-> frontier.revision,
   ackCache            |-> [o \in {o \in DOMAIN sequencer.ackCache :
                                     sequencer.ackCache[o] <= frontier.revision}
                              |-> sequencer.ackCache[o]],
   clientSequenceTable |-> frontier.sequences]

-----------------------------------------------------------------------------
(* Type invariant.                                                          *)
Entries ==
  [op : OpId, client : Client, seq : Nat, operation : {Content[o] : o \in OpId}, rev : Nat]

TypeOK ==
  /\ up \in BOOLEAN /\ poisoned \in BOOLEAN /\ closing \in BOOLEAN
  /\ failed \in BOOLEAN /\ storeClosed \in BOOLEAN /\ tornTail \in BOOLEAN
  /\ DOMAIN sequencer = {"document", "operationLog", "currentRevision",
                         "ackCache", "clientSequenceTable"}
  /\ sequencer.operationLog \in Seq(Entries)
  /\ sequencer.currentRevision \in Nat
  /\ sequencer.clientSequenceTable \in [Client -> Nat]
  /\ frontier.revision \in Nat
  /\ frontier.sequences \in [Client -> Nat]
  /\ opsSinceSnapshot \in Nat
  /\ queue \in Seq(Entries) /\ writing \in Seq(Entries) /\ file \in Seq(Entries)
  /\ deliveries \in Seq(ToSet(deliveries))
  /\ \A d \in ToSet(deliveries) :
       /\ DOMAIN d = {"from", "op", "status", "state", "frontier"}
       /\ d.op \in OpId
       /\ d.status \in {"accepted", "noop", "duplicate", "rejected", "poisoned"}
       /\ d.state \in {"appending", "synced", "broken", "ready", "failed"}
  /\ submits \in 0..MaxSubmits /\ joins \in 0..MaxJoins /\ crashes \in 0..MaxCrashes

(* The ACK of an accepted operation is given out only once the operation is *)
(* in the synced log, and the operation is still there, at that revision,   *)
(* after any later failure, crash or restart (persistent-room.ts:4-5).      *)
AcceptedAckIsDurable ==
  \A a \in acknowledged :
    a.status = "accepted" => a.rev \in DOMAIN file /\ file[a.rev].op = a.op

(* Whatever a connection was shown, by bootstrap, tail or broadcast, is in  *)
(* the synced log at that revision and is never taken back                  *)
(* (room.ts:88-108, DurableFrontier).                                       *)
PublishedIsDurable ==
  \A p \in published : p[2] \in DOMAIN file /\ file[p[2]].op = p[1]

(* An ACK names an operation the file holds at its revision, or, when it    *)
(* answers a retry or a no-op, one that changes nothing at that revision of *)
(* the file.                                                                *)
AckHolds(a) ==
  \/ a.rev \in DOMAIN file /\ file[a.rev].op = a.op
  \/ /\ a.status # "accepted"
     /\ a.rev \in 0..Len(file)
     /\ IsEmptyChangeSet(Replay(InitialDocument, SubSeq(file, 1, a.rev)), Content[a.op])

(* What the outside is told is in the synced log and no failure, crash or   *)
(* restart takes it back: what the others are shown, the ACK of an accepted *)
(* operation, and the ACK of a retry or of a no-op, from this process or a  *)
(* later one, whose revision was synced when it left (persistent-room.ts:   *)
(* 4-5, room.ts:88-108).  Exception: the ACK of a retry or of a no-op waits *)
(* for no fsync (sequencer.ts:102-105, persistent-room.ts:265-289), so one  *)
(* whose revision was still being written, or whose write had failed, says  *)
(* nothing about the file; a crash may lose what it acknowledged.           *)
OnlyTheFileIsTold ==
  /\ AcceptedAckIsDurable
  /\ PublishedIsDurable
  /\ \A a \in acknowledged : a.synced => AckHolds(a)

(* No crash, failed write, torn line or half-finished snapshot leaves files *)
(* a restart refuses (persistent-room.ts:88-178), and a restart from the    *)
(* newest snapshot and the log tail gives the document a replay of the      *)
(* whole log gives, knows the logged operation ids at their revisions, and  *)
(* expects from each client a sequence past all it logged.  Any other id it *)
(* knows is that of an operation that changed nothing at the revision it    *)
(* was acknowledged at.                                                     *)
RestartIsFaithful ==
  LET r      == Recovered(LatestSnapshot, file)
      logged == {file[i].op : i \in DOMAIN file}
  IN  /\ ~StartRefused
      /\ r.document = Replay(InitialDocument, file)
      /\ \A i \in DOMAIN file :
           /\ file[i].op \in DOMAIN r.ackCache /\ r.ackCache[file[i].op] = i
           /\ r.clientSequenceTable[file[i].client] >= file[i].seq
      /\ \A o \in DOMAIN r.ackCache \ logged :
           /\ r.ackCache[o] \in 0..Len(file)
           /\ IsEmptyChangeSet(Replay(InitialDocument, SubSeq(file, 1, r.ackCache[o])),
                               Content[o])

(* The frontier shows the document of exactly its revision, captured when   *)
(* that operation was submitted, however many submits came in between       *)
(* (persistent-room.ts:266-285).  A restore from durableSnapshot is as      *)
(* faithful for the log up to the frontier: no ACK and no number of an      *)
(* operation in flight leaks into it (persistent-room.ts:349-367).          *)
FrontierIsFaithful ==
  /\ frontier.document =
       Replay(InitialDocument, SubSeq(sequencer.operationLog, 1, frontier.revision))
  /\ \A i \in DOMAIN sequencer.operationLog :
       LET e == sequencer.operationLog[i]
           s == DurableSnapshot
       IN  IF e.rev > frontier.revision
           THEN e.op \notin DOMAIN s.ackCache /\ s.clientSequenceTable[e.client] < e.seq
           ELSE e.op \in DOMAIN s.ackCache /\ s.clientSequenceTable[e.client] >= e.seq

(* What a restart or a reader of the durable state gets is the history told *)
(* to the clients, whichever step a crash or a failure hit.                 *)
RecoveryIsFaithful == RestartIsFaithful /\ (up => FrontierIsFaithful)

(* Exactly once: across retries, duplicate frames, lost ACKs and restarts   *)
(* an operation id is in the log at most once, and a client's operations    *)
(* are logged in the order of its sequence numbers.                         *)
LoggedExactlyOnceInOrder ==
  LET log == sequencer.operationLog
  IN  \A i, j \in DOMAIN log :
        i < j => /\ log[i].op # log[j].op
                 /\ log[i].client = log[j].client => log[i].seq < log[j].seq

(* A connection that joined at the frontier then sees every later revision  *)
(* in order and without a gap, although replies and failures overtake       *)
(* waiting operations (server.ts:564-583).                                  *)
BroadcastHasNoGap ==
  [][Len(deliveries') < Len(deliveries) =>
       \A k \in DOMAIN connections \cap DOMAIN connections' :
         connections'[k] <= connections[k] + 1]_vars

(* Every submit is answered, refused, or cut off by a crash: no delivery    *)
(* waits forever behind another, whichever writes fail (whenDrained,        *)
(* server.ts:268-276).                                                      *)
SubmitsDrain == deliveries # <<>> ~> deliveries = <<>>

(* A snapshot that became due is started, even if the interval was reached  *)
(* while operations were in flight or while another snapshot was being      *)
(* written (persistent-room.ts:313-342).                                    *)
SnapshotDue == up /\ ~closing /\ ~failed /\ opsSinceSnapshot >= SnapshotInterval

DueSnapshotStarts == SnapshotDue ~> ~SnapshotDue

(* Both at once: nothing that was begun or became due is left undone.       *)
WorkIsDone == SubmitsDrain /\ DueSnapshotStarts

-----------------------------------------------------------------------------
(* The room implements the ordered log.  While the process is up the order  *)
(* is the log in memory, durable or not; while it is down it is the file.   *)
(* The outside is told by operations messages and by ACKs of accepted       *)
(* operations.                                                              *)
OpsOf(entries) == [i \in DOMAIN entries |-> entries[i].op]

Promise == INSTANCE OrderedLog WITH
  Op      <- OpId,
  log     <- OpsOf(IF up THEN sequencer.operationLog ELSE file),
  durable <- Len(file),
  told    <- published \cup
             {<<a.op, a.rev>> : a \in {a \in acknowledged : a.status = "accepted"}}

(* Every behaviour of the room, crashes and failed writes included, is one  *)
(* of the ordered log: operations take their place once, the synced part is *)
(* never taken back and nothing else is ever told (oplog-store.ts:2-8,      *)
(* persistent-room.ts:2-14).                                                *)
ImplementsOrderedLog == Promise!Spec
=============================================================================
