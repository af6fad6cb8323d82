------------------------ MODULE DurableRoomInvariant ------------------------
(***************************************************************************)
(* The inductive invariant behind the safety of DurableRoom: how the log   *)
(* in memory, the batches on their way to the disk, the file, the          *)
(* snapshots, the deliveries and what the outside was told fit together.   *)
(***************************************************************************)
EXTENDS DurableRoom

OpsOnce(entries) ==
  \A i, j \in DOMAIN entries : entries[i].op = entries[j].op => i = j

InSequence(entries) ==
  \A i, j \in DOMAIN entries :
    i < j /\ entries[i].client = entries[j].client => entries[i].seq < entries[j].seq

(* Every entry of the log in memory sits at its revision, is acknowledged   *)
(* there and its sequence number is consumed.                               *)
LogSound ==
  /\ sequencer.currentRevision = Len(sequencer.operationLog)
  /\ \A i \in DOMAIN sequencer.operationLog :
       LET e == sequencer.operationLog[i]
       IN  /\ e.rev = i
           /\ Acked(sequencer, e.op)
           /\ sequencer.ackCache[e.op] = i
           /\ e.seq <= sequencer.clientSequenceTable[e.client]
  /\ InSequence(sequencer.operationLog)

FileSound ==
  /\ \A i \in DOMAIN file : file[i].rev = i
  /\ OpsOnce(file)
  /\ InSequence(file)

(* File, batch being written and queue are consecutive pieces of the log in *)
(* memory, and all of it while the store takes entries.                     *)
PiecesOfLog ==
  LET log == sequencer.operationLog
      before == Len(file) + Len(writing)
  IN  /\ up => \A i \in DOMAIN file : i \in DOMAIN log /\ file[i] = log[i]
      /\ \A i \in DOMAIN writing :
           Len(file) + i \in DOMAIN log /\ writing[i] = log[Len(file) + i]
      /\ \A i \in DOMAIN queue :
           before + i \in DOMAIN log /\ queue[i] = log[before + i]
      /\ up /\ ~failed /\ ~storeClosed => Len(log) = before + Len(queue)
      /\ writing = <<>> => queue = <<>>

(* An accepted submit knows its place in the log; once its append resolved  *)
(* that place is in the file.                                               *)
DeliverySound(d) ==
  /\ Pending(d) => d.status = "accepted"
  /\ d.status = "accepted" =>
       /\ d.frontier.revision \in DOMAIN sequencer.operationLog
       /\ sequencer.operationLog[d.frontier.revision].op = d.op
       /\ d.frontier.sequences \in [Client -> Nat]
       /\ d.state \in {"synced", "ready"} => d.frontier.revision <= Len(file)

(* A snapshot covers a part of the file and knows all of its operations.    *)
SnapshotSound(s) ==
  /\ s.revision \in 0..Len(file)
  /\ s.clientSequenceTable \in [Client -> Nat]
  /\ \A i \in 1..s.revision :
       /\ file[i].op \in DOMAIN s.ackCache
       /\ s.ackCache[file[i].op] = i
       /\ file[i].seq <= s.clientSequenceTable[file[i].client]

SnapshotsSound ==
  /\ \A s \in snapshots : SnapshotSound(s)
  /\ snapshotWrite # NoSnapshot => SnapshotSound(snapshotWrite)
  /\ \E s \in snapshots : \A t \in snapshots : t.revision <= s.revision

(* The induction needs one fact beyond these: what is down has no batch.    *)
IInv ==
  /\ TypeOK
  /\ LogSound
  /\ FileSound
  /\ PiecesOfLog
  /\ ~up => writing = <<>>
  /\ frontier.revision <= Len(file)
  /\ \A d \in ToSet(deliveries) : DeliverySound(d)
  /\ SnapshotsSound
  /\ AcceptedAckIsDurable
  /\ PublishedIsDurable
-----------------------------------------------------------------------------
(* Why what a connection is shown has no gap: how the deliveries stand in   *)
(* their queue q.                                                           *)

AcceptedAt(q, i) == q[i].status = "accepted"
RevisionAt(q, i) == q[i].frontier.revision

(* Accepted submits stand in the order of their revisions; those whose      *)
(* append has not succeeded lie behind the file, and one that was refused   *)
(* by a closed store behind all that is still on its way to it.  The first  *)
(* that fails poisons the room, and what is ready to go out has nothing but *)
(* ready submits before it.                                                 *)
DeliveriesInOrder ==
  LET q == deliveries
  IN  /\ \A i, j \in DOMAIN q :
           i < j /\ AcceptedAt(q, i) /\ AcceptedAt(q, j) => RevisionAt(q, i) < RevisionAt(q, j)
      /\ \A i \in DOMAIN q : AcceptedAt(q, i) =>
           /\ q[i].state \in {"appending", "broken"} => RevisionAt(q, i) > Len(file)
           /\ q[i].state = "broken" /\ ~failed =>
                storeClosed /\ RevisionAt(q, i) > Len(file) + Len(writing) + Len(queue)
           /\ q[i].state = "failed" => poisoned
           /\ q[i].state = "ready" =>
                /\ RevisionAt(q, i) <= frontier.revision
                /\ \A j \in 1..i-1 : AcceptedAt(q, j) => q[j].state = "ready"

(* A submit that will still be shown; in a poisoned room (p) only what is   *)
(* ready already.                                                           *)
WillBeShown(q, p, i) ==
  AcceptedAt(q, i) /\ (q[i].state = "ready" \/ (~p /\ Pending(q[i])))

(* Whoever was told up to revision t gets the one before r, if it is still  *)
(* missing, from an accepted submit before place i.                         *)
Covered(q, r, i, t) ==
  r <= t + 1 \/ \E j \in 1..i-1 : AcceptedAt(q, j) /\ RevisionAt(q, j) = r - 1

(* So it is for all that will be shown, and for what comes after revision n. *)
NoHole(q, p, n, t) ==
  /\ \A i \in DOMAIN q : WillBeShown(q, p, i) => Covered(q, RevisionAt(q, i), i, t)
  /\ ~p => Covered(q, n + 1, Len(q) + 1, t)

(* There is no hole behind the frontier, where a connection starts, nor     *)
(* behind what any connection was told.                                     *)
GapInv ==
  LET n == Len(sequencer.operationLog)
  IN  /\ DeliveriesInOrder
      /\ NoHole(deliveries, poisoned, n, frontier.revision)
      /\ \A k \in DOMAIN connections :
           connections[k] \in Nat /\ NoHole(deliveries, poisoned, n, connections[k])

-----------------------------------------------------------------------------
(* Why a restart is faithful: every revision has one document, and whatever *)
(* the process or the disk holds is of some revision.                       *)

DocumentAt(entries, n) == Replay(InitialDocument, SubSeq(entries, 1, n))

(* Each revision of a log gives a well-formed document that carries it.     *)
HistorySound(entries) ==
  \A n \in 0..Len(entries) :
    WellFormed(DocumentAt(entries, n)) /\ DocumentAt(entries, n).revision = n

(* ACKs known at revision n are of logged operations at their places, or of *)
(* operations that changed nothing there.                                   *)
AcksSound(entries, n, acks) ==
  \A o \in DOMAIN acks :
    /\ o \in OpId
    /\ acks[o] \in 0..n
    /\ \/ acks[o] \in DOMAIN entries /\ entries[acks[o]].op = o
       \/ IsEmptyChangeSet(DocumentAt(entries, acks[o]), Content[o])

(* The memory of a sequencer s: its document and its ACKs.                  *)
MemoryFaithful(s) ==
  /\ s.document = DocumentAt(s.operationLog, Len(s.operationLog))
  /\ AcksSound(s.operationLog, Len(s.operationLog), s.ackCache)

(* A frontier f captured from s: the document of its revision, and sequence *)
(* numbers that tell the operations up to it from those behind it.          *)
CaptureSound(s, f) ==
  LET log == s.operationLog
  IN  /\ f.revision \in 0..Len(log)
      /\ f.document = DocumentAt(log, f.revision)
      /\ \A c \in Client : f.sequences[c] <= s.clientSequenceTable[c]
      /\ \A i \in DOMAIN log :
           IF i <= f.revision THEN log[i].seq <= f.sequences[log[i].client]
                              ELSE f.sequences[log[i].client] < log[i].seq

(* A snapshot s holds the document of its revision.                         *)
SnapshotFaithful(entries, s) ==
  /\ s.currentRevision = s.revision
  /\ s.document = SerializeDocument(DocumentAt(entries, s.revision))
  /\ AcksSound(entries, s.revision, s.ackCache)

RestartInv ==
  /\ HistorySound(IF up THEN sequencer.operationLog ELSE file)
  /\ MemoryFaithful(sequencer)
  /\ CaptureSound(sequencer, frontier)
  /\ \A d \in ToSet(deliveries) : d.status = "accepted" => CaptureSound(sequencer, d.frontier)
  /\ \A s \in snapshots : SnapshotFaithful(file, s)
  /\ snapshotWrite # NoSnapshot => SnapshotFaithful(file, snapshotWrite)

-----------------------------------------------------------------------------
(* Why an ACK is to be relied on: a retry or a no-op that waits to be       *)
(* answered is known, and the ACKs whose revision was synced when they left *)
(* hold.                                                                    *)

KnownReply(d) == d.status \in {"duplicate", "noop"} => d.op \in DOMAIN sequencer.ackCache

AckInv ==
  /\ \A d \in ToSet(deliveries) : KnownReply(d)
  /\ \A a \in acknowledged : a.synced => AckHolds(a)

-----------------------------------------------------------------------------
(* All four.                                                                *)
RoomInv == IInv /\ GapInv /\ RestartInv /\ AckInv
=============================================================================
