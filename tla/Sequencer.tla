----------------------------- MODULE Sequencer -----------------------------
(***************************************************************************)
(* The sequencer of packages/server: the one place where an operation gets *)
(* its revision.  A SequencerState is a record                             *)
(*   document             the authoritative document                       *)
(*   operationLog         accepted envelopes, each with its revision       *)
(*   currentRevision      revision of the last accepted operation          *)
(*   ackCache             operation id -> revision of its ACK              *)
(*   clientSequenceTable  client -> last clientSequence consumed           *)
(* An envelope is [op, client, seq, base, operation]; timestamps, actor    *)
(* ids and the details of a rejection are left out.                        *)
(***************************************************************************)
EXTENDS SheetDocument

CONSTANT Client

(* Map.set.                                                                 *)
Put(f, k, v) == [x \in DOMAIN f \cup {k} |-> IF x = k THEN v ELSE f[x]]

(* Array.filter: the elements of seq at these places, in their order.       *)
Filtered(seq, places) ==
  LET upTo[n \in 0..Len(seq)] ==
        IF n = 0 THEN <<>>
        ELSE IF n \in places THEN Append(upTo[n - 1], seq[n]) ELSE upTo[n - 1]
  IN  upTo[Len(seq)]

(* freshSequencerState, over the document the serve starts with.            *)
FreshState(doc) ==
  [document            |-> doc,
   operationLog        |-> <<>>,
   currentRevision     |-> 0,
   ackCache            |-> <<>>,
   clientSequenceTable |-> [c \in Client |-> 0]]

-----------------------------------------------------------------------------
(* submit: the verdict on an envelope, checked in the order of the code.    *)

ViolationPriority ==
  <<"unknown-row", "unknown-anchor", "duplicate-row",
    "target-row-deleted", "unknown-column", "stale-cell-revision">>

PrimaryRejectCode(codes) ==
  ViolationPriority[CHOOSE i \in DOMAIN ViolationPriority :
    /\ ViolationPriority[i] \in codes
    /\ \A j \in 1..i-1 : ViolationPriority[j] \notin codes]

(* ackedRevisionOf(op) is defined.                                          *)
Acked(s, op) == op \in DOMAIN s.ackCache

ExpectedSequence(s, client) == s.clientSequenceTable[client] + 1

(* Slip: the client's sequence number is not checked.                       *)
VerdictIgnoringSequence(s, e, authorized) ==
  IF Acked(s, e.op) THEN "duplicate"
  ELSE IF e.base > s.currentRevision THEN "invalid-base-revision"
  ELSE IF ~authorized THEN "permission-denied"
  ELSE IF Violations(s.document, e.operation) # {}
       THEN PrimaryRejectCode(Violations(s.document, e.operation))
  ELSE IF IsEmptyChangeSet(s.document, e.operation) THEN "noop"
  ELSE "accepted"

Verdict(s, e, authorized) ==
  IF Acked(s, e.op) THEN "duplicate"
  ELSE IF e.seq # ExpectedSequence(s, e.client) THEN "client-sequence-violation"
  ELSE IF e.base > s.currentRevision THEN "invalid-base-revision"
  ELSE IF ~authorized THEN "permission-denied"
  ELSE IF Violations(s.document, e.operation) # {}
       THEN PrimaryRejectCode(Violations(s.document, e.operation))
  ELSE IF IsEmptyChangeSet(s.document, e.operation) THEN "noop"
  ELSE "accepted"

Rejection(verdict) == verdict \notin {"duplicate", "noop", "accepted"}

(* Slip: the sequence slot is not consumed.                                 *)
ConsumedNothing(s, e) == s

(* The sequence slot is consumed by every verdict past the sequence check,  *)
(* rejections included.                                                     *)
Consumed(s, e) == [s EXCEPT !.clientSequenceTable[e.client] = e.seq]

LogEntry(e, revision) ==
  [op |-> e.op, client |-> e.client, seq |-> e.seq,
   operation |-> e.operation, rev |-> revision]

Accepted(s, e) ==
  LET next == s.currentRevision + 1
  IN  [Consumed(s, e) EXCEPT
         !.document = ApplyOperation(@, e.operation, next),
         !.operationLog = Append(@, LogEntry(e, next)),
         !.currentRevision = next,
         !.ackCache = Put(@, e.op, next)]

(* A no-op is acknowledged at the current revision and leaves no log entry. *)
Noop(s, e) == [Consumed(s, e) EXCEPT !.ackCache = Put(@, e.op, s.currentRevision)]

Submitted(s, e, verdict) ==
  CASE verdict \in {"duplicate", "client-sequence-violation"} -> s
    [] verdict = "accepted" -> Accepted(s, e)
    [] verdict = "noop"     -> Noop(s, e)
    [] OTHER                -> Consumed(s, e)

(* operationsSince: the filter of the log by revision.                      *)
OperationsSince(s, after) ==
  Filtered(s.operationLog, {i \in DOMAIN s.operationLog : s.operationLog[i].rev > after})

-----------------------------------------------------------------------------
(* Persisted snapshots and restart recovery.                                *)

(* writeSnapshot: everything but the operation log, which the log store     *)
(* keeps.                                                                   *)
PersistedSnapshot(s) ==
  [revision            |-> s.currentRevision,
   currentRevision     |-> s.currentRevision,
   document            |-> SerializeDocument(s.document),
   ackCache            |-> s.ackCache,
   clientSequenceTable |-> s.clientSequenceTable]

(* recoverSequencerState refuses to start.                                  *)
RecoveryRefused(snapshot, entries) ==
  \/ \E i \in DOMAIN entries : entries[i].rev # i
  \/ snapshot.revision # snapshot.currentRevision
  \/ snapshot.currentRevision # snapshot.document.revision
  \/ SnapshotRejected(snapshot.document)
  \/ snapshot.revision > Len(entries)

(* The last entry of a client decides its sequence, later entries overwrite *)
(* earlier ones (updateAuxFromOps).                                         *)
SequencesAfter(table, entries) ==
  [c \in DOMAIN table |->
     LET own == {i \in DOMAIN entries : entries[i].client = c}
     IN  IF own = {} THEN table[c]
         ELSE entries[CHOOSE i \in own : \A j \in own : j <= i].seq]

(* Slip: a restart knows the acknowledgements of the snapshot only.         *)
AcksOfSnapshotOnly(acks, entries) == acks

AcksAfter(acks, entries) ==
  LET logged == {entries[i].op : i \in DOMAIN entries}
      own(op) == {i \in DOMAIN entries : entries[i].op = op}
  IN  [op \in DOMAIN acks \cup logged |->
         IF op \in logged
         THEN entries[CHOOSE i \in own(op) : \A j \in own(op) : j <= i].rev
         ELSE acks[op]]

Recovered(snapshot, entries) ==
  LET tail == SubSeq(entries, snapshot.revision + 1, Len(entries))
  IN  [document            |-> Replay(DeserializeDocument(snapshot.document), tail),
       operationLog        |-> entries,
       currentRevision     |-> Len(entries),
       ackCache            |-> AcksAfter(snapshot.ackCache, tail),
       clientSequenceTable |-> SequencesAfter(snapshot.clientSequenceTable, tail)]

-----------------------------------------------------------------------------
(* What every sequencer's state is.                                         *)

SequencerFields == {"document", "operationLog", "currentRevision", "ackCache", "clientSequenceTable"}

(* The document is well formed and at the revision of the log.              *)
StateSound(s) ==
  /\ DOMAIN s = SequencerFields
  /\ WellFormed(s.document)
  /\ s.operationLog \in Seq(ToSet(s.operationLog))
  /\ s.currentRevision = Len(s.operationLog)
  /\ s.document.revision = s.currentRevision
  /\ \A i \in DOMAIN s.operationLog : s.operationLog[i].rev = i

(* Replaying any number of entries over base goes well.                     *)
ReplaysSoundly(base, entries) ==
  \A n \in 0..Len(entries) :
    /\ WellFormed(Replay(base, SubSeq(entries, 1, n)))
    /\ Replay(base, SubSeq(entries, 1, n)).revision = n
=============================================================================
