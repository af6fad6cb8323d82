-------------------------- MODULE DurableRoomProofs --------------------------
(***************************************************************************)
(* The safety of DurableRoom, for every set of clients and operations and  *)
(* every number of frames, connections and crashes: IInv is an invariant,  *)
(* and with it everything the outside is told is durable.                  *)
(***************************************************************************)
EXTENDS DurableRoomInvariant, DocumentLemmas, FiniteSetTheorems

-----------------------------------------------------------------------------
(* What a step leaves alone keeps its part of the invariant.                *)

(* The log in memory, with the sequencer untouched.                         *)
LEMMA LogFrame ==
  ASSUME LogSound, UNCHANGED sequencer
  PROVE  LogSound'
  BY DEF LogSound, Acked, InSequence

(* The file untouched.                                                      *)
LEMMA FileFrame ==
  ASSUME FileSound, UNCHANGED file
  PROVE  FileSound'
  BY DEF FileSound, OpsOnce, InSequence

(* Log, file and batches untouched.                                         *)
LEMMA PiecesFrame ==
  ASSUME PiecesOfLog, UNCHANGED <<up, sequencer, file, storeVars>>
  PROVE  PiecesOfLog'
  BY DEF PiecesOfLog, storeVars

(* The file keeps what it has.                                              *)
FileKept ==
  /\ Len(file) \in Nat /\ Len(file') \in Nat /\ Len(file) <= Len(file')
  /\ DOMAIN file = 1..Len(file) /\ DOMAIN file' = 1..Len(file')
  /\ \A i \in 1..Len(file) : file'[i] = file[i]

(* An untouched file keeps what it has.                                     *)
LEMMA FileKeptIfUnchanged ==
  ASSUME file \in Seq(Entries), UNCHANGED file
  PROVE  FileKept
  BY DEF FileKept

(* So does one with more lines behind it, which sit where they were put.    *)
LEMMA FileKeptIfExtended ==
  ASSUME file \in Seq(Entries), NEW more \in Seq(Entries), file' = file \o more
  PROVE  /\ FileKept
         /\ file' \in Seq(Entries)
         /\ Len(file') = Len(file) + Len(more)
         /\ \A i \in 1..Len(more) : file'[Len(file) + i] = more[i]
  BY DEF FileKept

(* A delivery stays sound while the file keeps what it has.                 *)
LEMMA DeliveryFrame ==
  ASSUME FileKept, UNCHANGED sequencer, NEW d, DeliverySound(d),
         sequencer.operationLog \in Seq(Entries)
  PROVE  DeliverySound(d)'
  BY DEF FileKept, DeliverySound, Pending

(* A snapshot stays sound while the file keeps what it has.                 *)
LEMMA SnapshotFrame ==
  ASSUME FileKept, NEW s, SnapshotSound(s)
  PROVE  SnapshotSound(s)'
  BY DEF FileKept, SnapshotSound

(* And so do all of them.                                                   *)
LEMMA SnapshotsFrame ==
  ASSUME FileKept, SnapshotsSound, UNCHANGED <<snapshots, snapshotWrite>>
  PROVE  SnapshotsSound'
  BY SnapshotFrame DEF SnapshotsSound

(* ACKs given stay good while the file keeps what it has.                   *)
LEMMA AcknowledgedFrame ==
  ASSUME FileKept, AcceptedAckIsDurable, UNCHANGED acknowledged
  PROVE  AcceptedAckIsDurable'
  BY DEF FileKept, AcceptedAckIsDurable

(* Operations shown stay good while the file keeps what it has.             *)
LEMMA PublishedFrame ==
  ASSUME FileKept, PublishedIsDurable, UNCHANGED published
  PROVE  PublishedIsDurable'
  BY DEF FileKept, PublishedIsDurable

(* No new delivery: all of them stay sound.                                 *)
LEMMA DeliveriesFrame ==
  ASSUME TypeOK, FileKept, UNCHANGED sequencer,
         \A d \in ToSet(deliveries) : DeliverySound(d),
         ToSet(deliveries') \subseteq ToSet(deliveries)
  PROVE  (\A d \in ToSet(deliveries) : DeliverySound(d))'
<1> SUFFICES ASSUME NEW d \in ToSet(deliveries')
             PROVE  DeliverySound(d)'
  BY DEF ToSet
<1>1. d \in ToSet(deliveries)
  OBVIOUS
<1> QED
  BY <1>1, DeliveryFrame DEF TypeOK

-----------------------------------------------------------------------------
(* The steps.                                                               *)

(* The first start, on an empty log, satisfies the invariant.               *)
LEMMA InitInv == Init => IInv
<1> SUFFICES ASSUME Init PROVE IInv
  OBVIOUS
<1> USE BoundsAssumption DEF Init
<1>1. TypeOK
  <2>1. /\ DOMAIN sequencer = {"document", "operationLog", "currentRevision",
                              "ackCache", "clientSequenceTable"}
        /\ sequencer.operationLog = <<>> /\ sequencer.currentRevision = 0
        /\ sequencer.clientSequenceTable \in [Client -> Nat]
        /\ frontier.revision = 0 /\ frontier.sequences \in [Client -> Nat]
    BY DEF FreshState, Frontier
  <2>2. ToSet(deliveries) = {} /\ deliveries \in Seq(ToSet(deliveries))
    BY DEF ToSet
  <2>3. /\ up \in BOOLEAN /\ poisoned \in BOOLEAN /\ closing \in BOOLEAN
        /\ failed \in BOOLEAN /\ storeClosed \in BOOLEAN /\ tornTail \in BOOLEAN
    OBVIOUS
  <2>4. opsSinceSnapshot \in Nat
    OBVIOUS
  <2>5. submits \in 0..MaxSubmits /\ joins \in 0..MaxJoins /\ crashes \in 0..MaxCrashes
    OBVIOUS
  <2>6. <<>> \in Seq(Entries)
    OBVIOUS
  <2>7. queue \in Seq(Entries) /\ writing \in Seq(Entries) /\ file \in Seq(Entries)
    BY <2>6
  <2> HIDE DEF Init
  <2> QED
    BY <2>1, <2>2, <2>3, <2>4, <2>5, <2>6, <2>7 DEF TypeOK
<1>2. LogSound
  BY DEF LogSound, FreshState, InSequence
<1>3. FileSound /\ PiecesOfLog
  BY DEF FileSound, OpsOnce, InSequence, PiecesOfLog, FreshState
<1>4. frontier.revision <= Len(file)
  BY DEF Frontier, FreshState
<1>5. \A d \in ToSet(deliveries) : DeliverySound(d)
  BY DEF ToSet
<1>6. SnapshotsSound
  BY DEF SnapshotsSound, SnapshotSound, PersistedSnapshot, FreshState
<1>7. AcceptedAckIsDurable /\ PublishedIsDurable
  BY DEF AcceptedAckIsDurable, PublishedIsDurable
<1> QED
  BY <1>1, <1>2, <1>3, <1>4, <1>5, <1>6, <1>7 DEF IInv

(* The tail up to the frontier is in the file.                              *)
LEMMA TailIsDurable ==
  ASSUME IInv, up
  PROVE  \A p \in EntriesUpTo(sequencer, frontier.revision) :
           p[2] \in DOMAIN file /\ file[p[2]].op = p[1]
<1> SUFFICES ASSUME NEW i \in DOMAIN sequencer.operationLog,
                    sequencer.operationLog[i].rev <= frontier.revision
             PROVE  LET rev == sequencer.operationLog[i].rev
                    IN  rev \in DOMAIN file /\ file[rev].op = sequencer.operationLog[i].op
  BY DEF EntriesUpTo
<1>1. sequencer.operationLog[i].rev = i
  BY DEF IInv, LogSound
<1>2. i \in DOMAIN file
  BY <1>1 DEF IInv, TypeOK
<1> QED
  BY <1>1, <1>2 DEF IInv, PiecesOfLog

(* Joining, catching up and leaving only move what connections were told.   *)
LEMMA ConnectionStep ==
  ASSUME IInv,
         UNCHANGED <<up, sequencer, frontier, poisoned, closing, snapshotVars, storeVars,
                     deliveries, diskVars, acknowledged, submits, crashes>>,
         joins' \in 0..MaxJoins,
         \/ UNCHANGED published
         \/ up /\ published' = published \cup EntriesUpTo(sequencer, frontier.revision)
  PROVE  IInv'
<1> USE DEF IInv, snapshotVars, storeVars, diskVars
<1>1. TypeOK'
  BY DEF TypeOK
<1>2. FileKept
  BY FileKeptIfUnchanged DEF TypeOK
<1>3. LogSound' /\ FileSound' /\ PiecesOfLog'
  BY LogFrame, FileFrame, PiecesFrame
<1>4. (\A d \in ToSet(deliveries) : DeliverySound(d))'
  BY <1>2, DeliveriesFrame
<1>5. SnapshotsSound'
  BY <1>2, SnapshotsFrame
<1>6. AcceptedAckIsDurable'
  BY <1>2, AcknowledgedFrame
<1>7. PublishedIsDurable'
  BY <1>2, TailIsDurable, PublishedFrame DEF PublishedIsDurable
<1> QED
  BY <1>1, <1>3, <1>4, <1>5, <1>6, <1>7

(* What the invariant says of the log in memory.                            *)
LEMMA LogFacts ==
  ASSUME IInv
  PROVE  LET log == sequencer.operationLog
             table == sequencer.clientSequenceTable
         IN  /\ log \in Seq(Entries) /\ Len(log) \in Nat /\ DOMAIN log = 1..Len(log)
             /\ table \in [Client -> Nat]
             /\ \A i \in 1..Len(log) :
                  /\ log[i].client \in Client /\ log[i].seq \in Nat
                  /\ log[i].rev = i
                  /\ log[i].op \in DOMAIN sequencer.ackCache
                  /\ sequencer.ackCache[log[i].op] = i
                  /\ log[i].seq <= table[log[i].client]
<1> DEFINE log == sequencer.operationLog
           table == sequencer.clientSequenceTable
<1>1. log \in Seq(Entries) /\ table \in [Client -> Nat]
  BY DEF IInv, TypeOK
<1>2. \A i \in DOMAIN log :
        /\ log[i].rev = i
        /\ log[i].op \in DOMAIN sequencer.ackCache
        /\ sequencer.ackCache[log[i].op] = i
        /\ log[i].seq <= table[log[i].client]
  BY DEF IInv, LogSound, Acked
<1> HIDE DEF log, table
<1>3. Len(log) \in Nat /\ DOMAIN log = 1..Len(log)
  BY <1>1
<1>4. \A i \in 1..Len(log) : log[i] \in Entries
  BY <1>1
<1>5. \A i \in 1..Len(log) : log[i].client \in Client /\ log[i].seq \in Nat
  BY <1>4 DEF Entries
<1> QED
  BY <1>1, <1>2, <1>3, <1>5 DEF log, table

(* Past the sequence check an operation is new and has the next sequence    *)
(* number of its client.                                                    *)
LEMMA VerdictFacts ==
  ASSUME NEW e, NEW a
  PROVE  LET v == Verdict(sequencer, e, a)
         IN  v \notin {"duplicate", "client-sequence-violation"} =>
               /\ ~Acked(sequencer, e.op)
               /\ e.seq = ExpectedSequence(sequencer, e.client)
  BY DEF Verdict

(* The fields of a frame.                                                   *)
LEMMA EnvelopeFacts ==
  ASSUME NEW o \in OpId, NEW n, NEW b
  PROVE  LET e == Envelope(o, n, b)
         IN  e.op = o /\ e.client = Owner[o] /\ e.client \in Client /\ e.seq = n
             /\ e.operation = Content[o]
  BY OwnerAssumption DEF Envelope

(* A submit that is not accepted leaves the log alone, forgets no ACK and   *)
(* takes back no sequence number.                                           *)
LEMMA RepliedFacts ==
  ASSUME IInv, NEW o \in OpId, NEW n \in Nat, NEW b, NEW a,
         Verdict(sequencer, Envelope(o, n, b), a) # "accepted",
         sequencer' = Submitted(sequencer, Envelope(o, n, b),
                                Verdict(sequencer, Envelope(o, n, b), a))
  PROVE  /\ DOMAIN sequencer' = DOMAIN sequencer
         /\ sequencer'.operationLog = sequencer.operationLog
         /\ sequencer'.currentRevision = sequencer.currentRevision
         /\ sequencer'.clientSequenceTable \in [Client -> Nat]
         /\ \A c \in Client :
              sequencer.clientSequenceTable[c] <= sequencer'.clientSequenceTable[c]
         /\ \A op \in DOMAIN sequencer.ackCache :
              /\ op \in DOMAIN sequencer'.ackCache
              /\ sequencer'.ackCache[op] = sequencer.ackCache[op]
<1> DEFINE e == Envelope(o, n, b)
           v == Verdict(sequencer, e, a)
<1>1. e.op = o /\ e.client \in Client /\ e.seq = n
  BY EnvelopeFacts
<1>2. /\ DOMAIN sequencer = {"document", "operationLog", "currentRevision",
                            "ackCache", "clientSequenceTable"}
      /\ sequencer.clientSequenceTable \in [Client -> Nat]
  BY DEF IInv, TypeOK
<1> HIDE DEF e
<1>3. CASE v \in {"duplicate", "client-sequence-violation"}
  <2>1. sequencer' = sequencer
    BY <1>3 DEF Submitted, e
  <2> QED
    BY <1>2, <2>1
<1>4. CASE v \notin {"duplicate", "client-sequence-violation"}
  <2>1. ~Acked(sequencer, e.op) /\ e.seq = sequencer.clientSequenceTable[e.client] + 1
    BY <1>4, VerdictFacts DEF ExpectedSequence
  <2>2. /\ DOMAIN Consumed(sequencer, e) = DOMAIN sequencer
        /\ Consumed(sequencer, e).operationLog = sequencer.operationLog
        /\ Consumed(sequencer, e).currentRevision = sequencer.currentRevision
        /\ Consumed(sequencer, e).ackCache = sequencer.ackCache
        /\ Consumed(sequencer, e).clientSequenceTable =
             [sequencer.clientSequenceTable EXCEPT ![e.client] = e.seq]
    BY <1>2 DEF Consumed
  <2>3. CASE v = "noop"
    <3>1. sequencer' = Noop(sequencer, e)
      BY <2>3 DEF Submitted, e
    <3>2. /\ DOMAIN sequencer' = DOMAIN sequencer
          /\ sequencer'.operationLog = sequencer.operationLog
          /\ sequencer'.currentRevision = sequencer.currentRevision
          /\ sequencer'.clientSequenceTable =
               [sequencer.clientSequenceTable EXCEPT ![e.client] = e.seq]
          /\ sequencer'.ackCache = Put(sequencer.ackCache, e.op, sequencer.currentRevision)
      BY <1>2, <2>2, <3>1 DEF Noop
    <3> QED
      BY <1>1, <1>2, <2>1, <3>2, SMTT(30) DEF Acked, Put
  <2>4. CASE v # "noop"
    <3>1. sequencer' = Consumed(sequencer, e)
      BY <1>4, <2>4 DEF Submitted, e
    <3> QED
      BY <1>1, <1>2, <2>1, <2>2, <3>1
  <2> QED
    BY <2>3, <2>4
<1> QED
  BY <1>3, <1>4

(* An accepted submit appends one entry at the next revision.               *)
LEMMA AcceptedFacts ==
  ASSUME IInv, NEW o \in OpId, NEW n \in Nat, NEW b, NEW a,
         Verdict(sequencer, Envelope(o, n, b), a) = "accepted",
         sequencer' = Submitted(sequencer, Envelope(o, n, b), "accepted")
  PROVE  LET e == Envelope(o, n, b)
             next == Len(sequencer.operationLog) + 1
         IN  /\ DOMAIN sequencer' = DOMAIN sequencer
             /\ LogEntry(e, next) \in Entries
             /\ sequencer'.operationLog = Append(sequencer.operationLog, LogEntry(e, next))
             /\ sequencer'.currentRevision = next
             /\ n = sequencer.clientSequenceTable[Owner[o]] + 1
             /\ sequencer'.clientSequenceTable =
                  [sequencer.clientSequenceTable EXCEPT ![Owner[o]] = n]
             /\ o \notin DOMAIN sequencer.ackCache
             /\ sequencer'.ackCache = Put(sequencer.ackCache, o, next)
<1> DEFINE e == Envelope(o, n, b)
           next == Len(sequencer.operationLog) + 1
<1>1. /\ e.op = o /\ e.client = Owner[o] /\ e.client \in Client /\ e.seq = n
      /\ e.operation = Content[o]
  BY EnvelopeFacts
<1>2. /\ DOMAIN sequencer = {"document", "operationLog", "currentRevision",
                            "ackCache", "clientSequenceTable"}
      /\ sequencer.clientSequenceTable \in [Client -> Nat]
      /\ sequencer.currentRevision + 1 = next
      /\ next \in Nat
  BY DEF IInv, TypeOK, LogSound
<1>3. sequencer' = Accepted(sequencer, e)
  BY DEF Submitted
<1>4. ~Acked(sequencer, e.op) /\ e.seq = ExpectedSequence(sequencer, e.client)
  BY VerdictFacts
<1> HIDE DEF e, next
<1>5. LogEntry(e, next) \in Entries
  BY <1>1, <1>2 DEF LogEntry, Entries
<1>6. /\ DOMAIN Consumed(sequencer, e) = DOMAIN sequencer
      /\ Consumed(sequencer, e).operationLog = sequencer.operationLog
      /\ Consumed(sequencer, e).ackCache = sequencer.ackCache
      /\ Consumed(sequencer, e).clientSequenceTable =
           [sequencer.clientSequenceTable EXCEPT ![e.client] = e.seq]
  BY <1>2 DEF Consumed
<1>7. /\ DOMAIN sequencer' = DOMAIN sequencer
      /\ sequencer'.operationLog = Append(sequencer.operationLog, LogEntry(e, next))
      /\ sequencer'.currentRevision = next
      /\ sequencer'.clientSequenceTable =
           [sequencer.clientSequenceTable EXCEPT ![e.client] = e.seq]
      /\ sequencer'.ackCache = Put(sequencer.ackCache, e.op, next)
  BY <1>2, <1>3, <1>6 DEF Accepted
<1> QED
  BY <1>1, <1>4, <1>5, <1>7 DEF ExpectedSequence, Acked, e, next

Statuses == {"accepted", "noop", "duplicate", "rejected", "poisoned"}
States == {"appending", "synced", "broken", "ready", "failed"}

DeliveryTyped(d) ==
  /\ DOMAIN d = {"from", "op", "status", "state", "frontier"}
  /\ d.op \in OpId /\ d.status \in Statuses /\ d.state \in States

DeliveriesTyped ==
  /\ deliveries \in Seq(ToSet(deliveries))
  /\ \A d \in ToSet(deliveries) : DeliveryTyped(d)

(* The part of the type invariant about deliveries.                         *)
LEMMA DeliveriesTypedOK == TypeOK => DeliveriesTyped
  BY DEF TypeOK, DeliveriesTyped, DeliveryTyped, Statuses, States

(* The fields of a new delivery.                                            *)
LEMMA DeliveryFields ==
  ASSUME NEW k, NEW o, NEW n, NEW b, NEW status, NEW state, NEW captured
  PROVE  LET d == Delivery(k, Envelope(o, n, b), status, state, captured)
         IN  /\ d.op = o /\ d.status = status /\ d.state = state /\ d.frontier = captured
             /\ DOMAIN d = {"from", "op", "status", "state", "frontier"}
  BY DEF Delivery, Envelope

(* One more delivery.                                                       *)
LEMMA DeliveryAdded ==
  ASSUME IInv, NEW d, deliveries' = Append(deliveries, d), DeliveryTyped(d)
  PROVE  /\ DeliveriesTyped'
         /\ ToSet(deliveries') = ToSet(deliveries) \cup {d}
<1>1. DeliveriesTyped
  BY DeliveriesTypedOK DEF IInv
<1>2. deliveries' \in Seq(ToSet(deliveries')) /\ ToSet(deliveries') = ToSet(deliveries) \cup {d}
  BY <1>1, AppendElements DEF DeliveriesTyped
<1>3. \A c \in ToSet(deliveries') : DeliveryTyped(c)
  BY <1>1, <1>2 DEF DeliveriesTyped
<1> QED
  BY <1>2, <1>3 DEF DeliveriesTyped, DeliveryTyped, ToSet

(* The log only grows, so every delivery still knows its place.             *)
LEMMA DeliveryFrameLog ==
  ASSUME UNCHANGED file, NEW d, DeliverySound(d),
         sequencer.operationLog \in Seq(Entries), sequencer'.operationLog \in Seq(Entries),
         Len(sequencer.operationLog) <= Len(sequencer'.operationLog),
         \A i \in 1..Len(sequencer.operationLog) :
           sequencer'.operationLog[i] = sequencer.operationLog[i]
  PROVE  DeliverySound(d)'
  BY DEF DeliverySound, Pending

(* What every submit leaves alone.                                          *)
SubmitFrame ==
  /\ submits' \in 0..MaxSubmits
  /\ UNCHANGED <<up, frontier, poisoned, closing, snapshotVars, connections, diskVars,
                 historyVars, joins, crashes, failed, storeClosed>>

(* The invariant after a submit, from the parts a submit can disturb.       *)
LEMMA SubmitAssembled ==
  ASSUME IInv, SubmitFrame, LogSound', PiecesOfLog', DeliveriesTyped',
         (\A d \in ToSet(deliveries) : DeliverySound(d))',
         DOMAIN sequencer' = DOMAIN sequencer,
         sequencer'.operationLog \in Seq(Entries),
         sequencer'.currentRevision \in Nat,
         sequencer'.clientSequenceTable \in [Client -> Nat],
         writing' \in Seq(Entries), queue' \in Seq(Entries),
         up \/ writing' = <<>>
  PROVE  IInv'
<1> USE DEF IInv, SubmitFrame, snapshotVars, diskVars, historyVars
<1>1. TypeOK'
  BY DEF TypeOK, DeliveriesTyped, DeliveryTyped, Statuses, States
<1>2. FileKept
  BY FileKeptIfUnchanged DEF TypeOK
<1>3. FileSound'
  BY FileFrame
<1>4. SnapshotsSound'
  BY <1>2, SnapshotsFrame
<1>5. AcceptedAckIsDurable' /\ PublishedIsDurable'
  BY <1>2, AcknowledgedFrame, PublishedFrame
<1> QED
  BY <1>1, <1>3, <1>4, <1>5

(* A submit refused because an append failed.                               *)
LEMMA SubmitPoisonedStep ==
  ASSUME IInv, SubmitFrame, up, NEW k, NEW o \in OpId, NEW n \in Nat, NEW b,
         SubmitPoisoned(k, Envelope(o, n, b))
  PROVE  IInv'
<1> DEFINE d == Delivery(k, Envelope(o, n, b), "poisoned", "failed", NoCapture)
<1>1. /\ d.op = o /\ d.status = "poisoned" /\ d.state = "failed"
      /\ DOMAIN d = {"from", "op", "status", "state", "frontier"}
  BY DeliveryFields
<1>2. deliveries' = Append(deliveries, d) /\ UNCHANGED <<sequencer, storeVars>>
  BY DEF SubmitPoisoned
<1> HIDE DEF d
<1>3. DeliveriesTyped' /\ ToSet(deliveries') = ToSet(deliveries) \cup {d}
  BY <1>1, <1>2, DeliveryAdded DEF DeliveryTyped, Statuses, States
<1>4. LogSound' /\ PiecesOfLog'
  BY <1>2, LogFrame, PiecesFrame DEF IInv, SubmitFrame, diskVars
<1>5. (\A c \in ToSet(deliveries) : DeliverySound(c))'
  <2> SUFFICES ASSUME NEW c \in ToSet(deliveries') PROVE DeliverySound(c)'
    BY DEF ToSet
  <2>1. CASE c = d
    BY <1>1, <2>1 DEF DeliverySound, Pending
  <2>2. CASE c \in ToSet(deliveries)
    BY <1>2, <2>2 DEF IInv, SubmitFrame, diskVars, DeliverySound, Pending
  <2> QED
    BY <1>3, <2>1, <2>2
<1> QED
  BY <1>2, <1>3, <1>4, <1>5, SubmitAssembled DEF IInv, TypeOK, storeVars

(* A submit answered without logging anything.                              *)
LEMMA SubmitRepliedStep ==
  ASSUME IInv, SubmitFrame, up, NEW k, NEW o \in OpId, NEW n \in Nat, NEW b, NEW a,
         SubmitReplied(k, Envelope(o, n, b), Verdict(sequencer, Envelope(o, n, b), a))
  PROVE  IInv'
<1> DEFINE v == Verdict(sequencer, Envelope(o, n, b), a)
           d == Delivery(k, Envelope(o, n, b), ReplyKind(v), "ready", NoCapture)
<1>1. /\ d.op = o /\ d.status = ReplyKind(v) /\ d.state = "ready"
      /\ DOMAIN d = {"from", "op", "status", "state", "frontier"}
  BY DeliveryFields
<1>2. deliveries' = Append(deliveries, d) /\ UNCHANGED storeVars
  BY DEF SubmitReplied
<1>3. d.status \in {"rejected", "duplicate", "noop"}
  BY <1>1 DEF SubmitReplied, ReplyKind, Rejection
<1>4. /\ DOMAIN sequencer' = DOMAIN sequencer
      /\ sequencer'.operationLog = sequencer.operationLog
      /\ sequencer'.currentRevision = sequencer.currentRevision
      /\ sequencer'.clientSequenceTable \in [Client -> Nat]
      /\ \A c \in Client :
           sequencer.clientSequenceTable[c] <= sequencer'.clientSequenceTable[c]
      /\ \A op \in DOMAIN sequencer.ackCache :
           /\ op \in DOMAIN sequencer'.ackCache
           /\ sequencer'.ackCache[op] = sequencer.ackCache[op]
  BY RepliedFacts DEF SubmitReplied
<1> HIDE DEF d, v
<1>5. DeliveriesTyped' /\ ToSet(deliveries') = ToSet(deliveries) \cup {d}
  BY <1>1, <1>2, <1>3, DeliveryAdded DEF DeliveryTyped, Statuses, States
<1>6. LogSound'
  <2>1. \A i \in DOMAIN sequencer.operationLog :
          /\ sequencer.operationLog[i].client \in Client
          /\ sequencer.operationLog[i].seq \in Nat
    BY LogFacts
  <2>2. sequencer.clientSequenceTable \in [Client -> Nat]
    BY DEF IInv, TypeOK
  <2>3. ASSUME NEW i \in DOMAIN sequencer.operationLog
        PROVE  LET e == sequencer.operationLog[i]
               IN  /\ e.rev = i
                   /\ Acked(sequencer', e.op)
                   /\ sequencer'.ackCache[e.op] = i
                   /\ e.seq <= sequencer'.clientSequenceTable[e.client]
    <3> DEFINE e == sequencer.operationLog[i]
    <3>1. /\ e.rev = i /\ e.op \in DOMAIN sequencer.ackCache /\ sequencer.ackCache[e.op] = i
          /\ e.seq <= sequencer.clientSequenceTable[e.client]
      BY DEF IInv, LogSound, Acked
    <3>2. /\ e.client \in Client /\ e.seq \in Nat
          /\ sequencer.clientSequenceTable[e.client] \in Nat
          /\ sequencer'.clientSequenceTable[e.client] \in Nat
      BY <1>4, <2>1, <2>2
    <3>3. sequencer.clientSequenceTable[e.client] <= sequencer'.clientSequenceTable[e.client]
      BY <1>4, <3>2
    <3> HIDE DEF e
    <3>4. e.seq <= sequencer'.clientSequenceTable[e.client]
      BY <3>1, <3>2, <3>3
    <3> QED
      BY <1>4, <3>1, <3>4 DEF Acked, e
  <2> QED
    BY <1>4, <2>3 DEF IInv, LogSound, Acked, InSequence
<1>7. PiecesOfLog'
  BY <1>2, <1>4 DEF IInv, PiecesOfLog, SubmitFrame, diskVars, storeVars
<1>8. (\A c \in ToSet(deliveries) : DeliverySound(c))'
  <2> SUFFICES ASSUME NEW c \in ToSet(deliveries') PROVE DeliverySound(c)'
    BY DEF ToSet
  <2>1. CASE c = d
    BY <1>1, <1>3, <2>1 DEF DeliverySound, Pending
  <2>2. CASE c \in ToSet(deliveries)
    BY <1>4, <2>2 DEF IInv, SubmitFrame, diskVars, DeliverySound, Pending
  <2> QED
    BY <1>5, <2>1, <2>2
<1> QED
  BY <1>2, <1>4, <1>5, <1>6, <1>7, <1>8, SubmitAssembled DEF IInv, TypeOK, storeVars

(* An accepted submit: one more entry of the log, on its way to the disk.   *)
LEMMA SubmitAcceptedStep ==
  ASSUME IInv, SubmitFrame, up, NEW k, NEW o \in OpId, NEW n \in Nat, NEW b, NEW a,
         SubmitAccepted(k, Envelope(o, n, b), Verdict(sequencer, Envelope(o, n, b), a))
  PROVE  IInv'
<1> DEFINE log == sequencer.operationLog
           next == Len(log) + 1
           entry == LogEntry(Envelope(o, n, b), next)
           d == Delivery(k, Envelope(o, n, b), "accepted",
                  IF storeClosed \/ failed THEN "broken" ELSE "appending", Frontier(sequencer'))
<1>1. /\ sequencer' = Submitted(sequencer, Envelope(o, n, b), "accepted")
      /\ Verdict(sequencer, Envelope(o, n, b), a) = "accepted"
      /\ deliveries' = Append(deliveries, d)
      /\ AppendToStore(LogEntry(Envelope(o, n, b), sequencer'.currentRevision))
  BY DEF SubmitAccepted
<1>2. /\ DOMAIN sequencer' = DOMAIN sequencer
      /\ entry \in Entries
      /\ sequencer'.operationLog = Append(log, entry)
      /\ sequencer'.currentRevision = next
      /\ n = sequencer.clientSequenceTable[Owner[o]] + 1
      /\ sequencer'.clientSequenceTable =
           [sequencer.clientSequenceTable EXCEPT ![Owner[o]] = n]
      /\ o \notin DOMAIN sequencer.ackCache
      /\ sequencer'.ackCache = Put(sequencer.ackCache, o, next)
  BY <1>1, AcceptedFacts
<1>3. AppendToStore(entry)
  BY <1>1, <1>2
<1>4. entry.op = o /\ entry.client = Owner[o] /\ entry.seq = n /\ entry.rev = next
  BY EnvelopeFacts DEF LogEntry
<1>5. /\ DOMAIN d = {"from", "op", "status", "state", "frontier"}
      /\ d.op = o /\ d.status = "accepted" /\ d.state \in {"broken", "appending"}
      /\ d.frontier.revision = next
      /\ d.frontier.sequences = sequencer'.clientSequenceTable
  BY <1>2, DeliveryFields DEF Frontier
<1>6. log \in Seq(Entries) /\ Len(log) \in Nat /\ DOMAIN log = 1..Len(log)
  BY DEF IInv, TypeOK
<1> HIDE DEF d, entry
<1>7. /\ sequencer'.operationLog \in Seq(Entries)
      /\ Len(sequencer'.operationLog) = next
      /\ DOMAIN sequencer'.operationLog = 1..next
      /\ \A i \in 1..Len(log) : sequencer'.operationLog[i] = log[i]
      /\ sequencer'.operationLog[next] = entry
  BY <1>2, <1>6, AppendProperties
<1>8. sequencer'.clientSequenceTable \in [Client -> Nat]
  BY <1>2 DEF IInv, TypeOK
<1> HIDE DEF log, next
<1>9. DeliveriesTyped' /\ ToSet(deliveries') = ToSet(deliveries) \cup {d}
  BY <1>1, <1>5, DeliveryAdded DEF DeliveryTyped, Statuses, States
<1>10. (\A c \in ToSet(deliveries) : DeliverySound(c))'
  <2> SUFFICES ASSUME NEW c \in ToSet(deliveries') PROVE DeliverySound(c)'
    BY DEF ToSet
  <2>1. CASE c = d
    BY <1>4, <1>5, <1>6, <1>7, <1>8, <2>1 DEF DeliverySound, Pending, next
  <2>2. CASE c \in ToSet(deliveries)
    BY <1>6, <1>7, <2>2, DeliveryFrameLog DEF IInv, SubmitFrame, diskVars, log, next
  <2> QED
    BY <1>9, <2>1, <2>2
<1>11. LogSound'
  <2> DEFINE table == sequencer.clientSequenceTable
             new == sequencer'.operationLog
  <2>1. /\ Owner[o] \in Client /\ table \in [Client -> Nat] /\ n = table[Owner[o]] + 1
        /\ sequencer'.clientSequenceTable = [table EXCEPT ![Owner[o]] = n]
    BY <1>2, OwnerAssumption DEF IInv, TypeOK
  <2>2. \A i \in 1..Len(log) :
          /\ log[i].rev = i /\ log[i].op \in DOMAIN sequencer.ackCache
          /\ sequencer.ackCache[log[i].op] = i
          /\ log[i].client \in Client /\ log[i].seq \in Nat
          /\ log[i].seq <= table[log[i].client]
    BY LogFacts DEF log
  <2> HIDE DEF table
  <2>3. \A c \in Client : sequencer'.clientSequenceTable[c] =
                            IF c = Owner[o] THEN table[c] + 1 ELSE table[c]
    BY <2>1
  <2>4. ASSUME NEW i \in 1..next
        PROVE  /\ new[i].rev = i
               /\ Acked(sequencer', new[i].op)
               /\ sequencer'.ackCache[new[i].op] = i
               /\ new[i].seq <= sequencer'.clientSequenceTable[new[i].client]
    <3>1. CASE i = next
      BY <1>2, <1>4, <1>7, <2>1, <2>3, <3>1 DEF Acked, Put
    <3>2. CASE i \in 1..Len(log)
      <4>1. new[i] = log[i] /\ log[i].op # o
        BY <1>2, <1>7, <2>2, <3>2
      <4>2. Acked(sequencer', log[i].op) /\ sequencer'.ackCache[log[i].op] = i
        BY <1>2, <2>2, <3>2, <4>1 DEF Acked, Put
      <4>3. log[i].seq <= sequencer'.clientSequenceTable[log[i].client]
        <5> DEFINE c == log[i].client
                   q == log[i].seq
        <5>1. c \in Client /\ q \in Nat /\ q <= table[c] /\ table[c] \in Nat
          BY <2>1, <2>2, <3>2
        <5> HIDE DEF c, q
        <5>2. q <= sequencer'.clientSequenceTable[c]
          BY <2>3, <5>1
        <5> QED
          BY <5>2 DEF c, q
      <4> QED
        BY <2>2, <3>2, <4>1, <4>2, <4>3
    <3> QED
      BY <1>6, <3>1, <3>2 DEF next
  <2>5. InSequence(new)
    <3> SUFFICES ASSUME NEW i \in 1..next, NEW j \in 1..next,
                        i < j, new[i].client = new[j].client
                 PROVE  new[i].seq < new[j].seq
      BY <1>7 DEF InSequence
    <3>1. i \in 1..Len(log) /\ new[i] = log[i]
      BY <1>6, <1>7 DEF next
    <3>2. CASE j \in 1..Len(log)
      BY <1>6, <1>7, <3>1, <3>2 DEF IInv, LogSound, InSequence, log
    <3>3. CASE j = next
      <4>1. log[i].client = Owner[o] /\ new[j].seq = table[Owner[o]] + 1
        BY <1>4, <1>7, <2>1, <3>1, <3>3
      <4>2. log[i].seq <= table[Owner[o]] /\ log[i].seq \in Nat /\ table[Owner[o]] \in Nat
        BY <2>1, <2>2, <3>1, <4>1
      <4> QED
        BY <3>1, <4>1, <4>2
    <3> QED
      BY <1>6, <3>2, <3>3 DEF next
  <2> QED
    BY <1>2, <1>7, <2>4, <2>5 DEF LogSound
<1>12. /\ PiecesOfLog' /\ writing' \in Seq(Entries) /\ queue' \in Seq(Entries)
       /\ UNCHANGED <<failed, storeClosed>>
  <2> DEFINE new == sequencer'.operationLog
  <2>1. /\ file \in Seq(Entries) /\ writing \in Seq(Entries) /\ queue \in Seq(Entries)
        /\ entry \in Entries /\ UNCHANGED <<file, up>>
    BY <1>2 DEF IInv, TypeOK, SubmitFrame, diskVars
  <2>2. /\ \A i \in DOMAIN file : i \in 1..Len(log) /\ file[i] = log[i]
        /\ \A i \in DOMAIN writing :
             Len(file) + i \in 1..Len(log) /\ writing[i] = log[Len(file) + i]
        /\ \A i \in DOMAIN queue :
             /\ Len(file) + Len(writing) + i \in 1..Len(log)
             /\ queue[i] = log[Len(file) + Len(writing) + i]
        /\ ~failed /\ ~storeClosed =>
             Len(log) = Len(file) + Len(writing) + Len(queue)
        /\ writing = <<>> => queue = <<>>
    BY <1>6 DEF IInv, PiecesOfLog, log
  <2>3. /\ Len(file) \in Nat /\ Len(writing) \in Nat /\ Len(queue) \in Nat
        /\ DOMAIN queue = 1..Len(queue) /\ DOMAIN writing = 1..Len(writing)
        /\ next = Len(log) + 1
    BY <2>1 DEF next
  <2>4. /\ \A i \in DOMAIN file : i \in 1..next /\ file[i] = new[i]
        /\ \A i \in DOMAIN writing :
             Len(file) + i \in 1..next /\ writing[i] = new[Len(file) + i]
        /\ \A i \in DOMAIN queue :
             /\ Len(file) + Len(writing) + i \in 1..next
             /\ queue[i] = new[Len(file) + Len(writing) + i]
    <3>1. \A i \in 1..Len(log) : i \in 1..next
      BY <1>6, <2>3
    <3> QED
      BY <1>7, <2>2, <3>1
  <2>5. CASE storeClosed \/ failed
    <3>1. UNCHANGED storeVars
      BY <1>3, <2>5 DEF AppendToStore
    <3> QED
      BY <1>7, <2>1, <2>2, <2>5, <2>4, <3>1 DEF PiecesOfLog, storeVars
  <2>6. CASE ~(storeClosed \/ failed) /\ writing = <<>>
    <3>1. writing' = <<entry>> /\ queue' = queue /\ UNCHANGED <<failed, storeClosed>>
      BY <1>3, <2>6 DEF AppendToStore
    <3>2. queue = <<>> /\ Len(log) = Len(file) /\ next = Len(file) + 1
      BY <2>1, <2>2, <2>6 DEF next
    <3>3. Len(writing') = 1 /\ DOMAIN writing' = {1} /\ writing'[1] = entry
          /\ writing' \in Seq(Entries) /\ Len(queue') = 0 /\ DOMAIN queue' = {}
      BY <2>1, <3>1, <3>2
    <3> QED
      BY <1>6, <1>7, <2>1, <2>2, <2>6, <3>1, <3>2, <3>3 DEF PiecesOfLog
  <2>7. CASE ~(storeClosed \/ failed) /\ writing # <<>>
    <3>1. queue' = Append(queue, entry) /\ writing' = writing /\ UNCHANGED <<failed, storeClosed>>
      BY <1>3, <2>7 DEF AppendToStore
    <3>2. /\ queue' \in Seq(Entries) /\ Len(queue') = Len(queue) + 1
          /\ \A i \in 1..Len(queue) : queue'[i] = queue[i]
          /\ queue'[Len(queue) + 1] = entry
      BY <2>1, <3>1, AppendProperties
    <3>3. next = Len(file) + Len(writing) + Len(queue) + 1
      BY <2>2, <2>7, <2>3
    <3>4. DOMAIN queue' = 1..Len(queue) + 1
      <4>1. Len(queue') = Len(queue) + 1 /\ queue' \in Seq(Entries)
        BY <3>2
      <4>2. DOMAIN queue' = 1..Len(queue')
        BY <4>1
      <4> QED
        BY <4>1, <4>2
    <3>5. \A i \in DOMAIN queue' :
             /\ Len(file) + Len(writing) + i \in 1..next
             /\ queue'[i] = new[Len(file) + Len(writing) + i]
      <4> SUFFICES ASSUME NEW i \in 1..Len(queue) + 1
                   PROVE  /\ Len(file) + Len(writing) + i \in 1..next
                          /\ queue'[i] = new[Len(file) + Len(writing) + i]
        BY <3>4
      <4>1. CASE i = Len(queue) + 1
        BY <1>7, <2>3, <3>2, <3>3, <4>1
      <4>2. CASE i \in 1..Len(queue)
        BY <2>3, <2>4, <3>2, <4>2
      <4> QED
        BY <2>3, <4>1, <4>2
    <3> QED
      BY <1>7, <2>1, <2>7, <2>3, <2>4, <3>1, <3>2, <3>5, <3>3, <3>4 DEF PiecesOfLog
  <2> QED
    BY <2>5, <2>6, <2>7
<1>13. next \in Nat
  BY <1>6 DEF next
<1> QED
  BY <1>2, <1>7, <1>8, <1>9, <1>10, <1>11, <1>12, <1>13, SubmitAssembled

(* One submitOperation frame keeps the invariant.                           *)
LEMMA SubmitStep ==
  ASSUME IInv, NEW k, NEW o \in OpId, NEW n \in Nat, NEW b, NEW a,
         HandleSubmit(k, Envelope(o, n, b), a)
  PROVE  IInv'
<1>1. SubmitFrame /\ up
  BY BoundsAssumption DEF HandleSubmit, SubmitFrame, IInv, TypeOK, SubmitPoisoned, SubmitReplied,
     SubmitAccepted, AppendToStore, storeVars
<1> QED
  BY <1>1, SubmitPoisonedStep, SubmitRepliedStep, SubmitAcceptedStep DEF HandleSubmit

(* What a delivery keeps when its state moves on.                           *)
Moved(c, d, t) ==
  /\ DOMAIN c = DOMAIN d /\ c.op = d.op /\ c.status = d.status /\ c.frontier = d.frontier
  /\ c.state = t

(* Changing the state changes nothing else.                                 *)
LEMMA MovedFacts ==
  ASSUME NEW d, DeliveryTyped(d), NEW t \in States
  PROVE  LET c == [d EXCEPT !.state = t]
         IN  DeliveryTyped(c) /\ Moved(c, d, t)
  BY DEF DeliveryTyped, Moved

(* The outcome of a batch moves exactly the deliveries waiting for it.      *)
LEMMA ResolveFacts ==
  ASSUME IInv, NEW S, NEW t \in States, Resolve(S, t)
  PROVE  /\ DeliveriesTyped'
         /\ \A c \in ToSet(deliveries') :
              \/ c \in ToSet(deliveries)
              \/ \E d \in ToSet(deliveries) :
                   d.state = "appending" /\ d.frontier.revision \in S /\ Moved(c, d, t)
<1>1. DeliveriesTyped
  BY DeliveriesTypedOK DEF IInv
<1>2. DOMAIN deliveries = 1..Len(deliveries) /\ Len(deliveries) \in Nat
  BY <1>1 DEF DeliveriesTyped
<1>3. \A i \in DOMAIN deliveries : deliveries[i] \in ToSet(deliveries)
  BY DEF ToSet
<1>4. \A i \in DOMAIN deliveries :
        /\ DeliveryTyped(deliveries'[i])
        /\ \/ deliveries'[i] = deliveries[i]
           \/ /\ deliveries[i].state = "appending" /\ deliveries[i].frontier.revision \in S
              /\ Moved(deliveries'[i], deliveries[i], t)
  <2> SUFFICES ASSUME NEW i \in DOMAIN deliveries
               PROVE  /\ DeliveryTyped(deliveries'[i])
                      /\ \/ deliveries'[i] = deliveries[i]
                         \/ /\ deliveries[i].state = "appending"
                            /\ deliveries[i].frontier.revision \in S
                            /\ Moved(deliveries'[i], deliveries[i], t)
    OBVIOUS
  <2>1. DeliveryTyped(deliveries[i])
    BY <1>1, <1>3 DEF DeliveriesTyped
  <2>2. CASE deliveries[i].state = "appending" /\ deliveries[i].frontier.revision \in S
    <3>1. deliveries'[i] = [deliveries[i] EXCEPT !.state = t]
      BY <2>2 DEF Resolve
    <3> QED
      BY <2>1, <2>2, <3>1, MovedFacts
  <2>3. CASE ~(deliveries[i].state = "appending" /\ deliveries[i].frontier.revision \in S)
    BY <2>1, <2>3 DEF Resolve
  <2> QED
    BY <2>2, <2>3
<1>5. DOMAIN deliveries' = DOMAIN deliveries
  BY DEF Resolve
<1>6. deliveries' \in Seq(ToSet(deliveries'))
  <2> DEFINE T == {deliveries'[i] : i \in DOMAIN deliveries'}
  <2>1. deliveries' = [i \in 1..Len(deliveries) |-> deliveries'[i]]
    BY <1>2, <1>5 DEF Resolve
  <2>2. \A i \in 1..Len(deliveries) : deliveries'[i] \in T
    BY <1>2, <1>5
  <2> HIDE DEF T
  <2>3. deliveries' \in [1..Len(deliveries) -> T]
    BY <2>1, <2>2
  <2>4. deliveries' \in Seq(T)
    BY <1>2, <2>3, SeqDef
  <2> QED
    BY <2>4 DEF T, ToSet
<1>7. \A c \in ToSet(deliveries') : \E i \in DOMAIN deliveries : c = deliveries'[i]
  BY <1>5 DEF ToSet
<1>8. DeliveriesTyped'
  BY <1>4, <1>6, <1>7 DEF DeliveriesTyped, DeliveryTyped, ToSet
<1> QED
  BY <1>3, <1>4, <1>7, <1>8

(* A piece of the log from its start is a sound file.                       *)
LEMMA PrefixSound ==
  ASSUME IInv, NEW f \in Seq(Entries),
         \A i \in DOMAIN f : i \in DOMAIN sequencer.operationLog /\ f[i] = sequencer.operationLog[i]
  PROVE  (\A i \in DOMAIN f : f[i].rev = i) /\ OpsOnce(f) /\ InSequence(f)
<1>1. (\A i \in DOMAIN f : f[i].rev = i) /\ OpsOnce(f)
  BY LogFacts, SMTT(30) DEF OpsOnce
<1>2. InSequence(f)
  BY DEF IInv, LogSound, InSequence
<1> QED
  BY <1>1, <1>2

-----------------------------------------------------------------------------
(* The batch writer.                                                        *)

(* The file is a piece of the log, with the batch behind it.                *)
LEMMA BatchFacts ==
  ASSUME IInv
  PROVE  LET log == sequencer.operationLog
         IN  /\ file \in Seq(Entries) /\ writing \in Seq(Entries) /\ queue \in Seq(Entries)
             /\ Len(file) \in Nat /\ Len(writing) \in Nat /\ Len(queue) \in Nat
             /\ DOMAIN file = 1..Len(file) /\ DOMAIN writing = 1..Len(writing)
             /\ DOMAIN queue = 1..Len(queue)
             /\ up => \A i \in 1..Len(file) : i \in DOMAIN log /\ file[i] = log[i]
             /\ \A i \in 1..Len(writing) :
                  /\ Len(file) + i \in DOMAIN log /\ writing[i] = log[Len(file) + i]
                  /\ writing[i].rev = Len(file) + i
             /\ \A i \in 1..Len(queue) :
                  /\ Len(file) + Len(writing) + i \in DOMAIN log
                  /\ queue[i] = log[Len(file) + Len(writing) + i]
<1> DEFINE log == sequencer.operationLog
<1>1. /\ file \in Seq(Entries) /\ writing \in Seq(Entries) /\ queue \in Seq(Entries)
  BY DEF IInv, TypeOK
<1>2. /\ Len(file) \in Nat /\ Len(writing) \in Nat /\ Len(queue) \in Nat
      /\ DOMAIN file = 1..Len(file) /\ DOMAIN writing = 1..Len(writing)
      /\ DOMAIN queue = 1..Len(queue)
  BY <1>1
<1>3. /\ up => \A i \in DOMAIN file : i \in DOMAIN log /\ file[i] = log[i]
      /\ \A i \in DOMAIN writing :
           Len(file) + i \in DOMAIN log /\ writing[i] = log[Len(file) + i]
      /\ \A i \in DOMAIN queue :
           /\ Len(file) + Len(writing) + i \in DOMAIN log
           /\ queue[i] = log[Len(file) + Len(writing) + i]
  BY DEF IInv, PiecesOfLog
<1>4. \A i \in DOMAIN log : log[i].rev = i
  BY DEF IInv, LogSound
<1> HIDE DEF log
<1>5. \A i \in DOMAIN writing : writing[i].rev = Len(file) + i
  BY <1>3, <1>4
<1> QED
  BY <1>1, <1>2, <1>3, <1>5 DEF log

(* A batch that was synced, wholly or in part, extends the file soundly.    *)
LEMMA FileExtended ==
  ASSUME IInv, up, NEW n \in 0..Len(writing), file' = file \o SubSeq(writing, 1, n)
  PROVE  /\ FileKept /\ FileSound' /\ file' \in Seq(Entries)
         /\ Len(file') = Len(file) + n
         /\ \A i \in 1..Len(file') :
              i \in DOMAIN sequencer.operationLog /\ file'[i] = sequencer.operationLog[i]
<1> DEFINE log == sequencer.operationLog
           more == SubSeq(writing, 1, n)
<1>1. /\ file \in Seq(Entries) /\ writing \in Seq(Entries)
      /\ Len(file) \in Nat /\ Len(writing) \in Nat
      /\ DOMAIN file = 1..Len(file) /\ DOMAIN writing = 1..Len(writing)
      /\ \A i \in 1..Len(file) : i \in DOMAIN log /\ file[i] = log[i]
      /\ \A i \in 1..Len(writing) :
           Len(file) + i \in DOMAIN log /\ writing[i] = log[Len(file) + i]
  BY BatchFacts
<1>2. more \in Seq(Entries) /\ Len(more) = n /\ \A i \in 1..n : more[i] = writing[i]
  BY <1>1, SubSeqProperties
<1> HIDE DEF more, log
<1>3. /\ FileKept /\ file' \in Seq(Entries) /\ Len(file') = Len(file) + n
      /\ \A i \in 1..n : file'[Len(file) + i] = more[i]
  BY <1>1, <1>2, FileKeptIfExtended DEF more
<1>4. DOMAIN file' = 1..Len(file') /\ \A i \in 1..Len(file) : file'[i] = file[i]
  BY <1>3 DEF FileKept
<1>5. \A i \in 1..Len(file') : i \in DOMAIN log /\ file'[i] = log[i]
  <2> SUFFICES ASSUME NEW i \in 1..Len(file')
               PROVE  i \in DOMAIN log /\ file'[i] = log[i]
    OBVIOUS
  <2>1. CASE i \in 1..Len(file)
    BY <1>1, <1>4, <2>1
  <2>2. CASE i \notin 1..Len(file)
    <3>1. i - Len(file) \in 1..n /\ i = Len(file) + (i - Len(file))
      BY <1>1, <1>3, <2>2
    <3>2. file'[i] = writing[i - Len(file)]
      BY <1>2, <1>3, <3>1
    <3>3. i - Len(file) \in 1..Len(writing)
      BY <1>1, <3>1
    <3>4. i \in DOMAIN log /\ writing[i - Len(file)] = log[i]
      BY <1>1, <3>1, <3>3
    <3> QED
      BY <3>2, <3>4
  <2> QED
    BY <2>1, <2>2
<1>6. FileSound'
  <2>1. \A i \in DOMAIN file' : i \in DOMAIN sequencer.operationLog
                                /\ file'[i] = sequencer.operationLog[i]
    BY <1>4, <1>5 DEF log
  <2>2. (\A i \in DOMAIN file' : file'[i].rev = i) /\ OpsOnce(file') /\ InSequence(file')
    BY <1>3, <2>1, PrefixSound
  <2> QED
    BY <2>2 DEF FileSound, OpsOnce, InSequence
<1> QED
  BY <1>3, <1>5, <1>6 DEF log

(* The type invariant after a step that leaves the sequencer alone, from    *)
(* the variables the step may set.                                          *)
LEMMA TypeAssembled ==
  ASSUME IInv, UNCHANGED sequencer, DeliveriesTyped',
         up' \in BOOLEAN, poisoned' \in BOOLEAN, closing' \in BOOLEAN,
         failed' \in BOOLEAN, storeClosed' \in BOOLEAN, tornTail' \in BOOLEAN,
         frontier'.revision \in Nat, frontier'.sequences \in [Client -> Nat],
         opsSinceSnapshot' \in Nat,
         queue' \in Seq(Entries), writing' \in Seq(Entries), file' \in Seq(Entries),
         UNCHANGED countVars
  PROVE  TypeOK'
<1>1. /\ DOMAIN sequencer' = {"document", "operationLog", "currentRevision",
                             "ackCache", "clientSequenceTable"}
      /\ sequencer'.operationLog \in Seq(Entries)
      /\ sequencer'.currentRevision \in Nat
      /\ sequencer'.clientSequenceTable \in [Client -> Nat]
  BY DEF IInv, TypeOK
<1>2. submits' \in 0..MaxSubmits /\ joins' \in 0..MaxJoins /\ crashes' \in 0..MaxCrashes
  BY DEF IInv, TypeOK, countVars
<1>3. /\ deliveries' \in Seq(ToSet(deliveries'))
      /\ \A d \in ToSet(deliveries') :
           /\ DOMAIN d = {"from", "op", "status", "state", "frontier"}
           /\ d.op \in OpId
           /\ d.status \in {"accepted", "noop", "duplicate", "rejected", "poisoned"}
           /\ d.state \in {"appending", "synced", "broken", "ready", "failed"}
  BY DEF DeliveriesTyped, DeliveryTyped, Statuses, States, ToSet
<1> QED
  BY <1>1, <1>2, <1>3 DEF TypeOK, ToSet

(* The type invariant before the step, by parts.                            *)
LEMMA TypeParts ==
  ASSUME IInv
  PROVE  /\ up \in BOOLEAN /\ poisoned \in BOOLEAN /\ closing \in BOOLEAN
         /\ failed \in BOOLEAN /\ storeClosed \in BOOLEAN /\ tornTail \in BOOLEAN
         /\ frontier.revision \in Nat /\ frontier.sequences \in [Client -> Nat]
         /\ frontier.revision <= Len(file)
         /\ opsSinceSnapshot \in Nat
         /\ DeliveriesTyped
         /\ \A d \in ToSet(deliveries) : DeliverySound(d)
  BY DeliveriesTypedOK DEF IInv, TypeOK

(* The end of a group commit.                                               *)
LEMMA FlushSucceedsStep == IInv /\ FlushSucceeds => IInv'
<1> SUFFICES ASSUME IInv, FlushSucceeds PROVE IInv'
  OBVIOUS
<1> DEFINE log == sequencer.operationLog
<1>1. /\ up /\ ~failed
      /\ tornTail' = FALSE /\ writing' = queue /\ queue' = <<>>
      /\ Resolve(Revisions(writing), "synced")
      /\ UNCHANGED <<up, sequencer, frontier, poisoned, closing, snapshotVars, failed,
                     storeClosed, connections, snapshots, historyVars, countVars>>
  BY DEF FlushSucceeds
<1>2. file' = file \o SubSeq(writing, 1, Len(writing)) /\ Len(writing) \in 0..Len(writing)
  <2>1. file' = file \o writing
    BY DEF FlushSucceeds, Lines, TailAfterOpen
  <2>2. writing \in Seq(Entries) /\ Len(writing) \in Nat
    BY BatchFacts
  <2>3. SubSeq(writing, 1, Len(writing)) = writing
    BY <2>2
  <2> QED
    BY <2>1, <2>2, <2>3
<1>3. /\ FileKept /\ FileSound' /\ file' \in Seq(Entries)
      /\ Len(file') = Len(file) + Len(writing)
      /\ \A i \in 1..Len(file') : i \in DOMAIN log /\ file'[i] = log[i]
  BY <1>1, <1>2, FileExtended
<1>4. /\ queue \in Seq(Entries)
      /\ Len(file) \in Nat /\ Len(writing) \in Nat /\ Len(queue) \in Nat
      /\ DOMAIN writing = 1..Len(writing) /\ DOMAIN queue = 1..Len(queue)
      /\ \A i \in 1..Len(writing) : writing[i].rev = Len(file) + i
      /\ \A i \in 1..Len(queue) :
           /\ Len(file) + Len(writing) + i \in DOMAIN log
           /\ queue[i] = log[Len(file) + Len(writing) + i]
  BY BatchFacts
<1>5. PiecesOfLog'
  <2>1. up /\ ~failed /\ ~storeClosed => Len(log) = Len(file) + Len(writing) + Len(queue)
    BY DEF IInv, PiecesOfLog
  <2>2. DOMAIN file' = 1..Len(file')
    BY <1>3 DEF FileKept
  <2>3. Len(<<>>) = 0 /\ DOMAIN <<>> = {}
    OBVIOUS
  <2>4. UNCHANGED <<up, sequencer, failed, storeClosed>>
    BY <1>1
  <2>5. \A i \in DOMAIN writing' :
          Len(file') + i \in DOMAIN log /\ writing'[i] = log[Len(file') + i]
    BY <1>1, <1>3, <1>4
  <2>6. up /\ ~failed /\ ~storeClosed => Len(log) = Len(file') + Len(writing') + Len(queue')
    BY <1>1, <1>3, <1>4, <2>1, <2>3
  <2> QED
    BY <1>1, <1>3, <2>2, <2>3, <2>4, <2>5, <2>6 DEF PiecesOfLog
<1>6. DeliveriesTyped' /\ (\A d \in ToSet(deliveries) : DeliverySound(d))'
  <2>1. /\ DeliveriesTyped'
        /\ \A c \in ToSet(deliveries') :
             \/ c \in ToSet(deliveries)
             \/ \E d \in ToSet(deliveries) :
                  /\ d.state = "appending" /\ d.frontier.revision \in Revisions(writing)
                  /\ Moved(c, d, "synced")
    BY <1>1, ResolveFacts DEF States
  <2>2. \A d \in ToSet(deliveries) : DeliverySound(d) /\ DeliverySound(d)'
    BY <1>1, <1>3, DeliveryFrame DEF IInv, TypeOK
  <2>3. \A r \in Revisions(writing) : r <= Len(file')
    BY <1>3, <1>4 DEF Revisions
  <2>4. ASSUME NEW c \in ToSet(deliveries') PROVE DeliverySound(c)'
    <3>1. CASE c \in ToSet(deliveries)
      BY <2>2, <3>1
    <3>2. CASE \E d \in ToSet(deliveries) :
                 /\ d.state = "appending" /\ d.frontier.revision \in Revisions(writing)
                 /\ Moved(c, d, "synced")
      <4>1. PICK d \in ToSet(deliveries) :
                 /\ d.state = "appending" /\ d.frontier.revision \in Revisions(writing)
                 /\ Moved(c, d, "synced")
        BY <3>2
      <4>2. d.frontier.revision <= Len(file')
        BY <2>3, <4>1
      <4> QED
        BY <2>2, <4>1, <4>2 DEF DeliverySound, Pending, Moved
    <3> QED
      BY <2>1, <3>1, <3>2
  <2> QED
    BY <2>1, <2>4 DEF ToSet
<1>7. TypeOK'
  <2>1. <<>> \in Seq(Entries)
    OBVIOUS
  <2> QED
    BY <1>1, <1>3, <1>4, <1>6, <2>1, TypeParts, TypeAssembled DEF snapshotVars
<1>8. LogSound'
  BY <1>1, LogFrame DEF IInv
<1>9. SnapshotsSound' /\ AcceptedAckIsDurable' /\ PublishedIsDurable'
  BY <1>1, <1>3, SnapshotsFrame, AcknowledgedFrame, PublishedFrame DEF IInv, snapshotVars,
     historyVars
<1>10. frontier'.revision <= Len(file')
  <2>1. frontier.revision \in Nat /\ frontier.revision <= Len(file)
    BY DEF IInv, TypeOK
  <2> QED
    BY <1>1, <1>3, <1>4, <2>1
<1> QED
  BY <1>1, <1>3, <1>5, <1>6, <1>7, <1>8, <1>9, <1>10 DEF IInv
(* A failed write leaves the file alone and nothing becomes durable.        *)
LEMMA FlushFailsStep == IInv /\ FlushFails => IInv'
<1> SUFFICES ASSUME IInv, FlushFails PROVE IInv'
  OBVIOUS
<1>1. /\ up /\ failed' = TRUE /\ queue' = <<>>
      /\ Resolve(Revisions(writing) \cup Revisions(queue), "broken")
      /\ UNCHANGED <<up, sequencer, frontier, poisoned, closing, snapshotVars, writing,
                     storeClosed, connections, diskVars, historyVars, countVars>>
  BY DEF FlushFails
<1>2. /\ file \in Seq(Entries) /\ writing \in Seq(Entries) /\ queue' \in Seq(Entries)
      /\ DOMAIN queue' = {}
  BY <1>1, BatchFacts
<1>3. FileKept
  BY <1>1, <1>2, FileKeptIfUnchanged DEF diskVars
<1>4. LogSound' /\ FileSound'
  BY <1>1, LogFrame, FileFrame DEF IInv, diskVars
<1>5. PiecesOfLog'
  BY <1>1, <1>2 DEF IInv, PiecesOfLog, diskVars
<1>6. DeliveriesTyped' /\ (\A d \in ToSet(deliveries) : DeliverySound(d))'
  <2> DEFINE S == Revisions(writing) \cup Revisions(queue)
  <2>1. /\ DeliveriesTyped'
        /\ \A c \in ToSet(deliveries') :
             \/ c \in ToSet(deliveries)
             \/ \E d \in ToSet(deliveries) :
                  d.state = "appending" /\ d.frontier.revision \in S /\ Moved(c, d, "broken")
    BY <1>1, ResolveFacts DEF States
  <2>2. \A d \in ToSet(deliveries) : DeliverySound(d)'
    BY <1>1, <1>3, DeliveryFrame DEF IInv, TypeOK
  <2>3. ASSUME NEW c \in ToSet(deliveries') PROVE DeliverySound(c)'
    <3>1. CASE c \in ToSet(deliveries)
      BY <2>2, <3>1
    <3>2. CASE \E d \in ToSet(deliveries) :
                 d.state = "appending" /\ d.frontier.revision \in S /\ Moved(c, d, "broken")
      BY <2>2, <3>2 DEF DeliverySound, Pending, Moved
    <3> QED
      BY <2>1, <3>1, <3>2
  <2> QED
    BY <2>1, <2>3 DEF ToSet
<1>7. TypeOK'
  BY <1>1, <1>2, <1>6, TypeParts, TypeAssembled DEF snapshotVars, diskVars
<1>8. SnapshotsSound' /\ AcceptedAckIsDurable' /\ PublishedIsDurable'
  BY <1>1, <1>3, SnapshotsFrame, AcknowledgedFrame, PublishedFrame DEF IInv, snapshotVars,
     historyVars, diskVars
<1> QED
  BY <1>1, <1>4, <1>5, <1>6, <1>7, <1>8, TypeParts DEF IInv, diskVars

-----------------------------------------------------------------------------
(* Snapshots.                                                               *)

(* A snapshot is only started on a state that is wholly in the file.        *)
LEMMA StartedSound ==
  ASSUME IInv, up, UNCHANGED <<sequencer, file>>, NEW revision \in Nat, NEW since \in Nat,
         NEW inProgress \in BOOLEAN, revision <= Len(file),
         MaybeSnapshot(revision, since, inProgress)
  PROVE  /\ opsSinceSnapshot' \in Nat
         /\ snapshotWrite' # NoSnapshot => SnapshotSound(snapshotWrite)'
<1> DEFINE log == sequencer.operationLog
           idle == \/ closing \/ inProgress \/ since < SnapshotInterval
                   \/ revision # sequencer.currentRevision
<1>1. CASE idle
  <2>1. opsSinceSnapshot' = since
        /\ snapshotWrite' = IF inProgress THEN snapshotWrite ELSE NoSnapshot
    BY <1>1 DEF MaybeSnapshot
  <2>2. snapshotWrite # NoSnapshot => SnapshotSound(snapshotWrite)
    BY DEF IInv, SnapshotsSound
  <2>3. FileKept
    BY BatchFacts, FileKeptIfUnchanged
  <2>4. snapshotWrite' # NoSnapshot => SnapshotSound(snapshotWrite)'
    BY <2>1, <2>2, <2>3 DEF FileKept, SnapshotSound
  <2> QED
    BY <2>1, <2>4
<1>2. CASE ~idle
  <2>1. opsSinceSnapshot' = 0 /\ snapshotWrite' = PersistedSnapshot(sequencer)
        /\ revision = sequencer.currentRevision
    BY <1>2 DEF MaybeSnapshot
  <2>2. sequencer.currentRevision = Len(log) /\ Len(log) \in Nat /\ DOMAIN log = 1..Len(log)
    BY LogFacts DEF IInv, LogSound
  <2>3. \A i \in 1..revision : i \in DOMAIN file /\ file[i] = log[i] /\ i \in 1..Len(log)
    BY <2>1, <2>2, BatchFacts
  <2>4. /\ snapshotWrite'.revision = revision
        /\ snapshotWrite'.clientSequenceTable = sequencer.clientSequenceTable
        /\ snapshotWrite'.ackCache = sequencer.ackCache
    BY <2>1 DEF PersistedSnapshot
  <2>5. /\ sequencer.clientSequenceTable \in [Client -> Nat]
        /\ \A i \in 1..Len(log) :
             /\ log[i].op \in DOMAIN sequencer.ackCache
             /\ sequencer.ackCache[log[i].op] = i
             /\ log[i].seq <= sequencer.clientSequenceTable[log[i].client]
    BY LogFacts
  <2>6. Len(file) \in Nat /\ revision \in 0..Len(file)
    BY BatchFacts
  <2> HIDE DEF log
  <2>7. SnapshotSound(snapshotWrite)'
    BY <2>3, <2>4, <2>5, <2>6 DEF SnapshotSound
  <2> QED
    BY <2>1, <2>7
<1> QED
  BY <1>1, <1>2

(* Whatever a save leaves behind, the newest snapshot is among it.          *)
LEMMA SavedSound ==
  ASSUME IInv, NEW w, SnapshotSound(w), NEW T, T \in AfterSave(w)
  PROVE  /\ \A s \in T : SnapshotSound(s)
         /\ \E s \in T : \A t \in T : t.revision <= s.revision
<1> DEFINE S == snapshots \cup {w}
<1>1. \A s \in S : SnapshotSound(s)
  BY DEF IInv, SnapshotsSound
<1>2. Len(file) \in Nat /\ \A s \in S : s.revision \in Nat
  BY <1>1, BatchFacts DEF SnapshotSound
<1>3. PICK m \in snapshots : \A t \in snapshots : t.revision <= m.revision
  BY DEF IInv, SnapshotsSound
<1>4. PICK n \in S : \A t \in S : t.revision <= n.revision
  <2>1. CASE w.revision <= m.revision
    BY <1>3, <2>1
  <2>2. CASE ~(w.revision <= m.revision)
    BY <1>2, <1>3, <2>2
  <2> QED
    BY <2>1, <2>2
<1>5. n \in Pruned(S)
  <2>1. {t \in S : t.revision > n.revision} = {}
    BY <1>2, <1>4
  <2>2. Cardinality({}) < KeepGenerations
    BY FS_EmptySet, GenerationsAssumption
  <2> QED
    BY <1>4, <2>1, <2>2 DEF Pruned
<1>6. Pruned(S) \subseteq S
  BY DEF Pruned
<1>7. T = snapshots \/ T = S \/ T = Pruned(S)
  BY DEF AfterSave
<1> HIDE DEF S
<1> QED
  BY <1>1, <1>3, <1>4, <1>5, <1>6, <1>7 DEF S

(* The end of a snapshot write.                                             *)
LEMMA SnapshotEndsStep == IInv /\ SnapshotEnds => IInv'
<1> SUFFICES ASSUME IInv, SnapshotEnds PROVE IInv'
  OBVIOUS
<1>1. /\ up /\ snapshotWrite # NoSnapshot
      /\ snapshots' \in AfterSave(snapshotWrite)
      /\ MaybeSnapshot(frontier.revision, opsSinceSnapshot, FALSE)
      /\ UNCHANGED <<up, sequencer, frontier, poisoned, closing, storeVars, deliveries,
                     connections, file, tornTail, historyVars, countVars>>
  BY DEF SnapshotEnds
<1>2. FileKept
  BY <1>1, BatchFacts, FileKeptIfUnchanged
<1>3. LogSound' /\ FileSound' /\ PiecesOfLog'
  BY <1>1, LogFrame, FileFrame, PiecesFrame DEF IInv
<1>4. SnapshotsSound'
  <2>1. /\ opsSinceSnapshot' \in Nat
        /\ snapshotWrite' # NoSnapshot => SnapshotSound(snapshotWrite)'
    BY <1>1, TypeParts, StartedSound
  <2>2. SnapshotSound(snapshotWrite)
    BY <1>1 DEF IInv, SnapshotsSound
  <2>3. /\ \A s \in snapshots' : SnapshotSound(s)
        /\ \E s \in snapshots' : \A t \in snapshots' : t.revision <= s.revision
    BY <1>1, <2>2, SavedSound
  <2>4. \A s \in snapshots' : SnapshotSound(s)'
    BY <1>2, <2>3, SnapshotFrame
  <2> QED
    BY <2>1, <2>3, <2>4 DEF SnapshotsSound
<1>5. (\A d \in ToSet(deliveries) : DeliverySound(d))'
  BY <1>1, <1>2, DeliveriesFrame DEF IInv
<1>6. TypeOK'
  <2>1. opsSinceSnapshot' \in Nat
    BY <1>1, TypeParts, StartedSound
  <2>2. DeliveriesTyped'
    BY <1>1, TypeParts DEF DeliveriesTyped, DeliveryTyped, ToSet
  <2> QED
    BY <1>1, <2>1, <2>2, TypeParts, BatchFacts, TypeAssembled DEF storeVars
<1>7. AcceptedAckIsDurable' /\ PublishedIsDurable'
  BY <1>1, <1>2, AcknowledgedFrame, PublishedFrame DEF IInv, historyVars
<1> QED
  BY <1>1, <1>3, <1>4, <1>5, <1>6, <1>7, TypeParts DEF IInv, storeVars
-----------------------------------------------------------------------------
(* Continuations and deliveries.                                            *)

(* One delivery moves to another state, the others stay.                    *)
LEMMA SetStateFacts ==
  ASSUME IInv, NEW i \in DOMAIN deliveries, NEW t \in States, SetState(i, t)
  PROVE  /\ DeliveriesTyped'
         /\ \A c \in ToSet(deliveries') :
              c \in ToSet(deliveries) \/ Moved(c, deliveries[i], t)
<1> DEFINE d == deliveries[i]
           x == [d EXCEPT !.state = t]
<1>1. DeliveriesTyped
  BY TypeParts
<1>2. d \in ToSet(deliveries) /\ DeliveryTyped(d)
  BY <1>1 DEF DeliveriesTyped, ToSet
<1>3. DeliveryTyped(x) /\ Moved(x, d, t)
  BY <1>2, MovedFacts
<1>4. deliveries' = [deliveries EXCEPT ![i] = x]
  BY DEF SetState
<1> HIDE DEF x
<1>5. /\ deliveries' \in Seq(ToSet(deliveries'))
      /\ ToSet(deliveries') \subseteq ToSet(deliveries) \cup {x}
  BY <1>1, <1>4, ReplaceElements DEF DeliveriesTyped
<1>6. DeliveriesTyped'
  BY <1>1, <1>3, <1>5 DEF DeliveriesTyped, DeliveryTyped, ToSet
<1> QED
  BY <1>3, <1>5, <1>6

(* A continuation after the append settled: a durable operation may move    *)
(* the frontier, to a revision that is in the file.                         *)
LEMMA SettleStep ==
  ASSUME IInv, NEW i \in DOMAIN deliveries, Settle(i)
  PROVE  IInv'
<1> DEFINE d == deliveries[i]
<1>1. /\ up /\ d.state \in {"synced", "broken"}
      /\ UNCHANGED <<up, sequencer, closing, storeVars, connections, diskVars, historyVars,
                     countVars>>
      /\ SettleDurable(i) \/ SettleFailed(i)
  BY DEF Settle, NextSettled
<1>2. FileKept
  BY <1>1, BatchFacts, FileKeptIfUnchanged DEF diskVars
<1>3. d \in ToSet(deliveries) /\ DeliverySound(d) /\ d.status = "accepted"
  BY <1>1, TypeParts DEF ToSet, DeliverySound, Pending
<1>4. LogSound' /\ FileSound' /\ PiecesOfLog'
  BY <1>1, LogFrame, FileFrame, PiecesFrame DEF IInv, diskVars
<1>5. ASSUME NEW t \in {"ready", "failed"}, SetState(i, t), t = "ready" => d.state = "synced"
      PROVE  DeliveriesTyped' /\ (\A c \in ToSet(deliveries) : DeliverySound(c))'
  <2>1. /\ DeliveriesTyped'
        /\ \A c \in ToSet(deliveries') : c \in ToSet(deliveries) \/ Moved(c, d, t)
    BY <1>5, SetStateFacts DEF States
  <2>2. \A c \in ToSet(deliveries) : DeliverySound(c)'
    BY <1>1, <1>2, DeliveryFrame DEF IInv, TypeOK
  <2>3. ASSUME NEW c \in ToSet(deliveries') PROVE DeliverySound(c)'
    <3>1. CASE c \in ToSet(deliveries)
      BY <2>2, <3>1
    <3>2. CASE Moved(c, d, t)
      BY <1>3, <1>5, <2>2, <3>2 DEF DeliverySound, Pending, Moved
    <3> QED
      BY <2>1, <3>1, <3>2
  <2> QED
    BY <2>1, <2>3 DEF ToSet
<1>6. /\ DeliveriesTyped' /\ (\A c \in ToSet(deliveries) : DeliverySound(c))'
      /\ poisoned' \in BOOLEAN
      /\ frontier'.revision \in Nat /\ frontier'.revision <= Len(file)
      /\ frontier'.sequences \in [Client -> Nat]
      /\ opsSinceSnapshot' \in Nat
      /\ snapshotWrite' # NoSnapshot => SnapshotSound(snapshotWrite)'
  <2>1. CASE SettleDurable(i)
    <3>1. /\ d.state = "synced" /\ SetState(i, "ready") /\ poisoned' = poisoned
          /\ frontier' = Advance(d.frontier)
          /\ MaybeSnapshot(frontier'.revision, opsSinceSnapshot + 1, snapshotWrite # NoSnapshot)
      BY <2>1 DEF SettleDurable
    <3>2. /\ d.frontier.revision \in DOMAIN sequencer.operationLog
          /\ d.frontier.revision <= Len(file)
          /\ d.frontier.sequences \in [Client -> Nat]
      BY <1>3, <3>1 DEF DeliverySound
    <3>3. d.frontier.revision \in Nat
      BY <3>2, LogFacts
    <3>4. /\ frontier'.revision \in Nat /\ frontier'.revision <= Len(file)
          /\ frontier'.sequences \in [Client -> Nat]
      BY <3>1, <3>2, <3>3, TypeParts DEF Advance
    <3>5. /\ opsSinceSnapshot' \in Nat
          /\ snapshotWrite' # NoSnapshot => SnapshotSound(snapshotWrite)'
      <4> DEFINE r == frontier'.revision
                 m == opsSinceSnapshot + 1
                 b == (snapshotWrite # NoSnapshot)
      <4>1. m \in Nat /\ b \in BOOLEAN /\ r \in Nat /\ r <= Len(file)
        BY <3>4, TypeParts
      <4>2. MaybeSnapshot(r, m, b) /\ UNCHANGED <<sequencer, file>>
        BY <1>1, <3>1 DEF diskVars
      <4> HIDE DEF r, m, b
      <4> QED
        BY <1>1, <4>1, <4>2, StartedSound
    <3> QED
      BY <1>5, <3>1, <3>4, <3>5, TypeParts
  <2>2. CASE SettleFailed(i)
    <3>1. /\ SetState(i, "failed") /\ UNCHANGED <<frontier, opsSinceSnapshot, snapshotWrite>>
          /\ poisoned' = (poisoned \/ d.state = "broken")
      BY <2>2 DEF SettleFailed, snapshotVars
    <3>2. snapshotWrite' # NoSnapshot => SnapshotSound(snapshotWrite)'
      BY <1>2, <3>1 DEF IInv, SnapshotsSound, SnapshotSound, FileKept
    <3> QED
      BY <1>5, <3>1, <3>2, TypeParts
  <2> QED
    BY <1>1, <2>1, <2>2
<1>7. TypeOK'
  BY <1>1, <1>6, TypeParts, BatchFacts, TypeAssembled DEF storeVars, diskVars
<1>8. SnapshotsSound'
  <2>1. \A s \in snapshots : SnapshotSound(s)'
    BY <1>2, SnapshotFrame DEF IInv, SnapshotsSound
  <2>2. \E s \in snapshots : \A t \in snapshots : t.revision <= s.revision
    BY DEF IInv, SnapshotsSound
  <2>3. UNCHANGED snapshots
    BY <1>1 DEF diskVars
  <2> QED
    BY <1>6, <2>1, <2>2, <2>3 DEF SnapshotsSound
<1>9. AcceptedAckIsDurable' /\ PublishedIsDurable'
  BY <1>1, <1>2, AcknowledgedFrame, PublishedFrame DEF IInv, historyVars
<1> QED
  BY <1>1, <1>4, <1>6, <1>7, <1>8, <1>9 DEF IInv, storeVars, diskVars

(* A dispatch: what it tells of an accepted operation is in the file.       *)
LEMMA DeliverStep ==
  ASSUME IInv, NEW i \in DOMAIN deliveries, Deliver(i)
  PROVE  IInv'
<1> DEFINE d == deliveries[i]
<1>1. /\ up /\ deliveries' = RemoveAt(deliveries, i)
      /\ \/ DispatchAccepted(d) \/ DispatchAck(d) \/ DispatchRejection(d) \/ DispatchFailure(d)
      /\ UNCHANGED <<up, sequencer, frontier, poisoned, closing, snapshotVars, storeVars, diskVars,
                     countVars>>
  BY DEF Deliver
<1>2. FileKept
  BY <1>1, BatchFacts, FileKeptIfUnchanged DEF diskVars
<1>3. LogSound' /\ FileSound' /\ PiecesOfLog' /\ SnapshotsSound'
  BY <1>1, <1>2, LogFrame, FileFrame, PiecesFrame, SnapshotsFrame DEF IInv, diskVars, snapshotVars
<1>4. /\ deliveries' \in Seq(ToSet(deliveries')) /\ ToSet(deliveries') \subseteq ToSet(deliveries)
  BY <1>1, TypeParts, RemoveAtElements DEF DeliveriesTyped
<1>5. DeliveriesTyped'
  BY <1>4, TypeParts DEF DeliveriesTyped, DeliveryTyped, ToSet
<1>6. (\A c \in ToSet(deliveries) : DeliverySound(c))'
  BY <1>1, <1>2, <1>4, DeliveriesFrame DEF IInv
<1>7. TypeOK'
  BY <1>1, <1>5, TypeParts, BatchFacts, TypeAssembled DEF storeVars, diskVars, snapshotVars
<1>8. AcceptedAckIsDurable' /\ PublishedIsDurable'
  <2>1. CASE DispatchAccepted(d)
    <3> DEFINE r == d.frontier.revision
    <3>1. /\ d.state = "ready" /\ d.status = "accepted"
          /\ published' \subseteq published \cup {<<d.op, r>>}
          /\ acknowledged' \subseteq acknowledged \cup {AckOf(d)}
      BY <2>1 DEF DispatchAccepted
    <3>2. /\ r \in DOMAIN sequencer.operationLog /\ sequencer.operationLog[r].op = d.op
          /\ r <= Len(file)
      BY <3>1, TypeParts DEF ToSet, DeliverySound
    <3>3. r \in 1..Len(file) /\ sequencer.ackCache[d.op] = r
      <4> DEFINE log == sequencer.operationLog
      <4>1. /\ DOMAIN log = 1..Len(log) /\ Len(log) \in Nat
            /\ \A j \in 1..Len(log) : sequencer.ackCache[log[j].op] = j
        BY LogFacts
      <4>2. Len(file) \in Nat
        BY BatchFacts
      <4>3. r \in DOMAIN log /\ log[r].op = d.op /\ r <= Len(file)
        BY <3>2
      <4> HIDE DEF r, d, log
      <4> QED
        BY <4>1, <4>2, <4>3
    <3>4. r \in DOMAIN file /\ file[r].op = d.op
      BY <1>1, <3>2, <3>3, BatchFacts
    <3>5. AckOf(d).op = d.op /\ AckOf(d).rev = r
      BY <3>3 DEF AckOf
    <3> HIDE DEF r, d
    <3>6. UNCHANGED file
      BY <1>1 DEF diskVars
    <3>7. AcceptedAckIsDurable'
      BY <3>1, <3>4, <3>5, <3>6 DEF IInv, AcceptedAckIsDurable
    <3>8. PublishedIsDurable'
      BY <3>1, <3>4, <3>6 DEF IInv, PublishedIsDurable
    <3> QED
      BY <3>7, <3>8
  <2>2. CASE DispatchAck(d)
    <3>1. /\ d.status # "accepted" /\ UNCHANGED published
          /\ acknowledged' \subseteq acknowledged \cup {AckOf(d)}
      BY <2>2 DEF DispatchAck
    <3>2. AckOf(d).status # "accepted"
      BY <3>1 DEF AckOf
    <3>3. UNCHANGED file
      BY <1>1 DEF diskVars
    <3> QED
      BY <3>1, <3>2, <3>3 DEF IInv, AcceptedAckIsDurable, PublishedIsDurable
  <2>3. CASE DispatchRejection(d) \/ DispatchFailure(d)
    BY <1>2, <2>3, AcknowledgedFrame, PublishedFrame DEF IInv, DispatchRejection, DispatchFailure
  <2> QED
    BY <1>1, <2>1, <2>2, <2>3
<1> QED
  BY <1>1, <1>3, <1>6, <1>7, <1>8, TypeParts DEF IInv, storeVars, diskVars

(* Stopping touches neither log nor files.                                  *)
LEMMA StopStep ==
  ASSUME IInv, Close \/ CloseStore
  PROVE  IInv'
<1>1. /\ UNCHANGED <<up, sequencer, frontier, poisoned, snapshotVars, queue, writing, failed,
                     deliveries, diskVars, historyVars, countVars>>
      /\ closing' \in BOOLEAN
      /\ storeClosed' = storeClosed \/ storeClosed' = TRUE
  BY TypeParts DEF Close, CloseStore, storeVars
<1>2. FileKept
  BY <1>1, BatchFacts, FileKeptIfUnchanged DEF diskVars
<1>3. LogSound' /\ FileSound' /\ SnapshotsSound'
  BY <1>1, <1>2, LogFrame, FileFrame, SnapshotsFrame DEF IInv, diskVars, snapshotVars
<1>4. PiecesOfLog'
  BY <1>1 DEF IInv, PiecesOfLog, diskVars
<1>5. DeliveriesTyped'
  BY <1>1, TypeParts DEF DeliveriesTyped, DeliveryTyped, ToSet
<1>6. TypeOK'
  BY <1>1, <1>5, TypeParts, BatchFacts, TypeAssembled DEF diskVars, snapshotVars
<1>7. (\A d \in ToSet(deliveries) : DeliverySound(d))'
  BY <1>1, <1>2, DeliveriesFrame DEF IInv
<1>8. AcceptedAckIsDurable' /\ PublishedIsDurable'
  BY <1>1, <1>2, AcknowledgedFrame, PublishedFrame DEF IInv, historyVars
<1> QED
  BY <1>1, <1>3, <1>4, <1>6, <1>7, <1>8 DEF IInv, diskVars
-----------------------------------------------------------------------------
(* Crash and restart.                                                       *)

(* The type invariant after a start from the state s.                       *)
LEMMA BootedType ==
  ASSUME IInv, NEW s, Booted(s),
         DOMAIN s = {"document", "operationLog", "currentRevision",
                     "ackCache", "clientSequenceTable"},
         s.operationLog \in Seq(Entries), s.currentRevision \in Nat,
         s.clientSequenceTable \in [Client -> Nat],
         up' \in BOOLEAN, tornTail' \in BOOLEAN, file' \in Seq(Entries),
         crashes' \in 0..MaxCrashes, UNCHANGED <<submits, joins>>
  PROVE  TypeOK'
<1>1. /\ sequencer' = s
      /\ frontier'.revision = s.currentRevision /\ frontier'.sequences = s.clientSequenceTable
  BY DEF Booted, Frontier
<1>2. /\ poisoned' \in BOOLEAN /\ closing' \in BOOLEAN
      /\ failed' \in BOOLEAN /\ storeClosed' \in BOOLEAN
      /\ opsSinceSnapshot' \in Nat
      /\ queue' \in Seq(Entries) /\ writing' \in Seq(Entries)
  <2>1. /\ poisoned' \in BOOLEAN /\ closing' \in BOOLEAN
        /\ failed' \in BOOLEAN /\ storeClosed' \in BOOLEAN
    BY DEF Booted
  <2>2. opsSinceSnapshot' = 0 /\ queue' = <<>> /\ writing' = <<>>
    BY DEF Booted
  <2>3. <<>> \in Seq(Entries)
    OBVIOUS
  <2> QED
    BY <2>1, <2>2, <2>3
<1>3. deliveries' \in Seq(ToSet(deliveries')) /\ ToSet(deliveries') = {}
  BY DEF Booted, ToSet
<1>4. submits' \in 0..MaxSubmits /\ joins' \in 0..MaxJoins
  BY DEF IInv, TypeOK
<1>5. /\ deliveries' \in Seq(ToSet(deliveries'))
      /\ \A d \in ToSet(deliveries') :
           /\ DOMAIN d = {"from", "op", "status", "state", "frontier"}
           /\ d.op \in OpId
           /\ d.status \in {"accepted", "noop", "duplicate", "rejected", "poisoned"}
           /\ d.state \in {"appending", "synced", "broken", "ready", "failed"}
  BY <1>3
<1>6. /\ DOMAIN sequencer' = {"document", "operationLog", "currentRevision",
                             "ackCache", "clientSequenceTable"}
      /\ sequencer'.operationLog \in Seq(Entries)
      /\ sequencer'.currentRevision \in Nat
      /\ sequencer'.clientSequenceTable \in [Client -> Nat]
      /\ frontier'.revision \in Nat /\ frontier'.sequences \in [Client -> Nat]
  BY <1>1
<1> QED
  BY <1>2, <1>4, <1>5, <1>6 DEF TypeOK, ToSet

(* Nothing waits for delivery after a start.                                *)
LEMMA BootedDeliveries ==
  ASSUME NEW s, Booted(s)
  PROVE  (\A d \in ToSet(deliveries) : DeliverySound(d))'
  BY DEF Booted, ToSet

(* A crash leaves the file, some leading lines of the batch that was being  *)
(* written, and the newest snapshot.                                        *)
LEMMA CrashStep ==
  ASSUME IInv, NEW n \in 0..Len(writing), NEW torn \in BOOLEAN, Crash(n, torn)
  PROVE  IInv'
<1> DEFINE s == FreshState(InitialDocument)
<1>1. /\ up /\ up' = FALSE /\ crashes < MaxCrashes /\ crashes' = crashes + 1
      /\ file' = file \o SubSeq(writing, 1, n)
      /\ tornTail' = IF writing = <<>> THEN tornTail ELSE torn
      /\ snapshots' \in IF snapshotWrite = NoSnapshot THEN {snapshots}
                        ELSE AfterSave(snapshotWrite)
      /\ Booted(s)
      /\ UNCHANGED <<historyVars, submits, joins>>
  BY DEF Crash, Lines, TailAfterOpen
<1>2. FileKept /\ FileSound' /\ file' \in Seq(Entries)
  BY <1>1, FileExtended
<1>3. /\ DOMAIN s = {"document", "operationLog", "currentRevision",
                     "ackCache", "clientSequenceTable"}
      /\ s.operationLog = <<>> /\ s.currentRevision = 0
      /\ s.clientSequenceTable \in [Client -> Nat]
  BY DEF FreshState
<1> HIDE DEF s
<1>4. /\ sequencer' = s /\ frontier'.revision = 0
      /\ writing' = <<>> /\ queue' = <<>> /\ snapshotWrite' = NoSnapshot
  BY <1>1, <1>3 DEF Booted, Frontier
<1>5. TypeOK'
  <2>1. crashes' \in 0..MaxCrashes
    BY <1>1, BoundsAssumption DEF IInv, TypeOK
  <2>2. tornTail' \in BOOLEAN /\ up' \in BOOLEAN /\ UNCHANGED <<submits, joins>>
    BY <1>1, TypeParts
  <2>3. s.operationLog \in Seq(Entries) /\ s.currentRevision \in Nat
    BY <1>3
  <2>4. Booted(s)
    BY <1>1
  <2> QED
    BY <1>2, <1>3, <2>1, <2>2, <2>3, <2>4, BootedType
<1>6. LogSound' /\ PiecesOfLog'
  <2>1. /\ Len(sequencer'.operationLog) = 0 /\ DOMAIN sequencer'.operationLog = {}
        /\ sequencer'.currentRevision = 0
    BY <1>3, <1>4
  <2>2. LogSound'
    BY <2>1 DEF LogSound, InSequence
  <2>3. DOMAIN writing' = {} /\ DOMAIN queue' = {}
    BY <1>4
  <2>4. PiecesOfLog'
    BY <1>1, <1>4, <2>3 DEF PiecesOfLog
  <2> QED
    BY <2>2, <2>4
<1>7. SnapshotsSound'
  <2>1. /\ \A t \in snapshots' : SnapshotSound(t)
        /\ \E t \in snapshots' : \A u \in snapshots' : u.revision <= t.revision
    BY <1>1, SavedSound DEF IInv, SnapshotsSound
  <2>2. \A t \in snapshots' : SnapshotSound(t)'
    BY <1>2, <2>1, SnapshotFrame
  <2> QED
    BY <1>4, <2>1, <2>2 DEF SnapshotsSound
<1>8. AcceptedAckIsDurable' /\ PublishedIsDurable'
  BY <1>1, <1>2, AcknowledgedFrame, PublishedFrame DEF IInv, historyVars
<1>9. (\A d \in ToSet(deliveries) : DeliverySound(d))'
  BY <1>1, BootedDeliveries
<1>10. frontier'.revision <= Len(file')
  BY <1>2, <1>4 DEF FileKept
<1> QED
  BY <1>2, <1>4, <1>5, <1>6, <1>7, <1>8, <1>9, <1>10 DEF IInv
(* The tail behind a snapshot holds the entries above its revision.         *)
LEMMA TailFacts ==
  ASSUME IInv, NEW rev \in 0..Len(file)
  PROVE  LET tail == SubSeq(file, rev + 1, Len(file))
         IN  /\ DOMAIN tail = 1..(Len(file) - rev)
             /\ \A i \in 1..(Len(file) - rev) :
                  rev + i \in 1..Len(file) /\ tail[i] = file[rev + i]
<1> DEFINE tail == SubSeq(file, rev + 1, Len(file))
<1>1. file \in Seq(Entries) /\ Len(file) \in Nat
  BY BatchFacts
<1>2. tail = [i \in 1..(Len(file) - rev) |-> file[rev + i]]
  BY <1>1
<1> QED
  BY <1>1, <1>2

(* updateAuxFromOps, acknowledgements: each logged operation at its place.  *)
LEMMA RecoveredAcks ==
  ASSUME IInv, NEW s, SnapshotSound(s)
  PROVE  LET acks == AcksAfter(s.ackCache, SubSeq(file, s.revision + 1, Len(file)))
         IN  \A i \in 1..Len(file) : file[i].op \in DOMAIN acks /\ acks[file[i].op] = i
<1> DEFINE rev == s.revision
           tail == SubSeq(file, rev + 1, Len(file))
           acks == AcksAfter(s.ackCache, tail)
           logged == {tail[i].op : i \in DOMAIN tail}
           own(op) == {i \in DOMAIN tail : tail[i].op = op}
           last(op) == CHOOSE i \in own(op) : \A j \in own(op) : j <= i
<1> SUFFICES ASSUME NEW i \in 1..Len(file)
             PROVE  file[i].op \in DOMAIN acks /\ acks[file[i].op] = i
  OBVIOUS
<1>1. /\ Len(file) \in Nat /\ DOMAIN file = 1..Len(file) /\ rev \in 0..Len(file)
  BY BatchFacts DEF SnapshotSound
<1>2. /\ DOMAIN tail = 1..(Len(file) - rev)
      /\ \A j \in DOMAIN tail : rev + j \in 1..Len(file) /\ tail[j] = file[rev + j]
  BY <1>1, TailFacts
<1>3. \A j \in DOMAIN file : file[j].rev = j
  BY DEF IInv, FileSound
<1>4. \A j \in 1..Len(file) : file[j].op = file[i].op => j = i
  BY <1>1 DEF IInv, FileSound, OpsOnce
<1>5. acks = [op \in DOMAIN s.ackCache \cup logged |->
               IF op \in logged THEN tail[last(op)].rev ELSE s.ackCache[op]]
  BY DEF AcksAfter
<1> DEFINE op == file[i].op
<1> HIDE DEF tail
<1>6. \A j \in own(op) : rev + j = i
  BY <1>2, <1>4
<1>7. CASE i <= rev
  <2>1. op \notin logged
    <3> SUFFICES ASSUME NEW j \in DOMAIN tail, tail[j].op = op PROVE FALSE
      OBVIOUS
    <3>1. rev + j = i /\ j \in 1..(Len(file) - rev)
      BY <1>2, <1>6
    <3> QED
      BY <1>1, <1>7, <3>1
  <2>2. op \in DOMAIN s.ackCache /\ s.ackCache[op] = i
    BY <1>1, <1>7 DEF SnapshotSound
  <2> HIDE DEF logged, acks, op
  <2>3. op \in DOMAIN acks /\ acks[op] = i
    BY <1>5, <2>1, <2>2
  <2> QED
    BY <2>3 DEF op
<1>8. CASE ~(i <= rev)
  <2>1. i - rev \in DOMAIN tail /\ rev + (i - rev) = i
    BY <1>1, <1>2, <1>8
  <2>2. i - rev \in own(op)
    BY <1>2, <2>1
  <2>3. op \in logged
    BY <2>2
  <2>4. \A j \in own(op) : j = i - rev
    BY <1>1, <1>2, <1>6
  <2>5. i - rev \in Int
    BY <1>1
  <2> HIDE DEF own
  <2>6. \A j \in own(op) : j <= i - rev
    BY <2>4, <2>5
  <2>7. last(op) = i - rev
    BY <2>2, <2>4, <2>6
  <2>8. tail[last(op)].rev = i
    BY <1>1, <1>2, <1>3, <2>1, <2>7
  <2> HIDE DEF logged, acks, last, op
  <2>9. op \in DOMAIN acks /\ acks[op] = i
    BY <1>5, <2>3, <2>8
  <2> QED
    BY <2>9 DEF op
<1> QED
  BY <1>7, <1>8

(* updateAuxFromOps, sequences: past every logged operation of the client.  *)
LEMMA RecoveredSequences ==
  ASSUME IInv, NEW s, SnapshotSound(s)
  PROVE  LET table == SequencesAfter(s.clientSequenceTable, SubSeq(file, s.revision + 1, Len(file)))
         IN  /\ table \in [Client -> Nat]
             /\ \A i \in 1..Len(file) : file[i].seq <= table[file[i].client]
<1> DEFINE rev == s.revision
           old == s.clientSequenceTable
           tail == SubSeq(file, rev + 1, Len(file))
           table == SequencesAfter(old, tail)
           own(c) == {i \in DOMAIN tail : tail[i].client = c}
           last(c) == CHOOSE i \in own(c) : \A j \in own(c) : j <= i
<1>1. /\ file \in Seq(Entries) /\ Len(file) \in Nat /\ DOMAIN file = 1..Len(file)
      /\ rev \in 0..Len(file)
  BY BatchFacts DEF SnapshotSound
<1>2. /\ DOMAIN tail = 1..(Len(file) - rev)
      /\ \A j \in DOMAIN tail : rev + j \in 1..Len(file) /\ tail[j] = file[rev + j]
  BY <1>1, TailFacts
<1>3. old \in [Client -> Nat] /\ \A i \in 1..rev : file[i].seq <= old[file[i].client]
  BY DEF SnapshotSound
<1>4. \A i \in 1..Len(file) : file[i].client \in Client /\ file[i].seq \in Nat
  <2>1. \A i \in 1..Len(file) : file[i] \in Entries
    BY <1>1
  <2> QED
    BY <2>1 DEF Entries
<1>5. table = [c \in DOMAIN old |-> IF own(c) = {} THEN old[c] ELSE tail[last(c)].seq]
  BY DEF SequencesAfter
<1> HIDE DEF tail
<1>6. \A c : own(c) # {} => last(c) \in own(c) /\ \A j \in own(c) : j <= last(c)
  <2> SUFFICES ASSUME NEW c, own(c) # {}
               PROVE  \E m \in own(c) : \A j \in own(c) : j <= m
    OBVIOUS
  <2>1. Len(file) - rev \in Nat /\ own(c) \subseteq 0..(Len(file) - rev)
    BY <1>1, <1>2
  <2> HIDE DEF own
  <2> QED
    BY <2>1, LargestUpTo
<1> HIDE DEF table, last
<1>7. DOMAIN old = Client
  BY <1>3
<1>8. \A c \in Client : table[c] = IF own(c) = {} THEN old[c] ELSE tail[last(c)].seq
  BY <1>5, <1>7
<1>9. table \in [Client -> Nat]
  <2>1. \A c \in Client : table[c] \in Nat
    <3> SUFFICES ASSUME NEW c \in Client PROVE table[c] \in Nat
      OBVIOUS
    <3>1. CASE own(c) = {}
      BY <1>3, <1>8, <3>1
    <3>2. CASE own(c) # {}
      <4>1. last(c) \in DOMAIN tail
        BY <1>6, <3>2
      <4> QED
        BY <1>2, <1>4, <1>8, <3>2, <4>1
    <3> QED
      BY <3>1, <3>2
  <2>2. table = [c \in Client |-> table[c]]
    BY <1>5, <1>7
  <2> QED
    BY <2>1, <2>2
<1>10. ASSUME NEW i \in 1..Len(file) PROVE file[i].seq <= table[file[i].client]
  <2> DEFINE c == file[i].client
  <2>1. c \in Client
    BY <1>4
  <2>2. CASE own(c) = {}
    <3>1. i \in 1..rev
      <4> SUFFICES ASSUME ~(i <= rev) PROVE FALSE
        BY <1>1
      <4>1. i - rev \in DOMAIN tail /\ tail[i - rev] = file[rev + (i - rev)] /\ rev + (i - rev) = i
        BY <1>1, <1>2
      <4> QED
        BY <2>2, <4>1
    <3> QED
      BY <1>3, <1>8, <2>1, <2>2, <3>1
  <2>3. CASE own(c) # {}
    <3> DEFINE m == last(c)
               p == rev + m
    <3>1. m \in DOMAIN tail /\ tail[m].client = c /\ \A j \in own(c) : j <= m
      BY <1>6, <2>3
    <3>2. p \in 1..Len(file) /\ tail[m] = file[p] /\ m \in Int
      BY <1>1, <1>2, <3>1
    <3>3. table[c] = file[p].seq
      BY <1>8, <2>1, <2>3, <3>2
    <3>4. i <= p
      <4> SUFFICES ASSUME ~(i <= rev) PROVE i <= p
        BY <1>1, <1>2, <3>1
      <4>1. /\ i - rev \in DOMAIN tail /\ tail[i - rev] = file[rev + (i - rev)]
            /\ rev + (i - rev) = i
        BY <1>1, <1>2
      <4>2. i - rev \in own(c)
        BY <4>1
      <4>3. i - rev <= m
        BY <3>1, <4>2
      <4> QED
        BY <1>1, <3>2, <4>3
    <3>5. CASE i = p
      BY <1>4, <3>2, <3>3, <3>5
    <3>6. CASE i < p
      <4>1. file[i].seq < file[p].seq
        BY <1>1, <3>1, <3>2, <3>6 DEF IInv, FileSound, InSequence
      <4> QED
        BY <1>4, <3>2, <3>3, <4>1
    <3> QED
      BY <1>1, <3>2, <3>4, <3>5, <3>6
  <2> QED
    BY <2>2, <2>3
<1> QED
  BY <1>9, <1>10 DEF table, tail
(* A restart rebuilds a sequencer that agrees with the whole file.          *)
LEMMA RecoverStep == IInv /\ Recover => IInv'
<1> SUFFICES ASSUME IInv, Recover PROVE IInv'
  OBVIOUS
<1> DEFINE l == LatestSnapshot
           tail == SubSeq(file, l.revision + 1, Len(file))
           s == Recovered(l, file)
<1>1. up' = TRUE /\ Booted(s) /\ UNCHANGED <<diskVars, historyVars, countVars>>
  BY DEF Recover
<1>2. /\ file \in Seq(Entries) /\ Len(file) \in Nat /\ DOMAIN file = 1..Len(file)
      /\ UNCHANGED <<file, tornTail, snapshots>>
  BY <1>1, BatchFacts DEF diskVars
<1>3. FileKept
  BY <1>2, FileKeptIfUnchanged
<1>4. l \in snapshots
  BY DEF IInv, SnapshotsSound, LatestSnapshot
<1>5. SnapshotSound(l)
  BY <1>4 DEF IInv, SnapshotsSound
<1> HIDE DEF l
<1>6. /\ DOMAIN s = {"document", "operationLog", "currentRevision",
                     "ackCache", "clientSequenceTable"}
      /\ s.operationLog = file /\ s.currentRevision = Len(file)
      /\ s.ackCache = AcksAfter(l.ackCache, tail)
      /\ s.clientSequenceTable = SequencesAfter(l.clientSequenceTable, tail)
  BY DEF Recovered
<1>7. /\ s.clientSequenceTable \in [Client -> Nat]
      /\ \A i \in 1..Len(file) :
           /\ file[i].op \in DOMAIN s.ackCache
           /\ s.ackCache[file[i].op] = i
           /\ file[i].seq <= s.clientSequenceTable[file[i].client]
  BY <1>5, <1>6, RecoveredAcks, RecoveredSequences
<1>8. /\ sequencer' = s /\ frontier'.revision = Len(file)
      /\ writing' = <<>> /\ queue' = <<>> /\ snapshotWrite' = NoSnapshot
  BY <1>1, <1>6 DEF Booted, Frontier
<1> HIDE DEF s, tail
<1>9. TypeOK'
  <2>1. /\ s.operationLog \in Seq(Entries) /\ s.currentRevision \in Nat
        /\ file' \in Seq(Entries)
    BY <1>2, <1>6
  <2>2. up' \in BOOLEAN /\ tornTail' \in BOOLEAN
    BY <1>1, <1>2, TypeParts
  <2>3. crashes' \in 0..MaxCrashes /\ UNCHANGED <<submits, joins>>
    BY <1>1 DEF IInv, TypeOK, countVars
  <2>4. Booted(s)
    BY <1>1
  <2> QED
    BY <1>6, <1>7, <2>1, <2>2, <2>3, <2>4, BootedType
<1>10. LogSound'
  BY <1>2, <1>6, <1>7, <1>8 DEF IInv, FileSound, LogSound, Acked, InSequence
<1>11. FileSound'
  BY <1>2, FileFrame DEF IInv
<1>12. PiecesOfLog'
  <2>1. /\ sequencer'.operationLog = file' /\ Len(file') \in Nat
        /\ DOMAIN writing' = {} /\ DOMAIN queue' = {}
        /\ Len(writing') = 0 /\ Len(queue') = 0
    BY <1>2, <1>6, <1>8
  <2>2. Len(sequencer'.operationLog) = Len(file') + Len(writing') + Len(queue')
    BY <2>1
  <2> QED
    BY <1>8, <2>1, <2>2 DEF PiecesOfLog
<1>13. SnapshotsSound'
  <2>1. \A t \in snapshots : SnapshotSound(t)'
    BY <1>3, SnapshotFrame DEF IInv, SnapshotsSound
  <2> QED
    BY <1>2, <1>8, <2>1 DEF IInv, SnapshotsSound
<1>14. AcceptedAckIsDurable' /\ PublishedIsDurable'
  BY <1>1, <1>3, AcknowledgedFrame, PublishedFrame DEF IInv, historyVars
<1>15. (\A d \in ToSet(deliveries) : DeliverySound(d))'
  <2>1. Booted(s)
    BY <1>1
  <2> QED
    BY <2>1, BootedDeliveries
<1>16. frontier'.revision <= Len(file')
  BY <1>2, <1>8
<1> QED
  BY <1>8, <1>9, <1>10, <1>11, <1>12, <1>13, <1>14, <1>15, <1>16 DEF IInv

-----------------------------------------------------------------------------
(* The induction.                                                           *)

(* A step that changes nothing.                                             *)
LEMMA StutterStep == IInv /\ UNCHANGED vars => IInv'
<1> SUFFICES ASSUME IInv, UNCHANGED vars PROVE IInv'
  OBVIOUS
<1>1. UNCHANGED <<up, sequencer, frontier, poisoned, closing, snapshotVars, storeVars,
                  deliveries, diskVars, acknowledged, submits, crashes, joins, published>>
  BY DEF vars, processVars, diskVars, historyVars, countVars, snapshotVars, storeVars
<1>2. joins' \in 0..MaxJoins
  BY <1>1 DEF IInv, TypeOK
<1> QED
  BY <1>1, <1>2, ConnectionStep

(* Every step keeps the invariant.                                          *)
LEMMA NextInv == IInv /\ [Next]_vars => IInv'
<1> SUFFICES ASSUME IInv, [Next]_vars PROVE IInv'
  OBVIOUS
<1>1. CASE Join
  <2>1. joins' \in 0..MaxJoins
    BY <1>1, BoundsAssumption DEF Join, IInv, TypeOK
  <2> QED
    BY <1>1, <2>1, ConnectionStep DEF Join
<1>2. ASSUME NEW k \in DOMAIN connections, Disconnect(k) \/ Catchup(k) PROVE IInv'
  <2>1. joins' \in 0..MaxJoins
    BY <1>2 DEF Disconnect, Catchup, countVars, IInv, TypeOK
  <2> QED
    BY <1>2, <2>1, ConnectionStep DEF Disconnect, Catchup, countVars, historyVars
<1>3. ASSUME NEW k \in DOMAIN connections, NEW o \in OpId, NEW n \in 1..MaxSequence,
             NEW b, NEW authorized \in BOOLEAN, Submit(k, Envelope(o, n, b), authorized)
      PROVE  IInv'
  <2>1. n \in Nat
    BY BoundsAssumption
  <2> QED
    BY <1>3, <2>1, SubmitStep DEF Submit
<1>4. ASSUME NEW o \in OpId, SubmitFromServer(o)
      PROVE  IInv'
  <2> DEFINE n == ExpectedSequence(sequencer, ServerClient)
  <2>1. n \in Nat
    BY LogFacts, ServerAssumption DEF ExpectedSequence
  <2>2. HandleSubmit(ServerConnection, Envelope(o, n, sequencer.currentRevision), TRUE)
    BY <1>4 DEF SubmitFromServer
  <2> HIDE DEF n
  <2> QED
    BY <2>1, <2>2, SubmitStep
<1>5. ASSUME NEW i \in DOMAIN deliveries, Settle(i) \/ Deliver(i) PROVE IInv'
  BY <1>5, SettleStep, DeliverStep
<1>6. ASSUME NEW n \in 0..Len(writing), NEW torn \in BOOLEAN, Crash(n, torn) PROVE IInv'
  BY <1>6, CrashStep
<1>7. CASE FlushSucceeds \/ FlushFails \/ SnapshotEnds \/ Close \/ CloseStore \/ Recover
  BY <1>7, FlushSucceedsStep, FlushFailsStep, SnapshotEndsStep, StopStep, RecoverStep
<1>8. CASE UNCHANGED vars
  BY <1>8, StutterStep
<1> QED
  BY <1>1, <1>2, <1>3, <1>4, <1>5, <1>6, <1>7, <1>8 DEF Next

(* IInv holds in every state the room can be in.                            *)
THEOREM Invariance == Spec => []IInv
<1>1. Init => IInv
  BY InitInv
<1>2. IInv /\ [Next]_vars => IInv'
  BY NextInv
<1> QED
  BY <1>1, <1>2, PTL DEF Spec

(* Every variable of the room keeps its type (sequencer.ts:29-35,           *)
(* persistent-room.ts:33-65, oplog-store.ts:41-56).                         *)
THEOREM TypeCorrect == Spec => []TypeOK
<1>1. IInv => TypeOK
  BY DEF IInv
<1> QED
  BY <1>1, Invariance, PTL

(* The ACK of an accepted operation is only given for an operation in the   *)
(* synced log, where it stays through every failure, crash and restart      *)
(* (persistent-room.ts:266-285, oplog-store.ts:113-140).                    *)
THEOREM AckAfterFsync == Spec => []AcceptedAckIsDurable
<1>1. IInv => AcceptedAckIsDurable
  BY DEF IInv
<1> QED
  BY <1>1, Invariance, PTL

(* Bootstraps, tails and broadcasts only show what is in the synced log     *)
(* (room.ts:88-108, persistent-room.ts:33-65).                              *)
THEOREM PublishAfterFsync == Spec => []PublishedIsDurable
<1>1. IInv => PublishedIsDurable
  BY DEF IInv
<1> QED
  BY <1>1, Invariance, PTL

(* Retries, duplicated frames and restarts never log an operation id twice, *)
(* nor a client's operations out of sequence (sequencer.ts:101-174).        *)
THEOREM ExactlyOnceInOrder == Spec => []LoggedExactlyOnceInOrder
<1>1. IInv => LoggedExactlyOnceInOrder
  <2> SUFFICES ASSUME IInv PROVE LoggedExactlyOnceInOrder
    OBVIOUS
  <2> DEFINE log == sequencer.operationLog
  <2> SUFFICES ASSUME NEW i \in DOMAIN log, NEW j \in DOMAIN log, i < j
               PROVE  /\ log[i].op # log[j].op
                      /\ log[i].client = log[j].client => log[i].seq < log[j].seq
    BY DEF LoggedExactlyOnceInOrder
  <2>1. sequencer.ackCache[log[i].op] = i /\ sequencer.ackCache[log[j].op] = j
        /\ i \in Int /\ j \in Int
    BY LogFacts
  <2>2. log[i].op # log[j].op
    BY <2>1
  <2>3. log[i].client = log[j].client => log[i].seq < log[j].seq
    BY DEF IInv, LogSound, InSequence
  <2> QED
    BY <2>2, <2>3
<1> QED
  BY <1>1, Invariance, PTL
=============================================================================
