--------------------------- MODULE ClientSession ---------------------------
(***************************************************************************)
(* The client session of packages/collab: the document as the server has   *)
(* confirmed it, the local operations still on their way (pending), the    *)
(* Conflict Queue, and the handlers of everything that can reach a session.*)
(*                                                                         *)
(* A handler is an operator from a session to the session it leaves, with  *)
(* the frames to send appended to `out`.  The optimistic view is a         *)
(* function of committed and pending and is computed where it is needed;   *)
(* presence, heartbeats and the observer events are left out.              *)
(***************************************************************************)
EXTENDS Sequencer

CONSTANTS
  SnapshotThreshold,   \* CATCHUP_SNAPSHOT_THRESHOLD
  MaxOfflinePending    \* maxOfflinePending

NoRevision == -1
NoReconcile == [acked |-> -1, accepted |-> {}, inFlight |-> {}]
NoBootstrap == [type |-> "bootstrap", revision |-> -1]

NewSession(c) ==
  [client            |-> c,
   committed         |-> EmptyDocument,
   pending           |-> <<>>,      \* [env, acked, ackRevision, noop], oldest first
   conflicts         |-> {},        \* [op, reason]
   buffer            |-> <<>>,      \* revisionBuffer: revision -> log entry
   gapRequested      |-> NoRevision,\* lastCatchupRequestedRevision
   known             |-> NoRevision,\* knownServerRevision
   lastSequence      |-> 0,
   online            |-> FALSE,
   hasConnected      |-> FALSE,
   stopped           |-> FALSE,
   awaitingSync      |-> FALSE,
   awaitingBootstrap |-> FALSE,
   reconcile         |-> NoReconcile,
   welcomeSeen       |-> FALSE,
   bootstrapAccepted |-> FALSE,
   bufferedBootstrap |-> NoBootstrap,
   out               |-> <<>>]

Send(s, m) == [s EXCEPT !.out = Append(@, m)]

Submission(env) == [type |-> "submitOperation", env |-> env]

Expected(s) == s.committed.revision + 1

Unacked(s) == Filtered(s.pending, {i \in DOMAIN s.pending : ~s.pending[i].acked})

WithoutPending(s, op) ==
  [s EXCEPT !.pending = Filtered(@, {i \in DOMAIN @ : @[i].env.op # op})]

-----------------------------------------------------------------------------
(* rebuildView: the pending operations are validated and applied again on   *)
(* top of committed.                                                        *)

TouchedRows(operation) ==
  CASE operation.type = "setCells" -> {operation.changes[i].row : i \in DOMAIN operation.changes}
    [] OTHER                       -> ToSet(operation.rows)

(* Slip: an operation that no longer applies is reported and kept.         *)
ReplayPendingReporting(acc, p) ==
  LET operation == p.env.operation
      dependent == TouchedRows(operation) \cap acc.invalidated # {}
      noop      == IsEmptyChangeSet(acc.view, operation)
      next      == acc.provisional + 1
  IN  IF dependent \/ Violations(acc.view, operation) # {}
      THEN [acc EXCEPT
              !.invalidated = @ \cup TouchedRows(operation),
              !.pending = Append(@, p),
              !.conflicts = @ \cup {[op |-> p.env.op,
                                     reason |-> IF dependent THEN "dependency"
                                                ELSE "revalidation-failed"]}]
      ELSE IF noop /\ p.acked THEN [acc EXCEPT !.provisional = next]
      ELSE [acc EXCEPT
              !.provisional = next,
              !.view = ApplyOperation(@, operation, next),
              !.pending = Append(@, [p EXCEPT !.noop = noop])]

(* Slip: an acknowledged no-op waits for an echo that never comes.         *)
ReplayPendingKeepingNoops(acc, p) ==
  LET operation == p.env.operation
      dependent == TouchedRows(operation) \cap acc.invalidated # {}
      noop      == IsEmptyChangeSet(acc.view, operation)
      next      == acc.provisional + 1
  IN  IF dependent \/ Violations(acc.view, operation) # {}
      THEN [acc EXCEPT
              !.invalidated = @ \cup TouchedRows(operation),
              !.conflicts = @ \cup {[op |-> p.env.op,
                                     reason |-> IF dependent THEN "dependency"
                                                ELSE "revalidation-failed"]}]
      ELSE [acc EXCEPT
              !.provisional = next,
              !.view = ApplyOperation(@, operation, next),
              !.pending = Append(@, [p EXCEPT !.noop = noop])]

(* One pending operation: kept, dropped as a confirmed no-op, or moved to   *)
(* the Conflict Queue together with what touches its rows later.            *)
ReplayPending(acc, p) ==
  LET operation == p.env.operation
      dependent == TouchedRows(operation) \cap acc.invalidated # {}
      noop      == IsEmptyChangeSet(acc.view, operation)
      next      == acc.provisional + 1
  IN  IF dependent \/ Violations(acc.view, operation) # {}
      THEN [acc EXCEPT
              !.invalidated = @ \cup TouchedRows(operation),
              !.conflicts = @ \cup {[op |-> p.env.op,
                                     reason |-> IF dependent THEN "dependency"
                                                ELSE "revalidation-failed"]}]
      ELSE IF noop /\ p.acked THEN [acc EXCEPT !.provisional = next]
      ELSE [acc EXCEPT
              !.provisional = next,
              !.view = ApplyOperation(@, operation, next),
              !.pending = Append(@, [p EXCEPT !.noop = noop])]

Replayed(s) ==
  LET upTo[n \in 0..Len(s.pending)] ==
        IF n = 0
        THEN [view |-> s.committed, provisional |-> s.committed.revision,
              invalidated |-> {}, conflicts |-> {}, pending |-> <<>>]
        ELSE ReplayPending(upTo[n - 1], s.pending[n])
  IN  upTo[Len(s.pending)]

View(s) == Replayed(s).view

RebuildView(s) ==
  LET r == Replayed(s)
  IN  [s EXCEPT !.pending = r.pending, !.conflicts = @ \cup r.conflicts]

-----------------------------------------------------------------------------
(* Resending, catching up and reconciling.                                  *)

ResendAllPending(s) ==
  IF ~s.online \/ s.stopped THEN s
  ELSE [s EXCEPT !.out = @ \o [i \in DOMAIN Unacked(s) |-> Submission(Unacked(s)[i].env)]]

(* Slip: the request starts behind the expected revision.                   *)
RequestCatchupFromExpected(s) ==
  IF s.online THEN Send(s, [type |-> "requestCatchup", after |-> Expected(s)]) ELSE s

RequestCatchup(s) ==
  IF s.online THEN Send(s, [type |-> "requestCatchup", after |-> s.committed.revision]) ELSE s

(* Un-acked operations are renumbered from the sequence the server expects. *)
RebaselinePendingSequence(s, expected) ==
  LET before(i) == Cardinality({j \in 1..i-1 : ~s.pending[j].acked})
  IN  [s EXCEPT
         !.pending = [i \in DOMAIN s.pending |->
            IF s.pending[i].acked THEN s.pending[i]
            ELSE [s.pending[i] EXCEPT !.env.seq = expected + before(i)]],
         !.lastSequence = expected + Len(Unacked(s)) - 1]

(* Slip: operations the server holds in flight count as refused.            *)
RefusedThoughInFlight(info, p) ==
  /\ ~p.acked
  /\ p.env.op \notin info.accepted
  /\ p.env.seq <= info.acked

(* The server consumed the number without accepting the operation.          *)
Refused(info, p) ==
  /\ ~p.acked
  /\ p.env.op \notin info.accepted \cup info.inFlight
  /\ p.env.seq <= info.acked

(* applyReconcile: what the server had made of the un-acked operations when *)
(* it answered the join.  Accepted ones are dropped, refused ones reported, *)
(* the rest is sent again.                                                  *)
ApplyReconcile(s) ==
  LET info        == s.reconcile
      survives(p) == p.acked \/ (p.env.op \notin info.accepted /\ ~Refused(info, p))
  IN  IF info = NoReconcile THEN s
      ELSE [s EXCEPT
              !.reconcile = NoReconcile,
              !.pending = Filtered(@, {i \in DOMAIN @ : survives(@[i])}),
              !.conflicts = @ \cup {[op |-> p.env.op, reason |-> "rejected"] :
                                      p \in {p \in ToSet(s.pending) : Refused(info, p)}}]

(* maybeFinalizeSync: once committed has reached what the server is known   *)
(* to have, the surviving pending operations are sent again.                *)
MaybeFinalizeSync(s) ==
  IF \/ ~s.awaitingSync \/ s.known = NoRevision
     \/ s.buffer # <<>> \/ Expected(s) <= s.known
  THEN s
  ELSE LET settled == IF s.reconcile = NoReconcile THEN s ELSE RebuildView(ApplyReconcile(s))
       IN  ResendAllPending([settled EXCEPT !.awaitingSync = FALSE])

(* reconcileServerOperation: committed takes the next operation, an own one *)
(* leaves pending.                                                          *)
ReconcileServerOperation(s, entry) ==
  RebuildView(WithoutPending(
    [s EXCEPT !.committed = ApplyOperation(@, entry.operation, entry.rev)], entry.op))

(* Slip: whatever has arrived is applied, gap or not.                       *)
ReadyAcrossGaps(s) == [i \in 1..Cardinality(DOMAIN s.buffer) |->
                         s.buffer[SetToSortSeq(DOMAIN s.buffer, <)[i]]]

(* The buffered operations that follow committed without a gap.             *)
Ready(s) ==
  LET upTo(r) == Expected(s)..r
      ready   == {r \in DOMAIN s.buffer : upTo(r) \subseteq DOMAIN s.buffer}
  IN  [i \in 1..Cardinality(ready) |-> s.buffer[s.committed.revision + i]]

(* drainBuffer: apply what follows without a gap; ask for what is missing,  *)
(* once per gap.                                                            *)
DrainBuffer(s) ==
  LET ready   == Ready(s)
      taken   == {e.rev : e \in ToSet(ready)}
      upTo[n \in 0..Len(ready)] ==
        IF n = 0 THEN [s EXCEPT !.buffer = [r \in DOMAIN @ \ taken |-> @[r]]]
        ELSE ReconcileServerOperation(upTo[n - 1], ready[n])
      applied == upTo[Len(ready)]
      gap     == applied.buffer # <<>>
      asked   == IF gap /\ applied.gapRequested # Expected(applied)
                 THEN RequestCatchup([applied EXCEPT !.gapRequested = Expected(applied)])
                 ELSE applied
  IN  MaybeFinalizeSync(IF gap THEN asked ELSE [applied EXCEPT !.gapRequested = NoRevision])

AtLeastKnown(s, revision) == IF revision > s.known THEN revision ELSE s.known

-----------------------------------------------------------------------------
(* Local operations and the clock.                                          *)

OverPendingLimit(s) == ~s.online /\ Len(s.pending) > MaxOfflinePending

(* submitLocalOperation: applied optimistically at once and sent if online, *)
(* even while the session is still catching up.                             *)
SubmitLocalOperation(s, op, operation) ==
  LET env     == [op |-> op, client |-> s.client, seq |-> s.lastSequence + 1,
                  base |-> s.committed.revision, operation |-> operation]
      rebuilt == RebuildView([s EXCEPT
                   !.lastSequence = @ + 1,
                   !.pending = Append(@, [env |-> env, acked |-> FALSE,
                                          ackRevision |-> NoRevision, noop |-> FALSE])])
      sent    == IF s.online THEN Send(rebuilt, Submission(env)) ELSE rebuilt
  IN  [sent EXCEPT !.stopped = OverPendingLimit(sent)]

(* tick: the resend timer has run out.                                      *)
ResendTimer(s) == ResendAllPending(s)

(* tick: the periodic poll for a lost tail.                                 *)
CatchupPoll(s) == IF s.awaitingBootstrap THEN s ELSE RequestCatchup(s)

(* tick: offline for longer than maxOfflineMillis.                          *)
OfflineTooLong(s) == [s EXCEPT !.stopped = TRUE]

-----------------------------------------------------------------------------
(* The connection.                                                          *)

HandleConnected(s) ==
  Send([s EXCEPT
          !.online = TRUE, !.hasConnected = TRUE, !.awaitingSync = TRUE,
          !.known = NoRevision, !.reconcile = NoReconcile,
          !.welcomeSeen = FALSE, !.bufferedBootstrap = NoBootstrap,
          !.bootstrapAccepted = FALSE,
          !.awaitingBootstrap = (s.committed.revision = 0)],
       [type |-> "join", last |-> s.committed.revision,
        pending |-> [i \in DOMAIN Unacked(s) |-> Unacked(s)[i].env.op]])

HandleDisconnected(s) == [s EXCEPT !.online = FALSE]

-----------------------------------------------------------------------------
(* Messages of the server.                                                  *)

(* An acknowledged operation whose effect is in the document at revision.   *)
Covered(p, revision) == p.acked /\ p.ackRevision <= revision

(* A bootstrap replaces committed, unless it is not ahead of it; revision 0 *)
(* (the initial document) is taken once per connection.                     *)
InstallBootstrap(s, m) ==
  LET initial == m.revision = 0 /\ s.committed.revision = 0 /\ ~s.bootstrapAccepted
      replaced == [s EXCEPT
        !.bootstrapAccepted = TRUE,
        !.awaitingBootstrap = FALSE,
        !.committed = DeserializeDocument(m.document),
        !.buffer = [r \in {r \in DOMAIN @ : r > m.revision} |-> @[r]],
        !.known = AtLeastKnown(s, m.revision),
        !.pending = Filtered(@, {i \in DOMAIN @ : ~Covered(@[i], m.revision)})]
  IN  IF m.revision <= s.committed.revision /\ ~initial
      THEN [s EXCEPT !.awaitingBootstrap = FALSE]
      ELSE DrainBuffer(RebuildView(ApplyReconcile(replaced)))

HandleBootstrap(s, m) ==
  IF s.welcomeSeen THEN InstallBootstrap(s, m) ELSE [s EXCEPT !.bufferedBootstrap = m]

(* The reconcile lists of an older welcome that was overtaken are ignored.  *)
HandleWelcome(s, m) ==
  LET greeted == [s EXCEPT
        !.welcomeSeen = TRUE,
        !.known = AtLeastKnown(s, m.revision),
        !.reconcile = IF m.revision >= s.known THEN m.reconcile ELSE @]
      bootstrapFollows ==
        /\ m.revision > 0
        /\ \/ s.committed.revision = 0
           \/ m.revision - s.committed.revision > SnapshotThreshold
      behind == greeted.buffer # <<>> \/ Expected(greeted) <= greeted.known
      ready  == [greeted EXCEPT !.awaitingBootstrap = FALSE]
  IN  IF m.diverged THEN [s EXCEPT !.stopped = TRUE]
      ELSE IF s.bufferedBootstrap # NoBootstrap
           THEN InstallBootstrap([ready EXCEPT !.bufferedBootstrap = NoBootstrap],
                                 s.bufferedBootstrap)
      ELSE IF bootstrapFollows THEN [greeted EXCEPT !.awaitingBootstrap = TRUE]
      ELSE MaybeFinalizeSync(IF behind THEN RequestCatchup(ready) ELSE ready)

(* Operations at or below committed are repetitions.                        *)
HandleOperations(s, m) ==
  LET fresh == {e \in ToSet(m.entries) : e.rev >= Expected(s)}
      at(r) == CHOOSE e \in fresh : e.rev = r
  IN  DrainBuffer([s EXCEPT
        !.buffer = [r \in DOMAIN @ \cup {e.rev : e \in fresh} |->
                      IF \E e \in fresh : e.rev = r THEN at(r) ELSE s.buffer[r]]])

(* An acknowledged operation stays until its echo arrives, unless it was a  *)
(* no-op, which has no echo.                                                *)
HandleAck(s, m) ==
  LET heard == [s EXCEPT !.known = AtLeastKnown(s, m.revision)]
      marked == [heard EXCEPT
        !.pending = [i \in DOMAIN @ |->
          IF @[i].env.op = m.op
          THEN [@[i] EXCEPT !.acked = TRUE, !.ackRevision = m.revision]
          ELSE @[i]]]
  IN  IF \E p \in ToSet(s.pending) : p.env.op = m.op /\ p.noop
      THEN RebuildView(WithoutPending(marked, m.op))
      ELSE marked

(* A sequence violation renumbers the queue if the server expects less than *)
(* the first un-acked number, and resends it in any case.                   *)
HandleSequenceViolation(s, m) ==
  IF Unacked(s) # <<>> /\ m.expected < Unacked(s)[1].env.seq
  THEN ResendAllPending(RebaselinePendingSequence(s, m.expected))
  ELSE ResendAllPending(s)

HandleRejected(s, m) ==
  IF m.code = "client-sequence-violation" THEN HandleSequenceViolation(s, m)
  ELSE IF \A p \in ToSet(s.pending) : p.env.op # m.op THEN s
  ELSE RebuildView([WithoutPending(s, m.op) EXCEPT
         !.conflicts = @ \cup {[op |-> m.op, reason |-> "rejected"]}])

HandleServerMessage(s, m) ==
  CASE m.type = "welcome"           -> HandleWelcome(s, m)
    [] m.type = "bootstrap"         -> HandleBootstrap(s, m)
    [] m.type = "operations"        -> HandleOperations(s, m)
    [] m.type = "operationAck"      -> HandleAck(s, m)
    [] m.type = "operationRejected" -> HandleRejected(s, m)
=============================================================================
