------------------------------- MODULE Collab -------------------------------
(***************************************************************************)
(* Client sessions and one served document, joined by connections that are *)
(* FIFO while they last and may break at any time.                         *)
(*                                                                         *)
(* The server is the sequencer with its durable frontier: the operations   *)
(* up to `durable` are on disk, accepted ones above it wait for their      *)
(* fsync and for their turn in the delivery queue.  DurableRoom has that   *)
(* part in detail; here it is what its specification OrderedLog promises,  *)
(* plus the replies a client gets before the fsync.                        *)
(*                                                                         *)
(* The last section of actions is the faulty network of the in-process     *)
(* test transport, which a socket never shows (MaxFaults = 0).             *)
(***************************************************************************)
EXTENDS ClientSession

CONSTANTS
  OpId,              \* operation ids, one per edit
  Edit,              \* op -> the edit: a write [row, col, value] or a row operation
  Author,            \* op -> the client whose user makes it
  Denied,            \* the operations `authorize` refuses
  InitialDocument,   \* what a new document is created with
  None,              \* no connection to answer to
  \* bounds
  MaxBreaks, MaxRestarts, MaxFaults, MaxFrames

ASSUME AuthorAssumption == Author \in [OpId -> Client]
ASSUME DeniedAssumption == Denied \subseteq OpId
ASSUME BoundsAssumption == {MaxBreaks, MaxRestarts, MaxFaults, MaxFrames} \subseteq Nat
ASSUME NoneAssumption == None \notin Client
ASSUME RowEditAssumption ==
  \A op \in OpId : Edit[op].type \in {"insertRows", "deleteRows"} => IsOperation(Edit[op])
ASSUME InitialAssumption == WellFormed(InitialDocument) /\ InitialDocument.revision = 0

VARIABLES
  session,   \* client -> its session
  up,        \* client -> frames on the way to the server
  down,      \* client -> frames on the way to the client
  late,      \* client -> submits of broken connections the server may still read
  joined,    \* the clients whose connection has joined
  server,    \* the sequencer
  durable,   \* revision of the durable frontier
  waiting,   \* accepted submits not delivered yet: [to, op, rev], oldest first
  issued,    \* client -> the operations it issued, in order
  spent      \* [breaks, restarts, faults], against the bounds, and [unkept]

vars == <<session, up, down, late, joined, server, durable, waiting, issued, spent>>

serverVars == <<server, durable, waiting>>

Init ==
  /\ session = [c \in Client |-> NewSession(c)]
  /\ up = [c \in Client |-> <<>>]
  /\ down = [c \in Client |-> <<>>]
  /\ late = [c \in Client |-> <<>>]
  /\ joined = {}
  /\ server = FreshState(InitialDocument)
  /\ durable = 0
  /\ waiting = <<>>
  /\ issued = [c \in Client |-> <<>>]
  /\ spent = [breaks |-> 0, restarts |-> 0, faults |-> 0, unkept |-> {}]

DurableLog == SubSeq(server.operationLog, 1, durable)

FrontierDocument == Replay(InitialDocument, DurableLog)

Issued == UNION {ToSet(issued[c]) : c \in Client}

(* The session s after a handler, its frames handed to the connection.      *)
Becomes(c, s) ==
  /\ session' = [session EXCEPT ![c] = [s EXCEPT !.out = <<>>]]
  /\ up' = [up EXCEPT ![c] = @ \o s.out]
  /\ Len(up'[c]) <= MaxFrames

-----------------------------------------------------------------------------
(* The user and the clock of a client.                                      *)

Live(doc, r) == Known(doc, r) /\ ~Tombstoned(doc, r)

(* What the editor makes of an edit: a write carries the revision of the    *)
(* cell in the committed document, and is only made on a row alive there;   *)
(* row operations are made on what is on display.                           *)
Editable(s, e) ==
  \/ e.type = "write"      /\ Live(s.committed, e.row)
  \/ e.type = "deleteRows" /\ \A i \in DOMAIN e.rows : Live(View(s), e.rows[i])
  \/ e.type = "insertRows" /\ (e.after = Top \/ Live(View(s), e.after))

OperationOf(s, e) ==
  IF e.type = "write"
  THEN SetCells(<<[row |-> e.row, col |-> e.col,
                   before |-> CellRevision(s.committed, e.row, e.col), value |-> e.value]>>)
  ELSE e

EditLocally(op) ==
  LET c == Author[op]
      s == session[c]
  IN  /\ op \notin Issued
      /\ ~s.stopped
      /\ Editable(s, Edit[op])
      /\ Becomes(c, SubmitLocalOperation(s, op, OperationOf(s, Edit[op])))
      /\ issued' = [issued EXCEPT ![c] = Append(@, op)]
      /\ UNCHANGED <<down, late, joined, serverVars, spent>>

(* Timers are taken to be slower than the network: they run out when        *)
(* nothing is under way.                                                    *)
Quiet(c) == session[c].online /\ ~session[c].stopped /\ up[c] = <<>> /\ down[c] = <<>>

Resend(c) ==
  /\ Quiet(c)
  /\ Unacked(session[c]) # <<>>
  /\ Becomes(c, ResendTimer(session[c]))
  /\ UNCHANGED <<down, late, joined, serverVars, issued, spent>>

Poll(c) ==
  /\ Quiet(c)
  /\ Becomes(c, CatchupPoll(session[c]))
  /\ UNCHANGED <<down, late, joined, serverVars, issued, spent>>

GiveUp(c) ==
  /\ ~session[c].online /\ ~session[c].stopped
  /\ session[c].hasConnected \/ OverPendingLimit(session[c])
  /\ Becomes(c, OfflineTooLong(session[c]))
  /\ UNCHANGED <<down, late, joined, serverVars, issued, spent>>

-----------------------------------------------------------------------------
(* Connections.                                                             *)

Connect(c) ==
  /\ ~session[c].online
  /\ Becomes(c, HandleConnected(session[c]))
  /\ UNCHANGED <<down, late, joined, serverVars, issued, spent>>

Submits(frames) == Filtered(frames, {i \in DOMAIN frames : frames[i].type = "submitOperation"})

Forget(clients) ==
  waiting' = [i \in DOMAIN waiting |->
                IF waiting[i].to \in clients THEN [waiting[i] EXCEPT !.to = None] ELSE waiting[i]]

(* The connection breaks.  What the client has yet to receive is lost; of   *)
(* what it sent, the first n frames still reach the server, at any time.    *)
Break(c, n) ==
  /\ session[c].online
  /\ spent.breaks < MaxBreaks
  /\ spent' = [spent EXCEPT !.breaks = @ + 1]
  /\ session' = [session EXCEPT ![c] = HandleDisconnected(@)]
  /\ late' = [late EXCEPT ![c] = @ \o Submits(SubSeq(up[c], 1, n))]
  /\ up' = [up EXCEPT ![c] = <<>>]
  /\ down' = [down EXCEPT ![c] = <<>>]
  /\ joined' = joined \ {c}
  /\ Forget({c})
  /\ UNCHANGED <<server, durable, issued>>

(* The operations a client holds an ACK of behind revision n.               *)
AckedBehind(n) ==
  {p.env.op : p \in {p \in UNION {ToSet(session[c].pending) : c \in Client} :
                       p.acked /\ p.ackRevision > n}}

(* A restart of the server keeps the log up to n, which covers what was     *)
(* durable, and forgets the sequence slots that left no entry in it.  For   *)
(* the record, `unkept` are the operations that were acknowledged and lost. *)
Restart(n) ==
  /\ spent.restarts < MaxRestarts
  /\ spent' = [spent EXCEPT !.restarts = @ + 1, !.unkept = @ \cup AckedBehind(n)]
  /\ server' = Recovered(PersistedSnapshot(FreshState(InitialDocument)),
                         SubSeq(server.operationLog, 1, n))
  /\ durable' = n
  /\ waiting' = <<>>
  /\ session' = [c \in Client |-> HandleDisconnected(session[c])]
  /\ up' = [c \in Client |-> <<>>]
  /\ down' = [c \in Client |-> <<>>]
  /\ late' = [c \in Client |-> <<>>]
  /\ joined' = {}
  /\ UNCHANGED issued

Receive(c) ==
  /\ down[c] # <<>>
  /\ Becomes(c, HandleServerMessage(session[c], Head(down[c])))
  /\ down' = [down EXCEPT ![c] = Tail(@)]
  /\ UNCHANGED <<late, joined, serverVars, issued, spent>>

-----------------------------------------------------------------------------
(* The server's handlers.                                                   *)

Operations(entries) == [type |-> "operations", entries |-> entries]

Ack(op, revision) == [type |-> "operationAck", op |-> op, revision |-> revision]

(* Slip: catch-ups are answered from memory, ahead of the fsync.            *)
InMemory(after) == OperationsSince(server, after)

(* operationsUpToFrontier *)
UpToFrontier(after) ==
  LET since == OperationsSince(server, after)
  IN  Filtered(since, {i \in DOMAIN since : since[i].rev <= durable})

(* Slip: every known operation counts as accepted, fsync or not.            *)
AcceptedInMemory(c, ops) ==
  [acked    |-> server.clientSequenceTable[c],
   accepted |-> {op \in ToSet(ops) : Acked(server, op)},
   inFlight |-> {}]

(* computeReconcile: sequence slots and ACKs as they are in memory, the     *)
(* latter told apart by the frontier.                                       *)
ReconcileInfo(c, ops) ==
  LET known == {op \in ToSet(ops) : Acked(server, op)}
  IN  [acked    |-> server.clientSequenceTable[c],
       accepted |-> {op \in known : server.ackCache[op] <= durable},
       inFlight |-> {op \in known : server.ackCache[op] > durable}]

ShouldBootstrap(after) ==
  IF after <= 0 THEN durable > 0 \/ FrontierDocument.rowOrder # <<>>
  ELSE durable - after > SnapshotThreshold

JoinAnswer(c, m) ==
  LET welcome == [type |-> "welcome", revision |-> durable,
                  reconcile |-> ReconcileInfo(c, m.pending), diverged |-> m.last > durable]
      missed == UpToFrontier(m.last)
  IN  <<welcome>> \o
      (IF ShouldBootstrap(m.last)
       THEN <<[type |-> "bootstrap", revision |-> durable,
               document |-> SerializeDocument(FrontierDocument)]>>
       ELSE IF missed # <<>> THEN <<Operations(missed)>> ELSE <<>>)

(* handleSubmit and the delivery of its answer to the connection `to`: only *)
(* an accepted operation waits for its fsync.                               *)
SubmitAnswer(e, verdict) ==
  CASE verdict = "duplicate" -> Ack(e.op, server.ackCache[e.op])
    [] verdict = "noop"      -> Ack(e.op, server.currentRevision)
    [] OTHER                 -> [type |-> "operationRejected", op |-> e.op, code |-> verdict,
                                 expected |-> ExpectedSequence(server, e.client)]

Submitting(e, to) ==
  LET verdict == Verdict(server, e, e.op \notin Denied)
  IN  /\ server' = Submitted(server, e, verdict)
      /\ IF verdict = "accepted"
         THEN /\ waiting' = Append(waiting, [to |-> to, op |-> e.op, rev |-> server'.currentRevision])
              /\ UNCHANGED down
         ELSE /\ UNCHANGED waiting
              /\ down' = IF to = None THEN down
                         ELSE [down EXCEPT ![to] = Append(@, SubmitAnswer(e, verdict))]

ServerReceives(c) ==
  /\ up[c] # <<>>
  /\ LET m == Head(up[c])
     IN  \/ /\ m.type = "join"
            /\ joined' = joined \cup {c}
            /\ down' = [down EXCEPT ![c] = @ \o JoinAnswer(c, m)]
            /\ UNCHANGED <<server, waiting>>
         \/ /\ m.type = "submitOperation"
            /\ Submitting(m.env, c)
            /\ UNCHANGED joined
         \/ /\ m.type = "requestCatchup"
            /\ down' = [down EXCEPT ![c] = Append(@, Operations(UpToFrontier(m.after)))]
            /\ UNCHANGED <<joined, server, waiting>>
  /\ Len(down'[c]) <= MaxFrames
  /\ up' = [up EXCEPT ![c] = Tail(@)]
  /\ UNCHANGED <<session, late, durable, issued, spent>>

(* A frame of a broken connection is read; nobody hears the answer.         *)
LateArrives(c) ==
  /\ late[c] # <<>>
  /\ late' = [late EXCEPT ![c] = Tail(@)]
  /\ Submitting(Head(late[c]).env, None)
  /\ UNCHANGED <<session, up, joined, durable, issued, spent>>

Sync ==
  /\ durable < server.currentRevision
  /\ durable' = durable + 1
  /\ UNCHANGED <<session, up, down, late, joined, server, waiting, issued, spent>>

(* The oldest accepted submit leaves the delivery queue: the ACK to its     *)
(* sender, the operation to every connection.                               *)
Dispatch ==
  /\ waiting # <<>>
  /\ Head(waiting).rev <= durable
  /\ waiting' = Tail(waiting)
  /\ LET w == Head(waiting)
         echo == Operations(<<server.operationLog[w.rev]>>)
     IN  down' = [c \in Client |->
           down[c] \o (IF w.to = c THEN <<Ack(w.op, w.rev)>> ELSE <<>>)
                   \o (IF c \in joined THEN <<echo>> ELSE <<>>)]
  /\ UNCHANGED <<session, up, late, joined, server, durable, issued, spent>>

-----------------------------------------------------------------------------
(* Faults of InProcessHub: operations and ACKs may be lost or doubled, any  *)
(* message may be overtaken.                                                *)

Faultable(m) == m.type \in {"operations", "operationAck"}

Fault(c, frames) ==
  /\ spent.faults < MaxFaults
  /\ spent' = [spent EXCEPT !.faults = @ + 1]
  /\ down' = [down EXCEPT ![c] = frames]
  /\ UNCHANGED <<session, up, late, joined, serverVars, issued>>

Lose(c, i)      == Faultable(down[c][i]) /\ Fault(c, RemoveAt(down[c], i))
Duplicate(c, i) == Faultable(down[c][i]) /\ Fault(c, InsertAt(down[c], i, down[c][i]))
Overtake(c, i)  == i > 1 /\ Fault(c, <<down[c][i]>> \o RemoveAt(down[c], i))

-----------------------------------------------------------------------------
Next ==
  \/ \E op \in OpId : EditLocally(op)
  \/ \E c \in Client :
       \/ Resend(c) \/ Poll(c) \/ GiveUp(c)
       \/ Connect(c) \/ Receive(c)
       \/ ServerReceives(c) \/ LateArrives(c)
       \/ \E n \in 0..Len(up[c]) : Break(c, n)
       \/ \E i \in DOMAIN down[c] : Lose(c, i) \/ Duplicate(c, i) \/ Overtake(c, i)
  \/ Sync \/ Dispatch
  \/ \E n \in durable..server.currentRevision : Restart(n)

Spec == Init /\ [][Next]_vars

(* Timers run, the transport reconnects, frames of a lasting connection     *)
(* arrive and are handled, an fsync ends.  No user has to edit, no frame of *)
(* a broken connection has to arrive, and nothing has to fail.  Each        *)
(* conjunct is the weak fairness of its action with ENABLED written out.    *)
Fits(c, s) == Len(up[c]) + Len(s.out) <= MaxFrames

Reply(c) ==
  LET m == Head(up[c])
  IN  IF m.type = "join" THEN Len(JoinAnswer(c, m)) ELSE 1

Fairness ==
  /\ \A c \in Client :
       /\ <>[](~session[c].online) => []<><<Connect(c)>>_vars
       /\ <>[](down[c] # <<>> /\ Fits(c, HandleServerMessage(session[c], Head(down[c]))))
            => []<><<Receive(c)>>_vars
       /\ <>[](up[c] # <<>> /\ Len(down[c]) + Reply(c) <= MaxFrames)
            => []<><<ServerReceives(c)>>_vars
       /\ <>[](Quiet(c) /\ Unacked(session[c]) # <<>>) => []<><<Resend(c)>>_vars
       /\ <>[](Quiet(c) /\ ~session[c].awaitingBootstrap) => []<><<Poll(c)>>_vars
  /\ <>[](durable < server.currentRevision) => []<><<Sync>>_vars
  /\ <>[](waiting # <<>> /\ Head(waiting).rev <= durable) => []<><<Dispatch>>_vars

FairSpec == Spec /\ Fairness

-----------------------------------------------------------------------------
(* Properties.                                                              *)

Frames == {"join", "submitOperation", "requestCatchup"}
Messages == {"welcome", "bootstrap", "operations", "operationAck", "operationRejected"}

(* The type invariant; the frontier and the queue of accepted submits stay  *)
(* within the log.                                                          *)
TypeOK ==
  /\ \A c \in Client :
       /\ session[c].client = c /\ session[c].out = <<>>
       /\ session[c].committed.revision \in Nat
       /\ \A m \in ToSet(up[c]) : m.type \in Frames
       /\ \A m \in ToSet(down[c]) : m.type \in Messages
       /\ \A m \in ToSet(late[c]) : m.type = "submitOperation"
       /\ ToSet(issued[c]) \subseteq OpId
  /\ joined \subseteq {c \in Client : session[c].online}
  /\ durable \in 0..server.currentRevision
  /\ server.currentRevision = Len(server.operationLog)
  /\ \A i \in DOMAIN waiting : waiting[i].rev \in DOMAIN server.operationLog

(* What a client takes for confirmed is the document at some revision of    *)
(* the durable log, whichever of tail, echoes, catch-ups and bootstraps     *)
(* built it (session.ts, handleOperations and handleBootstrap).             *)
CommittedIsDurablePrefix ==
  \A c \in Client :
    LET doc == session[c].committed
    IN  /\ doc.revision <= durable
        /\ doc = Replay(InitialDocument, SubSeq(server.operationLog, 1, doc.revision))
           \/ doc = EmptyDocument

(* The rows an operation deletes are gone in the durable document.          *)
AlreadyDone(op) ==
  /\ Edit[op].type = "deleteRows"
  /\ \A i \in DOMAIN Edit[op].rows : Tombstoned(FrontierDocument, Edit[op].rows[i])

InDurableLog(op) == \E i \in 1..durable : server.operationLog[i].op = op

InConflictQueue(c, op) == \E x \in session[c].conflicts : x.op = op

IsPending(c, op) == \E p \in ToSet(session[c].pending) : p.env.op = op

(* Its user can tell what became of an edit.                                *)
Accounted(c, op) ==
  InDurableLog(op) \/ AlreadyDone(op) \/ IsPending(c, op) \/ InConflictQueue(c, op)

(* No edit is silently lost: it is durable, or still pending, or its user   *)
(* was told in the Conflict Queue (applyReconcile, rebuildView).            *)
NothingSilentlyLost ==
  \A c \in Client : \A op \in ToSet(issued[c]) : Accounted(c, op)

InLog(op) == \E i \in DOMAIN server.operationLog : server.operationLog[i].op = op

(* What the client's own replay gave up: the edit, or one it was based on,  *)
(* no longer applied.                                                       *)
GivenUp(c) == {x.op : x \in {x \in session[c].conflicts : x.reason # "rejected"}}

ReportedRefused(c) == {x.op : x \in {x \in session[c].conflicts : x.reason = "rejected"}}

(* An edit has one fate, over lost races, broken connections and restarts.  *)
(* It is not silently lost; it is reported at most once, is then no longer  *)
(* pending and so never sent again; and one reported as refused is in no    *)
(* log (handleRejected, applyReconcile, rebuildView).  Three exceptions.    *)
(* An edit that was acknowledged to a resend before its fsync may be lost   *)
(* in a restart (sequencer.ts:102-105).  One the replay gave up may have    *)
(* been sent before or is sent all the same (session.ts:260-263): it was    *)
(* reported, and may be in the log.  And where that happens, the slot it    *)
(* takes may be the one a later edit was renumbered to, which is then       *)
(* reported as refused while a frame of it is still on its way              *)
(* (session.ts:434-435, 737-745).                                           *)
EditsHaveOneFate ==
  \A c \in Client :
    /\ \A op \in ToSet(issued[c]) \ spent.unkept : Accounted(c, op)
    /\ \A x \in session[c].conflicts : ~IsPending(c, x.op)
    /\ \A x, y \in session[c].conflicts : x.op = y.op => x = y
    /\ \A op \in ReportedRefused(c) : InLog(op) => \E given \in GivenUp(c) : InLog(given)

(* An acknowledged entry waits for an echo that is still to come; once      *)
(* committed is past its revision it has left the queue, or the view would  *)
(* show its effect for ever (handleAck, rebuildView, handleBootstrap).      *)
AckedAwaitsItsEcho ==
  \A c \in Client : \A p \in ToSet(session[c].pending) :
    p.acked => p.ackRevision > session[c].committed.revision

(* The edits of one user enter the log in the order they were made, unless  *)
(* one of the two is in the Conflict Queue: an edit given up with the edits *)
(* it was based on may have been sent before, and its frame may still be on *)
(* the way (session.ts:650-668, 737-745).                                   *)
LoggedInIssueOrder ==
  \A i, j \in DOMAIN server.operationLog :
    LET a == server.operationLog[i]
        b == server.operationLog[j]
    IN  i < j /\ a.client = b.client =>
          \/ \E m, n \in DOMAIN issued[a.client] :
               m < n /\ issued[a.client][m] = a.op /\ issued[a.client][n] = b.op
          \/ \E x \in {a.op, b.op} : InConflictQueue(a.client, x)

(* Server and sessions together keep the promise of OrderedLog, with the    *)
(* users for the outside: an operation counts as told once it is in some    *)
(* client's committed document.                                             *)
Promise == INSTANCE OrderedLog WITH
  Op      <- OpId,
  log     <- [i \in DOMAIN server.operationLog |-> server.operationLog[i].op],
  durable <- durable,
  told    <- {<<server.operationLog[i].op, i>> :
               i \in 1..Max({0} \cup {session[c].committed.revision : c \in Client})}

ImplementsOrderedLog == Promise!Spec

(* Everything is settled: queues empty, every client on the server's        *)
(* document.                                                                *)
Converged ==
  \A c \in Client :
    \/ session[c].stopped
    \/ /\ session[c].pending = <<>>
       /\ session[c].committed = server.document

(* All clients that were not stopped end up with an empty queue and the     *)
(* server's document, whatever was lost, doubled or broken in between.  The *)
(* exception: a restart may forget an operation that was acknowledged to a  *)
(* resend before its fsync, which its client then never sends again.        *)
EventuallyConverged == <>[](Converged \/ spent.restarts > 0)
=============================================================================
