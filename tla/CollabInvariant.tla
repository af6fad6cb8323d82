-------------------------- MODULE CollabInvariant --------------------------
(***************************************************************************)
(* The inductive invariant behind the safety of Collab: what the server    *)
(* keeps, what is on its way, and what the sessions hold are all of one    *)
(* log.  The parts are stated for a log and a durable frontier d, so that  *)
(* they can be carried from one to the next.                               *)
(***************************************************************************)
EXTENDS Collab

IsList(q) == q \in Seq(ToSet(q))

EnvelopeSound(e) ==
  /\ DOMAIN e = {"op", "client", "seq", "base", "operation"}
  /\ e.op \in OpId
  /\ IsOperation(e.operation)

PendingSound(p) ==
  /\ DOMAIN p = {"env", "acked", "ackRevision", "noop"}
  /\ EnvelopeSound(p.env)

FrameSound(m) == m.type = "submitOperation" => EnvelopeSound(m.env)

FramesSound(q) == IsList(q) /\ \A m \in ToSet(q) : FrameSound(m)

QueueSound(q) == IsList(q) /\ \A p \in ToSet(q) : PendingSound(p)

-----------------------------------------------------------------------------
(* What the server sends.                                                   *)

(* A bootstrap is the document of its revision, which is durable.           *)
BootstrapSound(m, log, d) ==
  /\ m.revision \in 0..d
  /\ m.document = SerializeDocument(Replay(InitialDocument, SubSeq(log, 1, m.revision)))

(* Operations are entries of the durable log.                               *)
EntriesSound(entries, log, d) ==
  \A e \in ToSet(entries) : e.rev \in 1..d /\ e = log[e.rev]

MessageSound(m, log, d) ==
  /\ m.type \in Messages
  /\ m.type = "bootstrap" => BootstrapSound(m, log, d)
  /\ m.type = "operations" => EntriesSound(m.entries, log, d)

MessagesSound(q, log, d) == IsList(q) /\ \A m \in ToSet(q) : MessageSound(m, log, d)

-----------------------------------------------------------------------------
(* What a session holds.                                                    *)

SessionFields ==
  {"client", "committed", "pending", "conflicts", "buffer", "gapRequested", "known",
   "lastSequence", "online", "hasConnected", "stopped", "awaitingSync", "awaitingBootstrap",
   "reconcile", "welcomeSeen", "bootstrapAccepted", "bufferedBootstrap", "out"}

Shaped(s) ==
  /\ DOMAIN s = SessionFields
  /\ QueueSound(s.pending)
  /\ FramesSound(s.out)

(* The committed document is at a durable revision, and what the log up to  *)
(* there makes of the document it started from.                             *)
CommittedSound(doc, log, d) ==
  /\ IsDocument(doc)
  /\ doc.revision \in 0..d
  /\ \E base \in {EmptyDocument, InitialDocument} :
       doc = Replay(base, SubSeq(log, 1, doc.revision))

(* The buffer has durable entries behind the committed document only.       *)
BufferSound(s, log, d) ==
  \A r \in DOMAIN s.buffer : r \in s.committed.revision + 1 .. d /\ s.buffer[r] = log[r]

SessionSound(s, log, d) ==
  /\ Shaped(s)
  /\ CommittedSound(s.committed, log, d)
  /\ BufferSound(s, log, d)
  /\ s.bufferedBootstrap # NoBootstrap => BootstrapSound(s.bufferedBootstrap, log, d)

-----------------------------------------------------------------------------
(* What the server keeps.                                                   *)

(* The log replays to the served document at every revision, and has every  *)
(* operation once, all of them acknowledged.                                *)
ServerSound(s) ==
  /\ StateSound(s)
  /\ ReplaysSoundly(InitialDocument, s.operationLog)
  /\ s.document = Replay(InitialDocument, s.operationLog)
  /\ \A i \in DOMAIN s.operationLog :
       LET e == s.operationLog[i]
       IN  e.op \in OpId /\ IsOperation(e.operation) /\ e.op \in DOMAIN s.ackCache
  /\ \A i, j \in DOMAIN s.operationLog : s.operationLog[i].op = s.operationLog[j].op => i = j

(* Those waiting for their delivery are in the log.                         *)
WaitingSound(queue, log) ==
  /\ IsList(queue)
  /\ \A w \in ToSet(queue) : DOMAIN w = {"to", "op", "rev"} /\ w.rev \in DOMAIN log

ClientSound(c) ==
  /\ SessionSound(session[c], server.operationLog, durable)
  /\ session[c].out = <<>>
  /\ FramesSound(up[c])
  /\ FramesSound(late[c])
  /\ \A m \in ToSet(late[c]) : m.type = "submitOperation"
  /\ MessagesSound(down[c], server.operationLog, durable)

CollabInv ==
  /\ ServerSound(server)
  /\ durable \in 0..Len(server.operationLog)
  /\ WaitingSound(waiting, server.operationLog)
  /\ session = [c \in Client |-> session[c]]
  /\ up = [c \in Client |-> up[c]]
  /\ late = [c \in Client |-> late[c]]
  /\ down = [c \in Client |-> down[c]]
  /\ \A c \in Client : ClientSound(c)

-----------------------------------------------------------------------------
(* Where the committed document of a client comes from, when every          *)
(* connection delivers in order.                                            *)

(* doc is what the log up to its revision makes of base.                    *)
BuiltOn(base, doc, log) == doc = Replay(base, SubSeq(log, 1, doc.revision))

OnInitial(s, log) == BuiltOn(InitialDocument, s.committed, log)

JoinsFirst(frames) == frames # <<>> /\ Head(frames).type = "join" /\ Head(frames).last = 0

(* A bootstrap is under way, with no operations ahead of it, and the        *)
(* welcome it belongs to is ahead of it or has arrived.                     *)
BootstrapComes(s, messages) ==
  \E i \in DOMAIN messages :
    /\ messages[i].type = "bootstrap"
    /\ \A j \in 1..i-1 :
         /\ messages[j].type \notin {"bootstrap", "operations"}
         /\ messages[j].type = "welcome" => ~messages[j].diverged
    /\ s.welcomeSeen \/ \E j \in 1..i-1 : messages[j].type = "welcome"

(* A session that has no document yet: nothing reaches it ahead of the      *)
(* bootstrap that answers its join.                                         *)
Awaits(s, frames, messages, hasJoined) ==
  /\ s.committed = EmptyDocument
  /\ DOMAIN s.buffer = {}
  /\ ~s.bootstrapAccepted
  /\ ~s.online => frames = <<>> /\ messages = <<>> /\ ~hasJoined
  /\ s.online => s.bufferedBootstrap = NoBootstrap
  /\ s.online /\ ~hasJoined => messages = <<>> /\ JoinsFirst(frames)
  /\ hasJoined => BootstrapComes(s, messages)

FirstContact(c) ==
  /\ Awaits(session[c], up[c], down[c], c \in joined)
  /\ c \notin joined => \A w \in ToSet(waiting) : w.to # c

InOrder(c) == OnInitial(session[c], server.operationLog) \/ FirstContact(c)

InOrderInv ==
  /\ DOMAIN spent = {"breaks", "restarts", "faults", "unkept"}
  /\ spent.faults \in Nat
  /\ \A c \in Client : InOrder(c)
=============================================================================
