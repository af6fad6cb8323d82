--------------------------- MODULE DocumentServer ---------------------------
(***************************************************************************)
(* The WebSocket server of packages/server-hono around its rooms: the      *)
(* registry of documents, which are added and removed while the server     *)
(* runs, the sockets that authenticate, upgrade, join and leave, the       *)
(* presence of the joined connections, and stop.                           *)
(*                                                                         *)
(* A runtime (a room with its bridge and its stores) is a number, counted  *)
(* up as addDocument creates them.  What the room does with an operation   *)
(* is DurableRoom's subject; here a submit is an entry of the bridge's     *)
(* delivery queue that its append ends, well or badly.  A store is closed  *)
(* by its own code, which need not wait for the appends under way (an      *)
(* injected store; the file store does wait).                              *)
(*                                                                         *)
(* Time is left out: a connection may at any moment have been silent for   *)
(* longer than the TTL.  A frame of a socket is one step, and what it      *)
(* makes the room send is queued at the sockets in the same step, but for  *)
(* the delta of a presence: a room with a store answers it in a microtask, *)
(* which the further frames of the same chunk of the socket precede.  (A   *)
(* room in memory answers at once: DispatchDelta follows directly.)        *)
(***************************************************************************)
EXTENDS Integers, Sequences, FiniteSets, SequencesExt, Functions

CONSTANTS
  Doc,           \* document ids
  None,
  MaxSockets,    \* bound on the TCP connections open together
  MaxRuntimes,   \* bound on the runtimes ever created
  MaxArrivals,   \* bound on runtimes and TCP connections ever made, together
  MaxPresence,   \* bound on the presence messages of a connection
  MaxSubmits,    \* bound on the submits of a behaviour
  MaxFailures    \* bound on failing recoveries (with their clean-up), appends and closes

ASSUME ServerBounds ==
  /\ {MaxSockets, MaxRuntimes, MaxArrivals, MaxPresence, MaxSubmits, MaxFailures} \subseteq Nat
  /\ IsFiniteSet(Doc) /\ Cardinality(Doc) <= MaxRuntimes
  /\ None \notin Nat

VARIABLES
  runtime,     \* runtime number -> its document, bridge, presence registry and store
  runtimes,    \* runtimes of startServer: the runtime serving a document
  retiring,    \* retiringRuntimes: taken off the registry, store not closed yet
  work,        \* the addition or removal under way for a document
  stop,        \* how far RunningServer.close has come
  socket,      \* socket -> [phase, at]
  down,        \* presence messages on their way to a client
  known,       \* knownPresence of the client's session
  undelivered, \* deltas whose microtask has not run, all of one connection
  spent        \* counters of the bounds, and what the properties remember

vars == <<runtime, runtimes, retiring, work, stop, socket, down, known, undelivered, spent>>

docVars == <<runtimes, retiring, work, stop>>
Runtime == DOMAIN runtime
Socket == 1..MaxSockets

Closed == stop # "running"

(* No microtask waits: the event loop takes the next task.                  *)
NextTask == undelivered = <<>> /\ UNCHANGED undelivered

-----------------------------------------------------------------------------
(* The presence registry: connection -> [color, seq, idle]; seq is the last *)
(* presence accepted, 0 before the first.                                   *)

Colors(reg) == {reg[c].color : c \in DOMAIN reg}

AllocateColor(reg) ==
  CHOOSE n \in 0..Cardinality(DOMAIN reg) :
    n \notin Colors(reg) /\ \A m \in 0..n-1 : m \in Colors(reg)

Register(reg, s) ==
  [c \in DOMAIN reg \cup {s} |->
     IF c = s THEN [color |-> AllocateColor(reg), seq |-> 0, idle |-> FALSE] ELSE reg[c]]

Touch(reg, s) == [reg EXCEPT ![s].idle = FALSE]

Shown(reg) == {c \in DOMAIN reg : reg[c].seq > 0}

Snapshot(reg) == [c \in Shown(reg) |-> reg[c].seq]

Without(reg, S) == Restrict(reg, DOMAIN reg \ S)

-----------------------------------------------------------------------------
(* The bridge.  `socket[s].at` is the runtime whose bridge listens to s; a  *)
(* socket leaves metaByWs and the connection tables together.               *)

Attached(i) == {s \in Socket : socket[s].phase = "open" /\ socket[s].at = i}

(* dispatch to every connection of a room: what reaches a socket the server *)
(* is closing is never read.                                                *)
Fanned(queues, to, messages) ==
  [s \in Socket |-> IF s \in to THEN queues[s] \o messages ELSE queues[s]]

(* Slip: the room forgets the connection and tells nobody.                  *)
FarewellsUnsaid(reg, S) == down

(* presenceRemoved for the connections of S that had shown themselves, to   *)
(* the connections that stay.                                               *)
Farewells(reg, S) ==
  Fanned(down, DOMAIN reg \ S,
         SetToSeq({[type |-> "removed", from |-> c] : c \in S \cap Shown(reg)}))

Absent == [phase |-> "closed", at |-> None]

Shut(S) == [s \in Socket |-> IF s \in S THEN [socket[s] EXCEPT !.phase = "closing"] ELSE socket[s]]

(* closeSocket: onClose, then ws.close; `r` is the runtime after whatever   *)
(* else the step did to it.                                                 *)
CloseSockets(i, r, S) ==
  /\ runtime' = [runtime EXCEPT ![i] = [r EXCEPT !.presence = Without(@, S)]]
  /\ down' = Farewells(r.presence, S \cap DOMAIN r.presence)
  /\ socket' = Shut(S)

(* The event close of a socket, whoever closed it: onClose.                 *)
Gone(s) ==
  LET i == socket[s].at
      left == {s} \cap DOMAIN runtime[i].presence
  IN  /\ NextTask
      /\ socket[s].phase \in {"open", "closing"}
      /\ runtime' = [runtime EXCEPT ![i].presence = Without(@, left)]
      /\ down' = [Farewells(runtime[i].presence, left) EXCEPT ![s] = <<>>]
      /\ known' = [known EXCEPT ![s] = <<>>]
      /\ socket' = [socket EXCEPT ![s] = Absent]
      /\ UNCHANGED <<docVars, spent>>

-----------------------------------------------------------------------------
(* Frames of a client.  After retire or closeSocket they are dropped.       *)

Listening(s) ==
  /\ socket[s].phase = "open"
  /\ ~runtime[socket[s].at].retired

Join(s) ==
  LET i   == socket[s].at
      reg == Register(runtime[i].presence, s)
  IN  /\ NextTask
      /\ Listening(s)
      /\ s \notin DOMAIN runtime[i].presence
      /\ runtime' = [runtime EXCEPT ![i].presence = reg]
      /\ down' = [down EXCEPT ![s] = Append(@, [type |-> "snapshot", users |-> Snapshot(reg)])]
      /\ UNCHANGED <<docVars, socket, known, spent>>

(* Between a presence and its microtask only frames of the same chunk come. *)
InChunkOf(s) == \A m \in ToSet(undelivered) : m.from = s

Presence(s) ==
  LET i   == socket[s].at
      reg == runtime[i].presence
  IN  /\ Listening(s) /\ s \in DOMAIN reg /\ InChunkOf(s)
      /\ reg[s].seq < MaxPresence
      /\ runtime' = [runtime EXCEPT ![i].presence =
                       [Touch(reg, s) EXCEPT ![s].seq = @ + 1]]
      /\ undelivered' = Append(undelivered, [type |-> "delta", from |-> s, seq |-> reg[s].seq + 1])
      /\ UNCHANGED <<docVars, socket, down, known, spent>>

(* Its microtask: the others are those of the registry at this moment.      *)
DispatchDelta ==
  /\ undelivered # <<>>
  /\ LET m == Head(undelivered)
     IN  down' = Fanned(down, DOMAIN runtime[socket[m.from].at].presence \ {m.from}, <<m>>)
  /\ undelivered' = Tail(undelivered)
  /\ UNCHANGED <<runtime, docVars, socket, known, spent>>

Heartbeat(s) ==
  LET i == socket[s].at
  IN  /\ NextTask
      /\ Listening(s) /\ s \in DOMAIN runtime[i].presence
      /\ runtime[i].presence[s].idle
      /\ runtime' = [runtime EXCEPT ![i].presence = Touch(@, s)]
      /\ UNCHANGED <<docVars, socket, down, known, spent>>

(* A frame that is no message, or names another document on a strict        *)
(* connection: the socket is cut.  Its farewell overtakes a presence of     *)
(* the same chunk.                                                          *)
BadFrame(s) ==
  LET i == socket[s].at
  IN  /\ Listening(s) /\ InChunkOf(s)
      /\ CloseSockets(i, runtime[i], {s})
      /\ spent' = [spent EXCEPT !.overtaken = IF undelivered = <<>> THEN @ ELSE @ \cup {s}]
      /\ UNCHANGED <<docVars, known, undelivered>>

(* submitOperation of a client or, with `s` = None, of the host of the      *)
(* server.  A poisoned room refuses at once, which cuts the client off;     *)
(* so does a closed store, and poisons the room.                            *)
Enqueue(i, s) ==
  /\ NextTask
  /\ spent.submits < MaxSubmits
  /\ spent' = [spent EXCEPT !.submits = @ + 1]
  /\ LET r == runtime[i]
         broken == r.poisoned \/ r.store # "open"
     IN  IF broken
         THEN CloseSockets(i, [r EXCEPT !.poisoned = TRUE], {s} \ {None})
         ELSE /\ runtime' = [runtime EXCEPT ![i].queue = Append(@, s)]
              /\ UNCHANGED <<down, socket>>
  /\ UNCHANGED <<docVars, known>>

Submit(s) ==
  /\ Listening(s) /\ s \in DOMAIN runtime[socket[s].at].presence
  /\ Enqueue(socket[s].at, s)

SubmitFromServer(d) ==
  /\ ~Closed /\ runtimes[d] # None
  /\ Enqueue(runtimes[d], None)

(* The append of the first submit in the queue ends: it is answered, and    *)
(* the loop delivers it.                                                    *)
Settle(i) ==
  /\ NextTask
  /\ runtime[i].queue # <<>>
  /\ runtime' = [runtime EXCEPT ![i].queue = Tail(@)]
  /\ UNCHANGED <<docVars, socket, down, known, spent>>

Fails == spent.failures < MaxFailures /\ spent' = [spent EXCEPT !.failures = @ + 1]

(* It fails: every submit that waits fails with it, and their connections   *)
(* are cut.                                                                 *)
AppendFails(i) ==
  LET r == runtime[i]
  IN  /\ NextTask
      /\ Fails /\ r.queue # <<>>
      /\ CloseSockets(i, [r EXCEPT !.queue = <<>>, !.poisoned = TRUE],
                      ToSet(r.queue) \cap Attached(i))
      /\ UNCHANGED <<docVars, known>>

(* A connection has been silent for longer than the TTL.                    *)
FallsSilent(i, s) ==
  /\ NextTask
  /\ s \in DOMAIN runtime[i].presence /\ ~runtime[i].presence[s].idle
  /\ runtime' = [runtime EXCEPT ![i].presence[s].idle = TRUE]
  /\ UNCHANGED <<docVars, socket, down, known, spent>>

(* The sweep timer, for one of the documents served.                        *)
Sweep(i) ==
  LET reg     == runtime[i].presence
      expired == {s \in DOMAIN reg : reg[s].idle}
  IN  /\ NextTask
      /\ stop \in {"running", "waiting"}
      /\ i \in Range(runtimes) /\ expired # {}
      /\ CloseSockets(i, runtime[i], expired)
      /\ UNCHANGED <<docVars, known, spent>>

-----------------------------------------------------------------------------
(* Sockets on their way to a bridge.                                        *)

(* The number of a socket that is gone is taken again once the server holds *)
(* nothing of it; a connection id, by which clients know one another, is    *)
(* never used twice.                                                        *)
Free(s) ==
  /\ socket[s].phase = "closed" /\ s \notin spent.overtaken
  /\ \A i \in Runtime : s \notin ToSet(runtime[i].queue)

(* The server takes connections until http.Server.close.                    *)
Upgrade(s) ==
  /\ NextTask
  /\ Free(s) /\ \A t \in 1..s-1 : ~Free(t)
  /\ stop \notin {"http", "done"} /\ spent.upgrades + Cardinality(Runtime) < MaxArrivals
  /\ socket' = [socket EXCEPT ![s].phase = "authenticating"]
  /\ spent' = [spent EXCEPT !.upgrades = @ + 1, !.late = @ \/ stop = "wss"]
  /\ UNCHANGED <<runtime, docVars, down, known>>

(* The hook refuses or throws, or the peer gives up while it waits.         *)
Refused(s) ==
  /\ NextTask
  /\ socket[s].phase = "authenticating"
  /\ socket' = [socket EXCEPT ![s] = Absent]
  /\ UNCHANGED <<runtime, docVars, down, known, spent>>

(* acceptUpgrade: 404 for a document that is not served.                    *)
AcceptUpgrade(s, d) ==
  /\ NextTask
  /\ socket[s].phase = "authenticating"
  /\ socket' = [socket EXCEPT ![s] =
                  IF runtimes[d] = None THEN Absent
                                        ELSE [phase |-> "upgrading", at |-> runtimes[d]]]
  /\ UNCHANGED <<runtime, docVars, down, known, spent>>

(* The registry is read again, and a retired bridge takes no one.           *)
StillServed(i) == runtimes[runtime[i].doc] = i /\ ~runtime[i].retired

(* The handshake ends; the WebSocket server itself turns it down once it    *)
(* is closing.                                                              *)
Connect(s) ==
  /\ NextTask
  /\ socket[s].phase = "upgrading"
  /\ socket' = [socket EXCEPT ![s] =
                  IF StillServed(socket[s].at) /\ stop \notin {"wss", "http", "done"}
                  THEN [@ EXCEPT !.phase = "open"] ELSE Absent]
  /\ UNCHANGED <<runtime, docVars, down, known, spent>>

(* What a message makes of the presences the client of s knows.             *)
Heard(view, s, m) ==
  CASE m.type = "snapshot" -> Without(m.users, {s})
    [] m.type = "delta"    -> [c \in DOMAIN view \cup {m.from} |->
                                 IF c = m.from THEN m.seq ELSE view[c]]
    [] m.type = "removed"  -> Without(view, {m.from})

(* The client reads a message.                                              *)
Read(s) ==
  /\ NextTask
  /\ socket[s].phase = "open" /\ down[s] # <<>>
  /\ down' = [down EXCEPT ![s] = Tail(@)]
  /\ known' = [known EXCEPT ![s] = Heard(@, s, Head(down[s]))]
  /\ UNCHANGED <<runtime, docVars, socket, spent>>

-----------------------------------------------------------------------------
(* Documents come and go.                                                   *)

Idle == [step |-> "idle", of |-> None]

(* Slip: a runtime whose store would not close does not stand in the way.   *)
MayAddIgnoringRetiring(d) == ~Closed /\ runtimes[d] = None /\ work[d] = Idle

MayAdd(d) ==
  /\ ~Closed
  /\ runtimes[d] = None /\ work[d] = Idle /\ retiring[d] = None

NewRuntime(d) ==
  [doc |-> d, retired |-> FALSE, presence |-> <<>>, queue |-> <<>>,
   poisoned |-> FALSE, store |-> "open"]

(* addDocument opens the stores and recovers.                               *)
AddDocument(d) ==
  LET i == Cardinality(Runtime) + 1
  IN  /\ NextTask
      /\ MayAdd(d) /\ i <= MaxRuntimes /\ spent.upgrades + i <= MaxArrivals
      /\ runtime' = [j \in 1..i |-> IF j = i THEN NewRuntime(d) ELSE runtime[j]]
      /\ work' = [work EXCEPT ![d] = [step |-> "recovering", of |-> i]]
      /\ UNCHANGED <<runtimes, retiring, stop, socket, down, known, spent>>

(* Recovery is done.  A server that stopped meanwhile does not serve the    *)
(* document: its stores are closed again.                                   *)
Recovered(d) ==
  LET i == work[d].of
  IN  /\ NextTask
      /\ work[d].step = "recovering"
      /\ IF Closed
         THEN /\ retiring' = [retiring EXCEPT ![d] = i]
              /\ work' = [work EXCEPT ![d].step = "closing"]
              /\ UNCHANGED runtimes
         ELSE /\ runtimes' = [runtimes EXCEPT ![d] = i]
              /\ work' = [work EXCEPT ![d] = Idle]
              /\ UNCHANGED retiring
      /\ UNCHANGED <<runtime, stop, socket, down, known, spent>>

(* Recovery fails: createDocumentRuntime closes what it opened, quietly.    *)
(* A store that will not close then is nobody's: no table names it, and     *)
(* nothing reports it.                                                      *)
RecoveryFails(d) ==
  LET i == work[d].of
  IN  /\ NextTask
      /\ work[d].step = "recovering" /\ spent.failures < MaxFailures
      /\ \/ /\ runtime' = [runtime EXCEPT ![i].store = "closed"]
            /\ spent' = [spent EXCEPT !.failures = @ + 1]
         \/ /\ spent' = [spent EXCEPT !.failures = @ + 1, !.leaked = @ \cup {i}]
            /\ UNCHANGED runtime
      /\ work' = [work EXCEPT ![d] = Idle]
      /\ UNCHANGED <<runtimes, retiring, stop, socket, down, known>>

(* Slip: retire cuts the connections that have joined and no others.        *)
RetiredSocketsJoined(i) == DOMAIN runtime[i].presence

(* retire cuts every socket the bridge listens to, joined or not.           *)
RetiredSockets(i) == Attached(i)

(* removeDocument, of a document that is served or whose stores would not   *)
(* close the last time: steps 1 to 3.                                       *)
RemoveDocument(d) ==
  LET i == IF runtimes[d] # None THEN runtimes[d] ELSE retiring[d]
  IN  /\ NextTask
      /\ ~Closed /\ work[d] = Idle /\ i # None
      /\ runtimes' = [runtimes EXCEPT ![d] = None]
      /\ retiring' = [retiring EXCEPT ![d] = i]
      /\ work' = [work EXCEPT ![d] = [step |-> "draining", of |-> i]]
      /\ CloseSockets(i, [runtime[i] EXCEPT !.retired = TRUE], RetiredSockets(i))
      /\ UNCHANGED <<stop, known, spent>>

(* whenDrained.                                                             *)
Drained(i) == runtime[i].queue = <<>>

(* Step 4 ends: the stores are closed next.                                 *)
Drain(d) ==
  /\ NextTask
  /\ work[d].step = "draining" /\ Drained(work[d].of)
  /\ work' = [work EXCEPT ![d].step = "closing"]
  /\ UNCHANGED <<runtime, runtimes, retiring, stop, socket, down, known, spent>>

(* Step 5, and the close of an addition that came too late.                 *)
CloseStores(d) ==
  /\ NextTask
  /\ work[d].step = "closing"
  /\ runtime' = [runtime EXCEPT ![work[d].of].store = "closed"]
  /\ retiring' = [retiring EXCEPT ![d] = None]
  /\ work' = [work EXCEPT ![d] = Idle]
  /\ UNCHANGED <<runtimes, stop, socket, down, known, spent>>

(* It fails: the runtime stays where a retry and stop find it.              *)
CloseStoresFails(d) ==
  /\ NextTask
  /\ Fails /\ work[d].step = "closing"
  /\ work' = [work EXCEPT ![d] = Idle]
  /\ UNCHANGED <<runtime, runtimes, retiring, stop, socket, down, known>>

-----------------------------------------------------------------------------
(* RunningServer.close.                                                     *)

Stop ==
  /\ NextTask
  /\ ~Closed
  /\ stop' = "waiting"
  /\ UNCHANGED <<runtime, runtimes, retiring, work, socket, down, known, spent>>

(* The additions and removals under way have ended.                         *)
StopDocuments ==
  /\ NextTask
  /\ stop = "waiting" /\ \A d \in Doc : work[d] = Idle
  /\ stop' = "stores"
  /\ UNCHANGED <<runtime, runtimes, retiring, work, socket, down, known, spent>>

(* Slip: stop closes the documents on the registry only.                    *)
ToCloseServed == Range(runtimes) \ {None}

(* Those served and those still retiring, one per document.                 *)
ToClose == {IF retiring[d] # None THEN retiring[d] ELSE runtimes[d] : d \in Doc} \ {None}

(* Slip: stop leaves the sockets in authentication to their hooks.          *)
StopSocketsUpgraded == Shut({s \in Socket : socket[s].phase = "open"})

(* Sockets in authentication are destroyed and clients terminated.          *)
StopSockets ==
  [s \in Socket |-> IF socket[s].phase = "authenticating" THEN Absent
                     ELSE Shut({t \in Socket : socket[t].phase = "open"})[s]]

(* closeRuntimes goes through them all, whatever fails; then the sockets    *)
(* follow.                                                                  *)
StopStores ==
  \E failed \in SUBSET ToClose :
    /\ NextTask
    /\ stop = "stores"
    /\ spent.failures + Cardinality(failed) <= MaxFailures
    /\ spent' = [spent EXCEPT !.failures = @ + Cardinality(failed), !.unclosed = failed]
    /\ runtime' = [i \in Runtime |->
                     IF i \in ToClose \ failed THEN [runtime[i] EXCEPT !.store = "closed"]
                                               ELSE runtime[i]]
    /\ socket' = StopSockets
    /\ stop' = "wss"
    /\ UNCHANGED <<runtimes, retiring, work, down, known>>

(* The WebSocket server has closed with its last client, and the HTTP       *)
(* server stops listening.                                                  *)
StopListening ==
  /\ NextTask
  /\ stop = "wss" /\ \A s \in Socket : socket[s].phase \notin {"open", "closing"}
  /\ stop' = "http"
  /\ UNCHANGED <<runtime, runtimes, retiring, work, socket, down, known, spent>>

(* The HTTP server has closed with its last socket.                         *)
StopDone ==
  /\ NextTask
  /\ stop = "http" /\ \A s \in Socket : socket[s].phase = "closed"
  /\ stop' = "done"
  /\ UNCHANGED <<runtime, runtimes, retiring, work, socket, down, known, spent>>

-----------------------------------------------------------------------------
(* Start: some documents are served, the others are in quarantine or were   *)
(* never configured.                                                        *)
Init ==
  \E served \in SUBSET Doc :
    LET number == CHOOSE f \in [served -> 1..Cardinality(served)] : IsInjective(f)
    IN  /\ runtime = [i \in 1..Cardinality(served) |->
                        NewRuntime(CHOOSE d \in served : number[d] = i)]
        /\ runtimes = [d \in Doc |-> IF d \in served THEN number[d] ELSE None]
        /\ retiring = [d \in Doc |-> None]
        /\ work = [d \in Doc |-> Idle]
        /\ stop = "running"
        /\ socket = [s \in Socket |-> Absent]
        /\ down = [s \in Socket |-> <<>>]
        /\ known = [s \in Socket |-> <<>>]
        /\ undelivered = <<>>
        /\ spent = [upgrades |-> 0, submits |-> 0, failures |-> 0, unclosed |-> {},
                     leaked |-> {}, overtaken |-> {}, late |-> FALSE]

Next ==
  \/ \E s \in Socket :
       \/ Presence(s) \/ BadFrame(s) \/ Gone(s) \/ Join(s) \/ Heartbeat(s) \/ Submit(s)
       \/ Upgrade(s) \/ Refused(s) \/ Connect(s) \/ Read(s)
       \/ \E d \in Doc : AcceptUpgrade(s, d)
       \/ \E i \in Runtime : FallsSilent(i, s)
  \/ \E i \in Runtime : Settle(i) \/ AppendFails(i) \/ Sweep(i)
  \/ \E d \in Doc :
       \/ SubmitFromServer(d) \/ AddDocument(d) \/ Recovered(d) \/ RecoveryFails(d)
       \/ RemoveDocument(d) \/ Drain(d) \/ CloseStores(d) \/ CloseStoresFails(d)
  \/ DispatchDelta \/ Stop \/ StopDocuments \/ StopStores \/ StopListening \/ StopDone

Spec == Init /\ [][Next]_vars

(* Microtasks run, recovery, appends, closes and handshakes end, and a      *)
(* socket that was closed on either side emits close.  No hook has to       *)
(* answer, no peer has to leave by itself.                                  *)
Fairness ==
  /\ WF_vars(DispatchDelta)
  /\ \A d \in Doc : WF_vars(Recovered(d) \/ Drain(d) \/ CloseStores(d))
  /\ WF_vars(\E i \in Runtime : Settle(i))
  /\ \A s \in Socket : WF_vars(Connect(s) \/ (socket[s].phase = "closing" /\ Gone(s)))
  /\ WF_vars(StopDocuments \/ StopStores \/ StopListening \/ StopDone)

FairSpec == Spec /\ Fairness

-----------------------------------------------------------------------------
(* Properties.                                                              *)

(* No two runtimes ever hold the stores of one document open: a second      *)
(* sequencer over the same log would number operations twice.  It is what   *)
(* addDocument's three refusals (server.ts:1596-1604) and the retention of  *)
(* a runtime whose close failed (server.ts:1651) are for.  Left out is a    *)
(* store whose close failed after its recovery had failed                   *)
(* (server.ts:1204-1223): it stays open, nothing writes to it any more, and *)
(* the document may be added again.                                         *)
OneOpenStorePerDocument ==
  \A i, j \in Runtime \ spent.leaked :
    (i # j /\ runtime[i].doc = runtime[j].doc) => "closed" \in {runtime[i].store, runtime[j].store}

(* A client that has read everything sent to it knows the others of its     *)
(* room, each at its last presence, and no one who left, was swept or was   *)
(* cut off (presence.ts, room.ts:230-257).  But for those cut off by a bad  *)
(* frame right behind a presence: presenceRemoved is sent at once, the      *)
(* delta of the presence in a later microtask (server.ts:397-401, 469-483), *)
(* and the clients of the room keep who has left until they join again.     *)
PresenceListsAgree ==
  \A i \in Runtime : \A s \in DOMAIN runtime[i].presence :
    (undelivered = <<>> /\ socket[s].phase = "open" /\ down[s] = <<>>) =>
      Without(known[s], spent.overtaken) = Without(Snapshot(runtime[i].presence), {s})

(* The connections of a room have different colours, however they joined    *)
(* and left (presence.ts:137-144).                                          *)
ColorsAreDistinct ==
  \A i \in Runtime : \A s, t \in DOMAIN runtime[i].presence :
    s # t => runtime[i].presence[s].color # runtime[i].presence[t].color

(* A removed document lets nobody in, and its stores are not closed while   *)
(* a submit it accepted is unanswered, unless the whole server stops        *)
(* (server.ts:1633-1636).                                                   *)
RemovedIsSealed ==
  \A i \in Runtime : runtime[i].retired =>
    /\ Attached(i) = {} /\ runtime[i].presence = <<>>
    /\ (runtime[i].store = "closed" /\ ~Closed) => runtime[i].queue = <<>>

(* Once stop is over every store is closed or its failure was reported,     *)
(* also that of a document added or removed while the server stopped        *)
(* (server.ts:1690-1704), but for one that would not close after its        *)
(* recovery had failed: the server has forgotten it.                        *)
StopLeavesNoStoreOpen ==
  stop = "done" =>
    \A i \in Runtime : runtime[i].store = "closed" \/ i \in spent.unclosed \cup spent.leaked

(* Every open store has one owner, and one that will close it, except one   *)
(* left open by the clean-up of a failed recovery.                          *)
StoresHaveOneOwner == OneOpenStorePerDocument /\ StopLeavesNoStoreOpen

(* Stop ends even if an authentication hook never answers (server.ts:       *)
(* 1808-1813), unless a socket came after those in authentication were      *)
(* destroyed and before the server stopped listening: nothing ends its      *)
(* authentication.                                                          *)
StopEnds == Closed ~> (stop = "done" \/ spent.late)

-----------------------------------------------------------------------------
(* Why the properties hold: the inductive invariant of the server.          *)

(* A table of presences, as the registry and as a client has it.            *)
RegistrySound(reg) ==
  /\ reg = [c \in DOMAIN reg |-> reg[c]] /\ DOMAIN reg \subseteq Socket
  /\ \A c \in DOMAIN reg : reg[c] \in [color : Nat, seq : Nat, idle : BOOLEAN]

IsView(view) ==
  /\ view = [c \in DOMAIN view |-> view[c]] /\ DOMAIN view \subseteq Socket
  /\ \A c \in DOMAIN view : view[c] \in Nat \ {0}

IsMessage(m) ==
  \/ DOMAIN m = {"type", "users"} /\ m.type = "snapshot" /\ IsView(m.users)
  \/ DOMAIN m = {"type", "from", "seq"} /\ m.type = "delta" /\ m.from \in Socket /\ m.seq \in Nat \ {0}
  \/ DOMAIN m = {"type", "from"} /\ m.type = "removed" /\ m.from \in Socket

RuntimeSound(r) ==
  /\ DOMAIN r = {"doc", "retired", "presence", "queue", "poisoned", "store"}
  /\ r.doc \in Doc /\ r.retired \in BOOLEAN /\ r.poisoned \in BOOLEAN /\ r.store \in {"open", "closed"}
  /\ RegistrySound(r.presence)
  /\ r.queue \in Seq(ToSet(r.queue))

QueueSound(q) == q \in Seq(ToSet(q)) /\ \A m \in ToSet(q) : IsMessage(m)

Maybe(S) == S \cup {None}

RuntimeTable ==
  /\ Cardinality(Runtime) \in Nat /\ Runtime = 1..Cardinality(Runtime)
  /\ \A i \in Runtime : RuntimeSound(runtime[i])

DocumentTable ==
  /\ runtimes \in [Doc -> Maybe(Runtime)]
  /\ retiring \in [Doc -> Maybe(Runtime)]
  /\ work \in [Doc -> [step : {"idle", "recovering", "draining", "closing"}, of : Maybe(Runtime)]]
  /\ stop \in {"running", "waiting", "stores", "wss", "http", "done"}
  /\ DOMAIN spent = {"upgrades", "submits", "failures", "unclosed", "leaked", "overtaken", "late"}

SocketTable ==
  /\ socket \in [Socket -> [phase : {"closed", "authenticating", "upgrading", "open", "closing"},
                           at : Maybe(Runtime)]]
  /\ DOMAIN down = Socket /\ \A s \in Socket : QueueSound(down[s])
  /\ DOMAIN known = Socket /\ \A s \in Socket : IsView(known[s])

TablesSound == RuntimeTable /\ DocumentTable /\ SocketTable

(* A document is served, or retiring, or in work that is about one of its   *)
(* runtimes, whose store is open as long as the server runs.                *)
Accounted(d) ==
  /\ runtimes[d] # None =>
       /\ runtime[runtimes[d]].doc = d /\ ~runtime[runtimes[d]].retired
       /\ retiring[d] = None /\ work[d] = Idle
  /\ retiring[d] # None => runtime[retiring[d]].doc = d
  /\ work[d].step = "idle" => work[d] = Idle
  /\ work[d].step = "recovering" =>
       /\ work[d].of # None /\ retiring[d] = None
       /\ runtime[work[d].of].doc = d /\ ~runtime[work[d].of].retired
  /\ work[d].step \in {"draining", "closing"} =>
       work[d].of = retiring[d] /\ retiring[d] # None
  /\ work[d].step = "closing" /\ runtime[work[d].of].retired =>
       runtime[work[d].of].queue = <<>>
  /\ ~Closed => \A i \in {runtimes[d], retiring[d], work[d].of} \ {None} : runtime[i].store = "open"

(* A store that is open belongs to one of these, or has been forgotten.     *)
Owned(i) ==
  /\ runtime[i].store = "open" /\ i \notin spent.leaked =>
       LET d == runtime[i].doc IN i \in {runtimes[d], retiring[d], work[d].of}
  /\ runtime[i].retired /\ runtime[i].store = "closed" /\ ~Closed => runtime[i].queue = <<>>

OwnersSound == (\A d \in Doc : Accounted(d)) /\ (\A i \in Runtime : Owned(i))

(* Nothing is in work once stop has begun to close the stores, and it       *)
(* closes all it knows of.                                                  *)
StopSound ==
  /\ stop \notin {"running", "waiting"} => \A d \in Doc : work[d] = Idle
  /\ stop \in {"wss", "http", "done"} =>
       \A i \in Runtime : runtime[i].store = "closed" \/ i \in spent.unclosed \cup spent.leaked

(* Sockets listen to bridges that are not retired, those in the registry of *)
(* a bridge to that one, and messages are for those who joined.             *)
SocketsSound ==
  /\ \A s \in Socket :
       /\ socket[s].phase \in {"upgrading", "open", "closing"} => socket[s].at # None
       /\ socket[s].phase = "open" => ~runtime[socket[s].at].retired
       /\ socket[s].phase \in {"closed", "authenticating", "upgrading"} => down[s] = <<>>
       /\ socket[s].phase = "open" /\ s \notin DOMAIN runtime[socket[s].at].presence => down[s] = <<>>
  /\ \A i \in Runtime : \A s \in DOMAIN runtime[i].presence :
       /\ socket[s].at = i
       /\ socket[s].phase = "open" \/ (Closed /\ socket[s].phase = "closing")
  /\ \A i \in Runtime : runtime[i].retired => DOMAIN runtime[i].presence = {}

(* The last presence of c a table has, 0 for none.                          *)
LastOf(view, c) == IF c \in DOMAIN view THEN view[c] ELSE 0

Concerns(m, c) == m.type = "snapshot" \/ m.from = c

(* What the client of s knows of c after reading a message about it.        *)
Says(m, s, c) ==
  CASE m.type = "snapshot" -> IF c = s THEN 0 ELSE LastOf(m.users, c)
    [] m.type = "delta"    -> m.seq
    [] m.type = "removed"  -> 0

(* After reading all messages the client of s knows presence n of c: the    *)
(* last message about c says so, or there is none and it knows it already.  *)
WillKnow(view, messages, s, c, n) ==
  \/ \E i \in DOMAIN messages :
       /\ Concerns(messages[i], c) /\ Says(messages[i], s, c) = n
       /\ \A j \in DOMAIN messages : j > i => ~Concerns(messages[j], c)
  \/ /\ \A i \in DOMAIN messages : ~Concerns(messages[i], c)
     /\ LastOf(view, c) = n

(* What it should know: the presence in the registry, but for its own.      *)
Due(reg, s, c) == IF c # s /\ c \in DOMAIN reg THEN reg[c].seq ELSE 0

(* Deltas wait for one connection, which is in its registry still or was    *)
(* cut off behind them.                                                     *)
DeltasSound ==
  /\ undelivered \in Seq(ToSet(undelivered))
  /\ \A m \in ToSet(undelivered) :
       /\ IsMessage(m) /\ m.type = "delta" /\ InChunkOf(m.from)
       /\ socket[m.from].at # None
       /\ m.from \in DOMAIN runtime[socket[m.from].at].presence \cup spent.overtaken

(* A connection that was cut off is in no registry any more.                *)
Out(c) ==
  /\ c \in Socket /\ socket[c].phase \in {"closing", "closed"}
  /\ \A i \in Runtime : c \notin DOMAIN runtime[i].presence

OvertakenSound == \A c \in spent.overtaken : Out(c)

(* What is on the way to the client of s, the deltas that wait included.    *)
Coming(s) ==
  IF \E m \in ToSet(undelivered) : m.from # s /\ socket[m.from].at = socket[s].at
  THEN down[s] \o undelivered ELSE down[s]

(* What is on the way completes what a client knows.                        *)
ListsSound ==
  \A i \in Runtime : \A s \in DOMAIN runtime[i].presence : \A c \in Socket \ spent.overtaken :
    WillKnow(known[s], Coming(s), s, c, Due(runtime[i].presence, s, c))

TablesInv == TablesSound /\ OwnersSound /\ StopSound /\ SocketsSound /\ ColorsAreDistinct

ServerInv == TablesInv /\ OvertakenSound /\ DeltasSound /\ ListsSound
=============================================================================
