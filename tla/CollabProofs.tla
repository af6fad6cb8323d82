---------------------------- MODULE CollabProofs ----------------------------
(***************************************************************************)
(* Proofs about Collab: CollabInv is an invariant of every step, the       *)
(* specification implements OrderedLog, and on a transport that delivers   *)
(* in order the committed document of every client is a durable prefix of  *)
(* the edits on the initial document.                                      *)
(*                                                                         *)
(* The sections follow the code from the inside out: lists and documents,  *)
(* the queue and the view, the buffer, the handlers of a session, what the *)
(* server sends and keeps, the actions; then the promise of OrderedLog and *)
(* the first contact of a client with its document.                        *)
(***************************************************************************)
EXTENDS CollabInvariant, DocumentLemmas, FiniteSetTheorems

-----------------------------------------------------------------------------
(* Lists of frames, messages and pending operations.                        *)

(* The empty list has no elements.                                          *)
LEMMA EmptyList == IsList(<<>>) /\ ToSet(<<>>) = {}
  BY DEF IsList, ToSet

(* What an append adds to the elements of a list.                           *)
LEMMA ListAppend ==
  ASSUME NEW q, IsList(q), NEW x
  PROVE  IsList(Append(q, x)) /\ ToSet(Append(q, x)) = ToSet(q) \cup {x}
  BY AppendElements DEF IsList

(* The elements of two lists in a row.                                      *)
LEMMA ListConcat ==
  ASSUME NEW q, IsList(q), NEW r, IsList(r)
  PROVE  IsList(q \o r) /\ ToSet(q \o r) = ToSet(q) \cup ToSet(r)
<1> DEFINE S == ToSet(q) \cup ToSet(r)
           u == q \o r
<1>1. q \in Seq(S) /\ r \in Seq(S)
  BY DEF IsList
<1>2. /\ Len(q) \in Nat /\ Len(r) \in Nat /\ DOMAIN q = 1..Len(q) /\ DOMAIN r = 1..Len(r)
      /\ u \in Seq(S) /\ Len(u) = Len(q) + Len(r) /\ DOMAIN u = 1..Len(q) + Len(r)
      /\ \A i \in 1..Len(q) : u[i] = q[i]
      /\ \A i \in 1..Len(r) : u[Len(q) + i] = r[i]
  BY <1>1
<1> HIDE DEF u, S
<1>3. \A x \in ToSet(q) : x \in ToSet(u)
  <2> SUFFICES ASSUME NEW i \in 1..Len(q) PROVE q[i] \in ToSet(u)
    BY <1>2 DEF ToSet
  <2>1. i \in DOMAIN u /\ u[i] = q[i]
    BY <1>2
  <2> QED
    BY <2>1 DEF ToSet
<1>4. \A x \in ToSet(r) : x \in ToSet(u)
  <2> SUFFICES ASSUME NEW i \in 1..Len(r) PROVE r[i] \in ToSet(u)
    BY <1>2 DEF ToSet
  <2>1. Len(q) + i \in DOMAIN u /\ u[Len(q) + i] = r[i]
    BY <1>2
  <2> QED
    BY <2>1 DEF ToSet
<1>5. \A x \in ToSet(u) : x \in S
  BY <1>2 DEF ToSet
<1>6. u \in Seq(ToSet(u))
  BY <1>2, SeqSelf
<1> QED
  BY <1>3, <1>4, <1>5, <1>6 DEF u, S, IsList

(* The rest of a list has none but its elements.                            *)
LEMMA ListTail ==
  ASSUME NEW q, IsList(q), q # <<>>
  PROVE  IsList(Tail(q)) /\ ToSet(Tail(q)) \subseteq ToSet(q) /\ Head(q) \in ToSet(q)
<1>1. q \in Seq(ToSet(q))
  BY DEF IsList
<1>2. Tail(q) \in Seq(ToSet(q)) /\ Head(q) \in ToSet(q)
  BY <1>1
<1>3. Tail(q) \in Seq(ToSet(Tail(q)))
  BY <1>2, SeqSelf
<1>4. ToSet(Tail(q)) \subseteq ToSet(q)
  BY <1>2 DEF ToSet
<1> QED
  BY <1>2, <1>3, <1>4 DEF IsList

(* A filter keeps some of the elements of a list.                           *)
LEMMA ListFilter ==
  ASSUME NEW q, IsList(q), NEW places
  PROVE  IsList(Filtered(q, places)) /\ ToSet(Filtered(q, places)) \subseteq ToSet(q)
<1>1. q \in Seq(ToSet(q))
  BY DEF IsList
<1>2. /\ Filtered(q, places) \in Seq(ToSet(Filtered(q, places)))
      /\ \A x \in ToSet(Filtered(q, places)) : \E i \in DOMAIN q : i \in places /\ q[i] = x
  BY <1>1, FilterElements
<1> QED
  BY <1>2 DEF IsList, ToSet

(* A list with every element replaced.                                      *)
LEMMA ListMap ==
  ASSUME NEW q, IsList(q), NEW r, r = [i \in DOMAIN q |-> r[i]]
  PROVE  IsList(r) /\ DOMAIN r = DOMAIN q /\ ToSet(r) = {r[i] : i \in DOMAIN q} /\ Len(r) = Len(q)
<1> DEFINE S == {r[i] : i \in DOMAIN q}
<1>1. Len(q) \in Nat /\ DOMAIN q = 1..Len(q)
  BY DEF IsList
<1>2. DOMAIN r = 1..Len(q)
  BY <1>1
<1>3. r \in [1..Len(q) -> S]
  BY <1>1
<1> HIDE DEF S
<1>4. r \in Seq(S)
  BY <1>1, <1>3
<1>5. r \in Seq(ToSet(r))
  BY <1>4, SeqSelf
<1>6. Len(r) = Len(q)
  BY <1>1, <1>2, <1>4
<1> QED
  BY <1>1, <1>2, <1>5, <1>6 DEF IsList, ToSet

-----------------------------------------------------------------------------
(* A document, whatever is in it, carries the revision of the last          *)
(* operation.                                                               *)
LEMMA ApplyKeepsDocument ==
  ASSUME NEW doc, IsDocument(doc), NEW op, IsOperation(op), NEW revision
  PROVE  /\ IsDocument(ApplyOperation(doc, op, revision))
         /\ ApplyOperation(doc, op, revision).revision = revision
<1>1. CASE op.type = "setCells"
  <2>1. ApplyOperation(doc, op, revision) = ApplySetCells(doc, op.changes, revision)
    BY <1>1 DEF ApplyOperation
  <2> DEFINE changes == op.changes
             next == ApplySetCells(doc, changes, revision)
             written == {CellKey(doc, changes[i].row, changes[i].col) : i \in DOMAIN changes}
  <2> HIDE DEF changes
  <2>2. /\ IsDocument(next)
        /\ next.revision = revision
        /\ next.rowOrder = doc.rowOrder
        /\ next.row = doc.row
        /\ next.maxSlot = doc.maxSlot
        /\ DOMAIN next.cell = DOMAIN doc.cell \cup written
        /\ next.cell = [k \in DOMAIN next.cell |-> next.cell[k]]
        /\ \A k \in written : next.cell[k] =
             [value |-> changes[LastChange(doc, changes, k)].value, rev |-> revision]
        /\ \A k \in DOMAIN doc.cell \ written : next.cell[k] = doc.cell[k]
    BY SetCellsFields
  <2> QED
    BY <2>1, <2>2 DEF changes
<1>2. CASE op.type = "insertRows"
  <2>1. ApplyOperation(doc, op, revision) = ApplyInsertRows(doc, op.after, op.rows, revision)
    BY <1>2 DEF ApplyOperation
  <2> DEFINE rows == op.rows
             after == op.after
             next == ApplyInsertRows(doc, after, rows, revision)
  <2> HIDE DEF rows, after
  <2>2. /\ IsDocument(next)
        /\ next.revision = revision
        /\ next.rowOrder = Spliced(doc.rowOrder, InsertionPoint(doc, after), rows)
        /\ DOMAIN next.row = DOMAIN doc.row \cup ToSet(rows)
        /\ next.row = [r \in DOMAIN next.row |-> next.row[r]]
        /\ \A r \in ToSet(rows) : next.row[r] =
             [slot |-> doc.maxSlot + IndexIn(rows, r), tombstone |-> FALSE, rev |-> revision]
        /\ \A r \in DOMAIN doc.row \ ToSet(rows) : next.row[r] = doc.row[r]
        /\ next.maxSlot = doc.maxSlot + Len(rows)
        /\ next.cell = doc.cell
    BY InsertRowsFields
  <2> QED
    BY <2>1, <2>2 DEF rows, after
<1>3. CASE op.type = "deleteRows"
  <2>1. ApplyOperation(doc, op, revision) = ApplyDeleteRows(doc, op.rows, revision)
    BY <1>3 DEF ApplyOperation
  <2>2. /\ DOMAIN ApplyDeleteRows(doc, op.rows, revision) = DOMAIN doc
        /\ ApplyDeleteRows(doc, op.rows, revision).revision = revision
        /\ IsDocument(ApplyDeleteRows(doc, op.rows, revision))
    BY DEF ApplyDeleteRows, IsDocument
  <2> QED
    BY <2>1, <2>2
<1> QED
  BY <1>1, <1>2, <1>3 DEF IsOperation

-----------------------------------------------------------------------------
(* What a handler leaves alone.                                             *)
Same(s, t) ==
  /\ t.client = s.client
  /\ t.committed = s.committed
  /\ t.buffer = s.buffer
  /\ t.bufferedBootstrap = s.bufferedBootstrap
  /\ t.online = s.online
  /\ t.welcomeSeen = s.welcomeSeen
  /\ t.bootstrapAccepted = s.bootstrapAccepted

-----------------------------------------------------------------------------
(* Rebuilding the view: the pending operations that stay.                   *)

StartOf(s) ==
  [view |-> s.committed, provisional |-> s.committed.revision,
   invalidated |-> {}, conflicts |-> {}, pending |-> <<>>]

IsReplayed(f, s) ==
  f = [n \in 0..Len(s.pending) |->
         IF n = 0 THEN StartOf(s) ELSE ReplayPending(f[n - 1], s.pending[n])]

(* Every queue can be replayed.                                             *)
LEMMA ReplayedExists ==
  ASSUME NEW s, IsList(s.pending)
  PROVE  \E f : IsReplayed(f, s)
<1> DEFINE first == StartOf(s)
           step(d, n) == ReplayPending(d, s.pending[n])
           upTo(f, m) == f = [n \in 0..m |-> IF n = 0 THEN first ELSE step(f[n-1], n)]
           T == {m \in 0..Len(s.pending) : ~ \E f : upTo(f, m)}
<1>1. Len(s.pending) \in Nat
  BY DEF IsList
<1>2. T = {}
  <2> SUFFICES ASSUME T # {} PROVE FALSE
    OBVIOUS
  <2>1. PICK m \in T : \A k \in T : m <= k
    <3>1. T \subseteq Nat
      BY <1>1
    <3> HIDE DEF T
    <3> QED
      BY <3>1, Smallest
  <2>2. m \in 0..Len(s.pending) /\ ~ \E f : upTo(f, m)
    OBVIOUS
  <2> HIDE DEF first, step
  <2>3. CASE m = 0
    <3>1. upTo([n \in 0..0 |-> first], 0)
      OBVIOUS
    <3> QED
      BY <2>2, <2>3, <3>1
  <2>4. CASE m > 0
    <3>1. m - 1 \in 0..Len(s.pending) /\ m - 1 \notin T
      <4>1. m - 1 \in 0..Len(s.pending) /\ ~ m <= m - 1
        BY <1>1, <2>2, <2>4
      <4> HIDE DEF T
      <4> QED
        BY <2>1, <4>1
    <3>2. PICK f : upTo(f, m - 1)
      BY <3>1
    <3> DEFINE g == [n \in 0..m |-> IF n = 0 THEN first ELSE step(f[n-1], n)]
    <3>3. ASSUME NEW n \in 0..m-1 PROVE g[n] = f[n]
      <4>1. f[n] = [i \in 0..m-1 |-> IF i = 0 THEN first ELSE step(f[i-1], i)][n]
        BY <3>2
      <4> QED
        BY <2>2, <4>1
    <3>4. \A n \in 1..m : g[n-1] = f[n-1]
      <4>1. \A n \in 1..m : n-1 \in 0..m-1
        BY <2>2
      <4> HIDE DEF g
      <4> QED
        BY <3>3, <4>1
    <3>5. [n \in 0..m |-> IF n = 0 THEN first ELSE step(f[n-1], n)]
          = [n \in 0..m |-> IF n = 0 THEN first ELSE step(g[n-1], n)]
      <4> HIDE DEF g
      <4>1. ASSUME NEW n \in 0..m
            PROVE  (IF n = 0 THEN first ELSE step(f[n-1], n))
                   = (IF n = 0 THEN first ELSE step(g[n-1], n))
        <5>1. n = 0 \/ n \in 1..m
          BY <2>2
        <5> QED
          BY <3>4, <5>1, Zenon
      <4> QED
        BY <4>1, Zenon
    <3>6. upTo(g, m)
      BY <3>5
    <3> QED
      BY <2>2, <3>6
  <2> QED
    BY <1>1, <2>2, <2>3, <2>4
<1>3. \E f : upTo(f, Len(s.pending))
  BY <1>1, <1>2
<1> QED
  BY <1>3 DEF IsReplayed

(* One pending operation after the other.                                   *)
LEMMA ReplayedTrace ==
  ASSUME NEW s, IsList(s.pending)
  PROVE  \E f : /\ Replayed(s) = f[Len(s.pending)]
               /\ f[0] = StartOf(s)
               /\ \A n \in 1..Len(s.pending) : f[n] = ReplayPending(f[n - 1], s.pending[n])
<1> DEFINE c == CHOOSE f : IsReplayed(f, s)
           h == [n \in 0..Len(s.pending) |->
                   IF n = 0 THEN StartOf(s) ELSE ReplayPending(c[n - 1], s.pending[n])]
<1>1. IsReplayed(c, s)
  BY ReplayedExists
<1>2. Replayed(s) = c[Len(s.pending)]
  BY Zenon DEF Replayed, IsReplayed, StartOf
<1> HIDE DEF c
<1>3. c = h
  BY <1>1 DEF IsReplayed
<1>4. Len(s.pending) \in Nat
  BY DEF IsList
<1>5. h[0] = StartOf(s) /\ \A n \in 1..Len(s.pending) : h[n] = ReplayPending(c[n - 1], s.pending[n])
  BY <1>4
<1> HIDE DEF h
<1>6. c[0] = StartOf(s) /\ \A n \in 1..Len(s.pending) : c[n] = ReplayPending(c[n - 1], s.pending[n])
  BY <1>3, <1>5
<1> QED
  BY <1>2, <1>6

(* A replay under way, with a sound queue so far.                           *)
Replaying(acc) ==
  /\ DOMAIN acc = {"view", "provisional", "invalidated", "conflicts", "pending"}
  /\ QueueSound(acc.pending)

(* One operation is kept, dropped or withdrawn.                             *)
LEMMA ReplayPendingSound ==
  ASSUME NEW acc, Replaying(acc), NEW p, PendingSound(p)
  PROVE  Replaying(ReplayPending(acc, p))
<1> DEFINE noop == IsEmptyChangeSet(acc.view, p.env.operation)
           next == acc.provisional + 1
           q == [p EXCEPT !.noop = noop]
           view == ApplyOperation(acc.view, p.env.operation, next)
           dependent == TouchedRows(p.env.operation) \cap acc.invalidated # {}
           refused == dependent \/ Violations(acc.view, p.env.operation) # {}
           spoilt == acc.invalidated \cup TouchedRows(p.env.operation)
           told == acc.conflicts \cup {[op |-> p.env.op, reason |-> IF dependent THEN "dependency"
                                                ELSE "revalidation-failed"]}
           longer == Append(acc.pending, q)
           t == ReplayPending(acc, p)
<1>1. \/ t = [acc EXCEPT !.invalidated = spoilt, !.conflicts = told]
      \/ t = [acc EXCEPT !.provisional = next]
      \/ t = [acc EXCEPT !.provisional = next, !.view = view, !.pending = longer]
  BY Zenon DEF ReplayPending
<1>2. PendingSound(q)
  <2> HIDE DEF noop
  <2> QED
    BY DEF PendingSound
<1>3. QueueSound(longer)
  <2> HIDE DEF q
  <2>1. IsList(longer) /\ ToSet(longer) = ToSet(acc.pending) \cup {q}
    BY ListAppend DEF Replaying, QueueSound
  <2> QED
    BY <1>2, <2>1 DEF Replaying, QueueSound
<1> HIDE DEF noop, next, q, view, dependent, refused, spoilt, told, longer, t
<1>4. DOMAIN t = DOMAIN acc /\ (t.pending = acc.pending \/ t.pending = longer)
  <2>1. CASE t = [acc EXCEPT !.invalidated = spoilt, !.conflicts = told]
    BY <2>1
  <2>2. CASE t = [acc EXCEPT !.provisional = next]
    BY <2>2
  <2>3. CASE t = [acc EXCEPT !.provisional = next, !.view = view, !.pending = longer]
    BY <2>3 DEF Replaying
  <2> QED
    BY <1>1, <2>1, <2>2, <2>3
<1> QED
  BY <1>3, <1>4 DEF Replaying, t

(* Replaying a queue leaves sound pending operations.                       *)
LEMMA ReplayedSound ==
  ASSUME NEW s, QueueSound(s.pending)
  PROVE  Replaying(Replayed(s))
<1>1. IsList(s.pending) /\ Len(s.pending) \in Nat /\ DOMAIN s.pending = 1..Len(s.pending)
  BY DEF QueueSound, IsList
<1>2. PICK f : /\ Replayed(s) = f[Len(s.pending)]
               /\ f[0] = StartOf(s)
               /\ \A n \in 1..Len(s.pending) : f[n] = ReplayPending(f[n - 1], s.pending[n])
  BY <1>1, ReplayedTrace
<1>3. \A n \in 0..Len(s.pending) : Replaying(f[n])
  <2> DEFINE T == {n \in 0..Len(s.pending) : ~Replaying(f[n])}
  <2> SUFFICES ASSUME T # {} PROVE FALSE
    OBVIOUS
  <2>1. PICK n \in T : \A u \in T : n <= u
    <3>1. T \subseteq Nat
      BY <1>1
    <3> HIDE DEF T
    <3> QED
      BY <3>1, Smallest
  <2>2. n # 0
    <3>1. Replaying(StartOf(s))
      <4>1. QueueSound(<<>>)
        BY EmptyList DEF QueueSound
      <4> QED
        BY <4>1 DEF Replaying, StartOf
    <3> QED
      BY <1>2, <2>1, <3>1
  <2>3. n \in 1..Len(s.pending) /\ n - 1 \in 0..Len(s.pending) /\ n - 1 \notin T
    <3>1. n \in 1..Len(s.pending) /\ n - 1 \in 0..Len(s.pending) /\ ~ n <= n - 1
      BY <1>1, <2>1, <2>2
    <3> HIDE DEF T
    <3> QED
      BY <2>1, <3>1
  <2>4. Replaying(f[n - 1])
    BY <2>3
  <2>5. PendingSound(s.pending[n])
    BY <1>1, <2>3 DEF QueueSound, ToSet
  <2>6. Replaying(f[n])
    BY <1>2, <2>3, <2>4, <2>5, ReplayPendingSound
  <2> QED
    BY <2>1, <2>6
<1> QED
  BY <1>1, <1>2, <1>3

(* Rebuilding changes the queue and its withdrawals, and nothing else.      *)
LEMMA RebuildViewSound ==
  ASSUME NEW s, Shaped(s)
  PROVE  /\ Shaped(RebuildView(s)) /\ Same(s, RebuildView(s)) /\ RebuildView(s).out = s.out
<1> DEFINE queue == Replayed(s).pending
           told == s.conflicts \cup Replayed(s).conflicts
           t == RebuildView(s)
<1>1. QueueSound(queue)
  BY ReplayedSound DEF Replaying, Shaped
<1>2. t = [s EXCEPT !.pending = queue, !.conflicts = told]
  BY Zenon DEF RebuildView
<1> HIDE DEF queue, told, t
<1>3. DOMAIN t = SessionFields /\ t.pending = queue /\ t.out = s.out
  BY <1>2 DEF Shaped, SessionFields
<1>4. Same(s, t)
  BY <1>2 DEF Same
<1> QED
  BY <1>1, <1>3, <1>4 DEF Shaped, t

-----------------------------------------------------------------------------
(* Queues and frames.                                                       *)

(* A handler that leaves the document, the buffer and the connection alone. *)
Benign(s, t) == Shaped(t) /\ Same(s, t)

(* Two benign handlers in a row are one.                                    *)
LEMMA BenignTwice ==
  ASSUME NEW r, NEW s, NEW t, Benign(r, s), Benign(s, t)
  PROVE  Benign(r, t)
  BY DEF Benign, Same

(* Some of a sound queue are a sound queue.                                 *)
LEMMA QueueFilter ==
  ASSUME NEW q, QueueSound(q), NEW places
  PROVE  QueueSound(Filtered(q, places))
<1>1. IsList(Filtered(q, places)) /\ ToSet(Filtered(q, places)) \subseteq ToSet(q)
  BY ListFilter DEF QueueSound
<1> QED
  BY <1>1 DEF QueueSound

(* A sound queue and one more pending operation.                            *)
LEMMA QueueAppend ==
  ASSUME NEW q, QueueSound(q), NEW p, PendingSound(p)
  PROVE  QueueSound(Append(q, p))
<1>1. IsList(Append(q, p)) /\ ToSet(Append(q, p)) = ToSet(q) \cup {p}
  BY ListAppend DEF QueueSound
<1> QED
  BY <1>1 DEF QueueSound

(* A sound queue in which every entry keeps its envelope.                   *)
LEMMA QueueMap ==
  ASSUME NEW q, QueueSound(q), NEW r, r = [i \in DOMAIN q |-> r[i]],
         \A i \in DOMAIN q : PendingSound(r[i])
  PROVE  QueueSound(r)
<1>1. IsList(r) /\ ToSet(r) = {r[i] : i \in DOMAIN q}
  BY ListMap DEF QueueSound
<1> QED
  BY <1>1 DEF QueueSound

(* Sound frames and one more.                                               *)
LEMMA FramesAppend ==
  ASSUME NEW q, FramesSound(q), NEW m, FrameSound(m)
  PROVE  FramesSound(Append(q, m))
<1>1. IsList(Append(q, m)) /\ ToSet(Append(q, m)) = ToSet(q) \cup {m}
  BY ListAppend DEF FramesSound
<1> QED
  BY <1>1 DEF FramesSound

(* Sound frames behind sound frames.                                        *)
LEMMA FramesConcat ==
  ASSUME NEW q, FramesSound(q), NEW r, FramesSound(r)
  PROVE  FramesSound(q \o r)
<1>1. IsList(q \o r) /\ ToSet(q \o r) = ToSet(q) \cup ToSet(r)
  BY ListConcat DEF FramesSound
<1> QED
  BY <1>1 DEF FramesSound

(* The frame of a sound envelope is sound.                                  *)
LEMMA SubmissionSound ==
  ASSUME NEW env, EnvelopeSound(env)
  PROVE  FrameSound(Submission(env))
  BY DEF FrameSound, Submission

(* The submissions of a queue.                                              *)
LEMMA SubmissionsSound ==
  ASSUME NEW q, QueueSound(q)
  PROVE  FramesSound([i \in DOMAIN q |-> Submission(q[i].env)])
<1> DEFINE r == [i \in DOMAIN q |-> Submission(q[i].env)]
<1>1. r = [i \in DOMAIN q |-> r[i]]
  OBVIOUS
<1>2. ASSUME NEW i \in DOMAIN q PROVE FrameSound(r[i])
  <2>1. PendingSound(q[i])
    BY DEF QueueSound, ToSet
  <2> QED
    BY <2>1, SubmissionSound DEF PendingSound
<1> HIDE DEF r
<1>3. IsList(r) /\ ToSet(r) = {r[i] : i \in DOMAIN q}
  BY <1>1, ListMap DEF QueueSound
<1>4. FramesSound(r)
  BY <1>2, <1>3 DEF FramesSound
<1> QED
  BY <1>4 DEF r

(* What is not acknowledged is a sound queue.                               *)
LEMMA UnackedSound ==
  ASSUME NEW s, Shaped(s)
  PROVE  QueueSound(Unacked(s))
  BY QueueFilter DEF Unacked, Shaped

-----------------------------------------------------------------------------
(* The parts of the handlers that leave document and buffer alone.          *)

(* A session with another queue, or other frames.                           *)
LEMMA OtherQueue ==
  ASSUME NEW s, Shaped(s), NEW q, QueueSound(q), NEW t, DOMAIN t = SessionFields,
         t.pending = q, t.out = s.out, Same(s, t)
  PROVE  Benign(s, t)
  BY DEF Benign, Shaped

(* Only a submit has an envelope to be sound.                               *)
LEMMA OtherFrames ==
  ASSUME NEW s, Shaped(s), NEW q, FramesSound(q), NEW t, DOMAIN t = SessionFields,
         t.pending = s.pending, t.out = q, Same(s, t)
  PROVE  Benign(s, t)
  BY DEF Benign, Shaped

(* Sending a frame (session.ts, send).                                      *)
LEMMA SendBenign ==
  ASSUME NEW s, Shaped(s), NEW m, FrameSound(m)
  PROVE  Benign(s, Send(s, m))
<1>1. FramesSound(Append(s.out, m))
  BY FramesAppend DEF Shaped
<1>2. /\ DOMAIN Send(s, m) = SessionFields /\ Send(s, m).pending = s.pending
      /\ Send(s, m).out = Append(s.out, m) /\ Same(s, Send(s, m))
  BY DEF Send, Shaped, SessionFields, Same
<1> QED
  BY <1>1, <1>2, OtherFrames

(* Taking an operation from the queue.                                      *)
LEMMA WithoutPendingBenign ==
  ASSUME NEW s, Shaped(s), NEW op
  PROVE  Benign(s, WithoutPending(s, op)) /\ WithoutPending(s, op).out = s.out
<1> DEFINE q == Filtered(s.pending, {i \in DOMAIN s.pending : s.pending[i].env.op # op})
           t == WithoutPending(s, op)
<1>1. QueueSound(q)
  BY QueueFilter DEF Shaped
<1>2. t = [s EXCEPT !.pending = q]
  BY DEF WithoutPending
<1> HIDE DEF q, t
<1>3. DOMAIN t = SessionFields /\ t.pending = q /\ t.out = s.out /\ Same(s, t)
  BY <1>2 DEF Shaped, SessionFields, Same
<1> QED
  BY <1>1, <1>3, OtherQueue DEF t

(* rebuildView changes the queue and the Conflict Queue only.               *)
LEMMA RebuildViewBenign ==
  ASSUME NEW s, Shaped(s)
  PROVE  Benign(s, RebuildView(s)) /\ RebuildView(s).out = s.out
  BY RebuildViewSound DEF Benign

(* resendAllPending sends the queue as it is.                               *)
LEMMA ResendAllPendingBenign ==
  ASSUME NEW s, Shaped(s)
  PROVE  Benign(s, ResendAllPending(s))
<1> DEFINE u == Unacked(s)
           frames == [i \in DOMAIN u |-> Submission(u[i].env)]
           q == s.out \o frames
           t == [s EXCEPT !.out = q]
<1>1. QueueSound(u)
  BY UnackedSound
<1>2. FramesSound(frames)
  <2> HIDE DEF u
  <2> QED
    BY <1>1, SubmissionsSound
<1>3. ResendAllPending(s) = IF ~s.online \/ s.stopped THEN s ELSE t
  BY DEF ResendAllPending
<1> HIDE DEF u, frames
<1>4. FramesSound(q)
  BY <1>2, FramesConcat DEF Shaped
<1> HIDE DEF q
<1>5. DOMAIN t = SessionFields /\ t.pending = s.pending /\ t.out = q /\ Same(s, t)
  BY DEF Shaped, SessionFields, Same
<1> HIDE DEF t
<1>6. Benign(s, t)
  BY <1>4, <1>5, OtherFrames
<1>7. Benign(s, s)
  BY DEF Benign, Same
<1> QED
  BY <1>3, <1>6, <1>7

(* requestCatchup sends one frame.                                          *)
LEMMA RequestCatchupBenign ==
  ASSUME NEW s, Shaped(s)
  PROVE  Benign(s, RequestCatchup(s))
<1> DEFINE m == [type |-> "requestCatchup", after |-> s.committed.revision]
<1>1. FrameSound(m)
  BY DEF FrameSound
<1>2. RequestCatchup(s) = IF s.online THEN Send(s, m) ELSE s
  BY DEF RequestCatchup
<1> HIDE DEF m
<1>3. Benign(s, Send(s, m))
  BY <1>1, SendBenign
<1>4. Benign(s, s)
  BY DEF Benign, Same
<1> QED
  BY <1>2, <1>3, <1>4

(* Renumbering the queue leaves its operations alone.                       *)
LEMMA RebaselineBenign ==
  ASSUME NEW s, Shaped(s), NEW expected
  PROVE  Benign(s, RebaselinePendingSequence(s, expected))
<1> DEFINE before(i) == Cardinality({j \in 1..i-1 : ~s.pending[j].acked})
           q == [i \in DOMAIN s.pending |->
                  IF s.pending[i].acked THEN s.pending[i]
                  ELSE [s.pending[i] EXCEPT !.env.seq = expected + before(i)]]
           last == expected + Len(Unacked(s)) - 1
           t == RebaselinePendingSequence(s, expected)
<1>1. ASSUME NEW i \in DOMAIN s.pending PROVE PendingSound(q[i])
  <2> DEFINE p == s.pending[i]
             n == expected + before(i)
  <2>1. PendingSound(p)
    BY DEF Shaped, QueueSound, ToSet
  <2>2. q[i] = IF p.acked THEN p ELSE [p EXCEPT !.env.seq = n]
    OBVIOUS
  <2> HIDE DEF p, n
  <2>3. PendingSound([p EXCEPT !.env.seq = n])
    BY <2>1 DEF PendingSound, EnvelopeSound
  <2> QED
    BY <2>1, <2>2, <2>3
<1>2. q = [i \in DOMAIN s.pending |-> q[i]]
  OBVIOUS
<1>3. t = [s EXCEPT !.pending = q, !.lastSequence = last]
  BY DEF RebaselinePendingSequence
<1> HIDE DEF q, last, t
<1>4. QueueSound(q)
  BY <1>1, <1>2, QueueMap DEF Shaped
<1>5. DOMAIN t = SessionFields /\ t.pending = q /\ t.out = s.out /\ Same(s, t)
  BY <1>3 DEF Shaped, SessionFields, Same
<1> QED
  BY <1>4, <1>5, OtherQueue DEF t

(* applyReconcile settles entries of the queue, nothing else.               *)
LEMMA ApplyReconcileBenign ==
  ASSUME NEW s, Shaped(s)
  PROVE  Benign(s, ApplyReconcile(s))
<1> DEFINE info == s.reconcile
           survives(p) == p.acked \/ (p.env.op \notin info.accepted /\ ~Refused(info, p))
           q == Filtered(s.pending, {i \in DOMAIN s.pending : survives(s.pending[i])})
           told == s.conflicts \cup {[op |-> p.env.op, reason |-> "rejected"] :
                                      p \in {p \in ToSet(s.pending) : Refused(info, p)}}
           t == [s EXCEPT !.reconcile = NoReconcile, !.pending = q, !.conflicts = told]
<1>1. QueueSound(q)
  BY QueueFilter DEF Shaped
<1>2. ApplyReconcile(s) = IF info = NoReconcile THEN s ELSE t
  BY DEF ApplyReconcile
<1> HIDE DEF info, q, told
<1>3. DOMAIN t = SessionFields /\ t.pending = q /\ t.out = s.out /\ Same(s, t)
  BY DEF Shaped, SessionFields, Same
<1> HIDE DEF t
<1>4. Benign(s, t)
  BY <1>1, <1>3, OtherQueue
<1>5. Benign(s, s)
  BY DEF Benign, Same
<1> QED
  BY <1>2, <1>4, <1>5

(* The end of a synchronization leaves the document alone.                  *)
LEMMA MaybeFinalizeSyncBenign ==
  ASSUME NEW s, Shaped(s)
  PROVE  Benign(s, MaybeFinalizeSync(s))
<1> DEFINE rebuilt == RebuildView(ApplyReconcile(s))
           settled == IF s.reconcile = NoReconcile THEN s ELSE rebuilt
           done == [settled EXCEPT !.awaitingSync = FALSE]
           t == ResendAllPending(done)
<1>1. Benign(s, s)
  BY DEF Benign, Same
<1>2. Benign(s, rebuilt)
  <2>1. Benign(s, ApplyReconcile(s))
    BY ApplyReconcileBenign
  <2>2. Benign(ApplyReconcile(s), rebuilt)
    BY <2>1, RebuildViewBenign DEF Benign
  <2> QED
    BY <2>1, <2>2, BenignTwice
<1>3. MaybeFinalizeSync(s) = s \/ MaybeFinalizeSync(s) = t
  BY DEF MaybeFinalizeSync
<1> HIDE DEF rebuilt
<1>4. Benign(s, settled)
  BY <1>1, <1>2
<1> HIDE DEF settled
<1>5. Benign(s, done)
  BY <1>4 DEF Benign, Shaped, Same, SessionFields
<1> HIDE DEF done
<1>6. Benign(done, t)
  BY <1>5, ResendAllPendingBenign DEF Benign
<1> HIDE DEF t
<1>7. Benign(s, t)
  BY <1>5, <1>6, BenignTwice
<1> QED
  BY <1>1, <1>3, <1>7

-----------------------------------------------------------------------------
(* The document of a session and its log.                                   *)

(* The log and the frontier, as far as a session can see them.              *)
LogBehind(log, d) ==
  /\ IsList(log)
  /\ d \in 0..Len(log)
  /\ \A i \in DOMAIN log : log[i].rev = i /\ IsOperation(log[i].operation)

(* What every handler leaves alone but the install of a bootstrap.          *)
Beside(s, t) ==
  /\ t.client = s.client
  /\ t.bufferedBootstrap = s.bufferedBootstrap
  /\ t.online = s.online
  /\ t.welcomeSeen = s.welcomeSeen
  /\ t.bootstrapAccepted = s.bootstrapAccepted

(* The next operation of the log is applied.                                *)
LEMMA ReconcileServerOperationSound ==
  ASSUME NEW s, Shaped(s), NEW entry
  PROVE  LET t == ReconcileServerOperation(s, entry)
         IN  /\ Shaped(t) /\ Beside(s, t) /\ t.buffer = s.buffer /\ t.out = s.out
             /\ t.committed = ApplyOperation(s.committed, entry.operation, entry.rev)
<1> DEFINE next == ApplyOperation(s.committed, entry.operation, entry.rev)
           u == [s EXCEPT !.committed = next]
           v == WithoutPending(u, entry.op)
           t == ReconcileServerOperation(s, entry)
<1>1. t = RebuildView(v)
  BY DEF ReconcileServerOperation
<1> HIDE DEF next, t
<1>2. Shaped(u) /\ Beside(s, u) /\ u.buffer = s.buffer /\ u.out = s.out /\ u.committed = next
  BY DEF Shaped, SessionFields, Beside
<1> HIDE DEF u
<1>3. Benign(u, v) /\ v.out = u.out
  BY <1>2, WithoutPendingBenign
<1> HIDE DEF v
<1>4. Benign(v, t) /\ t.out = v.out
  BY <1>1, <1>3, RebuildViewBenign DEF Benign
<1>5. Shaped(t) /\ Beside(s, t) /\ t.buffer = s.buffer /\ t.out = s.out /\ t.committed = next
  BY <1>2, <1>3, <1>4 DEF Benign, Same, Beside
<1> QED
  BY <1>5 DEF t, next

(* Which operations are ready: the stretch of the buffer that follows the   *)
(* committed document.                                                      *)
LEMMA ReadyIsStretch ==
  ASSUME NEW s, NEW n \in Nat, s.committed.revision = n, NEW d \in Nat,
         \A r \in DOMAIN s.buffer : r \in n + 1 .. d
  PROVE  \E k \in Nat :
           /\ Ready(s) = [i \in 1..k |-> s.buffer[n + i]]
           /\ \A i \in 1..k : n + i \in DOMAIN s.buffer
           /\ n + k + 1 \notin DOMAIN s.buffer
<1> DEFINE B == DOMAIN s.buffer
           T == {m \in Nat : m > n /\ m \notin B}
           ready == {r \in B : n + 1 .. r \subseteq B}
<1>1. \A r \in B : r \in Nat /\ r > n /\ r <= d
  OBVIOUS
<1> HIDE DEF B
<1>2. n + d + 1 \in T
  BY <1>1
<1>3. PICK m \in T : \A u \in T : m <= u
  <2>1. T \subseteq Nat /\ T # {}
    BY <1>2
  <2> HIDE DEF T
  <2> QED
    BY <2>1, Smallest
<1>4. m \in Nat /\ m > n /\ m \notin B /\ \A r \in Nat : r > n /\ r < m => r \in B
  BY <1>3
<1> HIDE DEF T
<1> DEFINE k == m - 1 - n
<1>5. k \in Nat /\ n + k + 1 = m /\ n + k = m - 1
  BY <1>4
<1>6. ready = n + 1 .. m - 1
  <2>1. ASSUME NEW r \in ready PROVE r \in n + 1 .. m - 1
    <3>1. r \in Nat /\ r > n /\ ~(m \in n + 1 .. r)
      BY <1>1, <1>4
    <3> QED
      BY <1>4, <3>1
  <2>2. ASSUME NEW r \in n + 1 .. m - 1 PROVE r \in ready
    BY <1>4
  <2> QED
    BY <2>1, <2>2
<1>7. Cardinality(ready) = k
  <2>1. Cardinality(n + 1 .. m - 1) = IF n + 1 > m - 1 THEN 0 ELSE (m - 1) - (n + 1) + 1
    <3> DEFINE a == n + 1
               b == m - 1
    <3>1. a \in Int /\ b \in Int
      BY <1>4
    <3> HIDE DEF a, b
    <3>2. Cardinality(a .. b) = IF a > b THEN 0 ELSE b - a + 1
      BY <3>1, FS_Interval
    <3> QED
      BY <3>2 DEF a, b
  <2> DEFINE c == Cardinality(n + 1 .. m - 1)
  <2>2. Cardinality(ready) = c
    BY <1>6
  <2> HIDE DEF c, ready
  <2>3. c = m - 1 - n
    <3>1. c = IF n + 1 > m - 1 THEN 0 ELSE (m - 1) - (n + 1) + 1
      BY <2>1 DEF c
    <3> QED
      BY <1>4, <3>1
  <2> QED
    BY <2>2, <2>3
<1>8. Ready(s) = [i \in 1..Cardinality(ready) |-> s.buffer[n + i]]
  BY DEF Ready, Expected, B
<1>9. \A i \in 1..k : n + i \in B
  BY <1>4, <1>5
<1> QED
  BY <1>4, <1>5, <1>7, <1>8, <1>9 DEF B

(* The sessions a drain goes through.                                       *)
DrainStart(s) ==
  [s EXCEPT !.buffer = [r \in DOMAIN @ \ {e.rev : e \in ToSet(Ready(s))} |-> @[r]]]

IsDrain(f, s) ==
  f = [n \in 0..Len(Ready(s)) |->
         IF n = 0 THEN DrainStart(s) ELSE ReconcileServerOperation(f[n - 1], Ready(s)[n])]

Drained(s) == (CHOOSE f : IsDrain(f, s))[Len(Ready(s))]

(* What it does at the end: ask for a gap, finish the sync.                 *)
DrainEnd(applied) ==
  LET gap   == applied.buffer # <<>>
      asked == IF gap /\ applied.gapRequested # Expected(applied)
               THEN RequestCatchup([applied EXCEPT !.gapRequested = Expected(applied)])
               ELSE applied
  IN  MaybeFinalizeSync(IF gap THEN asked ELSE [applied EXCEPT !.gapRequested = NoRevision])

(* drainBuffer in two parts: what it applies, and what it asks for at the   *)
(* end.                                                                     *)
LEMMA DrainParts ==
  ASSUME NEW s
  PROVE  DrainBuffer(s) = DrainEnd(Drained(s))
  BY Zenon DEF DrainBuffer, DrainEnd, Drained, IsDrain, DrainStart

(* Every buffer can be drained.                                             *)
LEMMA DrainExists ==
  ASSUME NEW s, IsList(Ready(s))
  PROVE  \E f : IsDrain(f, s)
<1> DEFINE first == DrainStart(s)
           step(d, n) == ReconcileServerOperation(d, Ready(s)[n])
           upTo(f, m) == f = [n \in 0..m |-> IF n = 0 THEN first ELSE step(f[n-1], n)]
           T == {m \in 0..Len(Ready(s)) : ~ \E f : upTo(f, m)}
<1>1. Len(Ready(s)) \in Nat
  BY DEF IsList
<1>2. T = {}
  <2> SUFFICES ASSUME T # {} PROVE FALSE
    OBVIOUS
  <2>1. PICK m \in T : \A k \in T : m <= k
    <3>1. T \subseteq Nat
      BY <1>1
    <3> HIDE DEF T
    <3> QED
      BY <3>1, Smallest
  <2>2. m \in 0..Len(Ready(s)) /\ ~ \E f : upTo(f, m)
    OBVIOUS
  <2> HIDE DEF first, step
  <2>3. CASE m = 0
    <3>1. upTo([n \in 0..0 |-> first], 0)
      OBVIOUS
    <3> QED
      BY <2>2, <2>3, <3>1
  <2>4. CASE m > 0
    <3>1. m - 1 \in 0..Len(Ready(s)) /\ m - 1 \notin T
      <4>1. m - 1 \in 0..Len(Ready(s)) /\ ~ m <= m - 1
        BY <1>1, <2>2, <2>4
      <4> HIDE DEF T
      <4> QED
        BY <2>1, <4>1
    <3>2. PICK f : upTo(f, m - 1)
      BY <3>1
    <3> DEFINE g == [n \in 0..m |-> IF n = 0 THEN first ELSE step(f[n-1], n)]
    <3>3. ASSUME NEW n \in 0..m-1 PROVE g[n] = f[n]
      <4>1. f[n] = [i \in 0..m-1 |-> IF i = 0 THEN first ELSE step(f[i-1], i)][n]
        BY <3>2
      <4> QED
        BY <2>2, <4>1
    <3>4. \A n \in 1..m : g[n-1] = f[n-1]
      <4>1. \A n \in 1..m : n-1 \in 0..m-1
        BY <2>2
      <4> HIDE DEF g
      <4> QED
        BY <3>3, <4>1
    <3>5. [n \in 0..m |-> IF n = 0 THEN first ELSE step(f[n-1], n)]
          = [n \in 0..m |-> IF n = 0 THEN first ELSE step(g[n-1], n)]
      <4> HIDE DEF g
      <4>1. ASSUME NEW n \in 0..m
            PROVE  (IF n = 0 THEN first ELSE step(f[n-1], n))
                   = (IF n = 0 THEN first ELSE step(g[n-1], n))
        <5>1. n = 0 \/ n \in 1..m
          BY <2>2
        <5> QED
          BY <3>4, <5>1, Zenon
      <4> QED
        BY <4>1, Zenon
    <3>6. upTo(g, m)
      BY <3>5
    <3> QED
      BY <2>2, <3>6
  <2> QED
    BY <1>1, <2>2, <2>3, <2>4
<1>3. \E f : upTo(f, Len(Ready(s)))
  BY <1>1, <1>2
<1> QED
  BY <1>3 DEF IsDrain

(* One operation after the other.                                           *)
LEMMA DrainTrace ==
  ASSUME NEW s, IsList(Ready(s))
  PROVE  \E f : /\ Drained(s) = f[Len(Ready(s))]
               /\ f[0] = DrainStart(s)
               /\ \A n \in 1..Len(Ready(s)) :
                    f[n] = ReconcileServerOperation(f[n - 1], Ready(s)[n])
<1> DEFINE c == CHOOSE f : IsDrain(f, s)
           h == [n \in 0..Len(Ready(s)) |->
                   IF n = 0 THEN DrainStart(s) ELSE ReconcileServerOperation(c[n - 1], Ready(s)[n])]
<1>1. IsDrain(c, s)
  BY DrainExists
<1>2. Drained(s) = c[Len(Ready(s))]
  BY DEF Drained
<1> HIDE DEF c
<1>3. c = h
  BY <1>1 DEF IsDrain
<1>4. Len(Ready(s)) \in Nat
  BY DEF IsList
<1>5. h[0] = DrainStart(s) /\ \A n \in 1..Len(Ready(s)) : h[n] = ReconcileServerOperation(c[n - 1], Ready(s)[n])
  BY <1>4
<1> HIDE DEF h
<1>6. c[0] = DrainStart(s) /\ \A n \in 1..Len(Ready(s)) : c[n] = ReconcileServerOperation(c[n - 1], Ready(s)[n])
  BY <1>3, <1>5
<1> QED
  BY <1>2, <1>6

(* Asking for a gap leaves the document alone.                              *)
LEMMA DrainEndBenign ==
  ASSUME NEW s, Shaped(s)
  PROVE  Benign(s, DrainEnd(s))
<1> DEFINE asking == [s EXCEPT !.gapRequested = Expected(s)]
           quiet == [s EXCEPT !.gapRequested = NoRevision]
           asked == RequestCatchup(asking)
<1>1. Benign(s, s)
  BY DEF Benign, Same
<1>2. Benign(s, asking) /\ Benign(s, quiet)
  BY DEF Benign, Shaped, Same, SessionFields
<1>3. Benign(s, asked)
  <2> HIDE DEF asking
  <2>1. Benign(asking, asked)
    BY <1>2, RequestCatchupBenign DEF Benign
  <2> QED
    BY <1>2, <2>1, BenignTwice
<1>4. \E u \in {s, asked, quiet} : DrainEnd(s) = MaybeFinalizeSync(u)
  BY DEF DrainEnd
<1> HIDE DEF asked, quiet
<1>5. PICK u \in {s, asked, quiet} : DrainEnd(s) = MaybeFinalizeSync(u)
  BY <1>4
<1>6. Benign(s, u)
  BY <1>1, <1>2, <1>3
<1>7. Benign(u, MaybeFinalizeSync(u))
  BY <1>6, MaybeFinalizeSyncBenign DEF Benign
<1> QED
  BY <1>5, <1>6, <1>7, BenignTwice

-----------------------------------------------------------------------------
(* Draining the buffer.                                                     *)

Carries(s, t, log) ==
  \A base : BuiltOn(base, s.committed, log) => BuiltOn(base, t.committed, log)

(* What a handler may do to the document: move it along the log.            *)
Advances(s, t, log, d) ==
  /\ SessionSound(t, log, d)
  /\ t.committed.revision >= s.committed.revision
  /\ Carries(s, t, log)
  /\ Beside(s, t)
  /\ DOMAIN s.buffer = {} => t.committed = s.committed /\ DOMAIN t.buffer = {}

(* n operations of the log applied to the session s.                        *)
DrainedBy(s, t, n, log) ==
  /\ Shaped(t) /\ Beside(s, t)
  /\ t.buffer = DrainStart(s).buffer
  /\ IsDocument(t.committed)
  /\ t.committed.revision = s.committed.revision + n
  /\ Carries(s, t, log)
  /\ n = 0 => t.committed = s.committed

(* Taking the ready entries out of the buffer.                              *)
LEMMA DrainStartSound ==
  ASSUME NEW s, Shaped(s), NEW log, IsDocument(s.committed), s.committed.revision \in Nat
  PROVE  /\ DrainedBy(s, DrainStart(s), 0, log)
         /\ DOMAIN DrainStart(s).buffer = DOMAIN s.buffer \ {e.rev : e \in ToSet(Ready(s))}
         /\ \A r \in DOMAIN DrainStart(s).buffer : DrainStart(s).buffer[r] = s.buffer[r]
<1> DEFINE rest == [r \in DOMAIN s.buffer \ {e.rev : e \in ToSet(Ready(s))} |-> s.buffer[r]]
           t == DrainStart(s)
<1>1. /\ DOMAIN rest = DOMAIN s.buffer \ {e.rev : e \in ToSet(Ready(s))}
      /\ \A r \in DOMAIN rest : rest[r] = s.buffer[r]
  OBVIOUS
<1>2. t = [s EXCEPT !.buffer = rest]
  BY DEF DrainStart
<1> HIDE DEF rest, t
<1>3. /\ Shaped(t) /\ Beside(s, t) /\ t.buffer = rest /\ t.committed = s.committed
  BY <1>2 DEF Shaped, SessionFields, Beside
<1>4. Carries(s, t, log)
  BY <1>3 DEF Carries
<1>5. s.committed.revision + 0 = s.committed.revision
  OBVIOUS
<1> QED
  BY <1>1, <1>3, <1>4, <1>5 DEF DrainedBy, t

(* One entry of the log, applied on the document right behind it.           *)
LEMMA DrainStep ==
  ASSUME NEW s, NEW t, NEW n \in Nat, NEW log, NEW d, LogBehind(log, d),
         s.committed.revision \in Nat, s.committed.revision + n + 1 <= d,
         DrainedBy(s, t, n, log), NEW entry, entry = log[s.committed.revision + n + 1]
  PROVE  DrainedBy(s, ReconcileServerOperation(t, entry), n + 1, log)
<1> DEFINE u == ReconcileServerOperation(t, entry)
           next == ApplyOperation(t.committed, entry.operation, entry.rev)
           r == s.committed.revision
           m == r + n
<1>1. /\ m \in Nat /\ m + 1 \in 1..Len(log) /\ (m + 1) - 1 = m /\ m + 1 \in DOMAIN log
      /\ log \in Seq(ToSet(log)) /\ r \in Nat
  <2>1. log \in Seq(ToSet(log)) /\ d \in 0..Len(log) /\ r \in Nat /\ r + n + 1 <= d
    BY DEF LogBehind, IsList
  <2> DEFINE k == Len(log)
  <2>2. k \in Nat /\ DOMAIN log = 1..k
    BY <2>1
  <2> HIDE DEF r, k
  <2>3. m \in Nat /\ m + 1 \in 1..k /\ (m + 1) - 1 = m
    BY <2>1, <2>2
  <2> QED
    BY <2>1, <2>2, <2>3 DEF k
<1>2. /\ IsOperation(entry.operation) /\ entry.rev = m + 1 /\ entry = log[m + 1]
  BY <1>1 DEF LogBehind
<1>3. /\ Shaped(u) /\ Beside(t, u) /\ u.buffer = t.buffer /\ u.committed = next
  BY ReconcileServerOperationSound DEF DrainedBy
<1>4. t.committed.revision = m /\ IsDocument(t.committed)
  BY DEF DrainedBy
<1>5. IsDocument(next) /\ next.revision = m + 1
  BY <1>2, <1>4, ApplyKeepsDocument
<1>6. Carries(s, u, log)
  <2> SUFFICES ASSUME NEW base, BuiltOn(base, s.committed, log)
               PROVE  BuiltOn(base, u.committed, log)
    BY DEF Carries
  <2>1. t.committed = Replay(base, SubSeq(log, 1, m))
    BY <1>4 DEF DrainedBy, Carries, BuiltOn
  <2>2. Replay(base, SubSeq(log, 1, m + 1)) =
          ApplyOperation(Replay(base, SubSeq(log, 1, (m + 1) - 1)),
                         log[m + 1].operation, log[m + 1].rev)
    <3> DEFINE k == m + 1
    <3>1. k \in 1..Len(log)
      BY <1>1
    <3> HIDE DEF k, m
    <3>2. Replay(base, SubSeq(log, 1, k)) =
          ApplyOperation(Replay(base, SubSeq(log, 1, k - 1)), log[k].operation, log[k].rev)
      BY <1>1, <3>1, ReplayStep
    <3> QED
      BY <3>2 DEF k
  <2> HIDE DEF m
  <2>3. next = Replay(base, SubSeq(log, 1, m + 1))
    BY <1>1, <1>2, <2>1, <2>2
  <2> QED
    BY <1>3, <1>5, <2>3 DEF BuiltOn
<1> HIDE DEF next
<1>7. Beside(s, u)
  BY <1>3 DEF Beside, DrainedBy
<1>8. u.buffer = DrainStart(s).buffer
  BY <1>3 DEF DrainedBy
<1>9. u.committed.revision = s.committed.revision + (n + 1) /\ n + 1 # 0
  <2>1. u.committed.revision = m + 1
    BY <1>3, <1>5
  <2> HIDE DEF r
  <2>2. m + 1 = r + (n + 1) /\ n + 1 # 0
    BY <1>1
  <2> QED
    BY <2>1, <2>2 DEF r
<1> QED
  BY <1>3, <1>5, <1>6, <1>7, <1>8, <1>9 DEF DrainedBy, u

(* The ready entries of the buffer take the document along the log.         *)
LEMMA DrainedSound ==
  ASSUME NEW s, NEW log, NEW d, LogBehind(log, d), SessionSound(s, log, d)
  PROVE  Advances(s, Drained(s), log, d)
<1> DEFINE n == s.committed.revision
           t == Drained(s)
<1>1. /\ n \in Nat /\ n <= d /\ d \in Nat /\ d <= Len(log) /\ Shaped(s) /\ IsDocument(s.committed)
      /\ \A r \in DOMAIN s.buffer : r \in n + 1 .. d /\ s.buffer[r] = log[r]
      /\ \A i \in DOMAIN log : log[i].rev = i /\ IsOperation(log[i].operation)
      /\ Len(log) \in Nat /\ DOMAIN log = 1..Len(log)
  BY DEF SessionSound, CommittedSound, BufferSound, LogBehind, IsList
<1> HIDE DEF n
<1>2. PICK k \in Nat : /\ Ready(s) = [i \in 1..k |-> s.buffer[n + i]]
                       /\ \A i \in 1..k : n + i \in DOMAIN s.buffer
                       /\ n + k + 1 \notin DOMAIN s.buffer
  BY <1>1, ReadyIsStretch DEF n
<1>3. \A i \in 1..k : n + i <= d /\ n + i \in DOMAIN log /\ s.buffer[n + i] = log[n + i]
  <2> SUFFICES ASSUME NEW i \in 1..k
               PROVE  n + i <= d /\ n + i \in DOMAIN log /\ s.buffer[n + i] = log[n + i]
    OBVIOUS
  <2>1. n + i \in n + 1 .. d /\ s.buffer[n + i] = log[n + i]
    BY <1>1, <1>2
  <2> QED
    BY <1>1, <2>1
<1>4. /\ IsList(Ready(s)) /\ Len(Ready(s)) = k /\ DOMAIN Ready(s) = 1..k
      /\ \A i \in 1..k : Ready(s)[i] = log[n + i]
  <2> DEFINE r == Ready(s)
             S == {s.buffer[n + i] : i \in 1..k}
  <2>1. r \in [1..k -> S]
    BY <1>2
  <2> HIDE DEF S, r
  <2>2. r \in Seq(S) /\ Len(r) = k /\ DOMAIN r = 1..k
    BY <2>1
  <2>3. IsList(r)
    BY <2>2, SeqSelf DEF IsList
  <2>4. \A i \in 1..k : r[i] = log[n + i]
    BY <1>2, <1>3 DEF r
  <2> QED
    BY <2>2, <2>3, <2>4 DEF r
<1>5. {e.rev : e \in ToSet(Ready(s))} = {n + i : i \in 1..k}
  <2>1. \A i \in 1..k : Ready(s)[i].rev = n + i
    BY <1>1, <1>3, <1>4
  <2>2. ToSet(Ready(s)) = {Ready(s)[i] : i \in 1..k}
    BY <1>4 DEF ToSet
  <2> QED
    BY <2>1, <2>2
<1>6. PICK f : /\ Drained(s) = f[Len(Ready(s))]
               /\ f[0] = DrainStart(s)
               /\ \A i \in 1..Len(Ready(s)) : f[i] = ReconcileServerOperation(f[i - 1], Ready(s)[i])
  BY <1>4, DrainTrace
<1>7. /\ DrainedBy(s, DrainStart(s), 0, log)
      /\ DOMAIN DrainStart(s).buffer = DOMAIN s.buffer \ {n + i : i \in 1..k}
      /\ \A r \in DOMAIN DrainStart(s).buffer : DrainStart(s).buffer[r] = s.buffer[r]
  BY <1>1, <1>5, DrainStartSound DEF n
<1>8. \A i \in 0..k : DrainedBy(s, f[i], i, log)
  <2> DEFINE T == {i \in 0..k : ~DrainedBy(s, f[i], i, log)}
  <2> SUFFICES ASSUME T # {} PROVE FALSE
    OBVIOUS
  <2>1. PICK i \in T : \A u \in T : i <= u
    <3>1. T \subseteq Nat
      OBVIOUS
    <3> HIDE DEF T
    <3> QED
      BY <3>1, Smallest
  <2>2. i # 0
    BY <1>6, <1>7, <2>1
  <2>3. i \in 1..k /\ i - 1 \in 0..k /\ i - 1 \notin T
    <3>1. i \in 1..k /\ i - 1 \in 0..k /\ ~ i <= i - 1
      BY <2>1, <2>2
    <3> HIDE DEF T
    <3> QED
      BY <2>1, <3>1
  <2>4. DrainedBy(s, f[i - 1], i - 1, log)
    BY <2>3
  <2> DEFINE j == i - 1
             entry == Ready(s)[i]
  <2>5. j \in Nat /\ i = j + 1 /\ n + j + 1 = n + i /\ n + j + 1 <= d
    BY <1>1, <1>3, <2>3
  <2>6. entry = log[n + j + 1] /\ f[i] = ReconcileServerOperation(f[j], entry)
    BY <1>4, <1>6, <2>3, <2>5
  <2> HIDE DEF entry, j, T
  <2>7. DrainedBy(s, ReconcileServerOperation(f[j], entry), j + 1, log)
    <3>1. DrainedBy(s, f[j], j, log)
      BY <2>4 DEF j
    <3> QED
      BY <1>1, <2>5, <2>6, <3>1, DrainStep DEF n
  <2>8. DrainedBy(s, f[i], i, log)
    BY <2>5, <2>6, <2>7
  <2> QED
    BY <2>1, <2>8 DEF T
<1>9. DrainedBy(s, t, k, log)
  BY <1>4, <1>6, <1>8
<1> HIDE DEF t
<1>10. n + k <= d
  <2>1. k = 0 \/ k \in 1..k
    OBVIOUS
  <2> QED
    BY <1>1, <1>3, <2>1
<1>11. CommittedSound(t.committed, log, d)
  <2>1. IsDocument(t.committed) /\ t.committed.revision = n + k /\ n + k \in 0..d
    BY <1>1, <1>9, <1>10 DEF DrainedBy, n
  <2>2. PICK base \in {EmptyDocument, InitialDocument} : BuiltOn(base, s.committed, log)
    BY DEF SessionSound, CommittedSound, BuiltOn
  <2>3. BuiltOn(base, t.committed, log)
    BY <1>9, <2>2 DEF DrainedBy, Carries
  <2> QED
    BY <2>1, <2>3 DEF CommittedSound, BuiltOn
<1>12. BufferSound(t, log, d)
  <2> SUFFICES ASSUME NEW r \in DOMAIN t.buffer
               PROVE  r \in t.committed.revision + 1 .. d /\ t.buffer[r] = log[r]
    BY DEF BufferSound
  <2>1. /\ r \in DOMAIN s.buffer /\ r \notin {n + i : i \in 1..k} /\ t.buffer[r] = s.buffer[r]
    BY <1>7, <1>9 DEF DrainedBy
  <2>2. r \in Nat /\ r >= n + 1 /\ r <= d /\ s.buffer[r] = log[r] /\ r # n + k + 1
    BY <1>1, <1>2, <2>1
  <2>3. ~(r <= n + k)
    <3> SUFFICES ASSUME r <= n + k PROVE FALSE
      OBVIOUS
    <3>1. r - n \in 1..k /\ r = n + (r - n)
      BY <1>1, <2>2
    <3> QED
      BY <2>1, <3>1
  <2>4. t.committed.revision = n + k
    BY <1>9 DEF DrainedBy, n
  <2> QED
    BY <1>1, <2>1, <2>2, <2>3, <2>4
<1>13. t.bufferedBootstrap # NoBootstrap => BootstrapSound(t.bufferedBootstrap, log, d)
  BY <1>9 DEF DrainedBy, Beside, SessionSound
<1>14. SessionSound(t, log, d)
  BY <1>9, <1>11, <1>12, <1>13 DEF SessionSound, DrainedBy
<1>15. t.committed.revision >= n
  BY <1>1, <1>9 DEF DrainedBy, n
<1>16. DOMAIN s.buffer = {} => t.committed = s.committed /\ DOMAIN t.buffer = {}
  <2> SUFFICES ASSUME DOMAIN s.buffer = {}
               PROVE  t.committed = s.committed /\ DOMAIN t.buffer = {}
    OBVIOUS
  <2>1. k = 0
    <3>1. k # 0 => 1 \in 1..k
      OBVIOUS
    <3> QED
      BY <1>2, <3>1
  <2>2. DOMAIN t.buffer = {}
    BY <1>7, <1>9 DEF DrainedBy
  <2> QED
    BY <1>9, <2>1, <2>2 DEF DrainedBy
<1> QED
  BY <1>9, <1>14, <1>15, <1>16 DEF Advances, DrainedBy, t, n

(* A handler that leaves the document alone keeps a session sound.          *)
LEMMA BenignSound ==
  ASSUME NEW s, NEW t, NEW log, NEW d, SessionSound(s, log, d), Benign(s, t)
  PROVE  Advances(s, t, log, d)
<1>1. SessionSound(t, log, d)
  BY DEF SessionSound, Benign, Same, BufferSound
<1>2. t.committed.revision >= s.committed.revision
  <2>1. s.committed.revision \in Int /\ t.committed = s.committed
    BY DEF SessionSound, CommittedSound, Benign, Same
  <2> QED
    BY <2>1
<1>3. Carries(s, t, log) /\ Beside(s, t)
  BY DEF Carries, Beside, Benign, Same
<1> QED
  BY <1>1, <1>2, <1>3 DEF Advances, Benign, Same

(* One after the other.                                                     *)
LEMMA AdvancesTwice ==
  ASSUME NEW r, NEW s, NEW t, NEW log, NEW d, SessionSound(r, log, d),
         Advances(r, s, log, d), Advances(s, t, log, d)
  PROVE  Advances(r, t, log, d)
<1>1. r.committed.revision \in Int /\ s.committed.revision \in Int /\ t.committed.revision \in Int
  BY DEF Advances, SessionSound, CommittedSound
<1>2. t.committed.revision >= r.committed.revision
  BY <1>1 DEF Advances
<1>3. Carries(r, t, log) /\ Beside(r, t)
  BY DEF Advances, Carries, Beside
<1> QED
  BY <1>2, <1>3 DEF Advances

(* So does drainBuffer as a whole.                                          *)
LEMMA DrainBufferSound ==
  ASSUME NEW s, NEW log, NEW d, LogBehind(log, d), SessionSound(s, log, d)
  PROVE  Advances(s, DrainBuffer(s), log, d)
<1>1. Advances(s, Drained(s), log, d)
  BY DrainedSound
<1>2. SessionSound(Drained(s), log, d)
  BY <1>1 DEF Advances
<1>3. Benign(Drained(s), DrainEnd(Drained(s)))
  BY <1>2, DrainEndBenign DEF SessionSound
<1>4. Advances(Drained(s), DrainEnd(Drained(s)), log, d)
  BY <1>2, <1>3, BenignSound
<1> QED
  BY <1>1, <1>4, AdvancesTwice, DrainParts

-----------------------------------------------------------------------------
(* The handlers of the server's messages.                                   *)

(* The log as the server keeps it: what it makes of the initial document is *)
(* sound at every revision.                                                 *)
History(log, d) == LogBehind(log, d) /\ ReplaysSoundly(InitialDocument, log)

(* What a message may do to a session.                                      *)
Progresses(s, t, log, d) ==
  /\ SessionSound(t, log, d)
  /\ t.committed.revision >= s.committed.revision
  /\ t.client = s.client
  /\ t.online = s.online
  /\ OnInitial(s, log) => OnInitial(t, log)

(* Going along the log is progress.                                         *)
LEMMA AdvancesProgresses ==
  ASSUME NEW s, NEW t, NEW log, NEW d, Advances(s, t, log, d)
  PROVE  Progresses(s, t, log, d)
  BY DEF Advances, Progresses, OnInitial, Carries, Beside

(* So is leaving the document alone.                                        *)
LEMMA BenignProgresses ==
  ASSUME NEW s, NEW t, NEW log, NEW d, SessionSound(s, log, d), Benign(s, t)
  PROVE  Progresses(s, t, log, d)
  BY BenignSound, AdvancesProgresses

(* Progress twice is progress.                                              *)
LEMMA ProgressesTwice ==
  ASSUME NEW r, NEW s, NEW t, NEW log, NEW d, SessionSound(r, log, d),
         Progresses(r, s, log, d), Progresses(s, t, log, d)
  PROVE  Progresses(r, t, log, d)
<1>1. r.committed.revision \in Int /\ s.committed.revision \in Int /\ t.committed.revision \in Int
  BY DEF Progresses, SessionSound, CommittedSound
<1>2. t.committed.revision >= r.committed.revision
  BY <1>1 DEF Progresses
<1> QED
  BY <1>2 DEF Progresses

(* The document of a bootstrap.                                             *)
LEMMA BootstrapDocument ==
  ASSUME NEW log, NEW d, History(log, d), NEW m, BootstrapSound(m, log, d)
  PROVE  LET doc == DeserializeDocument(m.document)
         IN  /\ IsDocument(doc) /\ doc.revision = m.revision
             /\ doc = Replay(InitialDocument, SubSeq(log, 1, m.revision))
             /\ m.revision \in 0..d
<1> DEFINE doc == Replay(InitialDocument, SubSeq(log, 1, m.revision))
<1>1. m.revision \in 0..Len(log) /\ m.revision \in 0..d /\ m.document = SerializeDocument(doc)
  <2>1. d \in 0..Len(log) /\ Len(log) \in Nat
    BY DEF History, LogBehind, IsList
  <2> QED
    BY <2>1 DEF BootstrapSound
<1>2. WellFormed(doc) /\ doc.revision = m.revision
  BY <1>1 DEF History, ReplaysSoundly
<1> HIDE DEF doc
<1>3. DeserializeDocument(m.document) = doc
  BY <1>1, <1>2, SnapshotRoundTrip
<1> QED
  BY <1>1, <1>2, <1>3 DEF WellFormed, doc

(* What a bootstrap puts in place.                                          *)
Replaced(s, m) ==
  [s EXCEPT
        !.bootstrapAccepted = TRUE,
        !.awaitingBootstrap = FALSE,
        !.committed = DeserializeDocument(m.document),
        !.buffer = [r \in {r \in DOMAIN @ : r > m.revision} |-> @[r]],
        !.known = AtLeastKnown(s, m.revision),
        !.pending = Filtered(@, {i \in DOMAIN @ : ~Covered(@[i], m.revision)})]

(* The document of a bootstrap in the place of the old one.                 *)
LEMMA ReplacedSound ==
  ASSUME NEW s, NEW log, NEW d, History(log, d), SessionSound(s, log, d),
         NEW m, BootstrapSound(m, log, d)
  PROVE  LET t == Replaced(s, m)
         IN  /\ SessionSound(t, log, d)
             /\ t.committed.revision = m.revision
             /\ t.client = s.client /\ t.online = s.online
             /\ t.welcomeSeen = s.welcomeSeen /\ t.bufferedBootstrap = s.bufferedBootstrap
             /\ OnInitial(t, log)
<1> DEFINE doc == DeserializeDocument(m.document)
           rest == [r \in {r \in DOMAIN s.buffer : r > m.revision} |-> s.buffer[r]]
           known == AtLeastKnown(s, m.revision)
           q == Filtered(s.pending, {i \in DOMAIN s.pending : ~Covered(s.pending[i], m.revision)})
           t == Replaced(s, m)
<1>1. /\ DOMAIN rest = {r \in DOMAIN s.buffer : r > m.revision}
      /\ \A r \in DOMAIN rest : rest[r] = s.buffer[r]
  OBVIOUS
<1>2. t = [s EXCEPT !.bootstrapAccepted = TRUE, !.awaitingBootstrap = FALSE, !.committed = doc,
                    !.buffer = rest, !.known = known, !.pending = q]
  BY DEF Replaced
<1>3. QueueSound(q)
  BY QueueFilter DEF SessionSound, Shaped
<1>4. IsDocument(doc) /\ doc.revision = m.revision /\ m.revision \in 0..d
      /\ doc = Replay(InitialDocument, SubSeq(log, 1, m.revision))
  BY BootstrapDocument
<1> HIDE DEF doc, rest, known, q, t
<1>5. /\ DOMAIN t = DOMAIN s /\ t.committed = doc /\ t.buffer = rest /\ t.pending = q
      /\ t.out = s.out /\ t.client = s.client /\ t.online = s.online
      /\ t.welcomeSeen = s.welcomeSeen /\ t.bufferedBootstrap = s.bufferedBootstrap
  <2>1. DOMAIN s = SessionFields
    BY DEF SessionSound, Shaped
  <2> QED
    BY <1>2, <2>1, Zenon DEF SessionFields
<1>6. Shaped(t)
  BY <1>3, <1>5 DEF Shaped, SessionSound
<1>7. OnInitial(t, log) /\ CommittedSound(t.committed, log, d)
  BY <1>4, <1>5 DEF OnInitial, BuiltOn, CommittedSound
<1>8. BufferSound(t, log, d)
  <2> SUFFICES ASSUME NEW r \in DOMAIN rest PROVE r \in m.revision + 1 .. d /\ rest[r] = log[r]
    BY <1>4, <1>5 DEF BufferSound
  <2>1. /\ r \in s.committed.revision + 1 .. d /\ s.buffer[r] = log[r] /\ r > m.revision
        /\ rest[r] = s.buffer[r]
    BY <1>1 DEF SessionSound, BufferSound
  <2>2. s.committed.revision \in Int /\ d \in Int /\ m.revision \in Int
    BY <1>4 DEF SessionSound, CommittedSound, History, LogBehind
  <2> QED
    BY <2>1, <2>2
<1>9. SessionSound(t, log, d)
  BY <1>5, <1>6, <1>7, <1>8 DEF SessionSound
<1> QED
  BY <1>4, <1>5, <1>7, <1>9 DEF t

(* A bootstrap takes the session forward, and what a new session takes is   *)
(* the initial document and the log.                                        *)
LEMMA InstallBootstrapSound ==
  ASSUME NEW s, NEW log, NEW d, History(log, d), SessionSound(s, log, d),
         NEW m, BootstrapSound(m, log, d)
  PROVE  LET t == InstallBootstrap(s, m)
         IN  /\ Progresses(s, t, log, d)
             /\ s.committed.revision = 0 /\ ~s.bootstrapAccepted => OnInitial(t, log)
<1> DEFINE r == Replaced(s, m)
           a == ApplyReconcile(r)
           b == RebuildView(a)
           t == DrainBuffer(b)
           initial == m.revision = 0 /\ s.committed.revision = 0 /\ ~s.bootstrapAccepted
           stays == [s EXCEPT !.awaitingBootstrap = FALSE]
<1>1. InstallBootstrap(s, m) =
        IF m.revision <= s.committed.revision /\ ~initial THEN stays ELSE t
  BY DEF InstallBootstrap, Replaced
<1>2. m.revision \in Int /\ s.committed.revision \in Int /\ m.revision >= 0
      /\ s.committed.revision >= 0 /\ LogBehind(log, d)
  <2>1. d \in Int
    BY DEF History, LogBehind, IsList
  <2> QED
    BY <2>1 DEF BootstrapSound, SessionSound, CommittedSound, History
<1>3. Progresses(s, stays, log, d)
  <2>1. Benign(s, stays)
    BY DEF Benign, Shaped, SessionSound, Same, SessionFields
  <2> HIDE DEF stays
  <2> QED
    BY <2>1, BenignProgresses
<1>4. /\ SessionSound(r, log, d) /\ OnInitial(r, log)
      /\ r.committed.revision = m.revision /\ r.client = s.client /\ r.online = s.online
  BY ReplacedSound
<1> HIDE DEF r, stays
<1>5. Progresses(r, t, log, d)
  <2>1. Benign(r, a)
    BY <1>4, ApplyReconcileBenign DEF SessionSound
  <2> HIDE DEF a
  <2>2. Benign(a, b)
    BY <2>1, RebuildViewBenign DEF Benign
  <2> HIDE DEF b
  <2>3. Benign(r, b)
    BY <2>1, <2>2, BenignTwice
  <2>4. Advances(r, b, log, d)
    BY <1>4, <2>3, BenignSound
  <2>5. Advances(b, t, log, d)
    BY <1>2, <2>4, DrainBufferSound DEF Advances
  <2> HIDE DEF t
  <2>6. Advances(r, t, log, d)
    BY <1>4, <2>4, <2>5, AdvancesTwice
  <2> QED
    BY <2>6, AdvancesProgresses
<1> HIDE DEF t
<1>6. CASE m.revision <= s.committed.revision /\ ~initial
  <2>1. InstallBootstrap(s, m) = stays
    BY <1>1, <1>6
  <2>2. ~(s.committed.revision = 0 /\ ~s.bootstrapAccepted)
    BY <1>2, <1>6
  <2> QED
    BY <1>3, <2>1, <2>2
<1>7. CASE ~(m.revision <= s.committed.revision /\ ~initial)
  <2>1. InstallBootstrap(s, m) = t
    BY <1>1, <1>7
  <2>2. m.revision >= s.committed.revision
    BY <1>2, <1>7
  <2>3. Progresses(s, t, log, d) /\ OnInitial(t, log)
    <3>1. t.committed.revision \in Int
      BY <1>5 DEF Progresses, SessionSound, CommittedSound
    <3>2. t.committed.revision >= s.committed.revision
      BY <1>2, <1>4, <1>5, <2>2, <3>1 DEF Progresses
    <3> QED
      BY <1>4, <1>5, <3>2 DEF Progresses
  <2> QED
    BY <2>1, <2>3
<1> QED
  BY <1>6, <1>7

(* What every handler leaves alone that neither installs nor drains.        *)
Rests(s, t) ==
  /\ t.client = s.client
  /\ t.committed = s.committed
  /\ t.buffer = s.buffer
  /\ t.bufferedBootstrap = s.bufferedBootstrap
  /\ t.online = s.online
  /\ t.bootstrapAccepted = s.bootstrapAccepted

(* A handler that touches only the bookkeeping of the connection.           *)
LEMMA RestsProgresses ==
  ASSUME NEW s, NEW t, NEW log, NEW d, SessionSound(s, log, d), Shaped(t),
         t.committed = s.committed, t.buffer = s.buffer, t.client = s.client, t.online = s.online,
         t.bufferedBootstrap = s.bufferedBootstrap \/ t.bufferedBootstrap = NoBootstrap
  PROVE  Progresses(s, t, log, d)
<1>1. SessionSound(t, log, d)
  BY DEF SessionSound, BufferSound
<1>2. t.committed.revision >= s.committed.revision
  <2>1. s.committed.revision \in Int
    BY DEF SessionSound, CommittedSound
  <2> QED
    BY <2>1
<1> QED
  BY <1>1, <1>2 DEF Progresses, OnInitial

(* A welcome installs the bootstrap that came ahead of it, if there is one, *)
(* and greets the session.                                                  *)
LEMMA HandleWelcomeSound ==
  ASSUME NEW s, NEW log, NEW d, History(log, d), SessionSound(s, log, d), NEW m
  PROVE  LET t == HandleWelcome(s, m)
         IN  /\ Progresses(s, t, log, d)
             /\ s.bufferedBootstrap = NoBootstrap /\ ~m.diverged =>
                  t.welcomeSeen /\ Rests(s, t)
<1> DEFINE known == AtLeastKnown(s, m.revision)
           lists == IF m.revision >= s.known THEN m.reconcile ELSE s.reconcile
           greeted == [s EXCEPT !.welcomeSeen = TRUE, !.known = known, !.reconcile = lists]
           bootstrapFollows ==
             /\ m.revision > 0
             /\ \/ s.committed.revision = 0
                \/ m.revision - s.committed.revision > SnapshotThreshold
           behind == greeted.buffer # <<>> \/ Expected(greeted) <= greeted.known
           ready == [greeted EXCEPT !.awaitingBootstrap = FALSE]
           opened == [ready EXCEPT !.bufferedBootstrap = NoBootstrap]
           installed == InstallBootstrap(opened, s.bufferedBootstrap)
           waits == [greeted EXCEPT !.awaitingBootstrap = TRUE]
           asked == IF behind THEN RequestCatchup(ready) ELSE ready
           synced == MaybeFinalizeSync(asked)
           stopped == [s EXCEPT !.stopped = TRUE]
           t == HandleWelcome(s, m)
<1>1. t = IF m.diverged THEN stopped
          ELSE IF s.bufferedBootstrap # NoBootstrap THEN installed
          ELSE IF bootstrapFollows THEN waits
          ELSE synced
  BY DEF HandleWelcome
<1> HIDE DEF known, lists
<1>2. Shaped(s)
  BY DEF SessionSound
<1>3. Shaped(greeted) /\ Rests(s, greeted) /\ greeted.welcomeSeen
  BY <1>2 DEF Shaped, SessionFields, Rests
<1> HIDE DEF greeted, behind, bootstrapFollows
<1>4. /\ Shaped(ready) /\ Rests(s, ready) /\ ready.welcomeSeen
      /\ Shaped(waits) /\ Rests(s, waits) /\ waits.welcomeSeen
  BY <1>3 DEF Shaped, SessionFields, Rests
<1> HIDE DEF waits, ready
<1>5. CASE m.diverged
  <2>1. Shaped(stopped) /\ Rests(s, stopped)
    BY <1>2 DEF Shaped, SessionFields, Rests
  <2> HIDE DEF stopped
  <2>2. Progresses(s, stopped, log, d)
    BY <2>1, RestsProgresses DEF Rests
  <2> QED
    BY <1>1, <1>5, <2>2
<1>6. CASE ~m.diverged /\ s.bufferedBootstrap # NoBootstrap
  <2>1. /\ Shaped(opened) /\ opened.committed = s.committed /\ opened.buffer = s.buffer
        /\ opened.client = s.client /\ opened.online = s.online
        /\ opened.bufferedBootstrap = NoBootstrap
    BY <1>4 DEF Shaped, SessionFields, Rests
  <2> HIDE DEF opened
  <2>2. Progresses(s, opened, log, d)
    BY <2>1, RestsProgresses
  <2>3. BootstrapSound(s.bufferedBootstrap, log, d)
    BY <1>6 DEF SessionSound
  <2>4. Progresses(opened, installed, log, d)
    BY <2>2, <2>3, InstallBootstrapSound DEF Progresses
  <2> HIDE DEF installed
  <2>5. Progresses(s, installed, log, d)
    BY <2>2, <2>4, ProgressesTwice
  <2> QED
    BY <1>1, <1>6, <2>5
<1>7. CASE ~m.diverged /\ s.bufferedBootstrap = NoBootstrap /\ bootstrapFollows
  <2>1. t = waits
    BY <1>1, <1>7
  <2>2. Progresses(s, waits, log, d)
    BY <1>4, RestsProgresses DEF Rests
  <2> QED
    BY <1>4, <2>1, <2>2
<1>8. CASE ~m.diverged /\ s.bufferedBootstrap = NoBootstrap /\ ~bootstrapFollows
  <2>1. t = synced
    BY <1>1, <1>8
  <2>2. Benign(ready, ready)
    BY <1>4 DEF Benign, Same
  <2>3. Benign(ready, asked)
    BY <1>4, <2>2, RequestCatchupBenign
  <2> HIDE DEF asked
  <2>4. Benign(asked, synced)
    BY <2>3, MaybeFinalizeSyncBenign DEF Benign
  <2> HIDE DEF synced
  <2>5. Benign(ready, synced)
    BY <2>3, <2>4, BenignTwice
  <2>6. Shaped(synced) /\ Rests(s, synced) /\ synced.welcomeSeen
    BY <1>4, <2>5 DEF Benign, Same, Rests
  <2>7. Progresses(s, synced, log, d)
    BY <2>6, RestsProgresses DEF Rests
  <2> QED
    BY <2>1, <2>6, <2>7
<1> QED
  BY <1>5, <1>6, <1>7, <1>8

(* A bootstrap is installed, or kept for the welcome; for a session that    *)
(* has no document yet it is where its document starts.                     *)
LEMMA HandleBootstrapSound ==
  ASSUME NEW s, NEW log, NEW d, History(log, d), SessionSound(s, log, d),
         NEW m, BootstrapSound(m, log, d)
  PROVE  LET t == HandleBootstrap(s, m)
         IN  /\ Progresses(s, t, log, d)
             /\ s.welcomeSeen /\ s.committed.revision = 0 /\ ~s.bootstrapAccepted =>
                  OnInitial(t, log)
<1> DEFINE t == HandleBootstrap(s, m)
           held == [s EXCEPT !.bufferedBootstrap = m]
<1>1. CASE s.welcomeSeen
  BY <1>1, InstallBootstrapSound DEF HandleBootstrap
<1>2. CASE ~s.welcomeSeen
  <2>1. t = held
    BY <1>2 DEF HandleBootstrap
  <2>2. /\ Shaped(held) /\ held.committed = s.committed /\ held.buffer = s.buffer
        /\ held.client = s.client /\ held.online = s.online /\ held.bufferedBootstrap = m
    BY DEF SessionSound, Shaped, SessionFields
  <2> HIDE DEF held
  <2>3. SessionSound(held, log, d)
    BY <2>2 DEF SessionSound, BufferSound
  <2>4. held.committed.revision >= s.committed.revision
    <3>1. s.committed.revision \in Int
      BY DEF SessionSound, CommittedSound
    <3> QED
      BY <2>2, <3>1
  <2>5. Progresses(s, held, log, d)
    BY <2>2, <2>3, <2>4 DEF Progresses, OnInitial
  <2> QED
    BY <1>2, <2>1, <2>5
<1> QED
  BY <1>1, <1>2

(* Fresh operations, in any order and any number of times, only fill the    *)
(* buffer.                                                                  *)
LEMMA HandleOperationsSound ==
  ASSUME NEW s, NEW log, NEW d, LogBehind(log, d), SessionSound(s, log, d),
         NEW m, EntriesSound(m.entries, log, d)
  PROVE  Progresses(s, HandleOperations(s, m), log, d)
<1> DEFINE n == s.committed.revision
           fresh == {e \in ToSet(m.entries) : e.rev >= Expected(s)}
           at(r) == CHOOSE e \in fresh : e.rev = r
           more == [r \in DOMAIN s.buffer \cup {e.rev : e \in fresh} |->
                      IF \E e \in fresh : e.rev = r THEN at(r) ELSE s.buffer[r]]
           t == [s EXCEPT !.buffer = more]
<1>1. HandleOperations(s, m) = DrainBuffer(t)
  BY DEF HandleOperations
<1>2. n \in Int /\ d \in Int /\ Expected(s) = n + 1
  BY DEF SessionSound, CommittedSound, LogBehind, IsList, Expected
<1>3. \A e \in fresh : e.rev \in n + 1 .. d /\ e = log[e.rev]
  <2> SUFFICES ASSUME NEW e \in fresh PROVE e.rev \in n + 1 .. d /\ e = log[e.rev]
    OBVIOUS
  <2>1. e.rev \in 1..d /\ e = log[e.rev] /\ e.rev >= n + 1
    BY <1>2 DEF EntriesSound
  <2> HIDE DEF n
  <2> QED
    BY <1>2, <2>1
<1>4. \A r \in DOMAIN s.buffer : r \in n + 1 .. d /\ s.buffer[r] = log[r]
  BY DEF SessionSound, BufferSound
<1> HIDE DEF fresh
<1>5. ASSUME NEW r \in DOMAIN more PROVE r \in n + 1 .. d /\ more[r] = log[r]
  <2>1. CASE \E e \in fresh : e.rev = r
    <3>1. at(r) \in fresh /\ at(r).rev = r
      BY <2>1
    <3>2. more[r] = at(r)
      BY <2>1
    <3> HIDE DEF at, more
    <3> QED
      BY <1>3, <3>1, <3>2
  <2>2. CASE ~\E e \in fresh : e.rev = r
    <3>1. r \in DOMAIN s.buffer /\ more[r] = s.buffer[r]
      BY <2>2
    <3> QED
      BY <1>4, <3>1
  <2> QED
    BY <2>1, <2>2
<1> HIDE DEF more
<1>6. /\ Shaped(t) /\ t.committed = s.committed /\ t.buffer = more
      /\ t.client = s.client /\ t.online = s.online
      /\ t.bufferedBootstrap = s.bufferedBootstrap
  BY DEF SessionSound, Shaped, SessionFields
<1> HIDE DEF t
<1>7. SessionSound(t, log, d)
  BY <1>5, <1>6 DEF SessionSound, BufferSound
<1>8. Progresses(s, t, log, d)
  <2>1. t.committed.revision >= s.committed.revision
    BY <1>2, <1>6
  <2> QED
    BY <1>6, <1>7, <2>1 DEF Progresses, OnInitial
<1>9. Progresses(t, DrainBuffer(t), log, d)
  BY <1>7, DrainBufferSound, AdvancesProgresses
<1> QED
  BY <1>1, <1>8, <1>9, ProgressesTwice

(* An ACK settles an entry of the queue.                                    *)
LEMMA HandleAckBenign ==
  ASSUME NEW s, Shaped(s), NEW m
  PROVE  Benign(s, HandleAck(s, m))
<1> DEFINE known == AtLeastKnown(s, m.revision)
           q == [i \in DOMAIN s.pending |->
                  IF s.pending[i].env.op = m.op
                  THEN [s.pending[i] EXCEPT !.acked = TRUE, !.ackRevision = m.revision]
                  ELSE s.pending[i]]
           heard == [s EXCEPT !.known = known]
           marked == [heard EXCEPT !.pending = q]
           dropped == RebuildView(WithoutPending(marked, m.op))
<1>1. heard.pending = s.pending /\ DOMAIN heard = SessionFields
  BY DEF Shaped, SessionFields
<1>2. HandleAck(s, m) = marked \/ HandleAck(s, m) = dropped
  BY <1>1 DEF HandleAck
<1>3. ASSUME NEW i \in DOMAIN s.pending PROVE PendingSound(q[i])
  <2> DEFINE p == s.pending[i]
             r == m.revision
  <2>1. PendingSound(p)
    BY DEF Shaped, QueueSound, ToSet
  <2>2. q[i] = IF p.env.op = m.op THEN [p EXCEPT !.acked = TRUE, !.ackRevision = r] ELSE p
    OBVIOUS
  <2> HIDE DEF p, r
  <2>3. PendingSound([p EXCEPT !.acked = TRUE, !.ackRevision = r])
    BY <2>1 DEF PendingSound
  <2> QED
    BY <2>1, <2>2, <2>3
<1>4. q = [i \in DOMAIN s.pending |-> q[i]]
  OBVIOUS
<1> HIDE DEF q, known
<1>5. QueueSound(q)
  BY <1>3, <1>4, QueueMap DEF Shaped
<1>6. DOMAIN marked = SessionFields /\ marked.pending = q /\ marked.out = s.out /\ Same(s, marked)
  BY DEF Shaped, SessionFields, Same
<1> HIDE DEF marked
<1>7. Benign(s, marked)
  BY <1>5, <1>6, OtherQueue
<1>8. Benign(s, dropped)
  <2> DEFINE w == WithoutPending(marked, m.op)
  <2>1. Benign(marked, w)
    BY <1>7, WithoutPendingBenign DEF Benign
  <2> HIDE DEF w
  <2>2. Benign(w, RebuildView(w))
    BY <2>1, RebuildViewBenign DEF Benign
  <2>3. Benign(s, RebuildView(w))
    BY <1>7, <2>1, <2>2, BenignTwice
  <2> QED
    BY <2>3 DEF w
<1> QED
  BY <1>2, <1>7, <1>8

(* A rejection drops an entry, renumbers the queue or stops it.             *)
LEMMA HandleRejectedBenign ==
  ASSUME NEW s, Shaped(s), NEW m
  PROVE  Benign(s, HandleRejected(s, m))
<1> DEFINE renumbered == RebaselinePendingSequence(s, m.expected)
           w == WithoutPending(s, m.op)
           told == w.conflicts \cup {[op |-> m.op, reason |-> "rejected"]}
           u == [w EXCEPT !.conflicts = told]
<1>1. Benign(s, s)
  BY DEF Benign, Same
<1>2. Benign(s, ResendAllPending(s))
  BY ResendAllPendingBenign
<1>3. Benign(s, ResendAllPending(renumbered))
  <2>1. Benign(s, renumbered)
    BY RebaselineBenign
  <2> HIDE DEF renumbered
  <2>2. Benign(renumbered, ResendAllPending(renumbered))
    BY <2>1, ResendAllPendingBenign DEF Benign
  <2> QED
    BY <2>1, <2>2, BenignTwice
<1>4. Benign(s, RebuildView(u))
  <2>1. Benign(s, w)
    BY WithoutPendingBenign
  <2> HIDE DEF w, told
  <2>2. Benign(s, u)
    BY <2>1 DEF Benign, Shaped, Same, SessionFields
  <2> HIDE DEF u
  <2>3. Benign(u, RebuildView(u))
    BY <2>2, RebuildViewBenign DEF Benign
  <2> QED
    BY <2>2, <2>3, BenignTwice
<1>5. HandleRejected(s, m) \in
        {s, ResendAllPending(s), ResendAllPending(renumbered), RebuildView(u)}
  BY DEF HandleRejected, HandleSequenceViolation
<1> QED
  BY <1>1, <1>2, <1>3, <1>4, <1>5

(* Whatever the server sends takes a session forward on the log.            *)
LEMMA HandleServerMessageSound ==
  ASSUME NEW s, NEW log, NEW d, History(log, d), SessionSound(s, log, d),
         NEW m, MessageSound(m, log, d)
  PROVE  Progresses(s, HandleServerMessage(s, m), log, d)
<1> DEFINE t == HandleServerMessage(s, m)
<1>1. Shaped(s) /\ LogBehind(log, d)
  BY DEF SessionSound, History
<1>2. CASE m.type = "welcome"
  <2>1. t = HandleWelcome(s, m)
    BY <1>2 DEF HandleServerMessage
  <2> QED
    BY <2>1, HandleWelcomeSound
<1>3. CASE m.type = "bootstrap"
  <2>1. t = HandleBootstrap(s, m) /\ BootstrapSound(m, log, d)
    BY <1>3 DEF HandleServerMessage, MessageSound
  <2> QED
    BY <2>1, HandleBootstrapSound
<1>4. CASE m.type = "operations"
  <2>1. t = HandleOperations(s, m) /\ EntriesSound(m.entries, log, d)
    BY <1>4 DEF HandleServerMessage, MessageSound
  <2> QED
    BY <1>1, <2>1, HandleOperationsSound
<1>5. CASE m.type = "operationAck"
  <2>1. t = HandleAck(s, m)
    BY <1>5 DEF HandleServerMessage
  <2> QED
    BY <1>1, <2>1, HandleAckBenign, BenignProgresses
<1>6. CASE m.type = "operationRejected"
  <2>1. t = HandleRejected(s, m)
    BY <1>6 DEF HandleServerMessage
  <2> QED
    BY <1>1, <2>1, HandleRejectedBenign, BenignProgresses
<1> QED
  BY <1>2, <1>3, <1>4, <1>5, <1>6 DEF MessageSound, Messages

-----------------------------------------------------------------------------
(* Local operations, the clock and the connection.                          *)

(* A local operation enters the queue; offline, it is not sent.             *)
LEMMA SubmitLocalOperationBenign ==
  ASSUME NEW s, Shaped(s), NEW op \in OpId, NEW operation, IsOperation(operation)
  PROVE  LET t == SubmitLocalOperation(s, op, operation)
         IN  Benign(s, t) /\ (~s.online => t.out = s.out)
<1> DEFINE env == [op |-> op, client |-> s.client, seq |-> s.lastSequence + 1,
                   base |-> s.committed.revision, operation |-> operation]
           p == [env |-> env, acked |-> FALSE, ackRevision |-> NoRevision, noop |-> FALSE]
           q == Append(s.pending, p)
           last == s.lastSequence + 1
           longer == [s EXCEPT !.lastSequence = last, !.pending = q]
           rebuilt == RebuildView(longer)
           sent == IF s.online THEN Send(rebuilt, Submission(env)) ELSE rebuilt
           over == OverPendingLimit(sent)
           t == [sent EXCEPT !.stopped = over]
<1>1. SubmitLocalOperation(s, op, operation) = t
  BY DEF SubmitLocalOperation
<1>2. EnvelopeSound(env)
  BY DEF EnvelopeSound
<1> HIDE DEF env
<1>3. PendingSound(p)
  BY <1>2 DEF PendingSound
<1> HIDE DEF p
<1>4. QueueSound(q)
  BY <1>3, QueueAppend DEF Shaped
<1> HIDE DEF q, last
<1>5. DOMAIN longer = SessionFields /\ longer.pending = q /\ longer.out = s.out /\ Same(s, longer)
  BY DEF Shaped, SessionFields, Same
<1> HIDE DEF longer
<1>6. Benign(s, longer)
  BY <1>4, <1>5, OtherQueue
<1>7. Benign(s, rebuilt) /\ rebuilt.out = s.out
  <2>1. Benign(longer, rebuilt) /\ rebuilt.out = longer.out
    BY <1>6, RebuildViewBenign DEF Benign
  <2> QED
    BY <1>5, <1>6, <2>1, BenignTwice
<1> HIDE DEF rebuilt
<1>8. Benign(s, sent) /\ (~s.online => sent.out = s.out)
  <2>1. Benign(rebuilt, Send(rebuilt, Submission(env)))
    BY <1>2, <1>7, SubmissionSound, SendBenign DEF Benign
  <2>2. Benign(s, Send(rebuilt, Submission(env)))
    BY <1>7, <2>1, BenignTwice
  <2> QED
    BY <1>7, <2>2
<1> HIDE DEF sent, over
<1>9. Benign(s, t) /\ (~s.online => t.out = s.out)
  BY <1>8 DEF Benign, Shaped, Same, SessionFields
<1> QED
  BY <1>1, <1>9

(* The catch-up poll sends one frame at most.                               *)
LEMMA CatchupPollBenign ==
  ASSUME NEW s, Shaped(s)
  PROVE  Benign(s, CatchupPoll(s))
<1>1. Benign(s, s)
  BY DEF Benign, Same
<1> QED
  BY <1>1, RequestCatchupBenign DEF CatchupPoll

(* Giving up drops the queue into the Conflict Queue.                       *)
LEMMA OfflineTooLongBenign ==
  ASSUME NEW s, Shaped(s)
  PROVE  Benign(s, OfflineTooLong(s)) /\ OfflineTooLong(s).out = s.out
  BY DEF OfflineTooLong, Benign, Shaped, Same, SessionFields

(* A new connection begins with a join, and with nothing of an older one.   *)
LEMMA HandleConnectedSound ==
  ASSUME NEW s, NEW log, NEW d, SessionSound(s, log, d), s.out = <<>>
  PROVE  LET t == HandleConnected(s)
         IN  /\ SessionSound(t, log, d)
             /\ t.client = s.client /\ t.committed = s.committed /\ t.buffer = s.buffer
             /\ t.online = TRUE /\ t.welcomeSeen = FALSE /\ t.bootstrapAccepted = FALSE
             /\ t.bufferedBootstrap = NoBootstrap
             /\ Len(t.out) = 1 /\ t.out[1].type = "join"
             /\ t.out[1].last = s.committed.revision
<1> DEFINE fresh == (s.committed.revision = 0)
           ops == [i \in DOMAIN Unacked(s) |-> Unacked(s)[i].env.op]
           m == [type |-> "join", last |-> s.committed.revision, pending |-> ops]
           u == [s EXCEPT
                  !.online = TRUE, !.hasConnected = TRUE, !.awaitingSync = TRUE,
                  !.known = NoRevision, !.reconcile = NoReconcile,
                  !.welcomeSeen = FALSE, !.bufferedBootstrap = NoBootstrap,
                  !.bootstrapAccepted = FALSE, !.awaitingBootstrap = fresh]
           t == HandleConnected(s)
<1>1. t = Send(u, m)
  BY DEF HandleConnected
<1>2. FrameSound(m) /\ m.type = "join" /\ m.last = s.committed.revision
  BY DEF FrameSound
<1> HIDE DEF m, fresh, t
<1>3. /\ DOMAIN u = SessionFields /\ u.client = s.client /\ u.committed = s.committed
      /\ u.buffer = s.buffer /\ u.pending = s.pending /\ u.out = <<>>
      /\ u.online = TRUE /\ u.welcomeSeen = FALSE /\ u.bootstrapAccepted = FALSE
      /\ u.bufferedBootstrap = NoBootstrap
  <2>1. DOMAIN s = SessionFields
    BY DEF SessionSound, Shaped
  <2> QED
    BY <2>1, Zenon DEF SessionFields
<1> HIDE DEF u
<1>4. SessionSound(u, log, d)
  BY <1>3 DEF SessionSound, Shaped, BufferSound
<1>5. Benign(u, t)
  BY <1>1, <1>2, <1>4, SendBenign DEF SessionSound
<1>6. SessionSound(t, log, d)
  BY <1>4, <1>5, BenignSound DEF Advances
<1>7. t.out = Append(u.out, m)
  BY <1>1, <1>3 DEF Send, SessionFields
<1>8. t.out = <<m>>
  BY <1>3, <1>7
<1>9. Len(t.out) = 1 /\ t.out[1] = m
  BY <1>8
<1> QED
  BY <1>2, <1>3, <1>5, <1>6, <1>9 DEF Benign, Same, t

(* A connection that breaks leaves document and buffer alone.               *)
LEMMA HandleDisconnectedSound ==
  ASSUME NEW s, NEW log, NEW d, SessionSound(s, log, d)
  PROVE  LET t == HandleDisconnected(s)
         IN  /\ SessionSound(t, log, d) /\ t.out = s.out
             /\ t.client = s.client /\ t.committed = s.committed /\ t.buffer = s.buffer
             /\ t.online = FALSE
             /\ t.bootstrapAccepted = s.bootstrapAccepted
<1> DEFINE t == HandleDisconnected(s)
<1>1. /\ DOMAIN t = SessionFields /\ t.pending = s.pending /\ t.out = s.out
      /\ t.client = s.client /\ t.committed = s.committed /\ t.buffer = s.buffer
      /\ t.bufferedBootstrap = s.bufferedBootstrap /\ t.online = FALSE
      /\ t.bootstrapAccepted = s.bootstrapAccepted
  BY DEF HandleDisconnected, SessionSound, Shaped, SessionFields
<1> HIDE DEF t
<1>2. SessionSound(t, log, d)
  BY <1>1 DEF SessionSound, Shaped, BufferSound
<1> QED
  BY <1>1, <1>2 DEF t

(* A session before its first connection.                                   *)
LEMMA NewSessionSound ==
  ASSUME NEW c, NEW log, IsList(log)
  PROVE  /\ SessionSound(NewSession(c), log, 0)
         /\ NewSession(c).out = <<>> /\ NewSession(c).committed = EmptyDocument
         /\ DOMAIN NewSession(c).buffer = {} /\ NewSession(c).online = FALSE
         /\ NewSession(c).bootstrapAccepted = FALSE
<1> DEFINE s == NewSession(c)
           none == s.buffer
<1>1. /\ DOMAIN s = SessionFields /\ s.pending = <<>> /\ s.out = <<>>
      /\ s.committed = EmptyDocument /\ s.buffer = <<>> /\ s.online = FALSE
      /\ s.bootstrapAccepted = FALSE /\ s.bufferedBootstrap = NoBootstrap
  BY DEF NewSession, SessionFields
<1> HIDE DEF s
<1>2. DOMAIN none = {}
  BY <1>1
<1>3. QueueSound(s.pending) /\ FramesSound(s.out)
  BY <1>1, EmptyList DEF QueueSound, FramesSound
<1>4. IsDocument(EmptyDocument) /\ EmptyDocument.revision = 0
  BY DEF IsDocument, EmptyDocument
<1>5. EmptyDocument = Replay(EmptyDocument, SubSeq(log, 1, 0))
  <2>1. SubSeq(log, 1, 0) = <<>>
    BY DEF IsList
  <2> QED
    BY <2>1, ReplayEmpty
<1>6. CommittedSound(s.committed, log, 0)
  BY <1>1, <1>4, <1>5 DEF CommittedSound
<1>7. SessionSound(s, log, 0)
  BY <1>1, <1>2, <1>3, <1>6 DEF SessionSound, Shaped, BufferSound
<1> QED
  BY <1>1, <1>2, <1>7 DEF s

-----------------------------------------------------------------------------
(* What the server does to the log.                                         *)

(* Two logs that agree up to d.                                             *)
Agree(log, other, d) ==
  /\ IsList(log) /\ IsList(other)
  /\ d \in 0..Len(log) /\ d \in 0..Len(other)
  /\ \A i \in 1..d : other[i] = log[i]

(* They have the same beginnings as far as that.                            *)
LEMMA AgreeingPrefix ==
  ASSUME NEW log, NEW other, NEW d, Agree(log, other, d), NEW k \in 0..d
  PROVE  SubSeq(other, 1, k) = SubSeq(log, 1, k)
<1>1. /\ Len(log) \in Nat /\ Len(other) \in Nat /\ k \in Nat /\ k <= Len(log) /\ k <= Len(other)
      /\ log \in Seq(ToSet(log)) /\ other \in Seq(ToSet(other))
      /\ DOMAIN log = 1..Len(log) /\ DOMAIN other = 1..Len(other)
      /\ \A i \in 1..k : other[i] = log[i]
  BY DEF Agree, IsList
<1> DEFINE a == SubSeq(other, 1, k)
           b == SubSeq(log, 1, k)
<1>2. a \in Seq(ToSet(other)) /\ Len(a) = k /\ \A i \in 1..k : a[i] = other[i]
  BY <1>1, SubSeqProperties
<1>3. b \in Seq(ToSet(log)) /\ Len(b) = k /\ \A i \in 1..k : b[i] = log[i]
  BY <1>1, SubSeqProperties
<1> HIDE DEF a, b
<1>4. a = b
  BY <1>1, <1>2, <1>3
<1> QED
  BY <1>4 DEF a, b

(* What is durable in one is so in the other.                               *)
LEMMA BootstrapKept ==
  ASSUME NEW log, NEW other, NEW d, Agree(log, other, d), NEW e, e \in Int, d <= e,
         NEW m, BootstrapSound(m, log, d)
  PROVE  BootstrapSound(m, other, e)
<1>1. m.revision \in 0..d /\ m.revision \in 0..e
  BY DEF BootstrapSound, Agree, IsList
<1>2. SubSeq(other, 1, m.revision) = SubSeq(log, 1, m.revision)
  BY <1>1, AgreeingPrefix
<1> QED
  BY <1>1, <1>2 DEF BootstrapSound

(* Messages of the one are messages of the other.                           *)
LEMMA MessagesKept ==
  ASSUME NEW log, NEW other, NEW d, Agree(log, other, d), NEW e, e \in Int, d <= e,
         NEW q, MessagesSound(q, log, d)
  PROVE  MessagesSound(q, other, e)
<1> SUFFICES ASSUME NEW m \in ToSet(q), MessageSound(m, log, d) PROVE MessageSound(m, other, e)
  BY DEF MessagesSound
<1>1. m.type = "bootstrap" => BootstrapSound(m, other, e)
  BY BootstrapKept DEF MessageSound
<1>2. m.type = "operations" => EntriesSound(m.entries, other, e)
  <2> SUFFICES ASSUME NEW x \in ToSet(m.entries), EntriesSound(m.entries, log, d)
               PROVE  x.rev \in 1..e /\ x = other[x.rev]
    BY DEF MessageSound, EntriesSound
  <2>1. x.rev \in 1..d /\ x = log[x.rev] /\ d \in Int
    BY DEF EntriesSound, Agree, IsList
  <2>2. other[x.rev] = log[x.rev]
    BY <2>1 DEF Agree
  <2> QED
    BY <2>1, <2>2
<1> QED
  BY <1>1, <1>2 DEF MessageSound

(* A document of the one is a document of the other.                        *)
LEMMA BuiltOnKept ==
  ASSUME NEW log, NEW other, NEW d, Agree(log, other, d), NEW base, NEW doc,
         doc.revision \in 0..d, BuiltOn(base, doc, log)
  PROVE  BuiltOn(base, doc, other)
<1>1. SubSeq(other, 1, doc.revision) = SubSeq(log, 1, doc.revision)
  BY AgreeingPrefix
<1> QED
  BY <1>1 DEF BuiltOn

(* A session of the one is a session of the other.                          *)
LEMMA SessionKept ==
  ASSUME NEW log, NEW other, NEW d, Agree(log, other, d), NEW e, e \in Int, d <= e,
         NEW s, SessionSound(s, log, d)
  PROVE  SessionSound(s, other, e)
<1>1. d \in Int /\ s.committed.revision \in 0..d /\ s.committed.revision \in 0..e
  BY DEF SessionSound, CommittedSound, Agree, IsList
<1>2. CommittedSound(s.committed, other, e)
  <2>1. PICK base \in {EmptyDocument, InitialDocument} : BuiltOn(base, s.committed, log)
    BY DEF SessionSound, CommittedSound, BuiltOn
  <2>2. BuiltOn(base, s.committed, other)
    BY <1>1, <2>1, BuiltOnKept
  <2> QED
    BY <1>1, <2>2 DEF SessionSound, CommittedSound, BuiltOn
<1>3. BufferSound(s, other, e)
  <2> SUFFICES ASSUME NEW r \in DOMAIN s.buffer
               PROVE  r \in s.committed.revision + 1 .. e /\ s.buffer[r] = other[r]
    BY DEF BufferSound
  <2>1. r \in s.committed.revision + 1 .. d /\ s.buffer[r] = log[r]
    BY DEF SessionSound, BufferSound
  <2>2. s.committed.revision \in Int /\ s.committed.revision >= 0
    BY <1>1
  <2> DEFINE n == s.committed.revision
  <2> HIDE DEF n
  <2>3. r \in 1..d /\ r \in n + 1 .. e
    BY <1>1, <2>1, <2>2 DEF n
  <2>4. other[r] = log[r]
    BY <2>3 DEF Agree
  <2> QED
    BY <2>1, <2>3, <2>4 DEF n
<1>4. s.bufferedBootstrap # NoBootstrap => BootstrapSound(s.bufferedBootstrap, other, e)
  BY BootstrapKept DEF SessionSound
<1> QED
  BY <1>2, <1>3, <1>4 DEF SessionSound

(* A longer log agrees with what was there.                                 *)
LEMMA AgreeAppend ==
  ASSUME NEW log, IsList(log), NEW x, NEW d \in 0..Len(log)
  PROVE  Agree(log, Append(log, x), d)
<1> DEFINE S == ToSet(log) \cup {x}
           longer == Append(log, x)
<1>1. log \in Seq(S) /\ x \in S /\ Len(log) \in Nat
  BY DEF IsList
<1>2. Len(longer) = Len(log) + 1 /\ \A i \in 1..Len(log) : longer[i] = log[i]
  BY <1>1
<1>3. IsList(longer)
  BY ListAppend
<1> HIDE DEF longer, S
<1>4. d \in 0..Len(longer) /\ \A i \in 1..d : longer[i] = log[i]
  BY <1>1, <1>2
<1> QED
  BY <1>3, <1>4 DEF Agree, longer

(* A shorter log agrees with what is left of it.                            *)
LEMMA AgreeCut ==
  ASSUME NEW log, IsList(log), NEW n \in 0..Len(log), NEW d \in 0..n
  PROVE  /\ Agree(log, SubSeq(log, 1, n), d) /\ Len(SubSeq(log, 1, n)) = n
         /\ \A i \in 1..n : SubSeq(log, 1, n)[i] = log[i]
<1> DEFINE a == SubSeq(log, 1, n)
<1>1. log \in Seq(ToSet(log)) /\ Len(log) \in Nat /\ n \in Nat /\ n <= Len(log) /\ d \in 0..Len(log)
  BY DEF IsList
<1>2. a \in Seq(ToSet(log)) /\ Len(a) = n /\ \A i \in 1..n : a[i] = log[i]
  BY <1>1, SubSeqProperties
<1> HIDE DEF a
<1>3. IsList(a)
  BY <1>2, SeqSelf DEF IsList
<1>4. Agree(log, a, d)
  BY <1>1, <1>2, <1>3 DEF Agree
<1> QED
  BY <1>2, <1>4 DEF a

-----------------------------------------------------------------------------
(* The sequencer.                                                           *)

(* What the server is to its clients.                                       *)
LEMMA ServerHistory ==
  ASSUME NEW s, ServerSound(s), NEW d \in 0..Len(s.operationLog)
  PROVE  History(s.operationLog, d)
  BY DEF ServerSound, StateSound, History, LogBehind, IsList

(* An accepted operation takes the next place.                              *)
LEMMA AcceptedServer ==
  ASSUME NEW s, ServerSound(s), NEW e, EnvelopeSound(e), NEW a,
         Verdict(s, e, a) = "accepted", NEW t, t = Accepted(s, e)
  PROVE  /\ ServerSound(t)
         /\ \E x : x.op = e.op /\ t.operationLog = Append(s.operationLog, x)
         /\ t.currentRevision = Len(s.operationLog) + 1
         /\ \A i \in DOMAIN s.operationLog : s.operationLog[i].op # e.op
<1> DEFINE log == s.operationLog
           n == Len(log)
           x == LogEntry(e, s.currentRevision + 1)
           longer == Append(log, x)
<1>1. /\ StateSound(s) /\ IsOperation(e.operation) /\ e.op \in OpId
      /\ Violations(s.document, e.operation) = {}
      /\ log \in Seq(ToSet(log)) /\ n \in Nat /\ DOMAIN log = 1..n
      /\ ReplaysSoundly(InitialDocument, log) /\ s.document = Replay(InitialDocument, log)
  BY VerdictMeaning, SMTT(30) DEF ServerSound, EnvelopeSound, StateSound
<1>2. /\ StateSound(t) /\ t.operationLog = longer
      /\ t.document = ApplyOperation(s.document, x.operation, x.rev)
      /\ x.rev = n + 1
  BY <1>1, SequencerAccepts
<1>3. x.op = e.op /\ x.operation = e.operation
  BY DEF LogEntry
<1>4. \A i \in DOMAIN log : log[i].op # e.op
  <2>1. e.op \notin DOMAIN s.ackCache
    BY DEF Verdict, Acked
  <2> QED
    BY <2>1 DEF ServerSound
<1>5. t.ackCache = Put(s.ackCache, e.op, s.currentRevision + 1)
  BY <1>1 DEF Accepted, Consumed, StateSound, SequencerFields
<1>6. DOMAIN t.ackCache = DOMAIN s.ackCache \cup {e.op}
  BY <1>5 DEF Put
<1> HIDE DEF x
<1>7. /\ Len(longer) = n + 1 /\ longer[n + 1] = x /\ DOMAIN longer = 1..n + 1
      /\ \A i \in 1..n : longer[i] = log[i]
  <2> DEFINE S == ToSet(log) \cup {x}
  <2>1. log \in Seq(S) /\ x \in S
    BY <1>1
  <2> HIDE DEF log, S
  <2> QED
    BY <1>1, <2>1
<1>8. WellFormed(t.document) /\ t.document.revision = n + 1 /\ t.currentRevision = n + 1
  BY <1>2, <1>7 DEF StateSound
<1>9. ReplaysSoundly(InitialDocument, longer) /\ Replay(InitialDocument, longer) = t.document
  <2> DEFINE next == t.document
  <2>1. next = ApplyOperation(Replay(InitialDocument, log), x.operation, x.rev)
    BY <1>1, <1>2
  <2>2. WellFormed(next) /\ next.revision = n + 1
    BY <1>8
  <2> HIDE DEF next, log
  <2>3. ReplaysSoundly(InitialDocument, longer) /\ Replay(InitialDocument, longer) = next
    BY <1>1, <2>1, <2>2, ReplayAppend
  <2> QED
    BY <2>3 DEF next
<1> HIDE DEF longer
<1>10. \A i \in DOMAIN log :
         log[i].op \in OpId /\ IsOperation(log[i].operation) /\ log[i].op \in DOMAIN s.ackCache
  BY DEF ServerSound
<1>11. \A i, j \in DOMAIN log : log[i].op = log[j].op => i = j
  BY DEF ServerSound
<1> HIDE DEF log, n
<1>12. ASSUME NEW i \in DOMAIN longer
       PROVE  longer[i].op \in OpId /\ IsOperation(longer[i].operation)
              /\ longer[i].op \in DOMAIN t.ackCache
  <2>1. i = n + 1 \/ i \in 1..n
    BY <1>1, <1>7
  <2> QED
    BY <1>1, <1>3, <1>6, <1>7, <1>10, <2>1
<1>13. ASSUME NEW i \in DOMAIN longer, NEW j \in DOMAIN longer, longer[i].op = longer[j].op
       PROVE  i = j
  <2>1. (i = n + 1 \/ i \in 1..n) /\ (j = n + 1 \/ j \in 1..n)
    BY <1>1, <1>7
  <2> QED
    BY <1>1, <1>3, <1>4, <1>7, <1>11, <1>13, <2>1
<1>14. ServerSound(t)
  BY <1>2, <1>9, <1>12, <1>13 DEF ServerSound
<1> QED
  BY <1>2, <1>3, <1>4, <1>8, <1>14 DEF log, n, longer

(* Whatever else comes of a submit leaves log and document alone.           *)
LEMMA OtherwiseServer ==
  ASSUME NEW s, ServerSound(s), NEW e, NEW t \in {s, Consumed(s, e), Noop(s, e)}
  PROVE  ServerSound(t) /\ t.operationLog = s.operationLog
<1>1. /\ StateSound(t) /\ t.document = s.document /\ t.operationLog = s.operationLog
  BY SequencerKeeps DEF ServerSound
<1>2. DOMAIN s.ackCache \subseteq DOMAIN t.ackCache
  <2>1. CASE t = s
    BY <2>1
  <2>2. CASE t = Consumed(s, e)
    <3>1. t.ackCache = s.ackCache
      BY <2>2 DEF Consumed, ServerSound, StateSound, SequencerFields
    <3> QED
      BY <3>1
  <2>3. CASE t = Noop(s, e)
    <3>1. t.ackCache = Put(s.ackCache, e.op, s.currentRevision)
      BY <2>3 DEF Noop, Consumed, ServerSound, StateSound, SequencerFields
    <3> QED
      BY <3>1 DEF Put
  <2> QED
    BY <2>1, <2>2, <2>3
<1> QED
  BY <1>1, <1>2 DEF ServerSound

(* A restart keeps a beginning of the log.                                  *)
LEMMA RestartedServer ==
  ASSUME NEW s, ServerSound(s), NEW n \in 0..Len(s.operationLog), NEW t,
         t = Recovered(PersistedSnapshot(FreshState(InitialDocument)), SubSeq(s.operationLog, 1, n))
  PROVE  ServerSound(t) /\ t.operationLog = SubSeq(s.operationLog, 1, n)
<1> DEFINE log == s.operationLog
           kept == SubSeq(log, 1, n)
           snapshot == PersistedSnapshot(FreshState(InitialDocument))
<1>1. /\ log \in Seq(ToSet(log)) /\ Len(log) \in Nat /\ n \in Nat /\ n <= Len(log)
      /\ \A i \in DOMAIN log : log[i].rev = i
      /\ \A i \in DOMAIN log : log[i].op \in OpId /\ IsOperation(log[i].operation)
      /\ \A i, j \in DOMAIN log : log[i].op = log[j].op => i = j
      /\ ReplaysSoundly(InitialDocument, log) /\ DOMAIN log = 1..Len(log)
  BY DEF ServerSound, StateSound
<1>2. kept \in Seq(ToSet(log)) /\ Len(kept) = n /\ \A i \in 1..n : kept[i] = log[i]
  BY <1>1, SubSeqProperties
<1>3. snapshot.revision = 0 /\ snapshot.document = SerializeDocument(InitialDocument)
  BY DEF PersistedSnapshot, FreshState
<1> HIDE DEF kept, log, snapshot
<1>4. DOMAIN kept = 1..n /\ kept \in Seq(ToSet(kept))
  BY <1>2, SeqSelf
<1>5. SubSeq(kept, 0 + 1, Len(kept)) = kept
  BY <1>2
<1>6. DeserializeDocument(snapshot.document) = InitialDocument
  BY <1>3, InitialAssumption, SnapshotRoundTrip
<1>7. /\ DOMAIN t = SequencerFields /\ t.document = Replay(InitialDocument, kept)
      /\ t.operationLog = kept /\ t.currentRevision = n
      /\ t.ackCache = AcksAfter(snapshot.ackCache, kept)
  BY <1>2, <1>3, <1>5, <1>6 DEF Recovered, SequencerFields, kept, log, snapshot
<1>8. \A i \in 1..n : kept[i].op \in DOMAIN t.ackCache
  BY <1>4, <1>7 DEF AcksAfter
<1>9. /\ ReplaysSoundly(InitialDocument, kept)
      /\ WellFormed(Replay(InitialDocument, kept))
      /\ Replay(InitialDocument, kept).revision = Len(kept)
  BY <1>1, <1>2, <1>4, BeginningReplays
<1>10. \A i \in 1..n : i \in DOMAIN log
  BY <1>1
<1>11. StateSound(t)
  BY <1>1, <1>2, <1>4, <1>7, <1>9, <1>10 DEF StateSound
<1>12. ServerSound(t)
  BY <1>1, <1>2, <1>4, <1>7, <1>8, <1>9, <1>10, <1>11 DEF ServerSound
<1> QED
  BY <1>7, <1>12 DEF kept, log

(* A new document.                                                          *)
LEMMA FreshServer ==
  LET s == FreshState(InitialDocument)
  IN  ServerSound(s) /\ s.operationLog = <<>>
<1> DEFINE s == FreshState(InitialDocument)
           log == s.operationLog
<1>1. /\ DOMAIN s = SequencerFields /\ s.document = InitialDocument
      /\ log = <<>> /\ s.currentRevision = 0
  BY DEF FreshState, SequencerFields
<1> HIDE DEF s
<1>2. Len(log) = 0 /\ DOMAIN log = {} /\ log \in Seq(ToSet(log))
  BY <1>1 DEF ToSet
<1>3. SubSeq(log, 1, 0) = <<>>
  BY <1>2
<1>4. Replay(InitialDocument, <<>>) = InitialDocument
  BY ReplayEmpty
<1>5. ReplaysSoundly(InitialDocument, log)
  <2> SUFFICES ASSUME NEW n \in 0..0
               PROVE  /\ WellFormed(Replay(InitialDocument, SubSeq(log, 1, n)))
                      /\ Replay(InitialDocument, SubSeq(log, 1, n)).revision = n
    BY <1>2 DEF ReplaysSoundly
  <2>1. n = 0
    OBVIOUS
  <2> QED
    BY <1>3, <1>4, <2>1, InitialAssumption
<1>6. StateSound(s)
  BY <1>1, <1>2, InitialAssumption DEF StateSound
<1>7. ServerSound(s)
  BY <1>1, <1>2, <1>4, <1>5, <1>6 DEF ServerSound
<1> QED
  BY <1>1, <1>7 DEF s

-----------------------------------------------------------------------------
(* What the server answers.                                                 *)

(* Sound messages behind sound messages.                                    *)
LEMMA MessagesConcat ==
  ASSUME NEW log, NEW d, NEW q, MessagesSound(q, log, d), NEW r, MessagesSound(r, log, d)
  PROVE  MessagesSound(q \o r, log, d)
<1>1. IsList(q \o r) /\ ToSet(q \o r) = ToSet(q) \cup ToSet(r)
  BY ListConcat DEF MessagesSound
<1> QED
  BY <1>1 DEF MessagesSound

(* Sound messages and one more.                                             *)
LEMMA MessagesAppend ==
  ASSUME NEW log, NEW d, NEW q, MessagesSound(q, log, d), NEW m, MessageSound(m, log, d)
  PROVE  MessagesSound(Append(q, m), log, d)
<1>1. IsList(Append(q, m)) /\ ToSet(Append(q, m)) = ToSet(q) \cup {m}
  BY ListAppend DEF MessagesSound
<1> QED
  BY <1>1 DEF MessagesSound

(* One sound message less.                                                  *)
LEMMA MessagesTail ==
  ASSUME NEW log, NEW d, NEW q, MessagesSound(q, log, d), q # <<>>
  PROVE  MessagesSound(Tail(q), log, d) /\ MessageSound(Head(q), log, d)
<1>1. IsList(Tail(q)) /\ ToSet(Tail(q)) \subseteq ToSet(q) /\ Head(q) \in ToSet(q)
  BY ListTail DEF MessagesSound
<1> QED
  BY <1>1 DEF MessagesSound

(* No message is a sound list of messages.                                  *)
LEMMA MessagesNone ==
  ASSUME NEW log, NEW d
  PROVE  MessagesSound(<<>>, log, d)
  BY EmptyList DEF MessagesSound

(* A sound message on its own.                                              *)
LEMMA MessagesOne ==
  ASSUME NEW log, NEW d, NEW m, MessageSound(m, log, d)
  PROVE  MessagesSound(<<m>>, log, d)
<1>1. IsList(<<m>>) /\ ToSet(<<m>>) = {m}
  BY DEF IsList, ToSet
<1> QED
  BY <1>1 DEF MessagesSound

(* operationsUpToFrontier gives entries of the durable log.                 *)
LEMMA UpToFrontierSound ==
  ASSUME ServerSound(server), durable \in 0..Len(server.operationLog), NEW after
  PROVE  EntriesSound(UpToFrontier(after), server.operationLog, durable)
<1> DEFINE log == server.operationLog
           later == {i \in DOMAIN log : log[i].rev > after}
           since == Filtered(log, later)
           sync == {i \in DOMAIN since : since[i].rev <= durable}
           entries == Filtered(since, sync)
<1>1. UpToFrontier(after) = entries
  BY DEF UpToFrontier, OperationsSince
<1>2. /\ log \in Seq(ToSet(log)) /\ Len(log) \in Nat /\ DOMAIN log = 1..Len(log)
      /\ \A i \in DOMAIN log : log[i].rev = i
  BY DEF ServerSound, StateSound
<1>3. durable \in 0..Len(log)
  OBVIOUS
<1> HIDE DEF later, log
<1>4. /\ since \in Seq(ToSet(since))
      /\ \A x \in ToSet(since) : \E i \in DOMAIN log : i \in later /\ log[i] = x
  BY <1>2, FilterElements
<1> HIDE DEF since
<1>5. \A i \in DOMAIN since : since[i] \in ToSet(since)
  BY DEF ToSet
<1>6. \A x \in ToSet(entries) : \E i \in DOMAIN since : i \in sync /\ since[i] = x
  BY <1>4, FilterElements
<1> HIDE DEF entries
<1>7. ASSUME NEW x \in ToSet(entries)
      PROVE  x.rev \in 1..durable /\ x = log[x.rev]
  <2>1. PICK i \in DOMAIN since : since[i] = x /\ x.rev <= durable
    BY <1>6
  <2>2. PICK j \in DOMAIN log : log[j] = x
    BY <1>4, <1>5, <2>1
  <2>3. x.rev = j /\ j \in 1..Len(log)
    BY <1>2, <2>2
  <2> QED
    BY <1>2, <1>3, <2>1, <2>2, <2>3
<1> QED
  BY <1>1, <1>7 DEF EntriesSound, log

(* What a join is answered with: the welcome, and a bootstrap or the        *)
(* entries behind the client, all of them durable.                          *)
LEMMA JoinAnswerSound ==
  ASSUME ServerSound(server), durable \in 0..Len(server.operationLog), NEW c, NEW m
  PROVE  MessagesSound(JoinAnswer(c, m), server.operationLog, durable)
<1> DEFINE log == server.operationLog
           welcome == [type |-> "welcome", revision |-> durable,
                       reconcile |-> ReconcileInfo(c, m.pending), diverged |-> m.last > durable]
           document == SerializeDocument(FrontierDocument)
           bootstrap == [type |-> "bootstrap", revision |-> durable, document |-> document]
           missed == UpToFrontier(m.last)
           rest == IF ShouldBootstrap(m.last) THEN <<bootstrap>>
                   ELSE IF missed # <<>> THEN <<Operations(missed)>> ELSE <<>>
<1>1. JoinAnswer(c, m) = <<welcome>> \o rest
  BY DEF JoinAnswer
<1>2. MessageSound(welcome, log, durable)
  BY DEF MessageSound, Messages
<1>3. MessageSound(bootstrap, log, durable)
  <2>1. durable \in 0..durable
    BY DEF ServerSound, StateSound
  <2>2. document = SerializeDocument(Replay(InitialDocument, SubSeq(log, 1, durable)))
    BY DEF FrontierDocument, DurableLog
  <2> HIDE DEF document, log
  <2>3. BootstrapSound(bootstrap, log, durable)
    BY <2>1, <2>2 DEF BootstrapSound
  <2> QED
    BY <2>3 DEF MessageSound, Messages
<1>4. MessageSound(Operations(missed), log, durable)
  BY UpToFrontierSound DEF MessageSound, Messages, Operations
<1> HIDE DEF welcome, bootstrap, missed, log
<1>5. MessagesSound(rest, log, durable)
  BY <1>3, <1>4, MessagesOne, MessagesNone
<1>6. MessagesSound(<<welcome>>, log, durable)
  BY <1>2, MessagesOne
<1> HIDE DEF rest
<1>7. MessagesSound(<<welcome>> \o rest, log, durable)
  BY <1>5, <1>6, MessagesConcat
<1> QED
  BY <1>1, <1>7 DEF log

(* The answer to a submit carries no part of the log.                       *)
LEMMA SubmitAnswerSound ==
  ASSUME NEW e, NEW verdict, NEW log, NEW d
  PROVE  MessageSound(SubmitAnswer(e, verdict), log, d)
  BY DEF SubmitAnswer, Ack, MessageSound, Messages

(* A submit leaves the log alone, or adds one new operation to it.          *)
LEMMA SubmittedServer ==
  ASSUME NEW s, ServerSound(s), NEW e, EnvelopeSound(e), NEW a,
         NEW verdict, verdict = Verdict(s, e, a), NEW t, t = Submitted(s, e, verdict)
  PROVE  /\ ServerSound(t)
         /\ verdict = "accepted" =>
              /\ \E x : x.op = e.op /\ t.operationLog = Append(s.operationLog, x)
              /\ t.currentRevision = Len(s.operationLog) + 1
              /\ \A i \in DOMAIN s.operationLog : s.operationLog[i].op # e.op
         /\ verdict # "accepted" => t.operationLog = s.operationLog
<1>1. CASE verdict = "accepted"
  <2>1. t = Accepted(s, e)
    BY <1>1 DEF Submitted
  <2>2. Verdict(s, e, a) = "accepted"
    BY <1>1
  <2>3. /\ ServerSound(t)
        /\ \E x : x.op = e.op /\ t.operationLog = Append(s.operationLog, x)
        /\ t.currentRevision = Len(s.operationLog) + 1
        /\ \A i \in DOMAIN s.operationLog : s.operationLog[i].op # e.op
    BY <2>1, <2>2, AcceptedServer
  <2> QED
    BY <1>1, <2>3
<1>2. CASE verdict # "accepted"
  <2>1. t \in {s, Consumed(s, e), Noop(s, e)}
    BY <1>2 DEF Submitted
  <2> QED
    BY <1>2, <2>1, OtherwiseServer
<1> QED
  BY <1>1, <1>2

-----------------------------------------------------------------------------
(* The frames and the messages under way.                                   *)

(* A stretch of a list.                                                     *)
LEMMA ListSlice ==
  ASSUME NEW q, IsList(q), NEW m \in Int, NEW n \in Int, 1 <= m, n <= Len(q)
  PROVE  IsList(SubSeq(q, m, n)) /\ ToSet(SubSeq(q, m, n)) \subseteq ToSet(q)
<1> DEFINE S == ToSet(q)
           a == SubSeq(q, m, n)
<1>1. q \in Seq(S) /\ Len(q) \in Nat /\ \A i \in m..n : q[i] \in S
  BY DEF IsList
<1> HIDE DEF S
<1>2. a \in Seq(S)
  BY <1>1, SubSeqProperties
<1> HIDE DEF a
<1>3. a \in Seq(ToSet(a)) /\ ToSet(a) \subseteq S
  BY <1>2, SeqSelf DEF ToSet
<1> QED
  BY <1>3 DEF IsList, S, a

(* A fault of the in-process transport brings nothing new.                  *)
LEMMA FaultyList ==
  ASSUME NEW q, IsList(q), NEW i \in DOMAIN q, NEW r,
         r \in {RemoveAt(q, i), InsertAt(q, i, q[i]), <<q[i]>> \o RemoveAt(q, i)}
  PROVE  IsList(r) /\ ToSet(r) \subseteq ToSet(q)
<1> DEFINE x == q[i]
           before == SubSeq(q, 1, i - 1)
           behind == SubSeq(q, i + 1, Len(q))
           from == SubSeq(q, i, Len(q))
<1>1. Len(q) \in Nat /\ i \in 1..Len(q) /\ x \in ToSet(q)
  BY DEF IsList, ToSet
<1>2. IsList(<<x>>) /\ ToSet(<<x>>) = {x}
  BY DEF IsList, ToSet
<1>3. IsList(before) /\ ToSet(before) \subseteq ToSet(q)
  BY <1>1, ListSlice
<1>4. IsList(behind) /\ ToSet(behind) \subseteq ToSet(q)
  BY <1>1, ListSlice
<1>5. IsList(from) /\ ToSet(from) \subseteq ToSet(q)
  BY <1>1, ListSlice
<1>6. /\ RemoveAt(q, i) = before \o behind
      /\ InsertAt(q, i, q[i]) = before \o <<x>> \o from
  BY DEF RemoveAt, InsertAt
<1> HIDE DEF x, before, behind, from
<1>7. IsList(before \o behind) /\ ToSet(before \o behind) \subseteq ToSet(q)
  <2>1. IsList(before \o behind) /\ ToSet(before \o behind) = ToSet(before) \cup ToSet(behind)
    BY <1>3, <1>4, ListConcat
  <2> QED
    BY <1>3, <1>4, <2>1
<1>8. IsList(before \o <<x>> \o from) /\ ToSet(before \o <<x>> \o from) \subseteq ToSet(q)
  <2>1. IsList(before \o <<x>>) /\ ToSet(before \o <<x>>) = ToSet(before) \cup ToSet(<<x>>)
    BY <1>2, <1>3, ListConcat
  <2>2. /\ IsList(before \o <<x>> \o from)
        /\ ToSet(before \o <<x>> \o from) = ToSet(before \o <<x>>) \cup ToSet(from)
    BY <1>5, <2>1, ListConcat
  <2> QED
    BY <1>1, <1>2, <1>3, <1>5, <2>1, <2>2
<1>9. /\ IsList(<<x>> \o (before \o behind))
      /\ ToSet(<<x>> \o (before \o behind)) \subseteq ToSet(q)
  <2> DEFINE rest == before \o behind
  <2> HIDE DEF rest
  <2>1. IsList(<<x>> \o rest) /\ ToSet(<<x>> \o rest) = ToSet(<<x>>) \cup ToSet(rest)
    BY <1>2, <1>7, ListConcat DEF rest
  <2> QED
    BY <1>1, <1>2, <1>7, <2>1 DEF rest
<1> QED
  BY <1>6, <1>7, <1>8, <1>9 DEF x

-----------------------------------------------------------------------------
(* The actions of a client.                                                 *)

(* The session of a client, as a handler leaves it.                         *)
LEMMA BecomesSound ==
  ASSUME CollabInv, NEW c \in Client, NEW s, SessionSound(s, server.operationLog, durable),
         Becomes(c, s), UNCHANGED <<late, server, durable, waiting>>,
         down' = [b \in Client |-> down'[b]],
         MessagesSound(down'[c], server.operationLog, durable),
         \A b \in Client \ {c} : down'[b] = down[b]
  PROVE  CollabInv'
<1> DEFINE log == server.operationLog
           quiet == [s EXCEPT !.out = <<>>]
           none == quiet.out
<1>1. server' = server /\ durable' = durable /\ waiting' = waiting /\ late' = late
  OBVIOUS
<1>2. /\ DOMAIN quiet = SessionFields /\ none = <<>> /\ quiet.pending = s.pending
      /\ quiet.committed = s.committed /\ quiet.buffer = s.buffer
      /\ quiet.bufferedBootstrap = s.bufferedBootstrap
  BY DEF SessionSound, Shaped, SessionFields
<1>3. session' = [session EXCEPT ![c] = quiet] /\ up' = [up EXCEPT ![c] = up[c] \o s.out]
  BY DEF Becomes
<1> HIDE DEF quiet
<1>4. FramesSound(quiet.out)
  BY <1>2, EmptyList DEF FramesSound
<1>5. SessionSound(quiet, log, durable)
  BY <1>2, <1>4 DEF SessionSound, Shaped, BufferSound
<1>6. FramesSound(up[c] \o s.out)
  BY FramesConcat DEF CollabInv, ClientSound, SessionSound, Shaped
<1>7. /\ session = [b \in Client |-> session[b]] /\ up = [b \in Client |-> up[b]]
      /\ late = [b \in Client |-> late[b]]
  BY DEF CollabInv
<1> DEFINE frames == up[c] \o s.out
<1> HIDE DEF frames
<1>8. /\ session' = [b \in Client |-> session'[b]] /\ up' = [b \in Client |-> up'[b]]
      /\ session'[c] = quiet /\ up'[c] = frames
      /\ \A b \in Client \ {c} : session'[b] = session[b] /\ up'[b] = up[b]
  BY <1>3, <1>7 DEF frames
<1>9. ASSUME NEW b \in Client PROVE ClientSound(b)'
  <2>1. ClientSound(b)
    BY DEF CollabInv
  <2>2. CASE b = c
    <3>1. session'[b] = quiet /\ up'[b] = frames /\ late'[b] = late[b]
      BY <1>1, <1>8, <2>2
    <3>2. MessagesSound(down'[b], log, durable)
      BY <2>2
    <3> QED
      BY <1>1, <1>2, <1>5, <1>6, <2>1, <3>1, <3>2 DEF ClientSound, frames
  <2>3. CASE b # c
    <3>1. session'[b] = session[b] /\ up'[b] = up[b] /\ late'[b] = late[b] /\ down'[b] = down[b]
      BY <1>1, <1>8, <2>3
    <3> QED
      BY <1>1, <2>1, <3>1 DEF ClientSound
  <2> QED
    BY <2>2, <2>3
<1>10. /\ ServerSound(server') /\ durable' \in 0..Len(server'.operationLog)
       /\ WaitingSound(waiting', server'.operationLog)
  BY <1>1 DEF CollabInv
<1> QED
  BY <1>1, <1>7, <1>8, <1>9, <1>10 DEF CollabInv

(* Nothing under way to a client is touched.                                *)
LEMMA BecomesQuietly ==
  ASSUME CollabInv, NEW c \in Client, NEW s, SessionSound(s, server.operationLog, durable),
         Becomes(c, s), UNCHANGED <<down, late, server, durable, waiting>>
  PROVE  CollabInv'
<1>1. down' = [b \in Client |-> down'[b]] /\ \A b \in Client : down'[b] = down[b]
  BY DEF CollabInv
<1>2. MessagesSound(down'[c], server.operationLog, durable)
  BY <1>1 DEF CollabInv, ClientSound
<1> QED
  BY <1>1, <1>2, BecomesSound

(* What the invariant says of one session.                                  *)
LEMMA SoundSession ==
  ASSUME CollabInv, NEW c \in Client
  PROVE  /\ SessionSound(session[c], server.operationLog, durable) /\ Shaped(session[c])
         /\ History(server.operationLog, durable)
  BY ServerHistory DEF CollabInv, ClientSound, SessionSound

(* A benign handler keeps the invariant.                                    *)
LEMMA BenignStep ==
  ASSUME CollabInv, NEW c \in Client, NEW s, Benign(session[c], s),
         Becomes(c, s), UNCHANGED <<down, late, server, durable, waiting>>
  PROVE  CollabInv'
<1>1. SessionSound(s, server.operationLog, durable)
  BY SoundSession, BenignSound DEF Advances
<1> QED
  BY <1>1, BecomesQuietly

(* What the editor makes of an edit is an operation.                        *)
LEMMA OperationOfSound ==
  ASSUME NEW op \in OpId, NEW s, Editable(s, Edit[op])
  PROVE  IsOperation(OperationOf(s, Edit[op]))
<1>1. CASE Edit[op].type = "write"
  <2> DEFINE e == Edit[op]
             ch == [row |-> e.row, col |-> e.col,
                    before |-> CellRevision(s.committed, e.row, e.col), value |-> e.value]
             o == SetCells(<<ch>>)
  <2>1. OperationOf(s, Edit[op]) = o
    BY <1>1 DEF OperationOf
  <2> HIDE DEF ch
  <2>2. o.type = "setCells" /\ o.changes = <<ch>>
    BY DEF SetCells
  <2>3. o.changes \in Seq(ToSet(o.changes))
    BY <2>2 DEF ToSet
  <2> QED
    BY <2>1, <2>2, <2>3 DEF IsOperation
<1>2. CASE Edit[op].type \in {"insertRows", "deleteRows"}
  <2>1. OperationOf(s, Edit[op]) = Edit[op]
    BY <1>2 DEF OperationOf
  <2> QED
    BY <1>2, <2>1, RowEditAssumption
<1> QED
  BY <1>1, <1>2 DEF Editable

(* An edit keeps the invariant.                                             *)
LEMMA EditLocallyKeeps ==
  ASSUME CollabInv, NEW op \in OpId, EditLocally(op)
  PROVE  CollabInv'
<1> DEFINE c == Author[op]
           s == session[c]
           operation == OperationOf(s, Edit[op])
           t == SubmitLocalOperation(s, op, operation)
<1>1. c \in Client
  BY AuthorAssumption
<1>2. /\ Editable(s, Edit[op]) /\ Becomes(c, t)
      /\ UNCHANGED <<down, late, server, durable, waiting>>
  BY DEF EditLocally, serverVars
<1>3. IsOperation(operation)
  BY <1>2, OperationOfSound
<1>4. Shaped(s)
  BY <1>1, SoundSession
<1> HIDE DEF operation
<1>5. Benign(s, t)
  BY <1>3, <1>4, SubmitLocalOperationBenign
<1> HIDE DEF c, t
<1> QED
  BY <1>1, <1>2, <1>5, BenignStep

(* The resend timer keeps the invariant.                                    *)
LEMMA ResendKeeps ==
  ASSUME CollabInv, NEW c \in Client, Resend(c)
  PROVE  CollabInv'
<1>1. Becomes(c, ResendTimer(session[c])) /\ UNCHANGED <<down, late, server, durable, waiting>>
  BY DEF Resend, serverVars
<1>2. Benign(session[c], ResendTimer(session[c]))
  BY SoundSession, ResendAllPendingBenign DEF ResendTimer
<1> QED
  BY <1>1, <1>2, BenignStep

(* The catch-up poll keeps the invariant.                                   *)
LEMMA PollKeeps ==
  ASSUME CollabInv, NEW c \in Client, Poll(c)
  PROVE  CollabInv'
<1>1. Becomes(c, CatchupPoll(session[c])) /\ UNCHANGED <<down, late, server, durable, waiting>>
  BY DEF Poll, serverVars
<1>2. Benign(session[c], CatchupPoll(session[c]))
  BY SoundSession, CatchupPollBenign
<1> QED
  BY <1>1, <1>2, BenignStep

(* Giving up keeps the invariant.                                           *)
LEMMA GiveUpKeeps ==
  ASSUME CollabInv, NEW c \in Client, GiveUp(c)
  PROVE  CollabInv'
<1>1. /\ Becomes(c, OfflineTooLong(session[c]))
      /\ UNCHANGED <<down, late, server, durable, waiting>>
  BY DEF GiveUp, serverVars
<1>2. Benign(session[c], OfflineTooLong(session[c]))
  BY SoundSession, OfflineTooLongBenign
<1> QED
  BY <1>1, <1>2, BenignStep

(* A connection that opens keeps the invariant.                             *)
LEMMA ConnectKeeps ==
  ASSUME CollabInv, NEW c \in Client, Connect(c)
  PROVE  CollabInv'
<1>1. /\ Becomes(c, HandleConnected(session[c]))
      /\ UNCHANGED <<down, late, server, durable, waiting>>
  BY DEF Connect, serverVars
<1>2. session[c].out = <<>>
  BY DEF CollabInv, ClientSound
<1>3. SessionSound(HandleConnected(session[c]), server.operationLog, durable)
  BY <1>2, SoundSession, HandleConnectedSound
<1> QED
  BY <1>1, <1>3, BecomesQuietly

(* A message of the server keeps the invariant.                             *)
LEMMA ReceiveKeeps ==
  ASSUME CollabInv, NEW c \in Client, Receive(c)
  PROVE  CollabInv'
<1> DEFINE log == server.operationLog
           m == Head(down[c])
           t == HandleServerMessage(session[c], m)
           rest == Tail(down[c])
<1>1. /\ down[c] # <<>> /\ Becomes(c, t) /\ down' = [down EXCEPT ![c] = rest]
      /\ UNCHANGED <<late, server, durable, waiting>>
  BY DEF Receive, serverVars
<1>2. MessagesSound(rest, log, durable) /\ MessageSound(m, log, durable)
  BY <1>1, MessagesTail DEF CollabInv, ClientSound
<1> HIDE DEF m, rest
<1>3. SessionSound(t, log, durable)
  BY <1>2, SoundSession, HandleServerMessageSound DEF Progresses
<1>4. down = [b \in Client |-> down[b]]
  BY DEF CollabInv
<1>5. /\ down' = [b \in Client |-> down'[b]] /\ down'[c] = rest
      /\ \A b \in Client \ {c} : down'[b] = down[b]
  BY <1>1, <1>4
<1> HIDE DEF t
<1> QED
  BY <1>1, <1>2, <1>3, <1>5, BecomesSound

-----------------------------------------------------------------------------
(* The actions of the server and of the network.                            *)

(* A log agrees with itself.                                                *)
LEMMA AgreeSelf ==
  ASSUME NEW log, IsList(log), NEW d \in 0..Len(log)
  PROVE  Agree(log, log, d)
  BY DEF Agree

(* The sessions are left alone, the log agrees with the old one as far as   *)
(* that was durable.                                                        *)
LEMMA ServerMoves ==
  ASSUME CollabInv, session' = session,
         ServerSound(server'), durable' \in 0..Len(server'.operationLog), durable <= durable',
         Agree(server.operationLog, server'.operationLog, durable),
         WaitingSound(waiting', server'.operationLog),
         up' = [c \in Client |-> up'[c]], \A c \in Client : FramesSound(up'[c]),
         late' = [c \in Client |-> late'[c]],
         \A c \in Client : FramesSound(late'[c]) /\ \A m \in ToSet(late'[c]) : m.type = "submitOperation",
         down' = [c \in Client |-> down'[c]],
         \A c \in Client : MessagesSound(down'[c], server'.operationLog, durable')
  PROVE  CollabInv'
<1> DEFINE log == server.operationLog
           next == server'.operationLog
<1>1. durable' \in Int
  BY DEF ServerSound, StateSound
<1>2. ASSUME NEW c \in Client PROVE ClientSound(c)'
  <2>1. SessionSound(session[c], log, durable) /\ session[c].out = <<>>
    BY DEF CollabInv, ClientSound
  <2>2. SessionSound(session[c], next, durable')
    BY <1>1, <2>1, SessionKept
  <2>3. session'[c] = session[c]
    OBVIOUS
  <2> HIDE DEF log, next
  <2>4. SessionSound(session'[c], next, durable') /\ session'[c].out = <<>>
    BY <2>1, <2>2, <2>3
  <2> QED
    BY <2>4 DEF ClientSound, next
<1>3. session' = [c \in Client |-> session'[c]]
  BY DEF CollabInv
<1> QED
  BY <1>2, <1>3 DEF CollabInv

(* What every state of the invariant has.                                   *)
LEMMA SoundServer ==
  ASSUME CollabInv
  PROVE  /\ ServerSound(server) /\ durable \in 0..Len(server.operationLog)
         /\ IsList(server.operationLog) /\ durable \in Int
         /\ DOMAIN server.operationLog = 1..Len(server.operationLog)
         /\ \A i \in DOMAIN server.operationLog : server.operationLog[i].rev = i
         /\ server.currentRevision = Len(server.operationLog)
         /\ Len(server.operationLog) \in Nat
         /\ Agree(server.operationLog, server.operationLog, durable)
<1>1. ServerSound(server) /\ durable \in 0..Len(server.operationLog)
  BY DEF CollabInv
<1>2. IsList(server.operationLog)
  BY <1>1 DEF ServerSound, StateSound, IsList
<1>3. Agree(server.operationLog, server.operationLog, durable)
  BY <1>1, <1>2, AgreeSelf
<1> QED
  BY <1>1, <1>2, <1>3 DEF ServerSound, StateSound

(* The log after a submit: as it was, or longer by one new operation.       *)
Takes(log, next, op) ==
  \/ next = log
  \/ /\ \E x : x.op = op /\ next = Append(log, x)
     /\ \A i \in DOMAIN log : log[i].op # op

(* A submit, whatever its verdict, leaves the log sound and the durable     *)
(* part of it alone.                                                        *)
LEMMA SubmittingSound ==
  ASSUME CollabInv, NEW e, EnvelopeSound(e), NEW to \in Client \cup {None}, Submitting(e, to)
  PROVE  /\ ServerSound(server')
         /\ durable \in 0..Len(server'.operationLog)
         /\ Agree(server.operationLog, server'.operationLog, durable)
         /\ WaitingSound(waiting', server'.operationLog)
         /\ down' = [c \in Client |-> down'[c]]
         /\ \A c \in Client : MessagesSound(down'[c], server'.operationLog, durable)
         /\ Takes(server.operationLog, server'.operationLog, e.op)
<1> DEFINE log == server.operationLog
           next == server'.operationLog
           verdict == Verdict(server, e, e.op \notin Denied)
           answer == SubmitAnswer(e, verdict)
           w == [to |-> to, op |-> e.op, rev |-> server'.currentRevision]
<1>1. /\ server' = Submitted(server, e, verdict)
      /\ verdict = "accepted" => waiting' = Append(waiting, w) /\ down' = down
      /\ verdict # "accepted" =>
           /\ waiting' = waiting
           /\ down' = IF to = None THEN down ELSE [down EXCEPT ![to] = Append(down[to], answer)]
  BY DEF Submitting
<1>2. verdict = Verdict(server, e, e.op \notin Denied)
  OBVIOUS
<1>3. /\ ServerSound(server) /\ IsList(log) /\ durable \in 0..Len(log) /\ DOMAIN log = 1..Len(log)
      /\ Len(log) \in Nat /\ Agree(log, log, durable) /\ WaitingSound(waiting, log)
      /\ down = [c \in Client |-> down[c]]
      /\ \A c \in Client : MessagesSound(down[c], log, durable)
  BY SoundServer DEF CollabInv, ClientSound
<1>4. MessageSound(answer, next, durable)
  BY SubmitAnswerSound
<1> HIDE DEF verdict, answer
<1>5. /\ ServerSound(server')
      /\ verdict = "accepted" =>
           /\ \E x : x.op = e.op /\ next = Append(log, x)
           /\ server'.currentRevision = Len(log) + 1
           /\ \A i \in DOMAIN log : log[i].op # e.op
      /\ verdict # "accepted" => next = log
  BY <1>1, <1>2, <1>3, SubmittedServer
<1> HIDE DEF w
<1>6. Takes(log, next, e.op)
  BY <1>5 DEF Takes
<1>7. CASE verdict = "accepted"
  <2>1. PICK x : next = Append(log, x)
    BY <1>5, <1>7
  <2>2. Agree(log, next, durable)
    BY <1>3, <2>1, AgreeAppend
  <2>3. DOMAIN next = 1..Len(log) + 1
    <3> DEFINE S == ToSet(log) \cup {x}
    <3>1. log \in Seq(S) /\ x \in S
      BY <1>3 DEF IsList
    <3> HIDE DEF S, log, next
    <3> QED
      BY <1>3, <2>1, <3>1
  <2>4. WaitingSound(waiting', next)
    <3>1. IsList(waiting') /\ ToSet(waiting') = ToSet(waiting) \cup {w}
      <4>1. waiting' = Append(waiting, w)
        BY <1>1, <1>7
      <4>2. IsList(waiting)
        BY <1>3 DEF WaitingSound
      <4>3. IsList(Append(waiting, w)) /\ ToSet(Append(waiting, w)) = ToSet(waiting) \cup {w}
        BY <4>2, ListAppend
      <4> QED
        BY <4>1, <4>3
    <3>2. DOMAIN w = {"to", "op", "rev"} /\ w.rev = Len(log) + 1
      BY <1>5, <1>7 DEF w
    <3>3. w.rev \in DOMAIN next /\ DOMAIN log \subseteq DOMAIN next
      BY <1>3, <2>3, <3>2
    <3>4. ASSUME NEW v \in ToSet(waiting')
          PROVE  DOMAIN v = {"to", "op", "rev"} /\ v.rev \in DOMAIN next
      <4>1. CASE v = w
        BY <3>2, <3>3, <4>1
      <4>2. CASE v \in ToSet(waiting)
        BY <1>3, <3>3, <4>2 DEF WaitingSound
      <4> QED
        BY <3>1, <4>1, <4>2
    <3> QED
      BY <3>1, <3>4 DEF WaitingSound
  <2>5. durable \in 0..Len(next)
    BY <2>2 DEF Agree
  <2>6. down' = down
    BY <1>1, <1>7
  <2>7. durable \in Int
    BY SoundServer
  <2>8. ASSUME NEW c \in Client PROVE MessagesSound(down'[c], next, durable)
    BY <1>3, <2>2, <2>6, <2>7, MessagesKept
  <2>9. down' = [c \in Client |-> down'[c]]
    BY <1>3, <2>6
  <2> HIDE DEF log, next
  <2> QED
    BY <1>5, <1>6, <2>2, <2>4, <2>5, <2>8, <2>9 DEF log, next
<1>8. CASE verdict # "accepted"
  <2>1. next = log /\ waiting' = waiting
    BY <1>1, <1>5, <1>8
  <2>2. /\ durable \in 0..Len(next) /\ Agree(log, next, durable) /\ WaitingSound(waiting', next)
        /\ \A c \in Client : MessagesSound(down[c], next, durable)
    BY <1>3, <2>1
  <2>3. /\ down' = [c \in Client |-> down'[c]]
        /\ \A c \in Client : MessagesSound(down'[c], next, durable)
    <3>1. CASE to = None
      BY <1>1, <1>3, <1>8, <2>2, <3>1
    <3>2. CASE to # None
      <4> DEFINE more == Append(down[to], answer)
      <4>1. to \in Client
        BY <3>2
      <4>2. MessagesSound(more, next, durable)
        BY <1>4, <2>2, <4>1, MessagesAppend
      <4> HIDE DEF more, next
      <4>3. down' = [down EXCEPT ![to] = more]
        BY <1>1, <1>8, <3>2 DEF more
      <4>4. /\ down' = [c \in Client |-> down'[c]] /\ down'[to] = more
            /\ \A c \in Client \ {to} : down'[c] = down[c]
        BY <1>3, <4>1, <4>3
      <4> QED
        BY <2>2, <4>2, <4>4
    <3> QED
      BY <3>1, <3>2
  <2> HIDE DEF log, next
  <2> QED
    BY <1>5, <1>6, <2>2, <2>3 DEF log, next
<1> QED
  BY <1>7, <1>8

(* A frame of a client keeps the invariant and logs one operation at most.  *)
LEMMA ServerReceivesKeeps ==
  ASSUME CollabInv, NEW c \in Client, ServerReceives(c)
  PROVE  /\ CollabInv'
         /\ \/ server'.operationLog = server.operationLog
            \/ \E op \in OpId : Takes(server.operationLog, server'.operationLog, op)
<1> DEFINE log == server.operationLog
           m == Head(up[c])
           rest == Tail(up[c])
<1>1. /\ up[c] # <<>> /\ up' = [up EXCEPT ![c] = rest]
      /\ session' = session /\ late' = late /\ durable' = durable
      /\ \/ /\ m.type = "join"
            /\ down' = [down EXCEPT ![c] = down[c] \o JoinAnswer(c, m)]
            /\ UNCHANGED <<server, waiting>>
         \/ m.type = "submitOperation" /\ Submitting(m.env, c)
         \/ /\ m.type = "requestCatchup"
            /\ down' = [down EXCEPT ![c] = Append(down[c], Operations(UpToFrontier(m.after)))]
            /\ UNCHANGED <<server, waiting>>
  BY DEF ServerReceives
<1>2. /\ ServerSound(server) /\ durable \in 0..Len(log) /\ durable \in Int /\ Agree(log, log, durable)
      /\ WaitingSound(waiting, log)
      /\ up = [b \in Client |-> up[b]] /\ down = [b \in Client |-> down[b]]
      /\ late = [b \in Client |-> late[b]]
      /\ \A b \in Client : FramesSound(up[b]) /\ MessagesSound(down[b], log, durable)
      /\ \A b \in Client : FramesSound(late[b]) /\ \A f \in ToSet(late[b]) : f.type = "submitOperation"
  BY SoundServer DEF CollabInv, ClientSound
<1>3. FramesSound(rest) /\ FrameSound(m)
  <2>1. IsList(rest) /\ ToSet(rest) \subseteq ToSet(up[c]) /\ m \in ToSet(up[c])
    BY <1>1, <1>2, ListTail DEF FramesSound
  <2> QED
    BY <1>2, <2>1 DEF FramesSound
<1> HIDE DEF m, rest
<1>4. up' = [b \in Client |-> up'[b]] /\ \A b \in Client : FramesSound(up'[b])
  <2>1. /\ up' = [b \in Client |-> up'[b]] /\ up'[c] = rest
        /\ \A b \in Client \ {c} : up'[b] = up[b]
    BY <1>1, <1>2
  <2> QED
    BY <1>2, <1>3, <2>1
<1>5. /\ ServerSound(server') /\ durable \in 0..Len(server'.operationLog)
      /\ Agree(log, server'.operationLog, durable)
      /\ WaitingSound(waiting', server'.operationLog)
      /\ down' = [b \in Client |-> down'[b]]
      /\ \A b \in Client : MessagesSound(down'[b], server'.operationLog, durable)
      /\ \/ server'.operationLog = log
         \/ \E op \in OpId : Takes(log, server'.operationLog, op)
  <2>1. CASE m.type = "submitOperation" /\ Submitting(m.env, c)
    <3>1. EnvelopeSound(m.env) /\ m.env.op \in OpId
      BY <1>3, <2>1 DEF FrameSound, EnvelopeSound
    <3>2. /\ ServerSound(server') /\ durable \in 0..Len(server'.operationLog)
          /\ Agree(log, server'.operationLog, durable)
          /\ WaitingSound(waiting', server'.operationLog)
          /\ down' = [b \in Client |-> down'[b]]
          /\ \A b \in Client : MessagesSound(down'[b], server'.operationLog, durable)
          /\ Takes(log, server'.operationLog, m.env.op)
      BY <2>1, <3>1, SubmittingSound
    <3> QED
      BY <3>1, <3>2
  <2>2. ASSUME NEW q, MessagesSound(q, log, durable), down' = [down EXCEPT ![c] = q],
               UNCHANGED <<server, waiting>>
        PROVE  /\ ServerSound(server') /\ durable \in 0..Len(server'.operationLog)
               /\ Agree(log, server'.operationLog, durable)
               /\ WaitingSound(waiting', server'.operationLog)
               /\ down' = [b \in Client |-> down'[b]]
               /\ \A b \in Client : MessagesSound(down'[b], server'.operationLog, durable)
               /\ server'.operationLog = log
    <3>1. server' = server /\ server'.operationLog = log /\ waiting' = waiting
      BY <2>2
    <3>2. /\ down' = [b \in Client |-> down'[b]] /\ down'[c] = q
          /\ \A b \in Client \ {c} : down'[b] = down[b]
      BY <1>2, <2>2
    <3>3. \A b \in Client : MessagesSound(down'[b], log, durable)
      BY <1>2, <2>2, <3>2
    <3> QED
      BY <1>2, <3>1, <3>2, <3>3
  <2>3. MessagesSound(down[c] \o JoinAnswer(c, m), log, durable)
    BY <1>2, JoinAnswerSound, MessagesConcat
  <2>4. MessagesSound(Append(down[c], Operations(UpToFrontier(m.after))), log, durable)
    <3>1. MessageSound(Operations(UpToFrontier(m.after)), log, durable)
      BY <1>2, UpToFrontierSound DEF MessageSound, Messages, Operations
    <3> QED
      BY <1>2, <3>1, MessagesAppend
  <2> QED
    BY <1>1, <2>1, <2>2, <2>3, <2>4
<1>6. durable <= durable' /\ durable' = durable
  BY <1>1, <1>2
<1>7. /\ late' = [b \in Client |-> late'[b]]
      /\ \A b \in Client : FramesSound(late'[b]) /\ \A f \in ToSet(late'[b]) : f.type = "submitOperation"
  BY <1>1, <1>2
<1>8. CollabInv'
  BY <1>1, <1>4, <1>5, <1>6, <1>7, ServerMoves
<1> QED
  BY <1>5, <1>8

(* So does a frame of a broken connection.                                  *)
LEMMA LateArrivesKeeps ==
  ASSUME CollabInv, NEW c \in Client, LateArrives(c)
  PROVE  /\ CollabInv'
         /\ \E op \in OpId : Takes(server.operationLog, server'.operationLog, op)
<1> DEFINE log == server.operationLog
           m == Head(late[c])
           rest == Tail(late[c])
<1>1. /\ late[c] # <<>> /\ late' = [late EXCEPT ![c] = rest] /\ Submitting(m.env, None)
      /\ session' = session /\ up' = up /\ durable' = durable
  BY DEF LateArrives
<1>2. /\ durable \in Int /\ up = [b \in Client |-> up[b]] /\ late = [b \in Client |-> late[b]]
      /\ \A b \in Client : FramesSound(up[b])
      /\ \A b \in Client : FramesSound(late[b]) /\ \A f \in ToSet(late[b]) : f.type = "submitOperation"
  BY SoundServer DEF CollabInv, ClientSound
<1>3. IsList(rest) /\ ToSet(rest) \subseteq ToSet(late[c]) /\ m \in ToSet(late[c])
  BY <1>1, <1>2, ListTail DEF FramesSound
<1>4. FramesSound(rest) /\ \A f \in ToSet(rest) : f.type = "submitOperation"
  BY <1>2, <1>3 DEF FramesSound
<1>5. EnvelopeSound(m.env) /\ m.env.op \in OpId
  BY <1>2, <1>3 DEF FramesSound, FrameSound, EnvelopeSound
<1> HIDE DEF m, rest
<1>6. /\ ServerSound(server') /\ durable \in 0..Len(server'.operationLog)
      /\ Agree(log, server'.operationLog, durable)
      /\ WaitingSound(waiting', server'.operationLog)
      /\ down' = [b \in Client |-> down'[b]]
      /\ \A b \in Client : MessagesSound(down'[b], server'.operationLog, durable)
      /\ Takes(log, server'.operationLog, m.env.op)
  BY <1>1, <1>5, SubmittingSound
<1>7. /\ late' = [b \in Client |-> late'[b]]
      /\ \A b \in Client : FramesSound(late'[b]) /\ \A f \in ToSet(late'[b]) : f.type = "submitOperation"
  <2>1. /\ late' = [b \in Client |-> late'[b]] /\ late'[c] = rest
        /\ \A b \in Client \ {c} : late'[b] = late[b]
    BY <1>1, <1>2
  <2> QED
    BY <1>2, <1>4, <2>1
<1>8. up' = [b \in Client |-> up'[b]] /\ \A b \in Client : FramesSound(up'[b])
  BY <1>1, <1>2
<1>9. durable <= durable' /\ durable' = durable
  BY <1>1, <1>2
<1>10. CollabInv'
  BY <1>1, <1>6, <1>7, <1>8, <1>9, ServerMoves
<1> QED
  BY <1>5, <1>6, <1>10

(* The lists of frames and messages, which most steps leave alone.          *)
LEMMA SoundLists ==
  ASSUME CollabInv
  PROVE  /\ up = [c \in Client |-> up[c]] /\ late = [c \in Client |-> late[c]]
         /\ down = [c \in Client |-> down[c]]
         /\ WaitingSound(waiting, server.operationLog)
         /\ \A c \in Client :
              /\ FramesSound(up[c])
              /\ FramesSound(late[c]) /\ \A m \in ToSet(late[c]) : m.type = "submitOperation"
              /\ MessagesSound(down[c], server.operationLog, durable)
  BY DEF CollabInv, ClientSound

(* An fsync keeps the invariant.                                            *)
LEMMA SyncKeeps ==
  ASSUME CollabInv, Sync
  PROVE  CollabInv'
<1> DEFINE log == server.operationLog
<1>1. /\ durable' = durable + 1 /\ durable < server.currentRevision
      /\ session' = session /\ up' = up /\ down' = down /\ late' = late
      /\ server' = server /\ waiting' = waiting
  BY DEF Sync
<1>2. /\ ServerSound(server) /\ IsList(log) /\ durable \in Int /\ durable \in 0..Len(log)
      /\ Agree(log, log, durable) /\ server.currentRevision = Len(log)
      /\ Len(log) \in Nat
  BY SoundServer
<1>3. /\ durable' \in Int /\ durable <= durable' /\ durable' \in 0..Len(log)
  BY <1>1, <1>2
<1>4. \A c \in Client : MessagesSound(down[c], log, durable')
  BY <1>2, <1>3, MessagesKept, SoundLists
<1> QED
  BY <1>1, <1>2, <1>3, <1>4, SoundLists, ServerMoves

(* The delivery of an accepted operation keeps the invariant: its entry is  *)
(* durable.                                                                 *)
LEMMA DispatchKeeps ==
  ASSUME CollabInv, Dispatch
  PROVE  CollabInv'
<1> DEFINE log == server.operationLog
           w == Head(waiting)
           rest == Tail(waiting)
           entry == log[w.rev]
           echo == Operations(<<entry>>)
           acks(c) == IF w.to = c THEN <<Ack(w.op, w.rev)>> ELSE <<>>
           echoes(c) == IF c \in joined THEN <<echo>> ELSE <<>>
<1>1. /\ waiting # <<>> /\ w.rev <= durable /\ waiting' = rest
      /\ down' = [c \in Client |-> down[c] \o acks(c) \o echoes(c)]
      /\ session' = session /\ up' = up /\ late' = late /\ server' = server /\ durable' = durable
  BY DEF Dispatch
<1>2. /\ ServerSound(server) /\ durable \in Int /\ durable \in 0..Len(log)
      /\ Agree(log, log, durable) /\ DOMAIN log = 1..Len(log) /\ Len(log) \in Nat
      /\ \A i \in DOMAIN log : log[i].rev = i
  BY SoundServer
<1>3. IsList(rest) /\ ToSet(rest) \subseteq ToSet(waiting) /\ w \in ToSet(waiting)
  BY <1>1, ListTail, SoundLists DEF WaitingSound
<1>4. WaitingSound(rest, log) /\ w.rev \in DOMAIN log
  BY <1>3, SoundLists DEF WaitingSound
<1> HIDE DEF w, rest
<1>5. MessageSound(echo, log, durable)
  <2>1. ToSet(<<entry>>) = {entry}
    BY DEF ToSet
  <2>2. entry.rev \in 1..durable /\ entry = log[entry.rev]
    BY <1>1, <1>2, <1>4
  <2> HIDE DEF entry
  <2> QED
    BY <2>1, <2>2 DEF MessageSound, Messages, Operations, EntriesSound
<1> HIDE DEF echo
<1>6. ASSUME NEW c \in Client PROVE MessagesSound(down'[c], log, durable)
  <2>1. MessageSound(Ack(w.op, w.rev), log, durable)
    BY DEF Ack, MessageSound, Messages
  <2>2. MessagesSound(acks(c), log, durable)
    BY <2>1, MessagesOne, MessagesNone
  <2>3. MessagesSound(echoes(c), log, durable)
    BY <1>5, MessagesOne, MessagesNone
  <2>4. down'[c] = down[c] \o acks(c) \o echoes(c)
    BY <1>1
  <2>5. MessagesSound(down[c], log, durable)
    BY SoundLists
  <2> HIDE DEF acks, echoes, log
  <2>6. MessagesSound(down[c] \o acks(c), log, durable)
    BY <2>2, <2>5, MessagesConcat
  <2>7. MessagesSound(down[c] \o acks(c) \o echoes(c), log, durable)
    BY <2>3, <2>6, MessagesConcat
  <2> QED
    BY <2>4, <2>7
<1>7. down' = [c \in Client |-> down'[c]]
  BY <1>1
<1>8. durable <= durable' /\ durable' \in 0..Len(log)
  BY <1>1, <1>2
<1> QED
  BY <1>1, <1>2, <1>4, <1>6, <1>7, <1>8, SoundLists, ServerMoves

(* A fault of the in-process transport keeps the invariant.                 *)
LEMMA FaultKeeps ==
  ASSUME CollabInv, NEW c \in Client, NEW i \in DOMAIN down[c],
         Lose(c, i) \/ Duplicate(c, i) \/ Overtake(c, i)
  PROVE  CollabInv'
<1> DEFINE log == server.operationLog
           q == down[c]
<1>1. PICK r \in {RemoveAt(q, i), InsertAt(q, i, q[i]), <<q[i]>> \o RemoveAt(q, i)} : Fault(c, r)
  BY DEF Lose, Duplicate, Overtake
<1>2. /\ down' = [down EXCEPT ![c] = r] /\ session' = session /\ up' = up /\ late' = late
      /\ server' = server /\ durable' = durable /\ waiting' = waiting
  BY <1>1 DEF Fault, serverVars
<1>3. MessagesSound(r, log, durable)
  <2>1. IsList(r) /\ ToSet(r) \subseteq ToSet(q)
    BY FaultyList, SoundLists DEF MessagesSound
  <2> QED
    BY <2>1, SoundLists DEF MessagesSound
<1> HIDE DEF q
<1>4. /\ down' = [b \in Client |-> down'[b]] /\ down'[c] = r
      /\ \A b \in Client \ {c} : down'[b] = down[b]
  BY <1>2, SoundLists
<1>5. \A b \in Client : MessagesSound(down'[b], log, durable)
  BY <1>3, <1>4, SoundLists
<1>6. /\ ServerSound(server) /\ durable \in Int /\ durable \in 0..Len(log)
      /\ Agree(log, log, durable) /\ durable <= durable'
  BY <1>2, SoundServer
<1> QED
  BY <1>2, <1>4, <1>5, <1>6, SoundLists, ServerMoves

(* A connection that breaks leaves submits of the client behind.            *)
LEMMA SubmitsSound ==
  ASSUME NEW q, FramesSound(q), NEW n \in 0..Len(q)
  PROVE  /\ FramesSound(Submits(SubSeq(q, 1, n)))
         /\ \A m \in ToSet(Submits(SubSeq(q, 1, n))) : m.type = "submitOperation"
<1> DEFINE a == SubSeq(q, 1, n)
           places == {i \in DOMAIN a : a[i].type = "submitOperation"}
           b == Filtered(a, places)
<1>1. IsList(a) /\ ToSet(a) \subseteq ToSet(q)
  <2>1. n \in Int /\ n <= Len(q)
    BY DEF FramesSound, IsList
  <2> QED
    BY <2>1, ListSlice DEF FramesSound
<1> HIDE DEF a
<1>2. IsList(b) /\ ToSet(b) \subseteq ToSet(a)
  BY <1>1, ListFilter
<1>3. \A m \in ToSet(b) : \E i \in DOMAIN a : i \in places /\ a[i] = m
  <2>1. a \in Seq(ToSet(a))
    BY <1>1 DEF IsList
  <2> HIDE DEF b
  <2> QED
    BY <2>1, FilterElements DEF b
<1>4. \A m \in ToSet(b) : m.type = "submitOperation"
  BY <1>3
<1>5. FramesSound(b)
  BY <1>1, <1>2 DEF FramesSound
<1> QED
  BY <1>4, <1>5 DEF Submits, a

(* Forgetting who waits leaves what waits.                                  *)
LEMMA ForgetSound ==
  ASSUME NEW log, WaitingSound(waiting, log), NEW clients, Forget(clients)
  PROVE  WaitingSound(waiting', log)
<1>1. waiting' = [i \in DOMAIN waiting |->
                    IF waiting[i].to \in clients THEN [waiting[i] EXCEPT !.to = None] ELSE waiting[i]]
  BY DEF Forget
<1> DEFINE r == waiting'
<1>2. r = [i \in DOMAIN waiting |-> r[i]]
  BY <1>1
<1>3. ASSUME NEW i \in DOMAIN waiting
      PROVE  DOMAIN r[i] = {"to", "op", "rev"} /\ r[i].rev \in DOMAIN log
  <2>1. waiting[i] \in ToSet(waiting)
    BY DEF ToSet
  <2>2. DOMAIN waiting[i] = {"to", "op", "rev"} /\ waiting[i].rev \in DOMAIN log
    BY <2>1 DEF WaitingSound
  <2>3. r[i] = waiting[i] \/ r[i] = [waiting[i] EXCEPT !.to = None]
    BY <1>1
  <2> QED
    BY <2>2, <2>3
<1> HIDE DEF r
<1>4. IsList(r) /\ ToSet(r) = {r[i] : i \in DOMAIN waiting}
  BY <1>2, ListMap DEF WaitingSound
<1>5. WaitingSound(r, log)
  BY <1>3, <1>4 DEF WaitingSound
<1> QED
  BY <1>5 DEF r

(* A connection that breaks keeps the invariant.                            *)
LEMMA BreakKeeps ==
  ASSUME CollabInv, NEW c \in Client, NEW n \in 0..Len(up[c]), Break(c, n)
  PROVE  CollabInv'
<1> DEFINE log == server.operationLog
           s == HandleDisconnected(session[c])
           sent == Submits(SubSeq(up[c], 1, n))
           all == late[c] \o sent
           none == <<>>
<1>1. /\ session' = [session EXCEPT ![c] = s] /\ late' = [late EXCEPT ![c] = all]
      /\ up' = [up EXCEPT ![c] = none] /\ down' = [down EXCEPT ![c] = none]
      /\ Forget({c}) /\ server' = server /\ durable' = durable
  BY DEF Break
<1>2. SessionSound(s, log, durable) /\ s.out = <<>>
  <2>1. SessionSound(session[c], log, durable) /\ session[c].out = <<>>
    BY DEF CollabInv, ClientSound
  <2> QED
    BY <2>1, HandleDisconnectedSound
<1>3. FramesSound(sent) /\ \A m \in ToSet(sent) : m.type = "submitOperation"
  BY SubmitsSound, SoundLists
<1> HIDE DEF s, sent
<1>4. FramesSound(all) /\ \A m \in ToSet(all) : m.type = "submitOperation"
  <2>1. FramesSound(all)
    BY <1>3, FramesConcat, SoundLists
  <2>2. ToSet(all) = ToSet(late[c]) \cup ToSet(sent)
    BY <1>3, ListConcat, SoundLists DEF FramesSound
  <2> QED
    BY <1>3, <2>1, <2>2, SoundLists
<1>5. FramesSound(none) /\ MessagesSound(none, log, durable)
  BY EmptyList, MessagesNone DEF FramesSound
<1>6. WaitingSound(waiting', log)
  BY <1>1, ForgetSound, SoundLists
<1> HIDE DEF all, none
<1>7. session = [b \in Client |-> session[b]]
  BY DEF CollabInv
<1>8. /\ session' = [b \in Client |-> session'[b]] /\ late' = [b \in Client |-> late'[b]]
      /\ up' = [b \in Client |-> up'[b]] /\ down' = [b \in Client |-> down'[b]]
      /\ session'[c] = s /\ late'[c] = all /\ up'[c] = none /\ down'[c] = none
      /\ \A b \in Client \ {c} : /\ session'[b] = session[b] /\ late'[b] = late[b]
                                 /\ up'[b] = up[b] /\ down'[b] = down[b]
  BY <1>1, <1>7, SoundLists
<1>9. ASSUME NEW b \in Client PROVE ClientSound(b)'
  <2>1. CASE b = c
    <3>1. session'[b] = s /\ late'[b] = all /\ up'[b] = none /\ down'[b] = none
      BY <1>8, <2>1
    <3> QED
      BY <1>1, <1>2, <1>4, <1>5, <3>1 DEF ClientSound
  <2>2. CASE b # c
    <3>1. /\ session'[b] = session[b] /\ late'[b] = late[b]
          /\ up'[b] = up[b] /\ down'[b] = down[b]
      BY <1>8, <2>2
    <3>2. ClientSound(b)
      BY DEF CollabInv
    <3> QED
      BY <1>1, <3>1, <3>2 DEF ClientSound
  <2> QED
    BY <2>1, <2>2
<1>10. ServerSound(server') /\ durable' \in 0..Len(server'.operationLog)
  BY <1>1 DEF CollabInv
<1> QED
  BY <1>1, <1>6, <1>8, <1>9, <1>10 DEF CollabInv

(* A restart keeps the invariant: every session is at a revision the server *)
(* still has.                                                               *)
LEMMA RestartKeeps ==
  ASSUME CollabInv, NEW n \in durable..server.currentRevision, Restart(n)
  PROVE  /\ CollabInv'
         /\ n \in 0..Len(server.operationLog)
         /\ server'.operationLog = SubSeq(server.operationLog, 1, n)
<1> DEFINE log == server.operationLog
           next == SubSeq(log, 1, n)
           none == <<>>
<1>1. /\ server' = Recovered(PersistedSnapshot(FreshState(InitialDocument)), next)
      /\ durable' = n /\ waiting' = none
      /\ session' = [c \in Client |-> HandleDisconnected(session[c])]
      /\ up' = [c \in Client |-> none] /\ down' = [c \in Client |-> none]
      /\ late' = [c \in Client |-> none]
  BY DEF Restart
<1>2. /\ ServerSound(server) /\ IsList(log) /\ durable \in 0..Len(log) /\ durable \in Int
      /\ server.currentRevision = Len(log) /\ Len(log) \in Nat
  BY SoundServer
<1>3. n \in 0..Len(log) /\ durable \in 0..n /\ n \in Int /\ durable <= n
  BY <1>2
<1>4. Agree(log, next, durable) /\ Len(next) = n
  BY <1>2, <1>3, AgreeCut
<1>5. ServerSound(server') /\ server'.operationLog = next
  BY <1>1, <1>2, <1>3, RestartedServer
<1>6. /\ FramesSound(none) /\ MessagesSound(none, next, n) /\ WaitingSound(none, next)
      /\ \A m \in ToSet(none) : m.type = "submitOperation"
  BY EmptyList, MessagesNone DEF FramesSound, WaitingSound
<1> HIDE DEF none, next
<1>7. ASSUME NEW c \in Client PROVE ClientSound(c)'
  <2>1. SessionSound(session[c], log, durable) /\ session[c].out = <<>>
    BY DEF CollabInv, ClientSound
  <2>2. SessionSound(session[c], next, n)
    BY <1>3, <1>4, <2>1, SessionKept
  <2> DEFINE s == HandleDisconnected(session[c])
  <2>3. SessionSound(s, next, n) /\ s.out = <<>>
    BY <2>1, <2>2, HandleDisconnectedSound
  <2>4. session'[c] = s /\ up'[c] = none /\ late'[c] = none /\ down'[c] = none
    BY <1>1
  <2> HIDE DEF s
  <2> QED
    BY <1>1, <1>5, <1>6, <2>3, <2>4 DEF ClientSound
<1>8. /\ session' = [c \in Client |-> session'[c]] /\ up' = [c \in Client |-> up'[c]]
      /\ late' = [c \in Client |-> late'[c]] /\ down' = [c \in Client |-> down'[c]]
  BY <1>1
<1>9. CollabInv'
  BY <1>1, <1>3, <1>4, <1>5, <1>6, <1>7, <1>8 DEF CollabInv
<1> QED
  BY <1>3, <1>5, <1>9 DEF next

(* The invariant holds at the start.                                        *)
LEMMA CollabStart == Init => CollabInv
<1> SUFFICES ASSUME Init PROVE CollabInv
  OBVIOUS
<1> DEFINE log == server.operationLog
           none == <<>>
<1>1. /\ session = [c \in Client |-> NewSession(c)] /\ up = [c \in Client |-> none]
      /\ down = [c \in Client |-> none] /\ late = [c \in Client |-> none]
      /\ server = FreshState(InitialDocument) /\ durable = 0 /\ waiting = none
  BY DEF Init
<1>2. ServerSound(server) /\ log = none
  BY <1>1, FreshServer
<1>3. /\ FramesSound(none) /\ MessagesSound(none, log, 0) /\ WaitingSound(none, log)
      /\ IsList(none) /\ Len(none) = 0 /\ \A m \in ToSet(none) : m.type = "submitOperation"
  BY EmptyList, MessagesNone DEF FramesSound, WaitingSound
<1> HIDE DEF none, log
<1>4. ASSUME NEW c \in Client PROVE ClientSound(c)
  <2> DEFINE s == NewSession(c)
  <2>1. SessionSound(s, log, 0) /\ s.out = <<>>
    BY <1>2, <1>3, NewSessionSound
  <2>2. session[c] = s /\ up[c] = none /\ late[c] = none /\ down[c] = none
    BY <1>1
  <2> HIDE DEF s
  <2> QED
    BY <1>1, <1>3, <2>1, <2>2 DEF ClientSound, log
<1>5. /\ session = [c \in Client |-> session[c]] /\ up = [c \in Client |-> up[c]]
      /\ late = [c \in Client |-> late[c]] /\ down = [c \in Client |-> down[c]]
  BY <1>1
<1>6. durable \in 0..Len(log)
  BY <1>1, <1>2, <1>3
<1> QED
  BY <1>1, <1>2, <1>3, <1>4, <1>5, <1>6 DEF CollabInv, log

(* Every step keeps the invariant.                                          *)
LEMMA CollabStep == CollabInv /\ [Next]_vars => CollabInv'
<1> SUFFICES ASSUME CollabInv, [Next]_vars PROVE CollabInv'
  OBVIOUS
<1>1. ASSUME NEW op \in OpId, EditLocally(op) PROVE CollabInv'
  BY <1>1, EditLocallyKeeps
<1>2. ASSUME NEW c \in Client,
             \/ Resend(c) \/ Poll(c) \/ GiveUp(c)
             \/ Connect(c) \/ Receive(c)
             \/ ServerReceives(c) \/ LateArrives(c)
             \/ \E n \in 0..Len(up[c]) : Break(c, n)
             \/ \E i \in DOMAIN down[c] : Lose(c, i) \/ Duplicate(c, i) \/ Overtake(c, i)
      PROVE  CollabInv'
  <2>1. CASE Resend(c)
    BY <2>1, ResendKeeps
  <2>2. CASE Poll(c)
    BY <2>2, PollKeeps
  <2>3. CASE GiveUp(c)
    BY <2>3, GiveUpKeeps
  <2>4. CASE Connect(c)
    BY <2>4, ConnectKeeps
  <2>5. CASE Receive(c)
    BY <2>5, ReceiveKeeps
  <2>6. CASE ServerReceives(c)
    BY <2>6, ServerReceivesKeeps
  <2>7. CASE LateArrives(c)
    BY <2>7, LateArrivesKeeps
  <2>8. CASE \E n \in 0..Len(up[c]) : Break(c, n)
    BY <2>8, BreakKeeps
  <2>9. CASE \E i \in DOMAIN down[c] : Lose(c, i) \/ Duplicate(c, i) \/ Overtake(c, i)
    BY <2>9, FaultKeeps
  <2> QED
    BY <1>2, <2>1, <2>2, <2>3, <2>4, <2>5, <2>6, <2>7, <2>8, <2>9
<1>3. CASE Sync
  BY <1>3, SyncKeeps
<1>4. CASE Dispatch
  BY <1>4, DispatchKeeps
<1>5. ASSUME NEW n \in durable..server.currentRevision, Restart(n) PROVE CollabInv'
  BY <1>5, RestartKeeps
<1>6. CASE UNCHANGED vars
  BY <1>6 DEF vars, CollabInv, ClientSound
<1> QED
  BY <1>1, <1>2, <1>3, <1>4, <1>5, <1>6 DEF Next

(* Server, connections and sessions are of one log in every state.          *)
THEOREM CollabInvariance == Spec => []CollabInv
<1> QED
  BY CollabStart, CollabStep, PTL DEF Spec

-----------------------------------------------------------------------------
(* The promise of OrderedLog.                                               *)

Order == [i \in DOMAIN server.operationLog |-> server.operationLog[i].op]

Revisions == {session[c].committed.revision : c \in Client}

Top0 == Max({0} \cup Revisions)

Told == {<<server.operationLog[i].op, i>> : i \in 1..Top0}

(* The largest of some numbers up to n, and 0.                              *)
LEMMA LargestRevision ==
  ASSUME NEW n \in Nat, NEW S, S \subseteq 0..n
  PROVE  /\ Max({0} \cup S) \in 0..n
         /\ \A k \in S : k <= Max({0} \cup S)
         /\ Max({0} \cup S) = 0 \/ Max({0} \cup S) \in S
<1> DEFINE T == {0} \cup S
           m == Max(T)
<1>1. T \subseteq 0..n /\ T # {}
  OBVIOUS
<1>2. \E x \in T : \A y \in T : x >= y
  <2> HIDE DEF T
  <2>1. PICK x \in T : \A y \in T : y <= x
    BY <1>1, LargestUpTo
  <2> QED
    BY <1>1, <2>1
<1>3. m \in T /\ \A y \in T : m >= y
  <2> HIDE DEF T
  <2> QED
    BY <1>2 DEF Max
<1> HIDE DEF m
<1> QED
  BY <1>1, <1>3 DEF m

(* The larger the revisions, the larger their largest.                      *)
LEMMA LargerRevisions ==
  ASSUME NEW n \in Nat, NEW S, S \subseteq 0..n, NEW m \in Nat, NEW T, T \subseteq 0..m,
         \A k \in S : \E l \in T : k <= l
  PROVE  Max({0} \cup S) <= Max({0} \cup T)
<1> DEFINE a == Max({0} \cup S)
           b == Max({0} \cup T)
<1>1. a \in 0..n /\ (a = 0 \/ a \in S)
  BY LargestRevision
<1>2. b \in 0..m /\ \A k \in T : k <= b
  BY LargestRevision
<1> HIDE DEF a, b
<1>3. a <= b
  <2>1. CASE a = 0
    BY <1>2, <2>1
  <2>2. CASE a \in S
    <3>1. PICK l \in T : a <= l
      BY <2>2
    <3>2. l <= b /\ l \in 0..m
      BY <1>2, <3>1
    <3> QED
      BY <1>1, <1>2, <3>1, <3>2
  <2> QED
    BY <1>1, <2>1, <2>2
<1> QED
  BY <1>3 DEF a, b

(* No client is at a revision that is not durable.                          *)
LEMMA RevisionsDurable ==
  ASSUME CollabInv
  PROVE  durable \in Nat /\ Revisions \subseteq 0..durable
<1>1. durable \in Nat
  BY SoundServer
<1>2. ASSUME NEW c \in Client PROVE session[c].committed.revision \in 0..durable
  BY DEF CollabInv, ClientSound, SessionSound, CommittedSound
<1> QED
  BY <1>1, <1>2 DEF Revisions

(* No committed document goes back, and nothing else is seen.               *)
LEMMA TellStep ==
  ASSUME CollabInv, server'.operationLog = server.operationLog, durable' = durable,
         \A c \in Client : /\ session'[c].committed.revision \in 0..durable
                           /\ session'[c].committed.revision >= session[c].committed.revision
  PROVE  Promise!Tell
<1> DEFINE next == {session'[c].committed.revision : c \in Client}
<1>1. durable \in Nat /\ Revisions \subseteq 0..durable /\ next \subseteq 0..durable
  BY RevisionsDurable
<1>2. \A k \in Revisions : \E l \in next : k <= l
  BY DEF Revisions
<1>3. Revisions' = next
  BY DEF Revisions
<1> HIDE DEF next
<1>4. /\ Top0 \in 0..durable /\ Top0' \in 0..durable /\ Top0 <= Top0'
  BY <1>1, <1>2, <1>3, LargestRevision, LargerRevisions DEF Top0
<1>5. Told \subseteq Told'
  <2> SUFFICES ASSUME NEW i \in 1..Top0 PROVE <<server.operationLog[i].op, i>> \in Told'
    BY DEF Told
  <2>1. i \in 1..Top0'
    BY <1>1, <1>4
  <2>2. <<server.operationLog[i].op, i>> = <<server'.operationLog[i].op, i>>
    OBVIOUS
  <2> QED
    BY <2>1, <2>2 DEF Told
<1>6. Told' \subseteq {<<Order[i], i>> : i \in 1..durable}
  <2> SUFFICES ASSUME NEW i \in 1..Top0'
               PROVE  <<server'.operationLog[i].op, i>> \in {<<Order[j], j>> : j \in 1..durable}
    BY DEF Told
  <2>1. i \in 1..durable /\ i \in DOMAIN server.operationLog
    BY <1>1, <1>4, SoundServer
  <2>2. Order[i] = server'.operationLog[i].op
    BY <2>1 DEF Order
  <2> QED
    BY <2>1, <2>2
<1>7. Order' = Order
  BY DEF Order
<1> QED
  BY <1>5, <1>6, <1>7 DEF Promise!Tell, Promise!Places, Order, Told, Top0, Revisions

(* The sessions are as they were.                                           *)
LEMMA Untold ==
  ASSUME CollabInv, session' = session,
         \A i \in 1..durable : server'.operationLog[i].op = server.operationLog[i].op
  PROVE  Told' = Told
<1>1. Revisions' = Revisions
  BY DEF Revisions
<1>2. Top0' = Top0 /\ Top0 \in 0..durable /\ durable \in Nat
  BY <1>1, RevisionsDurable, LargestRevision DEF Top0
<1>3. \A i \in 1..Top0 : i \in 1..durable
  BY <1>2
<1> QED
  BY <1>2, <1>3 DEF Told

(* A new entry of the log is an acceptance of the promise, or nothing to    *)
(* it.                                                                      *)
LEMMA AcceptStep ==
  ASSUME CollabInv, NEW op \in OpId, session' = session, durable' = durable,
         server'.operationLog = server.operationLog \/
           Takes(server.operationLog, server'.operationLog, op)
  PROVE  Promise!Accept(op) \/ Promise!Tell
<1> DEFINE log == server.operationLog
           next == server'.operationLog
<1>1. CASE next = log
  <2>1. \A c \in Client : /\ session'[c].committed.revision \in 0..durable
                          /\ session'[c].committed.revision >= session[c].committed.revision
    <3> SUFFICES ASSUME NEW c \in Client
                 PROVE  /\ session[c].committed.revision \in 0..durable
                        /\ session[c].committed.revision >= session[c].committed.revision
      OBVIOUS
    <3>1. session[c].committed.revision \in 0..durable /\ durable \in Nat
      BY RevisionsDurable DEF Revisions
    <3> DEFINE k == session[c].committed.revision
    <3> HIDE DEF k
    <3>2. k \in 0..durable /\ k >= k
      BY <3>1 DEF k
    <3> QED
      BY <3>2 DEF k
  <2> QED
    BY <1>1, <2>1, TellStep
<1>2. ASSUME NEW x, x.op = op, next = Append(log, x), \A i \in DOMAIN log : log[i].op # op
      PROVE  Promise!Accept(op)
  <2>1. /\ IsList(log) /\ Len(log) \in Nat /\ DOMAIN log = 1..Len(log)
        /\ durable \in 0..Len(log)
    BY SoundServer
  <2> DEFINE S == ToSet(log) \cup {x}
             O == {s.op : s \in S}
  <2>2. log \in Seq(S) /\ x \in S
    BY <2>1 DEF IsList
  <2>3. /\ DOMAIN next = 1..Len(log) + 1 /\ next[Len(log) + 1] = x
        /\ \A i \in 1..Len(log) : next[i] = log[i]
    <3> HIDE DEF S
    <3> QED
      BY <1>2, <2>1, <2>2
  <2>4. Order \in Seq(O) /\ Len(Order) = Len(log) /\ DOMAIN Order = 1..Len(log)
        /\ \A i \in 1..Len(log) : Order[i] = log[i].op
    <3>1. \A i \in 1..Len(log) : log[i] \in S
      BY <2>1, <2>2
    <3>2. Order \in [1..Len(log) -> O]
      BY <2>1, <3>1 DEF Order
    <3> HIDE DEF O, S
    <3>3. Order \in Seq(O) /\ Len(Order) = Len(log)
      BY <2>1, <3>2
    <3> QED
      BY <2>1, <3>2, <3>3 DEF Order
  <2>5. Order' = [i \in 1..Len(log) + 1 |-> next[i].op]
    BY <2>3 DEF Order
  <2>6. op \in O
    BY <1>2, <2>2
  <2> HIDE DEF O, S, log
  <2>7. Order' = Append(Order, op)
    <3> DEFINE old == Order
               f == [i \in 1..Len(log) + 1 |-> next[i].op]
               g == Append(old, op)
    <3>1. old \in Seq(O) /\ op \in O /\ Len(old) = Len(log)
      BY <2>4, <2>6
    <3> HIDE DEF old
    <3>2. /\ DOMAIN g = 1..Len(log) + 1 /\ g[Len(log) + 1] = op
          /\ \A i \in 1..Len(log) : g[i] = old[i]
          /\ g = [i \in 1..Len(log) + 1 |-> g[i]]
      <4>1. /\ g \in Seq(O) /\ Len(g) = Len(old) + 1 /\ g[Len(old) + 1] = op
            /\ \A i \in 1..Len(old) : g[i] = old[i]
        BY <3>1, AppendProperties
      <4> HIDE DEF g
      <4>2. g \in [1..Len(g) -> O]
        BY <4>1
      <4> QED
        BY <3>1, <4>1, <4>2
    <3>3. \A i \in 1..Len(log) + 1 : i = Len(log) + 1 \/ i \in 1..Len(log)
      BY <2>1
    <3> HIDE DEF g
    <3>4. \A i \in 1..Len(log) + 1 : next[i].op = g[i]
      BY <1>2, <2>3, <2>4, <3>2, <3>3 DEF old
    <3> HIDE DEF next
    <3>5. f = g
      BY <3>2, <3>4
    <3> QED
      BY <2>5, <3>5 DEF old, g, next
  <2>8. \A i \in DOMAIN Order : Order[i] # op
    BY <1>2, <2>1, <2>4
  <2>9. Told' = Told
    <3>1. \A i \in 1..durable : next[i].op = log[i].op
      BY <2>1, <2>3
    <3> QED
      BY <3>1, Untold DEF log
  <2> QED
    BY <2>7, <2>8, <2>9 DEF Promise!Accept, Order, Told, Top0, Revisions
<1> QED
  BY <1>1, <1>2 DEF Takes

(* A handler has moved a session ahead.                                     *)
LEMMA BecomesTells ==
  ASSUME CollabInv, CollabInv', NEW c \in Client, NEW s, Shaped(s), Becomes(c, s),
         s.committed.revision >= session[c].committed.revision,
         UNCHANGED <<server, durable>>
  PROVE  Promise!Tell
<1> DEFINE quiet == [s EXCEPT !.out = <<>>]
<1>1. quiet.committed = s.committed
  BY DEF Shaped, SessionFields
<1>2. session' = [session EXCEPT ![c] = quiet] /\ session = [b \in Client |-> session[b]]
  BY DEF Becomes, CollabInv
<1> HIDE DEF quiet
<1>3. session'[c] = quiet /\ \A b \in Client \ {c} : session'[b] = session[b]
  BY <1>2
<1>4. ASSUME NEW b \in Client
      PROVE  /\ session'[b].committed.revision \in 0..durable
             /\ session'[b].committed.revision >= session[b].committed.revision
  <2> DEFINE k == session[b].committed.revision
             l == session'[b].committed.revision
  <2>1. k \in 0..durable /\ l \in 0..durable'
    BY DEF CollabInv, ClientSound, SessionSound, CommittedSound
  <2>2. durable' = durable /\ durable \in Nat
    BY RevisionsDurable
  <2>3. l = k \/ l >= k
    BY <1>1, <1>3
  <2> HIDE DEF k, l
  <2>4. l \in 0..durable /\ l >= k
    BY <2>1, <2>2, <2>3
  <2> QED
    BY <2>4 DEF k, l
<1>5. server'.operationLog = server.operationLog /\ durable' = durable
  OBVIOUS
<1> QED
  BY <1>4, <1>5, TellStep

(* The committed documents are as they were.                                *)
LEMMA RestTells ==
  ASSUME CollabInv, \A c \in Client : session'[c].committed = session[c].committed,
         server'.operationLog = server.operationLog, durable' = durable
  PROVE  Promise!Tell
<1> SUFFICES ASSUME NEW c \in Client
             PROVE  /\ session'[c].committed.revision \in 0..durable
                    /\ session'[c].committed.revision >= session[c].committed.revision
  BY TellStep
<1> DEFINE k == session[c].committed.revision
<1>1. k \in 0..durable /\ durable \in Nat /\ session'[c].committed.revision = k
  BY RevisionsDurable DEF Revisions
<1> HIDE DEF k
<1> QED
  BY <1>1 DEF k

(* A benign handler tells nobody anything.                                  *)
LEMMA BenignTells ==
  ASSUME CollabInv, CollabInv', NEW c \in Client, NEW s, Benign(session[c], s), Becomes(c, s),
         UNCHANGED <<server, durable>>
  PROVE  Promise!Tell
<1>1. Shaped(s) /\ s.committed = session[c].committed
  BY DEF Benign, Same
<1>2. session[c].committed.revision \in Int
  BY DEF CollabInv, ClientSound, SessionSound, CommittedSound
<1>3. s.committed.revision >= session[c].committed.revision
  BY <1>1, <1>2
<1> QED
  BY <1>1, <1>3, BecomesTells

(* A handler of one client tells its user the durable entries it applied.   *)
LEMMA ClientTells ==
  ASSUME CollabInv, CollabInv', NEW c \in Client,
         Resend(c) \/ Poll(c) \/ GiveUp(c) \/ Connect(c) \/ Receive(c)
  PROVE  Promise!Tell
<1>1. /\ SessionSound(session[c], server.operationLog, durable) /\ Shaped(session[c])
      /\ History(server.operationLog, durable) /\ session[c].out = <<>>
      /\ session[c].committed.revision \in Int
      /\ MessagesSound(down[c], server.operationLog, durable)
  BY SoundSession DEF CollabInv, ClientSound, SessionSound, CommittedSound
<1>2. CASE Resend(c)
  <2>1. Benign(session[c], ResendTimer(session[c]))
    BY <1>1, ResendAllPendingBenign DEF ResendTimer
  <2> QED
    BY <1>2, <2>1, BenignTells DEF Resend, serverVars
<1>3. CASE Poll(c)
  <2>1. Benign(session[c], CatchupPoll(session[c]))
    BY <1>1, CatchupPollBenign
  <2> QED
    BY <1>3, <2>1, BenignTells DEF Poll, serverVars
<1>4. CASE GiveUp(c)
  <2>1. Benign(session[c], OfflineTooLong(session[c]))
    BY <1>1, OfflineTooLongBenign
  <2> QED
    BY <1>4, <2>1, BenignTells DEF GiveUp, serverVars
<1>5. CASE Connect(c)
  <2> DEFINE t == HandleConnected(session[c])
  <2>1. /\ SessionSound(t, server.operationLog, durable) /\ t.committed = session[c].committed
    BY <1>1, HandleConnectedSound
  <2>2. Becomes(c, t) /\ UNCHANGED <<server, durable>>
    BY <1>5 DEF Connect, serverVars
  <2> HIDE DEF t
  <2>3. Shaped(t) /\ t.committed.revision >= session[c].committed.revision
    BY <1>1, <2>1 DEF SessionSound
  <2> QED
    BY <2>2, <2>3, BecomesTells
<1>6. CASE Receive(c)
  <2> DEFINE m == Head(down[c])
             t == HandleServerMessage(session[c], m)
  <2>1. down[c] # <<>> /\ Becomes(c, t) /\ UNCHANGED <<server, durable>>
    BY <1>6 DEF Receive, serverVars
  <2>2. MessageSound(m, server.operationLog, durable)
    BY <1>1, <2>1, MessagesTail
  <2> HIDE DEF m
  <2>3. Progresses(session[c], t, server.operationLog, durable)
    BY <1>1, <2>2, HandleServerMessageSound
  <2> HIDE DEF t
  <2>4. Shaped(t) /\ t.committed.revision >= session[c].committed.revision
    BY <2>3 DEF Progresses, SessionSound
  <2> QED
    BY <2>1, <2>4, BecomesTells
<1> QED
  BY <1>2, <1>3, <1>4, <1>5, <1>6

(* An edit tells nothing.                                                   *)
LEMMA EditTells ==
  ASSUME CollabInv, CollabInv', NEW op \in OpId, EditLocally(op)
  PROVE  Promise!Tell
<1> DEFINE c == Author[op]
           s == session[c]
           operation == OperationOf(s, Edit[op])
           t == SubmitLocalOperation(s, op, operation)
<1>1. c \in Client
  BY AuthorAssumption
<1>2. Editable(s, Edit[op]) /\ Becomes(c, t) /\ UNCHANGED <<server, durable>>
  BY DEF EditLocally, serverVars
<1>3. IsOperation(operation)
  BY <1>2, OperationOfSound
<1>4. Shaped(s)
  BY <1>1, SoundSession
<1> HIDE DEF operation
<1>5. Benign(s, t)
  BY <1>3, <1>4, SubmitLocalOperationBenign
<1> HIDE DEF c, t
<1> QED
  BY <1>1, <1>2, <1>5, BenignTells

(* A broken connection takes no document back.                              *)
LEMMA DisconnectedDocuments ==
  ASSUME CollabInv, NEW c \in Client
  PROVE  HandleDisconnected(session[c]).committed = session[c].committed
  BY HandleDisconnectedSound DEF CollabInv, ClientSound

(* A connection that breaks takes nothing back.                             *)
LEMMA BreakTells ==
  ASSUME CollabInv, NEW c \in Client, NEW n, Break(c, n)
  PROVE  Promise!Tell
<1> DEFINE s == HandleDisconnected(session[c])
<1>1. /\ session' = [session EXCEPT ![c] = s] /\ server' = server /\ durable' = durable
      /\ session = [b \in Client |-> session[b]]
  BY DEF Break, CollabInv
<1>2. s.committed = session[c].committed
  BY DisconnectedDocuments
<1> HIDE DEF s
<1>3. \A b \in Client : session'[b].committed = session[b].committed
  BY <1>1, <1>2
<1> QED
  BY <1>1, <1>3, RestTells

(* An fsync is the promise's hardening of the next entry.                   *)
LEMMA SyncHardens ==
  ASSUME CollabInv, Sync
  PROVE  Promise!Harden
<1> DEFINE log == server.operationLog
<1>1. /\ durable' = durable + 1 /\ durable < Len(log) /\ durable \in Nat /\ Len(log) \in Nat
      /\ session' = session /\ server' = server
  BY SoundServer, RevisionsDurable DEF Sync
<1>2. Len(Order) = Len(log)
  <2> DEFINE O == {log[i].op : i \in DOMAIN log}
             f == Order
  <2>1. DOMAIN log = 1..Len(log)
    BY SoundServer
  <2>2. Order \in [1..Len(log) -> O]
    BY <2>1 DEF Order
  <2> HIDE DEF O, log
  <2>3. Order \in Seq(O) /\ DOMAIN Order = 1..Len(log)
    BY <1>1, <2>2
  <2> QED
    BY <1>1, <2>3
<1>3. Order' = Order /\ Told' = Told
  BY <1>1, Untold DEF Order
<1>4. durable' \in durable..Len(Order)
  BY <1>1, <1>2
<1> QED
  BY <1>3, <1>4 DEF Promise!Harden, Order, Told, Top0, Revisions

(* A restart keeps everything that was told.                                *)
LEMMA RestartRestarts ==
  ASSUME CollabInv, NEW n \in durable..server.currentRevision, Restart(n)
  PROVE  \E m \in durable..Len(Order) : Promise!Restart(m)
<1> DEFINE log == server.operationLog
           next == SubSeq(log, 1, n)
<1>1. /\ durable \in Nat /\ Len(log) \in Nat /\ DOMAIN log = 1..Len(log) /\ IsList(log)
      /\ n \in 0..Len(log) /\ durable <= n /\ n <= Len(log) /\ n \in Nat
  BY SoundServer, RevisionsDurable
<1>2. durable' = n /\ session' = [c \in Client |-> HandleDisconnected(session[c])]
  BY DEF Restart
<1>3. server'.operationLog = next
  BY RestartKeeps
<1>4. Len(next) = n /\ DOMAIN next = 1..n /\ \A i \in 1..n : next[i] = log[i]
  <2>1. n \in 0..n
    BY <1>1
  <2>2. IsList(next) /\ Len(next) = n /\ \A i \in 1..n : next[i] = log[i]
    BY <1>1, <2>1, AgreeCut DEF Agree
  <2> QED
    BY <2>2 DEF IsList
<1> HIDE DEF next
<1> DEFINE O == {log[i].op : i \in DOMAIN log}
<1>5. Order \in Seq(O) /\ Len(Order) = Len(log) /\ \A i \in 1..Len(log) : Order[i] = log[i].op
  <2>1. Order \in [1..Len(log) -> O]
    BY <1>1 DEF Order
  <2>2. \A i \in 1..Len(log) : Order[i] = log[i].op
    BY <1>1 DEF Order
  <2> HIDE DEF O, log
  <2>3. Order \in Seq(O) /\ Len(Order) = Len(log)
    BY <1>1, <2>1
  <2> QED
    BY <2>2, <2>3
<1>6. Order' = [i \in 1..n |-> next[i].op]
  BY <1>3, <1>4 DEF Order
<1>7. Order' = SubSeq(Order, 1, n)
  <2> DEFINE old == Order
             g == SubSeq(old, 1, n)
             f == [i \in 1..n |-> next[i].op]
  <2> HIDE DEF O, old
  <2>1. old \in Seq(O) /\ Len(old) = Len(log)
    BY <1>5 DEF old
  <2>2. \A i \in 1..n : old[i] = log[i].op /\ next[i].op = log[i].op
    BY <1>1, <1>4, <1>5 DEF old
  <2>3. g \in Seq(O) /\ Len(g) = n /\ \A i \in 1..n : g[i] = old[i]
    <3>1. \A i \in 1..n : old[i] \in O
      BY <1>1, <2>1
    <3> QED
      BY <1>1, <3>1, SubSeqProperties
  <2> HIDE DEF g
  <2>4. g = [i \in 1..n |-> g[i]]
    BY <1>1, <2>3
  <2>5. \A i \in 1..n : next[i].op = g[i]
    BY <2>2, <2>3
  <2>6. f = g
    BY <2>4, <2>5
  <2> QED
    BY <1>6, <2>6 DEF g, old
<1>8. Told' = Told
  <2>1. \A c \in Client : session'[c].committed = session[c].committed
    BY <1>2, DisconnectedDocuments
  <2>2. Revisions' = Revisions
    BY <2>1 DEF Revisions
  <2>3. Top0' = Top0 /\ Top0 \in 0..durable
    BY <2>2, RevisionsDurable, LargestRevision DEF Top0
  <2>4. \A i \in 1..Top0 : server'.operationLog[i].op = log[i].op
    BY <1>1, <1>3, <1>4, <2>3
  <2> QED
    BY <2>3, <2>4 DEF Told
<1>9. n \in durable..Len(Order)
  BY <1>1, <1>5
<1>10. Promise!Restart(n)
  BY <1>2, <1>7, <1>8 DEF Promise!Restart, Order, Told, Top0, Revisions
<1> QED
  BY <1>9, <1>10

(* Every step is a step of the promise, or nothing to it.                   *)
LEMMA CollabKeepsPromise ==
  ASSUME CollabInv, CollabInv', [Next]_vars
  PROVE  [Promise!Next]_(Promise!vars)
<1>1. ASSUME NEW op \in OpId, EditLocally(op) PROVE Promise!Next
  BY <1>1, EditTells DEF Promise!Next
<1>2. ASSUME NEW c \in Client,
             \/ Resend(c) \/ Poll(c) \/ GiveUp(c)
             \/ Connect(c) \/ Receive(c)
             \/ ServerReceives(c) \/ LateArrives(c)
             \/ \E n \in 0..Len(up[c]) : Break(c, n)
             \/ \E i \in DOMAIN down[c] : Lose(c, i) \/ Duplicate(c, i) \/ Overtake(c, i)
      PROVE  Promise!Next
  <2>1. CASE Resend(c) \/ Poll(c) \/ GiveUp(c) \/ Connect(c) \/ Receive(c)
    BY <2>1, ClientTells DEF Promise!Next
  <2>2. CASE ServerReceives(c)
    <3>1. session' = session /\ durable' = durable
      BY <2>2 DEF ServerReceives
    <3>2. CASE server'.operationLog = server.operationLog
      BY <3>1, <3>2, RestTells DEF Promise!Next
    <3>3. ASSUME NEW op \in OpId, Takes(server.operationLog, server'.operationLog, op)
          PROVE  Promise!Next
      BY <3>1, <3>3, AcceptStep DEF Promise!Next
    <3> QED
      BY <2>2, <3>2, <3>3, ServerReceivesKeeps
  <2>3. CASE LateArrives(c)
    <3>1. session' = session /\ durable' = durable
      BY <2>3 DEF LateArrives
    <3>2. PICK op \in OpId : Takes(server.operationLog, server'.operationLog, op)
      BY <2>3, LateArrivesKeeps
    <3> QED
      BY <3>1, <3>2, AcceptStep DEF Promise!Next
  <2>4. ASSUME NEW n \in 0..Len(up[c]), Break(c, n) PROVE Promise!Next
    BY <2>4, BreakTells DEF Promise!Next
  <2>5. ASSUME NEW i \in DOMAIN down[c], Lose(c, i) \/ Duplicate(c, i) \/ Overtake(c, i)
        PROVE  Promise!Next
    <3>1. session' = session /\ server' = server /\ durable' = durable
      BY <2>5 DEF Lose, Duplicate, Overtake, Fault, serverVars
    <3> QED
      BY <3>1, RestTells DEF Promise!Next
  <2> QED
    BY <1>2, <2>1, <2>2, <2>3, <2>4, <2>5
<1>3. CASE Sync
  BY <1>3, SyncHardens DEF Promise!Next
<1>4. CASE Dispatch
  <2>1. session' = session /\ server' = server /\ durable' = durable
    BY <1>4 DEF Dispatch
  <2> QED
    BY <2>1, RestTells DEF Promise!Next
<1>5. ASSUME NEW n \in durable..server.currentRevision, Restart(n) PROVE Promise!Next
  BY <1>5, RestartRestarts DEF Promise!Next, Order
<1>6. CASE UNCHANGED vars
  <2>1. session' = session /\ server' = server /\ durable' = durable
    BY <1>6 DEF vars
  <2> QED
    BY <2>1, RestTells DEF Promise!Next
<1> QED
  BY <1>1, <1>2, <1>3, <1>4, <1>5, <1>6 DEF Next

(* Sessions, connections and server together keep the promise of            *)
(* OrderedLog: one log, entries told to users only once durable and for     *)
(* good, through every break and restart (session.ts, handleOperations;     *)
(* room.ts, handleSubmit).                                                  *)
THEOREM CollabImplementsOrderedLog == Spec => ImplementsOrderedLog
<1>1. Init => Promise!Init
  <2> SUFFICES ASSUME Init PROVE Promise!Init
    OBVIOUS
  <2>1. /\ server = FreshState(InitialDocument) /\ durable = 0
        /\ session = [c \in Client |-> NewSession(c)]
    BY DEF Init
  <2>2. server.operationLog = <<>>
    BY <2>1, FreshServer
  <2>3. Order = <<>>
    BY <2>2 DEF Order
  <2>4. Told = {}
    <3>1. CollabInv
      BY CollabStart
    <3>2. Revisions \subseteq 0..0
      BY <2>1, <3>1, RevisionsDurable
    <3>3. Top0 \in 0..0
      BY <3>2, LargestRevision DEF Top0
    <3>4. 1..Top0 = {}
      BY <3>3
    <3> QED
      BY <3>4 DEF Told
  <2> QED
    BY <2>1, <2>3, <2>4 DEF Promise!Init, Order, Told, Top0, Revisions
<1>2. CollabInv /\ CollabInv' /\ [Next]_vars => [Promise!Next]_(Promise!vars)
  BY CollabKeepsPromise
<1> QED
  BY <1>1, <1>2, CollabInvariance, PTL DEF Spec, ImplementsOrderedLog, Promise!Spec

-----------------------------------------------------------------------------
(* Where the document of a client comes from, when every connection         *)
(* delivers in order.                                                       *)

(* Where the elements of two lists in a row are.                            *)
LEMMA ConcatElements ==
  ASSUME NEW q, IsList(q), NEW r, IsList(r)
  PROVE  /\ DOMAIN q = 1..Len(q) /\ Len(q) \in Nat
         /\ DOMAIN q \subseteq DOMAIN (q \o r)
         /\ \A i \in DOMAIN q : (q \o r)[i] = q[i]
         /\ Len(q \o r) = Len(q) + Len(r) /\ DOMAIN (q \o r) = 1..Len(q) + Len(r)
         /\ \A i \in 1..Len(r) : (q \o r)[Len(q) + i] = r[i]
<1> DEFINE S == ToSet(q) \cup ToSet(r)
           u == q \o r
<1>1. q \in Seq(S) /\ r \in Seq(S)
  BY DEF IsList
<1>2. /\ Len(q) \in Nat /\ Len(r) \in Nat /\ DOMAIN q = 1..Len(q)
      /\ Len(u) = Len(q) + Len(r) /\ DOMAIN u = 1..Len(q) + Len(r)
      /\ \A i \in 1..Len(q) : u[i] = q[i]
      /\ \A i \in 1..Len(r) : u[Len(q) + i] = r[i]
  BY <1>1
<1> HIDE DEF u, S
<1>3. 1..Len(q) \subseteq 1..Len(q) + Len(r)
  BY <1>2
<1> QED
  BY <1>2, <1>3 DEF u

(* Two messages in a row behind none.                                       *)
LEMMA PairOfOnes ==
  ASSUME NEW a, NEW b, NEW m, m = <<>>
  PROVE  LET q == m \o (<<a>> \o <<b>>)
         IN  2 \in DOMAIN q /\ q[1] = a /\ q[2] = b
<1> DEFINE x == <<a>>
           y == <<b>>
           z == x \o y
           q == m \o z
<1>1. Len(x) = 1 /\ Len(y) = 1 /\ x[1] = a /\ y[1] = b
  OBVIOUS
<1>2. IsList(x) /\ IsList(y) /\ IsList(m)
  <2>1. x \in Seq({a}) /\ y \in Seq({b}) /\ m \in Seq({a})
    OBVIOUS
  <2> HIDE DEF x, y
  <2> QED
    BY <2>1, SeqSelf DEF IsList
<1>3. Len(m) = 0
  OBVIOUS
<1> HIDE DEF x, y
<1>4. IsList(z) /\ Len(z) = Len(x) + Len(y) /\ \A i \in 1..Len(x) : z[i] = x[i]
  BY <1>2, ConcatElements, ListConcat
<1>5. \A i \in 1..Len(y) : z[Len(x) + i] = y[i]
  BY <1>2, ConcatElements
<1> HIDE DEF z
<1>6. Len(q) = Len(m) + Len(z) /\ DOMAIN q = 1..Len(m) + Len(z)
  BY <1>2, <1>4, ConcatElements
<1>7. \A i \in 1..Len(z) : q[Len(m) + i] = z[i]
  BY <1>2, <1>4, ConcatElements
<1> HIDE DEF q
<1>8. z[1] = a /\ z[2] = b /\ Len(z) = 2
  <2>1. 1 \in 1..Len(x) /\ 1 \in 1..Len(y) /\ Len(x) + 1 = 2 /\ Len(x) + Len(y) = 2
    BY <1>1
  <2> QED
    BY <1>1, <1>4, <1>5, <2>1
<1>9. 1 \in 1..Len(z) /\ 2 \in 1..Len(z) /\ Len(m) + 1 = 1 /\ Len(m) + 2 = 2 /\ 2 \in DOMAIN q
  BY <1>3, <1>6, <1>8
<1>10. 2 \in DOMAIN q /\ q[1] = a /\ q[2] = b
  BY <1>7, <1>8, <1>9
<1> QED
  BY <1>10 DEF q, z, x, y

(* What the client sends and what the server says next come later.          *)
LEMMA JoinStaysFirst ==
  ASSUME NEW q, IsList(q), NEW r, IsList(r), JoinsFirst(q)
  PROVE  JoinsFirst(q \o r)
<1> DEFINE u == q \o r
<1>1. /\ DOMAIN q = 1..Len(q) /\ Len(q) \in Nat /\ DOMAIN q \subseteq DOMAIN u
      /\ \A i \in DOMAIN q : u[i] = q[i]
  BY ConcatElements
<1>2. IsList(u)
  BY ListConcat
<1> HIDE DEF u
<1>3. Len(q) # 0 /\ 1 \in DOMAIN q /\ Head(q) = q[1]
  BY <1>1 DEF JoinsFirst, IsList
<1>4. 1 \in DOMAIN u /\ u[1] = Head(q)
  BY <1>1, <1>3
<1>5. u # <<>> /\ Head(u) = u[1]
  BY <1>2, <1>4 DEF IsList
<1>6. JoinsFirst(u)
  BY <1>4, <1>5 DEF JoinsFirst
<1> QED
  BY <1>6 DEF u

(* A bootstrap stays ahead of what is said behind it.                       *)
LEMMA BootstrapStillComes ==
  ASSUME NEW s, NEW t, t.welcomeSeen = s.welcomeSeen,
         NEW q, IsList(q), NEW r, IsList(r), BootstrapComes(s, q)
  PROVE  BootstrapComes(t, q \o r)
<1> DEFINE u == q \o r
<1>1. /\ DOMAIN q = 1..Len(q) /\ Len(q) \in Nat /\ DOMAIN q \subseteq DOMAIN u
      /\ \A i \in DOMAIN q : u[i] = q[i]
  BY ConcatElements
<1>2. PICK i \in DOMAIN q :
        /\ q[i].type = "bootstrap"
        /\ \A j \in 1..i-1 :
             /\ q[j].type \notin {"bootstrap", "operations"}
             /\ q[j].type = "welcome" => ~q[j].diverged
        /\ s.welcomeSeen \/ \E j \in 1..i-1 : q[j].type = "welcome"
  BY DEF BootstrapComes
<1> HIDE DEF u
<1>3. i \in DOMAIN u /\ u[i] = q[i] /\ \A j \in 1..i-1 : u[j] = q[j]
  BY <1>1, <1>2
<1>4. BootstrapComes(t, u)
  BY <1>2, <1>3 DEF BootstrapComes
<1> QED
  BY <1>4 DEF u

(* A handler that leaves the document alone.                                *)
LEMMA AwaitsBenign ==
  ASSUME NEW s, NEW t, Benign(s, t), NEW v, v = [t EXCEPT !.out = <<>>],
         NEW q, FramesSound(q), ~s.online => t.out = <<>>,
         NEW m, NEW in, Awaits(s, q, m, in)
  PROVE  Awaits(v, q \o t.out, m, in)
<1> DEFINE r == t.out
           none == <<>>
<1>1. /\ v.committed = s.committed /\ v.buffer = s.buffer
      /\ v.bufferedBootstrap = s.bufferedBootstrap /\ v.online = s.online
      /\ v.welcomeSeen = s.welcomeSeen /\ v.bootstrapAccepted = s.bootstrapAccepted
  BY DEF Benign, Same, Shaped, SessionFields
<1>2. IsList(q) /\ IsList(r)
  BY DEF Benign, Shaped, FramesSound
<1>3. ~s.online => r = none
  OBVIOUS
<1>4. none \o none = none
  OBVIOUS
<1> HIDE DEF r, none
<1>5. BootstrapComes(s, m) => BootstrapComes(v, m)
  BY <1>1 DEF BootstrapComes
<1>6. JoinsFirst(q) => JoinsFirst(q \o r)
  BY <1>2, JoinStaysFirst
<1>7. ~s.online => q \o r = none
  BY <1>3, <1>4 DEF Awaits, none
<1>8. Awaits(v, q \o r, m, in)
  BY <1>1, <1>5, <1>6, <1>7 DEF Awaits, none
<1> QED
  BY <1>8 DEF r

(* The first frame of a connection is its join.                             *)
LEMMA AwaitsConnected ==
  ASSUME NEW s, NEW log, NEW d, SessionSound(s, log, d), s.out = <<>>, ~s.online,
         NEW q, NEW m, NEW in, Awaits(s, q, m, in),
         NEW t, t = HandleConnected(s), NEW v, v = [t EXCEPT !.out = <<>>]
  PROVE  Awaits(v, q \o t.out, m, in)
<1>1. /\ SessionSound(t, log, d)
      /\ t.committed = s.committed /\ t.buffer = s.buffer
      /\ t.online = TRUE /\ t.bootstrapAccepted = FALSE /\ t.bufferedBootstrap = NoBootstrap
      /\ Len(t.out) = 1 /\ t.out[1].type = "join" /\ t.out[1].last = s.committed.revision
  BY HandleConnectedSound
<1>2. /\ v.committed = s.committed /\ v.buffer = s.buffer
      /\ v.bufferedBootstrap = NoBootstrap /\ v.online = TRUE /\ v.bootstrapAccepted = FALSE
  BY <1>1 DEF SessionSound, Shaped, SessionFields
<1> DEFINE r == t.out
           none == <<>>
<1>3. IsList(r)
  BY <1>1 DEF SessionSound, Shaped, FramesSound
<1>4. s.committed.revision = 0
  <2>1. EmptyDocument.revision = 0
    BY DEF EmptyDocument
  <2>2. s.committed = EmptyDocument
    BY DEF Awaits
  <2> QED
    BY <2>1, <2>2
<1>5. Len(r) = 1 /\ r[1].type = "join" /\ r[1].last = 0
  BY <1>1, <1>4
<1> HIDE DEF r
<1>6. JoinsFirst(r)
  <2> DEFINE S == ToSet(r)
  <2>1. r \in Seq(S)
    BY <1>3 DEF IsList
  <2> HIDE DEF S
  <2>2. r # none
    <3>1. Len(none) = 0 /\ Len(r) = 1
      BY <1>5
    <3> HIDE DEF none
    <3> QED
      BY <3>1
  <2>3. Head(r) = r[1]
    BY <2>1, <2>2
  <2>4. r # none /\ Head(r).type = "join" /\ Head(r).last = 0
    BY <1>5, <2>2, <2>3
  <2> QED
    BY <2>4 DEF JoinsFirst
<1>7. q = none /\ m = none /\ ~in
  BY DEF Awaits
<1>8. none \o r = r
  BY <1>3 DEF IsList
<1>9. JoinsFirst(q \o r)
  BY <1>6, <1>7, <1>8
<1> HIDE DEF none
<1>10. Awaits(v, q \o r, m, in)
  BY <1>2, <1>7, <1>9 DEF Awaits, none
<1> QED
  BY <1>10 DEF r

(* A connection that breaks before the bootstrap leaves nothing behind.     *)
LEMMA AwaitsDisconnected ==
  ASSUME NEW s, NEW log, NEW d, SessionSound(s, log, d), NEW q, NEW m, NEW in, Awaits(s, q, m, in)
  PROVE  Awaits(HandleDisconnected(s), <<>>, <<>>, FALSE)
<1> DEFINE t == HandleDisconnected(s)
<1>1. /\ t.committed = s.committed /\ t.buffer = s.buffer /\ t.online = FALSE
      /\ t.bootstrapAccepted = s.bootstrapAccepted
  BY HandleDisconnectedSound
<1> HIDE DEF t
<1>2. Awaits(t, <<>>, <<>>, FALSE)
  BY <1>1 DEF Awaits
<1> QED
  BY <1>2 DEF t

(* The server reads the join: its bootstrap is on its way.                  *)
LEMMA AwaitsAnswered ==
  ASSUME ServerSound(server), durable \in 0..Len(server.operationLog),
         InitialDocument.rowOrder # <<>>,
         NEW c, NEW s, s.online, NEW q, JoinsFirst(q), NEW m, IsList(m), m = <<>>,
         s.committed = EmptyDocument, DOMAIN s.buffer = {}, ~s.bootstrapAccepted,
         s.bufferedBootstrap = NoBootstrap
  PROVE  Awaits(s, Tail(q), m \o JoinAnswer(c, Head(q)), TRUE)
<1> DEFINE join == Head(q)
           welcome == [type |-> "welcome", revision |-> durable,
                       reconcile |-> ReconcileInfo(c, join.pending), diverged |-> join.last > durable]
           document == SerializeDocument(FrontierDocument)
           bootstrap == [type |-> "bootstrap", revision |-> durable, document |-> document]
           missed == UpToFrontier(join.last)
           answer == JoinAnswer(c, join)
           boots == ShouldBootstrap(join.last)
           rest == IF boots THEN <<bootstrap>>
                   ELSE IF missed # <<>> THEN <<Operations(missed)>> ELSE <<>>
<1>1. answer = <<welcome>> \o rest
  BY DEF JoinAnswer
<1>2. join.last = 0
  BY DEF JoinsFirst
<1> HIDE DEF join
<1>3. durable \in Nat
  BY DEF ServerSound, StateSound
<1>4. ShouldBootstrap(0)
  <2>1. CASE durable > 0
    BY <2>1 DEF ShouldBootstrap
  <2>2. CASE durable = 0
    <3>1. DurableLog = <<>>
      BY <2>2 DEF DurableLog, ServerSound, StateSound
    <3>2. FrontierDocument = InitialDocument
      BY <3>1, ReplayEmpty DEF FrontierDocument
    <3> QED
      BY <3>2 DEF ShouldBootstrap
  <2> QED
    BY <1>3, <2>1, <2>2
<1>5. rest = <<bootstrap>>
  <2>1. boots
    BY <1>2, <1>4, Zenon
  <2> HIDE DEF boots, bootstrap, missed
  <2> QED
    BY <2>1
<1>6. welcome.type = "welcome" /\ ~welcome.diverged /\ bootstrap.type = "bootstrap"
  <2>1. welcome.type = "welcome" /\ bootstrap.type = "bootstrap"
    OBVIOUS
  <2>2. welcome.diverged = (join.last > durable)
    OBVIOUS
  <2>3. ~(join.last > durable)
    BY <1>2, <1>3
  <2> HIDE DEF welcome, bootstrap
  <2> QED
    BY <2>1, <2>2, <2>3
<1> HIDE DEF welcome, bootstrap, rest, answer
<1>7. answer = <<welcome>> \o <<bootstrap>>
  BY <1>1, <1>5
<1> DEFINE u == m \o answer
<1>9. 2 \in DOMAIN u /\ u[2] = bootstrap /\ u[1] = welcome
  BY <1>7, PairOfOnes
<1> HIDE DEF u
<1>10. BootstrapComes(s, u)
  <2>1. \A j \in 1..2-1 : j = 1
    OBVIOUS
  <2>2. 1 \in 1..2-1
    OBVIOUS
  <2> QED
    BY <1>6, <1>9, <2>1, <2>2 DEF BootstrapComes
<1>11. Awaits(s, Tail(q), u, TRUE)
  BY <1>10 DEF Awaits
<1> QED
  BY <1>11 DEF u, answer, join

(* The message that reaches a session awaiting its bootstrap.               *)
LEMMA TailElements ==
  ASSUME NEW m, IsList(m), m # <<>>
  PROVE  /\ Len(m) \in Nat \ {0} /\ DOMAIN m = 1..Len(m) /\ Head(m) = m[1]
         /\ DOMAIN Tail(m) = 1..Len(m) - 1
         /\ \A i \in 1..Len(m) - 1 : Tail(m)[i] = m[i + 1]
<1> DEFINE S == ToSet(m)
           u == Tail(m)
<1>1. m \in Seq(S)
  BY DEF IsList
<1> HIDE DEF S
<1>2. Len(m) \in Nat /\ DOMAIN m = 1..Len(m) /\ Head(m) = m[1] /\ Len(m) # 0
  BY <1>1
<1>3. u \in Seq(S) /\ Len(u) = Len(m) - 1 /\ \A i \in 1..Len(m) - 1 : u[i] = m[i + 1]
  BY <1>1, <1>2
<1> HIDE DEF u
<1>4. DOMAIN u = 1..Len(m) - 1
  BY <1>3
<1> QED
  BY <1>2, <1>3, <1>4 DEF u

(* Ahead of the bootstrap come its welcome and answers to submits.          *)
LEMMA BootstrapAhead ==
  ASSUME NEW s, NEW m, IsList(m), m # <<>>, BootstrapComes(s, m)
  PROVE  /\ Head(m).type = "bootstrap" => s.welcomeSeen
         /\ Head(m).type # "operations"
         /\ Head(m).type = "welcome" => ~Head(m).diverged
<1>1. Len(m) \in Nat \ {0} /\ DOMAIN m = 1..Len(m) /\ Head(m) = m[1]
  BY TailElements
<1>2. PICK i \in DOMAIN m :
        /\ m[i].type = "bootstrap"
        /\ \A j \in 1..i-1 :
             /\ m[j].type \notin {"bootstrap", "operations"}
             /\ m[j].type = "welcome" => ~m[j].diverged
        /\ s.welcomeSeen \/ \E j \in 1..i-1 : m[j].type = "welcome"
  BY DEF BootstrapComes
<1>3. CASE i = 1
  <2>1. 1..i-1 = {}
    BY <1>3
  <2> QED
    BY <1>1, <1>2, <1>3, <2>1
<1>4. CASE i # 1
  <2>1. 1 \in 1..i-1
    BY <1>1, <1>4
  <2>2. m[1].type \notin {"bootstrap", "operations"} /\ (m[1].type = "welcome" => ~m[1].diverged)
    BY <1>2, <2>1
  <2> QED
    BY <1>1, <2>2
<1> QED
  BY <1>3, <1>4

(* With every message the bootstrap comes nearer.                           *)
LEMMA BootstrapNears ==
  ASSUME NEW s, NEW v, NEW m, IsList(m), m # <<>>, BootstrapComes(s, m),
         Head(m).type # "bootstrap",
         v.welcomeSeen \/ (Head(m).type # "welcome" /\ v.welcomeSeen = s.welcomeSeen)
  PROVE  BootstrapComes(v, Tail(m))
<1> DEFINE u == Tail(m)
<1>1. /\ Len(m) \in Nat \ {0} /\ DOMAIN m = 1..Len(m) /\ Head(m) = m[1]
      /\ DOMAIN u = 1..Len(m) - 1 /\ \A i \in 1..Len(m) - 1 : u[i] = m[i + 1]
  BY TailElements
<1>2. PICK i \in DOMAIN m :
        /\ m[i].type = "bootstrap"
        /\ \A j \in 1..i-1 :
             /\ m[j].type \notin {"bootstrap", "operations"}
             /\ m[j].type = "welcome" => ~m[j].diverged
        /\ s.welcomeSeen \/ \E j \in 1..i-1 : m[j].type = "welcome"
  BY DEF BootstrapComes
<1> HIDE DEF u
<1>3. i # 1
  BY <1>1, <1>2
<1>4. i - 1 \in DOMAIN u /\ (i - 1) + 1 = i /\ i - 1 \in 1..Len(m) - 1
  BY <1>1, <1>3
<1>5. u[i - 1] = m[i]
  BY <1>1, <1>4
<1>6. ASSUME NEW j \in 1..(i-1)-1
      PROVE  u[j] = m[j + 1] /\ j + 1 \in 1..i-1
  <2>1. j \in 1..Len(m) - 1 /\ j + 1 \in 1..i-1
    BY <1>1, <1>4
  <2> QED
    BY <1>1, <2>1
<1>7. v.welcomeSeen \/ \E j \in 1..(i-1)-1 : u[j].type = "welcome"
  <2> SUFFICES ASSUME ~v.welcomeSeen PROVE \E j \in 1..(i-1)-1 : u[j].type = "welcome"
    OBVIOUS
  <2>1. Head(m).type # "welcome" /\ ~s.welcomeSeen
    OBVIOUS
  <2>2. PICK k \in 1..i-1 : m[k].type = "welcome"
    BY <1>2, <2>1
  <2>3. k # 1
    BY <1>1, <2>1, <2>2
  <2>4. k - 1 \in 1..(i-1)-1 /\ (k - 1) + 1 = k
    BY <1>1, <2>3
  <2>5. u[k - 1] = m[k]
    BY <1>6, <2>4
  <2> QED
    BY <2>2, <2>4, <2>5
<1>8. \A j \in 1..(i-1)-1 : u[j].type \notin {"bootstrap", "operations"}
                            /\ (u[j].type = "welcome" => ~u[j].diverged)
  BY <1>2, <1>6
<1>9. BootstrapComes(v, u)
  BY <1>2, <1>4, <1>5, <1>7, <1>8 DEF BootstrapComes
<1> QED
  BY <1>9 DEF u

(* A message leaves the session waiting for its bootstrap, or is the        *)
(* bootstrap.                                                               *)
LEMMA AwaitsReceives ==
  ASSUME NEW s, NEW log, NEW d, History(log, d), SessionSound(s, log, d),
         NEW q, NEW m, IsList(m), m # <<>>, NEW in, in \in BOOLEAN, Awaits(s, q, m, in),
         MessageSound(Head(m), log, d), NEW r,
         NEW t, t = HandleServerMessage(s, Head(m)), NEW v, v = [t EXCEPT !.out = <<>>]
  PROVE  OnInitial(v, log) \/ Awaits(v, r, Tail(m), in)
<1> DEFINE h == Head(m)
           none == <<>>
<1>1. /\ s.online /\ in = TRUE /\ BootstrapComes(s, m) /\ s.bufferedBootstrap = NoBootstrap
      /\ s.committed = EmptyDocument /\ DOMAIN s.buffer = {} /\ ~s.bootstrapAccepted
  BY DEF Awaits
<1>2. /\ h.type = "bootstrap" => s.welcomeSeen
      /\ h.type # "operations"
      /\ h.type = "welcome" => ~h.diverged
  BY <1>1, BootstrapAhead
<1>3. s.committed.revision = 0
  <2>1. EmptyDocument.revision = 0
    BY DEF EmptyDocument
  <2> QED
    BY <1>1, <2>1
<1>4. Shaped(s) /\ Shaped(t)
  BY HandleServerMessageSound DEF SessionSound, Progresses
<1>5. /\ v.committed = t.committed /\ v.buffer = t.buffer /\ v.online = t.online
      /\ v.bufferedBootstrap = t.bufferedBootstrap /\ v.welcomeSeen = t.welcomeSeen
      /\ v.bootstrapAccepted = t.bootstrapAccepted
  BY <1>4 DEF Shaped, SessionFields
<1>6. ASSUME Rests(s, t), h.type # "bootstrap",
             t.welcomeSeen \/ (h.type # "welcome" /\ t.welcomeSeen = s.welcomeSeen)
      PROVE  Awaits(v, r, Tail(m), in)
  <2>1. BootstrapComes(v, Tail(m))
    BY <1>1, <1>5, <1>6, BootstrapNears
  <2>2. /\ v.committed = EmptyDocument /\ DOMAIN v.buffer = {} /\ ~v.bootstrapAccepted
        /\ v.online /\ v.bufferedBootstrap = NoBootstrap
    BY <1>1, <1>5, <1>6 DEF Rests
  <2> QED
    BY <1>1, <2>1, <2>2 DEF Awaits
<1>7. CASE h.type = "welcome"
  <2>1. t = HandleWelcome(s, h)
    BY <1>7 DEF HandleServerMessage
  <2>2. t.welcomeSeen /\ Rests(s, t)
    BY <1>1, <1>2, <1>7, <2>1, HandleWelcomeSound
  <2> QED
    BY <1>6, <1>7, <2>2
<1>8. CASE h.type = "bootstrap"
  <2>1. t = HandleBootstrap(s, h) /\ BootstrapSound(h, log, d)
    BY <1>8 DEF HandleServerMessage, MessageSound
  <2>2. OnInitial(t, log)
    BY <1>1, <1>2, <1>3, <1>8, <2>1, HandleBootstrapSound
  <2> QED
    BY <1>5, <2>2 DEF OnInitial
<1>9. CASE h.type = "operationAck" \/ h.type = "operationRejected"
  <2>1. t = HandleAck(s, h) \/ t = HandleRejected(s, h)
    BY <1>9 DEF HandleServerMessage
  <2>2. Benign(s, t)
    BY <1>4, <2>1, HandleAckBenign, HandleRejectedBenign
  <2>3. Rests(s, t) /\ t.welcomeSeen = s.welcomeSeen
    BY <2>2 DEF Benign, Same, Rests
  <2> QED
    BY <1>6, <1>9, <2>3
<1> QED
  BY <1>2, <1>7, <1>8, <1>9 DEF MessageSound, Messages

-----------------------------------------------------------------------------
(* A client whose session a step leaves alone.                              *)
LEMMA InOrderStays ==
  ASSUME CollabInv, NEW c \in Client, InOrder(c), session'[c] = session[c],
         Agree(server.operationLog, server'.operationLog, durable),
         c \in joined' <=> c \in joined,
         FirstContact(c) /\ c \notin joined => up'[c] = up[c] /\ down'[c] = down[c],
         FirstContact(c) => session[c].online \/ up'[c] = up[c],
         BootstrapComes(session[c], down[c]) => BootstrapComes(session[c], down'[c]),
         FirstContact(c) /\ c \notin joined => \A w \in ToSet(waiting') : w.to # c
  PROVE  InOrder(c)'
<1> DEFINE s == session[c]
           log == server.operationLog
           next == server'.operationLog
<1>1. CASE OnInitial(s, log)
  <2>1. s.committed.revision \in 0..durable
    BY SoundSession DEF SessionSound, CommittedSound
  <2>2. BuiltOn(InitialDocument, s.committed, next)
    BY <1>1, <2>1, BuiltOnKept DEF OnInitial
  <2>3. session'[c].committed = s.committed
    OBVIOUS
  <2> HIDE DEF s
  <2>4. BuiltOn(InitialDocument, session'[c].committed, next)
    BY <2>2, <2>3
  <2> HIDE DEF next
  <2>5. OnInitial(session'[c], next)
    BY <2>4 DEF OnInitial
  <2> QED
    BY <2>5 DEF InOrder, next
<1>2. CASE FirstContact(c)
  <2> DEFINE t == session'[c]
             f == up'[c]
             m == down'[c]
             in == c \in joined'
  <2>1. Awaits(s, up[c], down[c], c \in joined)
    BY <1>2 DEF FirstContact
  <2>2. t = s /\ (in <=> c \in joined)
    OBVIOUS
  <2>3. c \notin joined => f = up[c] /\ m = down[c]
    BY <1>2
  <2>4. s.online \/ f = up[c]
    BY <1>2
  <2>5. BootstrapComes(s, down[c]) => BootstrapComes(s, m)
    OBVIOUS
  <2>6. c \notin joined => \A w \in ToSet(waiting') : w.to # c
    BY <1>2
  <2> HIDE DEF s, t, f, m, in
  <2>7. Awaits(t, f, m, in)
    BY <2>1, <2>2, <2>3, <2>4, <2>5 DEF Awaits
  <2>8. FirstContact(c)'
    BY <2>2, <2>6, <2>7 DEF FirstContact, t, f, m, in
  <2> QED
    BY <2>8 DEF InOrder
<1> QED
  BY <1>1, <1>2 DEF InOrder

(* A client that is not there when its connection changes.                  *)
LEMMA InOrderBystander ==
  ASSUME CollabInv, NEW c \in Client, InOrder(c),
         session'[c] = session[c], up'[c] = up[c], down'[c] = down[c],
         c \in joined' <=> c \in joined,
         server' = server,
         FirstContact(c) /\ c \notin joined => \A w \in ToSet(waiting') : w.to # c
  PROVE  InOrder(c)'
<1>1. Agree(server.operationLog, server'.operationLog, durable)
  BY SoundServer
<1>2. session[c].online \/ up'[c] = up[c]
  OBVIOUS
<1>3. BootstrapComes(session[c], down[c]) => BootstrapComes(session[c], down'[c])
  OBVIOUS
<1>4. FirstContact(c) /\ c \notin joined => up'[c] = up[c] /\ down'[c] = down[c]
  OBVIOUS
<1> QED
  BY <1>1, <1>2, <1>3, <1>4, InOrderStays

(* A handler of one client.                                                 *)
LEMMA BecomesInOrder ==
  ASSUME CollabInv, \A b \in Client : InOrder(b), NEW c \in Client, NEW s, Becomes(c, s),
         UNCHANGED <<joined, server, waiting>>,
         \A b \in Client \ {c} : down'[b] = down[b],
         NEW v, v = [s EXCEPT !.out = <<>>],
         OnInitial(session[c], server.operationLog) => OnInitial(v, server.operationLog),
         FirstContact(c) =>
           OnInitial(v, server.operationLog) \/ Awaits(v, up[c] \o s.out, down'[c], c \in joined)
  PROVE  \A b \in Client : InOrder(b)'
<1> SUFFICES ASSUME NEW b \in Client PROVE InOrder(b)'
  OBVIOUS
<1> DEFINE f == up[c] \o s.out
<1>1. session' = [session EXCEPT ![c] = v] /\ up' = [up EXCEPT ![c] = f]
  BY DEF Becomes
<1>2. session = [x \in Client |-> session[x]] /\ up = [x \in Client |-> up[x]]
  BY DEF CollabInv
<1> HIDE DEF f
<1>3. /\ session'[c] = v /\ up'[c] = f
      /\ \A x \in Client \ {c} : session'[x] = session[x] /\ up'[x] = up[x]
  BY <1>1, <1>2
<1>4. CASE b # c
  <2>1. session'[b] = session[b] /\ up'[b] = up[b] /\ down'[b] = down[b]
    BY <1>3, <1>4
  <2>2. FirstContact(b) /\ b \notin joined => \A w \in ToSet(waiting') : w.to # b
    BY DEF FirstContact
  <2>3. InOrder(b) /\ server' = server /\ joined' = joined
    OBVIOUS
  <2> QED
    BY <2>1, <2>2, <2>3, InOrderBystander
<1>5. CASE b = c
  <2>1. session'[b] = v /\ up'[b] = f
    BY <1>3, <1>5
  <2>2. server' = server /\ joined' = joined /\ waiting' = waiting
    OBVIOUS
  <2>3. CASE OnInitial(v, server.operationLog)
    BY <2>1, <2>2, <2>3 DEF InOrder
  <2>4. CASE ~OnInitial(v, server.operationLog)
    <3>1. FirstContact(c) /\ Awaits(v, f, down'[c], c \in joined)
      BY <2>4 DEF InOrder, f
    <3>2. c \notin joined => \A w \in ToSet(waiting') : w.to # c
      BY <2>2, <3>1 DEF FirstContact
    <3>3. FirstContact(c)'
      BY <1>3, <2>2, <3>1, <3>2 DEF FirstContact
    <3> QED
      BY <1>5, <3>3 DEF InOrder
  <2> QED
    BY <2>3, <2>4
<1> QED
  BY <1>4, <1>5

(* A benign handler leaves every document where it comes from.              *)
LEMMA BenignInOrder ==
  ASSUME CollabInv, \A b \in Client : InOrder(b), NEW c \in Client, NEW s, Benign(session[c], s),
         ~session[c].online => s.out = <<>>,
         Becomes(c, s), UNCHANGED <<down, joined, server, waiting>>
  PROVE  \A b \in Client : InOrder(b)'
<1> DEFINE v == [s EXCEPT !.out = <<>>]
           log == server.operationLog
<1>1. v.committed = session[c].committed
  BY DEF Benign, Same, Shaped, SessionFields
<1>2. OnInitial(session[c], log) => OnInitial(v, log)
  BY <1>1 DEF OnInitial
<1>3. FramesSound(up[c]) /\ down'[c] = down[c] /\ \A b \in Client : down'[b] = down[b]
  BY SoundLists
<1>4. FirstContact(c) => Awaits(v, up[c] \o s.out, down[c], c \in joined)
  BY <1>3, AwaitsBenign DEF FirstContact
<1>5. UNCHANGED <<joined, server, waiting>>
  OBVIOUS
<1>6. v = [s EXCEPT !.out = <<>>]
  OBVIOUS
<1> HIDE DEF v
<1> QED
  BY <1>2, <1>3, <1>4, <1>5, <1>6, BecomesInOrder

(* So does an edit.                                                         *)
LEMMA EditLocallyInOrder ==
  ASSUME CollabInv, \A b \in Client : InOrder(b), NEW op \in OpId, EditLocally(op)
  PROVE  \A b \in Client : InOrder(b)'
<1> DEFINE c == Author[op]
           s == session[c]
           operation == OperationOf(s, Edit[op])
           t == SubmitLocalOperation(s, op, operation)
<1>1. c \in Client
  BY AuthorAssumption
<1>2. /\ Editable(s, Edit[op]) /\ Becomes(c, t)
      /\ UNCHANGED <<down, joined, server, waiting>>
  BY DEF EditLocally, serverVars
<1>3. IsOperation(operation)
  BY <1>2, OperationOfSound
<1>4. Shaped(s) /\ s.out = <<>>
  BY <1>1, SoundSession DEF CollabInv, ClientSound
<1> HIDE DEF operation
<1>5. Benign(s, t) /\ (~s.online => t.out = s.out)
  BY <1>3, <1>4, SubmitLocalOperationBenign
<1> HIDE DEF c, t
<1> QED
  BY <1>1, <1>2, <1>4, <1>5, BenignInOrder

(* So does the resend timer.                                                *)
LEMMA ResendInOrder ==
  ASSUME CollabInv, \A b \in Client : InOrder(b), NEW c \in Client, Resend(c)
  PROVE  \A b \in Client : InOrder(b)'
<1>1. /\ Becomes(c, ResendTimer(session[c])) /\ UNCHANGED <<down, joined, server, waiting>>
      /\ session[c].online
  BY DEF Resend, serverVars, Quiet
<1>2. Benign(session[c], ResendTimer(session[c]))
  BY SoundSession, ResendAllPendingBenign DEF ResendTimer
<1> QED
  BY <1>1, <1>2, BenignInOrder

(* So does the catch-up poll.                                               *)
LEMMA PollInOrder ==
  ASSUME CollabInv, \A b \in Client : InOrder(b), NEW c \in Client, Poll(c)
  PROVE  \A b \in Client : InOrder(b)'
<1>1. /\ Becomes(c, CatchupPoll(session[c])) /\ UNCHANGED <<down, joined, server, waiting>>
      /\ session[c].online
  BY DEF Poll, serverVars, Quiet
<1>2. Benign(session[c], CatchupPoll(session[c]))
  BY SoundSession, CatchupPollBenign
<1> QED
  BY <1>1, <1>2, BenignInOrder

(* So does giving up.                                                       *)
LEMMA GiveUpInOrder ==
  ASSUME CollabInv, \A b \in Client : InOrder(b), NEW c \in Client, GiveUp(c)
  PROVE  \A b \in Client : InOrder(b)'
<1>1. /\ Becomes(c, OfflineTooLong(session[c]))
      /\ UNCHANGED <<down, joined, server, waiting>>
  BY DEF GiveUp, serverVars
<1>2. Benign(session[c], OfflineTooLong(session[c]))
      /\ OfflineTooLong(session[c]).out = session[c].out
  BY SoundSession, OfflineTooLongBenign
<1>3. session[c].out = <<>>
  BY DEF CollabInv, ClientSound
<1> QED
  BY <1>1, <1>2, <1>3, BenignInOrder

(* A new connection starts with its join.                                   *)
LEMMA ConnectInOrder ==
  ASSUME CollabInv, \A b \in Client : InOrder(b), NEW c \in Client, Connect(c)
  PROVE  \A b \in Client : InOrder(b)'
<1> DEFINE s == session[c]
           t == HandleConnected(s)
           v == [t EXCEPT !.out = <<>>]
           log == server.operationLog
<1>1. Becomes(c, t) /\ UNCHANGED <<down, joined, server, waiting>> /\ ~s.online
  BY DEF Connect, serverVars
<1>2. SessionSound(s, log, durable) /\ s.out = <<>>
  BY SoundSession DEF CollabInv, ClientSound
<1>3. t.committed = s.committed /\ Shaped(t)
  BY <1>2, HandleConnectedSound DEF SessionSound
<1>4. t = HandleConnected(s) /\ v = [t EXCEPT !.out = <<>>]
  OBVIOUS
<1>5. FirstContact(c) => Awaits(v, up[c] \o t.out, down[c], c \in joined)
  <2> SUFFICES ASSUME FirstContact(c) PROVE Awaits(v, up[c] \o t.out, down[c], c \in joined)
    OBVIOUS
  <2> DEFINE in == c \in joined
             q == up[c]
             m == down[c]
  <2>1. Awaits(s, q, m, in)
    BY DEF FirstContact
  <2> HIDE DEF s, t, v, in, q, m, log
  <2>2. Awaits(v, q \o t.out, m, in)
    BY <1>1, <1>2, <1>4, <2>1, AwaitsConnected
  <2> QED
    BY <2>2 DEF in, q, m
<1> HIDE DEF t
<1>6. v.committed = s.committed
  BY <1>3 DEF Shaped, SessionFields
<1>7. OnInitial(s, log) => OnInitial(v, log)
  BY <1>6 DEF OnInitial
<1>8. down'[c] = down[c] /\ \A b \in Client \ {c} : down'[b] = down[b]
  BY <1>1
<1> HIDE DEF v
<1> QED
  BY <1>1, <1>4, <1>5, <1>7, <1>8, BecomesInOrder

(* The first document a client takes is that of its bootstrap.              *)
LEMMA ReceiveInOrder ==
  ASSUME CollabInv, \A b \in Client : InOrder(b), NEW c \in Client, Receive(c)
  PROVE  \A b \in Client : InOrder(b)'
<1> DEFINE log == server.operationLog
           s == session[c]
           m == down[c]
           h == Head(m)
           t == HandleServerMessage(s, h)
           v == [t EXCEPT !.out = <<>>]
           rest == Tail(m)
           in == c \in joined
<1>1. /\ m # <<>> /\ Becomes(c, t) /\ down' = [down EXCEPT ![c] = rest]
      /\ UNCHANGED <<joined, server, waiting>>
  BY DEF Receive, serverVars
<1>2. MessageSound(h, log, durable) /\ IsList(m) /\ in \in BOOLEAN
  <2>1. MessagesSound(m, log, durable)
    BY SoundLists
  <2> HIDE DEF m, log
  <2>2. MessageSound(h, log, durable)
    BY <1>1, <2>1, MessagesTail
  <2>3. IsList(m)
    BY <2>1 DEF MessagesSound
  <2>4. in \in BOOLEAN
    OBVIOUS
  <2> QED
    BY <2>2, <2>3, <2>4
<1>3. History(log, durable) /\ SessionSound(s, log, durable)
  BY SoundSession
<1>4. down = [b \in Client |-> down[b]]
  BY SoundLists
<1>5. t = HandleServerMessage(s, h) /\ v = [t EXCEPT !.out = <<>>] /\ h = Head(m)
      /\ rest = Tail(m)
  OBVIOUS
<1>6. FirstContact(c) => Awaits(s, up[c], m, in)
  BY DEF FirstContact
<1> HIDE DEF rest, m, h, t, v, in, s
<1>7. down'[c] = rest /\ \A b \in Client \ {c} : down'[b] = down[b]
  BY <1>1, <1>4
<1>8. Progresses(s, t, log, durable)
  BY <1>2, <1>3, <1>5, HandleServerMessageSound
<1>9. v.committed = t.committed
  BY <1>5, <1>8 DEF Progresses, SessionSound, Shaped, SessionFields
<1>10. OnInitial(s, log) => OnInitial(v, log)
  BY <1>8, <1>9 DEF Progresses, OnInitial
<1>11. FirstContact(c) => OnInitial(v, log) \/ Awaits(v, up[c] \o t.out, rest, in)
  <2> SUFFICES ASSUME Awaits(s, up[c], m, in)
               PROVE  OnInitial(v, log) \/ Awaits(v, up[c] \o t.out, rest, in)
    BY <1>6
  <2> DEFINE r == up[c] \o t.out
             d == durable
  <2>1. m # <<>>
    BY <1>1 DEF m
  <2>2. MessageSound(Head(m), log, d) /\ t = HandleServerMessage(s, Head(m))
    BY <1>2, <1>5
  <2> HIDE DEF r, log, d
  <2>3. OnInitial(v, log) \/ Awaits(v, r, Tail(m), in)
    BY <1>2, <1>3, <1>5, <2>1, <2>2, AwaitsReceives DEF d
  <2> QED
    BY <1>5, <2>3 DEF r
<1> QED
  BY <1>1, <1>5, <1>7, <1>10, <1>11, BecomesInOrder DEF s, in

-----------------------------------------------------------------------------
(* The steps of the server and of the network.                              *)

(* A broken connection takes what was under way with it.                    *)
LEMMA BreakInOrder ==
  ASSUME CollabInv, \A b \in Client : InOrder(b), NEW c \in Client, NEW n \in 0..Len(up[c]),
         Break(c, n)
  PROVE  \A b \in Client : InOrder(b)'
<1> SUFFICES ASSUME NEW b \in Client PROVE InOrder(b)'
  OBVIOUS
<1> DEFINE log == server.operationLog
           s == session[c]
           t == HandleDisconnected(s)
           none == <<>>
<1>1. /\ session' = [session EXCEPT ![c] = t]
      /\ up' = [up EXCEPT ![c] = none] /\ down' = [down EXCEPT ![c] = none]
      /\ joined' = joined \ {c} /\ Forget({c}) /\ server' = server
  BY DEF Break
<1>2. /\ session = [x \in Client |-> session[x]] /\ up = [x \in Client |-> up[x]]
      /\ down = [x \in Client |-> down[x]]
  BY DEF CollabInv
<1>3. SessionSound(s, log, durable)
  BY SoundSession
<1>4. t.committed = s.committed
  BY <1>3, HandleDisconnectedSound
<1>5. FirstContact(c) => Awaits(t, none, none, FALSE)
  BY <1>3, AwaitsDisconnected DEF FirstContact
<1>6. ASSUME NEW w \in ToSet(waiting'), w.to \in Client
      PROVE  w.to # c /\ \E v \in ToSet(waiting) : v.to = w.to
  <2>1. waiting' = [i \in DOMAIN waiting |->
                     IF waiting[i].to \in {c} THEN [waiting[i] EXCEPT !.to = None] ELSE waiting[i]]
    BY <1>1 DEF Forget
  <2>2. PICK i \in DOMAIN waiting :
          w = IF waiting[i].to \in {c} THEN [waiting[i] EXCEPT !.to = None] ELSE waiting[i]
    BY <2>1 DEF ToSet
  <2>3. waiting[i] \in ToSet(waiting)
    BY DEF ToSet
  <2>4. DOMAIN waiting[i] = {"to", "op", "rev"}
    BY <2>3, SoundLists DEF WaitingSound
  <2>5. CASE waiting[i].to = c
    <3>1. w = [waiting[i] EXCEPT !.to = None]
      BY <2>2, <2>5
    <3>2. w.to = None
      BY <2>4, <3>1
    <3> QED
      BY <1>6, <3>2, NoneAssumption
  <2>6. CASE waiting[i].to # c
    BY <2>2, <2>3, <2>6
  <2> QED
    BY <2>5, <2>6
<1> HIDE DEF t, none
<1>7. /\ session'[c] = t /\ up'[c] = none /\ down'[c] = none
      /\ \A x \in Client \ {c} : session'[x] = session[x] /\ up'[x] = up[x] /\ down'[x] = down[x]
  BY <1>1, <1>2
<1>8. CASE b = c
  <2>1. CASE OnInitial(s, log)
    <3>1. session'[b].committed = s.committed /\ server'.operationLog = log
      BY <1>1, <1>4, <1>7, <1>8
    <3> HIDE DEF s, log
    <3>2. OnInitial(session'[b], server'.operationLog)
      BY <2>1, <3>1 DEF OnInitial
    <3> QED
      BY <3>2 DEF InOrder
  <2>2. CASE FirstContact(c)
    <3>1. (c \in joined') = FALSE
      BY <1>1
    <3>2. \A w \in ToSet(waiting') : w.to # c
      BY <1>6
    <3> DEFINE in == c \in joined'
               x == session'[c]
               f == up'[c]
               m == down'[c]
    <3>3. Awaits(x, f, m, in)
      <4>1. in = FALSE /\ x = t /\ f = none /\ m = none
        BY <1>7, <3>1
      <4> HIDE DEF in, x, f, m
      <4> QED
        BY <1>5, <2>2, <4>1
    <3>4. FirstContact(c)'
      BY <3>2, <3>3 DEF FirstContact
    <3> QED
      BY <1>8, <3>4 DEF InOrder
  <2> QED
    BY <1>8, <2>1, <2>2 DEF InOrder
<1>9. CASE b # c
  <2>1. session'[b] = session[b] /\ up'[b] = up[b] /\ down'[b] = down[b]
    BY <1>7, <1>9
  <2>2. FirstContact(b) /\ b \notin joined => \A w \in ToSet(waiting') : w.to # b
    BY <1>6 DEF FirstContact
  <2>3. InOrder(b) /\ server' = server /\ (b \in joined' <=> b \in joined)
    BY <1>1, <1>9
  <2> QED
    BY <2>1, <2>2, <2>3, InOrderBystander
<1> QED
  BY <1>8, <1>9

(* A restart breaks all of them.                                            *)
LEMMA RestartInOrder ==
  ASSUME CollabInv, \A b \in Client : InOrder(b), NEW n \in durable..server.currentRevision,
         Restart(n)
  PROVE  \A b \in Client : InOrder(b)'
<1> SUFFICES ASSUME NEW b \in Client PROVE InOrder(b)'
  OBVIOUS
<1> DEFINE log == server.operationLog
           next == server'.operationLog
           s == session[b]
           t == HandleDisconnected(s)
           none == <<>>
<1>1. /\ session' = [c \in Client |-> HandleDisconnected(session[c])]
      /\ up' = [c \in Client |-> none] /\ down' = [c \in Client |-> none]
      /\ joined' = {} /\ waiting' = none
  BY DEF Restart
<1>2. SessionSound(s, log, durable)
  BY SoundSession
<1>3. t.committed = s.committed
  BY <1>2, HandleDisconnectedSound
<1>4. FirstContact(b) => Awaits(t, none, none, FALSE)
  BY <1>2, AwaitsDisconnected DEF FirstContact
<1>5. session'[b] = t /\ up'[b] = none /\ down'[b] = none /\ (b \in joined') = FALSE
  BY <1>1
<1>6. CASE OnInitial(s, log)
  <2>1. s.committed.revision \in 0..durable
    BY <1>2 DEF SessionSound, CommittedSound
  <2>2. Agree(log, next, durable)
    <3>1. n \in 0..Len(log) /\ next = SubSeq(log, 1, n)
      BY RestartKeeps
    <3>2. IsList(log) /\ durable \in 0..n
      BY <3>1, SoundServer
    <3> HIDE DEF log, next
    <3> QED
      BY <3>1, <3>2, AgreeCut
  <2> HIDE DEF t, s, log, next
  <2>3. BuiltOn(InitialDocument, s.committed, next)
    BY <1>6, <2>1, <2>2, BuiltOnKept DEF OnInitial
  <2>4. OnInitial(t, next)
    BY <1>3, <2>3 DEF OnInitial
  <2> QED
    BY <1>5, <2>4 DEF InOrder, next
<1>7. CASE FirstContact(b)
  <2>1. \A w \in ToSet(waiting') : w.to # b
    BY <1>1, EmptyList
  <2> DEFINE in == b \in joined'
             x == session'[b]
             f == up'[b]
             m == down'[b]
  <2>2. Awaits(x, f, m, in)
    <3>1. in = FALSE /\ x = t /\ f = none /\ m = none
      BY <1>5
    <3> HIDE DEF in, x, f, m, t, none
    <3> QED
      BY <1>4, <1>7, <3>1
  <2>3. FirstContact(b)'
    BY <2>1, <2>2 DEF FirstContact
  <2> QED
    BY <2>3 DEF InOrder
<1> QED
  BY <1>6, <1>7 DEF InOrder

(* An fsync sends nothing.                                                  *)
LEMMA SyncInOrder ==
  ASSUME CollabInv, \A b \in Client : InOrder(b), Sync
  PROVE  \A b \in Client : InOrder(b)'
<1> SUFFICES ASSUME NEW b \in Client PROVE InOrder(b)'
  OBVIOUS
<1>1. /\ session' = session /\ up' = up /\ down' = down /\ joined' = joined
      /\ server' = server /\ waiting' = waiting
  BY DEF Sync
<1>2. FirstContact(b) /\ b \notin joined => \A w \in ToSet(waiting') : w.to # b
  BY <1>1 DEF FirstContact
<1>3. /\ session'[b] = session[b] /\ up'[b] = up[b] /\ down'[b] = down[b]
      /\ (b \in joined' <=> b \in joined)
  BY <1>1
<1> QED
  BY <1>1, <1>2, <1>3, InOrderBystander

(* What is said behind a bootstrap stays behind it.                         *)
LEMMA BootstrapBehind ==
  ASSUME NEW s, NEW q, IsList(q), NEW r, IsList(r), BootstrapComes(s, q)
  PROVE  BootstrapComes(s, q \o r)
  BY BootstrapStillComes

(* Deliveries go to connections that have joined, behind their bootstrap.   *)
LEMMA DispatchInOrder ==
  ASSUME CollabInv, \A b \in Client : InOrder(b), Dispatch
  PROVE  \A b \in Client : InOrder(b)'
<1> SUFFICES ASSUME NEW b \in Client PROVE InOrder(b)'
  OBVIOUS
<1> DEFINE w == Head(waiting)
           none == <<>>
           echo == Operations(<<server.operationLog[w.rev]>>)
           acks == IF w.to = b THEN <<Ack(w.op, w.rev)>> ELSE none
           echoes == IF b \in joined THEN <<echo>> ELSE none
           q == down[b]
           m == down'[b]
           s == session[b]
<1>1. /\ waiting # none /\ waiting' = Tail(waiting)
      /\ m = q \o acks \o echoes
      /\ session' = session /\ up' = up /\ joined' = joined /\ server' = server
  BY DEF Dispatch
<1>2. IsList(q) /\ IsList(acks) /\ IsList(echoes)
  <2>1. IsList(q)
    BY SoundLists DEF MessagesSound
  <2>2. \A x : IsList(<<x>>)
    BY DEF IsList, ToSet
  <2>3. IsList(none)
    BY EmptyList
  <2> HIDE DEF q, none, echo, w
  <2>4. IsList(acks)
    BY <2>2, <2>3
  <2>5. IsList(echoes)
    BY <2>2, <2>3
  <2> QED
    BY <2>1, <2>4, <2>5
<1>3. w \in ToSet(waiting) /\ ToSet(waiting') \subseteq ToSet(waiting)
  <2>1. IsList(waiting)
    BY SoundLists DEF WaitingSound
  <2>2. waiting # <<>>
    BY <1>1
  <2>3. ToSet(Tail(waiting)) \subseteq ToSet(waiting) /\ Head(waiting) \in ToSet(waiting)
    BY <2>1, <2>2, ListTail
  <2> QED
    BY <1>1, <2>3
<1>4. FirstContact(b) /\ b \notin joined => m = q
  <2> SUFFICES ASSUME FirstContact(b), b \notin joined PROVE m = q
    OBVIOUS
  <2>1. w.to # b
    BY <1>3 DEF FirstContact
  <2>2. acks = none /\ echoes = none
    BY <2>1
  <2>3. q \o none = q
    BY <1>2 DEF IsList
  <2> HIDE DEF q, m, acks, echoes, none
  <2> QED
    BY <1>1, <2>2, <2>3
<1>5. FirstContact(b) /\ b \notin joined => \A v \in ToSet(waiting') : v.to # b
  BY <1>3 DEF FirstContact
<1>6. BootstrapComes(s, q) => BootstrapComes(s, m)
  <2> HIDE DEF q, m, acks, echoes, s
  <2>1. IsList(q \o acks)
    BY <1>2, ListConcat
  <2>2. BootstrapComes(s, q) => BootstrapComes(s, q \o acks)
    BY <1>2, BootstrapBehind
  <2>3. BootstrapComes(s, q \o acks) => BootstrapComes(s, q \o acks \o echoes)
    BY <1>2, <2>1, BootstrapBehind
  <2> QED
    BY <1>1, <2>2, <2>3
<1>7. /\ session'[b] = session[b] /\ up'[b] = up[b] /\ (b \in joined' <=> b \in joined)
      /\ Agree(server.operationLog, server'.operationLog, durable)
  BY <1>1, SoundServer
<1>8. InOrder(b)
  OBVIOUS
<1>9. /\ FirstContact(b) /\ b \notin joined => up'[b] = up[b] /\ down'[b] = down[b]
      /\ session[b].online \/ up'[b] = up[b]
      /\ BootstrapComes(session[b], down[b]) => BootstrapComes(session[b], down'[b])
  BY <1>4, <1>6, <1>7
<1> HIDE DEF w, acks, echoes, q, m, s
<1> QED
  BY <1>5, <1>7, <1>8, <1>9, InOrderStays

(* A submit is answered to a connection that has joined, or to nobody.      *)
LEMMA SubmittingInOrder ==
  ASSUME CollabInv, NEW b \in Client, InOrder(b),
         NEW e, EnvelopeSound(e), NEW to \in Client \cup {None}, Submitting(e, to),
         session' = session, joined' = joined,
         FirstContact(b) /\ b \notin joined => up'[b] = up[b] /\ b # to,
         FirstContact(b) => session[b].online \/ up'[b] = up[b]
  PROVE  InOrder(b)'
<1> DEFINE verdict == Verdict(server, e, e.op \notin Denied)
           answer == SubmitAnswer(e, verdict)
           w == [to |-> to, op |-> e.op, rev |-> server'.currentRevision]
           q == down[b]
           m == down'[b]
           s == session[b]
<1>1. /\ verdict = "accepted" => waiting' = Append(waiting, w) /\ down' = down
      /\ verdict # "accepted" =>
           /\ waiting' = waiting
           /\ down' = IF to = None THEN down ELSE [down EXCEPT ![to] = Append(down[to], answer)]
  BY DEF Submitting
<1>2. Agree(server.operationLog, server'.operationLog, durable)
  BY SubmittingSound
<1>3. w.to = to
  OBVIOUS
<1> HIDE DEF verdict, w
<1>4. \A v \in ToSet(waiting') : v \in ToSet(waiting) \/ v.to = to
  <2>1. CASE verdict = "accepted"
    <3>1. IsList(waiting)
      BY SoundLists DEF WaitingSound
    <3>2. ToSet(Append(waiting, w)) = ToSet(waiting) \cup {w}
      BY <3>1, ListAppend
    <3> QED
      BY <1>1, <1>3, <2>1, <3>2
  <2>2. CASE verdict # "accepted"
    BY <1>1, <2>2
  <2> QED
    BY <2>1, <2>2
<1> HIDE DEF answer
<1>5. m = q \/ (to = b /\ m = Append(q, answer))
  <2>1. down = [c \in Client |-> down[c]]
    BY SoundLists
  <2> DEFINE more == Append(down[to], answer)
  <2>2. CASE verdict = "accepted" \/ to = None
    BY <1>1, <2>2
  <2>3. CASE verdict # "accepted" /\ to # None
    <3>1. down' = [down EXCEPT ![to] = more]
      BY <1>1, <2>3
    <3> HIDE DEF more
    <3>2. m = IF b = to THEN more ELSE q
      BY <2>1, <3>1
    <3> QED
      BY <3>2 DEF more
  <2> QED
    BY <2>2, <2>3
<1>6. IsList(q)
  BY SoundLists DEF MessagesSound
<1> HIDE DEF s
<1>7. BootstrapComes(s, q) => BootstrapComes(s, m)
  <2> HIDE DEF q, m
  <2>1. Append(q, answer) = q \o <<answer>>
    <3> DEFINE S == ToSet(q) \cup {answer}
    <3>1. q \in Seq(S) /\ answer \in S
      BY <1>6 DEF IsList
    <3> HIDE DEF S
    <3> QED
      BY <3>1
  <2>2. IsList(<<answer>>)
    BY DEF IsList, ToSet
  <2>3. BootstrapComes(s, q) => BootstrapComes(s, Append(q, answer))
    BY <1>6, <2>1, <2>2, BootstrapBehind
  <2> QED
    BY <1>5, <2>3
<1>8. /\ session'[b] = session[b] /\ (b \in joined' <=> b \in joined)
      /\ FirstContact(b) /\ b \notin joined => up'[b] = up[b] /\ down'[b] = down[b]
      /\ BootstrapComes(session[b], down[b]) => BootstrapComes(session[b], down'[b])
  BY <1>5, <1>7 DEF s
<1>9. FirstContact(b) /\ b \notin joined => \A v \in ToSet(waiting') : v.to # b
  BY <1>4 DEF FirstContact
<1>10. FirstContact(b) => session[b].online \/ up'[b] = up[b]
  OBVIOUS
<1> HIDE DEF q, m
<1> QED
  BY <1>2, <1>8, <1>9, <1>10, InOrderStays

(* A frame of a broken connection is answered to nobody.                    *)
LEMMA LateArrivesInOrder ==
  ASSUME CollabInv, \A b \in Client : InOrder(b), NEW c \in Client, LateArrives(c)
  PROVE  \A b \in Client : InOrder(b)'
<1> SUFFICES ASSUME NEW b \in Client PROVE InOrder(b)'
  OBVIOUS
<1> DEFINE e == Head(late[c]).env
<1>1. /\ late[c] # <<>> /\ Submitting(e, None)
      /\ session' = session /\ up' = up /\ joined' = joined
  BY DEF LateArrives
<1>2. EnvelopeSound(e)
  <2>1. /\ FramesSound(late[c]) /\ \A f \in ToSet(late[c]) : f.type = "submitOperation"
    BY SoundLists
  <2>2. Head(late[c]) \in ToSet(late[c])
    BY <1>1, <2>1, ListTail DEF FramesSound
  <2> QED
    BY <2>1, <2>2 DEF FramesSound, FrameSound
<1>3. None \in Client \cup {None} /\ b # None /\ up'[b] = up[b] /\ InOrder(b)
  BY <1>1, NoneAssumption
<1> HIDE DEF e
<1> QED
  BY <1>1, <1>2, <1>3, SubmittingInOrder

(* The server reads the join first, and answers it with a bootstrap.        *)
LEMMA ServerReceivesInOrder ==
  ASSUME CollabInv, InitialDocument.rowOrder # <<>>, \A b \in Client : InOrder(b),
         NEW c \in Client, ServerReceives(c)
  PROVE  \A b \in Client : InOrder(b)'
<1> SUFFICES ASSUME NEW b \in Client PROVE InOrder(b)'
  OBVIOUS
<1> DEFINE m == Head(up[c])
           rest == Tail(up[c])
           answer == JoinAnswer(c, m)
           catchup == Operations(UpToFrontier(m.after))
           log == server.operationLog
           s == session[c]
           q == down[c]
           none == <<>>
<1>1. /\ up[c] # none /\ up' = [up EXCEPT ![c] = rest]
      /\ session' = session
      /\ \/ /\ m.type = "join"
            /\ joined' = joined \cup {c}
            /\ down' = [down EXCEPT ![c] = q \o answer]
            /\ server' = server /\ waiting' = waiting
         \/ m.type = "submitOperation" /\ Submitting(m.env, c) /\ joined' = joined
         \/ /\ m.type = "requestCatchup"
            /\ down' = [down EXCEPT ![c] = Append(q, catchup)]
            /\ joined' = joined /\ server' = server /\ waiting' = waiting
  BY DEF ServerReceives
<1>2. /\ up = [x \in Client |-> up[x]] /\ down = [x \in Client |-> down[x]]
      /\ FramesSound(up[c]) /\ IsList(q)
  BY SoundLists DEF MessagesSound
<1>3. FrameSound(m)
  <2>1. up[c] # <<>>
    BY <1>1
  <2>2. m \in ToSet(up[c])
    BY <1>2, <2>1, ListTail DEF FramesSound
  <2> QED
    BY <1>2, <2>2 DEF FramesSound
<1>4. FirstContact(c) => s.online
  BY <1>1 DEF FirstContact, Awaits
<1>5. FirstContact(c) /\ c \notin joined => q = none /\ JoinsFirst(up[c]) /\ m.type = "join"
  BY <1>4 DEF FirstContact, Awaits, JoinsFirst
<1>6. up'[c] = rest /\ \A x \in Client \ {c} : up'[x] = up[x]
  BY <1>1, <1>2
<1>7. FirstContact(b) => session[b].online \/ up'[b] = up[b]
  BY <1>4, <1>6
<1>8. InOrder(b) /\ session'[b] = session[b]
  BY <1>1
<1>9. Agree(log, log, durable) /\ ServerSound(server) /\ durable \in 0..Len(log)
  BY SoundServer
<1>10. CASE m.type = "submitOperation" /\ Submitting(m.env, c) /\ joined' = joined
  <2> DEFINE e == m.env
  <2>1. EnvelopeSound(e) /\ Submitting(e, c)
    BY <1>3, <1>10 DEF FrameSound
  <2>2. FirstContact(b) /\ b \notin joined => up'[b] = up[b] /\ b # c
    BY <1>5, <1>6, <1>10
  <2>3. session' = session /\ joined' = joined /\ c \in Client \cup {None}
    BY <1>1, <1>10
  <2> HIDE DEF e, m
  <2> QED
    BY <1>7, <1>8, <2>1, <2>2, <2>3, SubmittingInOrder
<1>11. ASSUME NEW r, IsList(r), down' = [down EXCEPT ![c] = q \o r],
              server' = server, waiting' = waiting,
              b \in joined' <=> b \in joined,
              FirstContact(b) /\ b \notin joined => b # c
       PROVE  InOrder(b)'
  <2> DEFINE u == q \o r
  <2>1. down'[c] = u /\ \A x \in Client \ {c} : down'[x] = down[x]
    BY <1>2, <1>11
  <2>2. BootstrapComes(s, q) => BootstrapComes(s, u)
    <3> HIDE DEF q, s
    <3> QED
      BY <1>2, <1>11, BootstrapBehind DEF q
  <2> HIDE DEF u
  <2>3. BootstrapComes(session[b], down[b]) => BootstrapComes(session[b], down'[b])
    BY <2>1, <2>2
  <2>4. FirstContact(b) /\ b \notin joined => up'[b] = up[b] /\ down'[b] = down[b]
    BY <1>6, <1>11, <2>1
  <2>5. FirstContact(b) /\ b \notin joined => \A v \in ToSet(waiting') : v.to # b
    BY <1>11 DEF FirstContact
  <2>6. Agree(server.operationLog, server'.operationLog, durable)
    BY <1>9, <1>11
  <2> QED
    BY <1>7, <1>8, <1>11, <2>3, <2>4, <2>5, <2>6, InOrderStays
<1>12. IsList(answer)
  BY <1>9, JoinAnswerSound DEF MessagesSound
<1>13. CASE m.type = "requestCatchup" /\ down' = [down EXCEPT ![c] = Append(q, catchup)]
            /\ joined' = joined /\ server' = server /\ waiting' = waiting
  <2>1. Append(q, catchup) = q \o <<catchup>>
    <3> DEFINE S == ToSet(q) \cup {catchup}
    <3> HIDE DEF catchup, q
    <3>1. q \in Seq(S) /\ catchup \in S
      BY <1>2 DEF IsList, q
    <3> HIDE DEF S
    <3> QED
      BY <3>1
  <2>2. IsList(<<catchup>>)
    BY DEF IsList, ToSet
  <2>3. FirstContact(b) /\ b \notin joined => b # c
    BY <1>5, <1>13
  <2> HIDE DEF catchup, q
  <2> QED
    BY <1>11, <1>13, <2>1, <2>2, <2>3
<1>14. CASE m.type = "join" /\ joined' = joined \cup {c} /\ down' = [down EXCEPT ![c] = q \o answer]
            /\ server' = server /\ waiting' = waiting
  <2>1. CASE b # c \/ c \in joined
    <3>1. (b \in joined' <=> b \in joined) /\ (FirstContact(b) /\ b \notin joined => b # c)
      BY <1>14, <2>1
    <3> HIDE DEF answer, q
    <3> QED
      BY <1>11, <1>12, <1>14, <3>1
  <2>2. CASE b = c /\ c \notin joined
    <3>1. CASE OnInitial(s, log)
      <4>1. session'[b] = s /\ server'.operationLog = log
        BY <1>8, <1>14, <2>2
      <4> QED
        BY <3>1, <4>1 DEF InOrder
    <3>2. CASE FirstContact(c)
      <4>1. s.online /\ q = none /\ JoinsFirst(up[c])
        BY <1>4, <1>5, <2>2, <3>2
      <4>2. /\ s.committed = EmptyDocument /\ DOMAIN s.buffer = {} /\ ~s.bootstrapAccepted
            /\ s.bufferedBootstrap = NoBootstrap
        BY <3>2, <4>1 DEF FirstContact, Awaits
      <4> DEFINE f == up[c]
                 u == q \o answer
      <4>3. Awaits(s, rest, u, TRUE)
        <5>1. rest = Tail(f) /\ answer = JoinAnswer(c, Head(f)) /\ JoinsFirst(f)
          BY <4>1
        <5> HIDE DEF rest, answer, f, q, s, m
        <5>2. Awaits(s, Tail(f), q \o JoinAnswer(c, Head(f)), TRUE)
          BY <1>2, <1>9, <4>1, <4>2, <5>1, AwaitsAnswered DEF log, q
        <5> QED
          BY <5>1, <5>2
      <4>4. session'[b] = s /\ up'[b] = rest /\ down'[b] = u /\ (b \in joined') = TRUE
        BY <1>2, <1>6, <1>8, <1>14, <2>2
      <4> DEFINE in == b \in joined'
                 x == session'[b]
                 g == up'[b]
                 d == down'[b]
      <4>5. Awaits(x, g, d, in)
        <5>1. in = TRUE /\ x = s /\ g = rest /\ d = u
          BY <4>4
        <5> HIDE DEF in, x, g, d, s, rest, u
        <5> QED
          BY <4>3, <5>1
      <4>6. FirstContact(b)'
        BY <4>4, <4>5 DEF FirstContact
      <4> QED
        BY <4>6 DEF InOrder
    <3> QED
      BY <1>8, <2>2, <3>1, <3>2 DEF InOrder
  <2> QED
    BY <2>1, <2>2
<1> HIDE DEF m, rest, answer, catchup, log, s, q, none
<1> QED
  BY <1>1, <1>10, <1>13, <1>14

(* A function of nothing is the empty list.                                 *)
LEMMA EmptyFunction ==
  ASSUME NEW f, f = [x \in {} |-> f[x]]
  PROVE  f = <<>>
<1>1. f \in [1..0 -> {}]
  <2>1. f \in [{} -> {}]
    OBVIOUS
  <2> QED
    BY <2>1
<1>2. f \in Seq({}) /\ Len(f) = 0
  BY <1>1
<1> QED
  BY <1>2

(* A document without rows is the empty one.                                *)
LEMMA NoRowsNoDocument ==
  ASSUME InitialDocument.rowOrder = <<>>
  PROVE  InitialDocument = EmptyDocument
<1> DEFINE doc == InitialDocument
           fields == {"revision", "rowOrder", "row", "cell", "maxSlot"}
           none == <<>>
<1>1. /\ DOMAIN doc = fields /\ doc = [f \in fields |-> doc[f]] /\ doc.revision = 0
      /\ DOMAIN doc.row = ToSet(doc.rowOrder)
      /\ doc.row = [r \in DOMAIN doc.row |-> doc.row[r]]
      /\ doc.maxSlot \in {-1} \cup {doc.row[r].slot : r \in DOMAIN doc.row}
      /\ doc.cell = [k \in DOMAIN doc.cell |-> doc.cell[k]]
      /\ \A k \in DOMAIN doc.cell : \E r \in DOMAIN doc.row : TRUE
  <2>1. IsDocument(doc) /\ doc.revision = 0
    BY InitialAssumption DEF WellFormed
  <2>2. OrderSound(doc) /\ SlotsSound(doc) /\ CellsSound(doc)
    BY InitialAssumption DEF WellFormed
  <2> QED
    BY <2>1, <2>2 DEF IsDocument, OrderSound, SlotsSound, CellsSound
<1>2. DOMAIN doc.row = {}
  BY <1>1, EmptyList
<1>3. DOMAIN doc.cell = {} /\ doc.maxSlot = -1
  BY <1>1, <1>2
<1>4. doc.row = none
  <2> DEFINE f == doc.row
  <2>1. f = [r \in {} |-> f[r]]
    BY <1>1, <1>2
  <2> HIDE DEF f
  <2> QED
    BY <2>1, EmptyFunction DEF f
<1>5. doc.cell = none
  <2> DEFINE f == doc.cell
  <2>1. f = [r \in {} |-> f[r]]
    BY <1>1, <1>3
  <2> HIDE DEF f
  <2> QED
    BY <2>1, EmptyFunction DEF f
<1>6. doc.rowOrder = none
  OBVIOUS
<1> HIDE DEF none
<1>7. /\ EmptyDocument.revision = 0 /\ EmptyDocument.rowOrder = none /\ EmptyDocument.row = none
      /\ EmptyDocument.cell = none /\ EmptyDocument.maxSlot = -1
      /\ DOMAIN EmptyDocument = fields /\ EmptyDocument = [f \in fields |-> EmptyDocument[f]]
  BY Zenon DEF EmptyDocument, none
<1>8. \A f \in fields : doc[f] = EmptyDocument[f]
  BY <1>1, <1>3, <1>4, <1>5, <1>6, <1>7
<1> HIDE DEF fields
<1> QED
  BY <1>1, <1>7, <1>8

-----------------------------------------------------------------------------
(* No session has a document at the start.                                  *)
LEMMA InOrderStart == Init => InOrderInv
<1> SUFFICES ASSUME Init PROVE InOrderInv
  OBVIOUS
<1> DEFINE none == <<>>
           log == server.operationLog
<1>1. /\ session = [c \in Client |-> NewSession(c)] /\ up = [c \in Client |-> none]
      /\ down = [c \in Client |-> none] /\ joined = {} /\ waiting = none
      /\ spent = [breaks |-> 0, restarts |-> 0, faults |-> 0, unkept |-> {}]
  BY DEF Init
<1>2. DOMAIN spent = {"breaks", "restarts", "faults", "unkept"} /\ spent.faults \in Nat
  BY <1>1
<1>3. ASSUME NEW c \in Client PROVE FirstContact(c)
  <2> DEFINE s == NewSession(c)
             in == c \in joined
  <2>1. /\ s.committed = EmptyDocument /\ DOMAIN s.buffer = {} /\ s.online = FALSE
        /\ s.bootstrapAccepted = FALSE
    BY EmptyList, NewSessionSound
  <2>2. session[c] = s /\ up[c] = none /\ down[c] = none /\ in = FALSE
    BY <1>1
  <2>3. \A w \in ToSet(waiting) : w.to # c
    BY <1>1, EmptyList
  <2> HIDE DEF s, in
  <2>4. Awaits(session[c], up[c], down[c], in)
    BY <2>1, <2>2 DEF Awaits
  <2> QED
    BY <2>3, <2>4 DEF FirstContact, in
<1> QED
  BY <1>2, <1>3 DEF InOrderInv, InOrder

(* The faults of the in-process transport are counted.                      *)
LEMMA SpentKept ==
  ASSUME [Next]_vars, DOMAIN spent = {"breaks", "restarts", "faults", "unkept"}, spent.faults \in Nat
  PROVE  DOMAIN spent' = {"breaks", "restarts", "faults", "unkept"} /\ spent'.faults \in Nat
<1> DEFINE Kept == DOMAIN spent' = DOMAIN spent /\ spent'.faults \in {spent.faults, spent.faults + 1}
<1>1. CASE spent' = spent
  BY <1>1
<1>2. ASSUME NEW op \in OpId, EditLocally(op) PROVE spent' = spent
  BY <1>2 DEF EditLocally
<1>3. ASSUME NEW c \in Client,
             Resend(c) \/ Poll(c) \/ GiveUp(c) \/ Connect(c) \/ Receive(c) \/ ServerReceives(c)
             \/ LateArrives(c)
      PROVE  spent' = spent
  BY <1>3 DEF Resend, Poll, GiveUp, Connect, Receive, ServerReceives, LateArrives
<1>4. ASSUME NEW c \in Client, NEW n \in 0..Len(up[c]), Break(c, n)
      PROVE  Kept
  <2>1. spent' = [spent EXCEPT !.breaks = @ + 1]
    BY <1>4 DEF Break
  <2> QED
    BY <2>1
<1>5. ASSUME NEW c \in Client, NEW i \in DOMAIN down[c],
             Lose(c, i) \/ Duplicate(c, i) \/ Overtake(c, i)
      PROVE  Kept
  <2>1. spent' = [spent EXCEPT !.faults = @ + 1]
    BY <1>5 DEF Lose, Duplicate, Overtake, Fault
  <2> QED
    BY <2>1
<1>6. Sync \/ Dispatch => spent' = spent
  BY DEF Sync, Dispatch
<1>7. ASSUME NEW n \in durable..server.currentRevision, Restart(n)
      PROVE  Kept
  <2> DEFINE lost == spent.unkept \cup AckedBehind(n)
  <2>1. spent' = [spent EXCEPT !.restarts = @ + 1, !.unkept = lost]
    BY <1>7 DEF Restart
  <2> HIDE DEF lost
  <2> QED
    BY <2>1
<1>8. UNCHANGED vars => spent' = spent
  BY DEF vars
<1>9. Kept
  BY <1>1, <1>2, <1>3, <1>4, <1>5, <1>6, <1>7, <1>8 DEF Next
<1> QED
  BY <1>9

(* Every step but a fault leaves every document where it comes from.        *)
LEMMA InOrderStep ==
  ASSUME InitialDocument.rowOrder # <<>>, MaxFaults = 0, CollabInv, InOrderInv, [Next]_vars
  PROVE  InOrderInv'
<1> DEFINE Ordered == \A b \in Client : InOrder(b)'
<1>1. \A b \in Client : InOrder(b)
  BY DEF InOrderInv
<1>2. ASSUME NEW op \in OpId, EditLocally(op) PROVE Ordered
  BY <1>1, <1>2, EditLocallyInOrder
<1>3. ASSUME NEW c \in Client, Resend(c) PROVE Ordered
  BY <1>1, <1>3, ResendInOrder
<1>4. ASSUME NEW c \in Client, Poll(c) PROVE Ordered
  BY <1>1, <1>4, PollInOrder
<1>5. ASSUME NEW c \in Client, GiveUp(c) PROVE Ordered
  BY <1>1, <1>5, GiveUpInOrder
<1>6. ASSUME NEW c \in Client, Connect(c) PROVE Ordered
  BY <1>1, <1>6, ConnectInOrder
<1>7. ASSUME NEW c \in Client, Receive(c) PROVE Ordered
  BY <1>1, <1>7, ReceiveInOrder
<1>8. ASSUME NEW c \in Client, ServerReceives(c) PROVE Ordered
  BY <1>1, <1>8, ServerReceivesInOrder
<1>9. ASSUME NEW c \in Client, LateArrives(c) PROVE Ordered
  BY <1>1, <1>9, LateArrivesInOrder
<1>10. ASSUME NEW c \in Client, NEW n \in 0..Len(up[c]), Break(c, n) PROVE Ordered
  BY <1>1, <1>10, BreakInOrder
<1>11. ASSUME NEW c \in Client, NEW i \in DOMAIN down[c],
              Lose(c, i) \/ Duplicate(c, i) \/ Overtake(c, i)
       PROVE  Ordered
  <2>1. spent.faults < MaxFaults /\ spent.faults \in Nat
    BY <1>11 DEF InOrderInv, Lose, Duplicate, Overtake, Fault
  <2> QED
    BY <2>1
<1>12. ASSUME Sync PROVE Ordered
  BY <1>1, <1>12, SyncInOrder
<1>13. ASSUME Dispatch PROVE Ordered
  BY <1>1, <1>13, DispatchInOrder
<1>14. ASSUME NEW n \in durable..server.currentRevision, Restart(n) PROVE Ordered
  BY <1>1, <1>14, RestartInOrder
<1>15. ASSUME UNCHANGED vars PROVE Ordered
  <2> SUFFICES ASSUME NEW b \in Client PROVE InOrder(b)'
    OBVIOUS
  <2>1. /\ session'[b] = session[b] /\ up'[b] = up[b] /\ down'[b] = down[b]
        /\ (b \in joined' <=> b \in joined) /\ server' = server /\ waiting' = waiting
    BY <1>15 DEF vars
  <2>2. FirstContact(b) /\ b \notin joined => \A w \in ToSet(waiting') : w.to # b
    BY <2>1 DEF FirstContact
  <2> QED
    BY <1>1, <2>1, <2>2, InOrderBystander
<1> HIDE DEF Ordered
<1>16. Ordered
  BY <1>2, <1>3, <1>4, <1>5, <1>6, <1>7, <1>8, <1>9, <1>10, <1>11, <1>12, <1>13, <1>14, <1>15
     DEF Next
<1>17. DOMAIN spent' = {"breaks", "restarts", "faults", "unkept"} /\ spent'.faults \in Nat
  BY SpentKept DEF InOrderInv
<1> QED
  BY <1>16, <1>17 DEF InOrderInv, Ordered

(* Every committed document comes from the initial one.                     *)
LEMMA PrefixFromOrder == CollabInv /\ InOrderInv => CommittedIsDurablePrefix
<1> SUFFICES ASSUME CollabInv, InOrderInv, NEW c \in Client
             PROVE  LET doc == session[c].committed
                    IN  /\ doc.revision <= durable
                        /\ doc = Replay(InitialDocument, SubSeq(server.operationLog, 1, doc.revision))
                           \/ doc = EmptyDocument
  BY DEF CommittedIsDurablePrefix
<1>1. session[c].committed.revision \in 0..durable
  BY SoundSession DEF SessionSound, CommittedSound
<1>2. session[c].committed.revision <= durable
  BY <1>1, SoundServer
<1> QED
  BY <1>2 DEF InOrderInv, InOrder, OnInitial, BuiltOn, FirstContact, Awaits

(* An empty initial document is what a new session holds anyway.            *)
LEMMA PrefixFromEmpty ==
  InitialDocument = EmptyDocument /\ CollabInv => CommittedIsDurablePrefix
<1> SUFFICES ASSUME InitialDocument = EmptyDocument, CollabInv, NEW c \in Client
             PROVE  LET doc == session[c].committed
                    IN  /\ doc.revision <= durable
                        /\ doc = Replay(InitialDocument, SubSeq(server.operationLog, 1, doc.revision))
                           \/ doc = EmptyDocument
  BY DEF CommittedIsDurablePrefix
<1>1. CommittedSound(session[c].committed, server.operationLog, durable)
  BY SoundSession DEF SessionSound
<1>2. session[c].committed.revision <= durable
  BY <1>1, SoundServer DEF CommittedSound
<1> QED
  BY <1>1, <1>2 DEF CommittedSound

(* A client's committed document is a durable prefix of the edits on the    *)
(* initial document, whatever breaks and restarts there are: on a transport *)
(* that delivers in order, and on any other one if that document is empty.  *)
THEOREM CommittedStaysDurable ==
  MaxFaults = 0 \/ InitialDocument = EmptyDocument => (Spec => []CommittedIsDurablePrefix)
<1>1. ASSUME InitialDocument = EmptyDocument PROVE Spec => []CommittedIsDurablePrefix
  <2>1. CollabInv => CommittedIsDurablePrefix
    BY <1>1, PrefixFromEmpty
  <2> QED
    BY <2>1, CollabInvariance, PTL
<1>2. ASSUME MaxFaults = 0, InitialDocument # EmptyDocument
      PROVE  Spec => []CommittedIsDurablePrefix
  <2>1. InitialDocument.rowOrder # <<>>
    BY <1>2, NoRowsNoDocument
  <2>2. CollabInv /\ InOrderInv /\ [Next]_vars => InOrderInv'
    BY <1>2, <2>1, InOrderStep
  <2> QED
    BY <2>2, InOrderStart, PrefixFromOrder, CollabInvariance, PTL DEF Spec
<1> QED
  BY <1>1, <1>2
=============================================================================
