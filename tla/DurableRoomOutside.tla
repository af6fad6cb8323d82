------------------------- MODULE DurableRoomOutside -------------------------
(***************************************************************************)
(* What the outside of the room sees, for every number of clients,         *)
(* operations, frames and crashes.  A connection misses no revision: the   *)
(* proof that GapInv is an invariant, first about queues of deliveries     *)
(* alone, then about the steps of the room.  All that is told is told of   *)
(* one ordered log: the refinement of OrderedLog.  And a restart is        *)
(* faithful: each revision has one document, whatever memory and disk hold *)
(* is of some revision, and so a restart from the newest snapshot and the  *)
(* tail of the log gives what a replay of the whole log gives.             *)
(***************************************************************************)
EXTENDS DurableRoomProofs

-----------------------------------------------------------------------------
(* Queues.                                                                  *)

(* A queue of n deliveries, accepted ones with their revisions.             *)
IsQueue(q, n) ==
  /\ n \in Nat /\ Len(q) = n /\ DOMAIN q = 1..n
  /\ \A i \in 1..n : AcceptedAt(q, i) => RevisionAt(q, i) \in Nat

(* A room that was poisoned stays so.                                       *)
StillPoisoned(p, p2) == p => p2

(* Deliveries that only change their state, none of them to be shown again, *)
(* leave no hole.                                                           *)
LEMMA NoHoleMoved ==
  ASSUME NEW q, NEW s, NEW m, IsQueue(q, m), IsQueue(s, m),
         NEW p, NEW p2, StillPoisoned(p, p2),
         NEW n \in Nat, NEW t \in Nat, NEW u \in Nat, t <= u, NoHole(q, p, n, t),
         \A i \in 1..m :
           /\ s[i].status = q[i].status /\ s[i].frontier = q[i].frontier
           /\ WillBeShown(s, p2, i) => WillBeShown(q, p, i)
  PROVE  NoHole(s, p2, n, u)
<1>1. \A i \in 1..m : (AcceptedAt(s, i) <=> AcceptedAt(q, i)) /\ RevisionAt(s, i) = RevisionAt(q, i)
  BY DEF AcceptedAt, RevisionAt
<1>2. ASSUME NEW i \in 1..m+1, NEW r \in Nat, Covered(q, r, i, t) PROVE Covered(s, r, i, u)
  <2>1. \A j \in 1..i-1 : j \in 1..m
    BY DEF IsQueue
  <2> QED
    BY <1>1, <1>2, <2>1 DEF Covered
<1>3. ASSUME NEW i \in 1..m, WillBeShown(s, p2, i) PROVE Covered(s, RevisionAt(s, i), i, u)
  <2>1. WillBeShown(q, p, i) /\ AcceptedAt(q, i)
    BY <1>3 DEF WillBeShown
  <2>2. Covered(q, RevisionAt(q, i), i, t) /\ RevisionAt(q, i) \in Nat
    BY <2>1 DEF NoHole, IsQueue
  <2>3. i \in 1..m+1
    BY DEF IsQueue
  <2> QED
    BY <1>1, <1>2, <2>2, <2>3
<1>4. ~p2 => Covered(s, n + 1, m + 1, u)
  <2>1. m + 1 \in 1..m+1 /\ n + 1 \in Nat
    BY DEF IsQueue
  <2> QED
    BY <1>2, <2>1 DEF NoHole, IsQueue, StillPoisoned
<1> QED
  BY <1>3, <1>4 DEF NoHole, IsQueue

(* One more delivery: a reply, or the submit that takes revision n + 1.     *)
LEMMA NoHoleAdded ==
  ASSUME NEW q, NEW s, NEW m, IsQueue(q, m), IsQueue(s, m + 1),
         NEW p, NEW n \in Nat, NEW n2 \in Nat, NEW t \in Nat, NoHole(q, p, n, t),
         \A i \in 1..m : s[i] = q[i],
         IF AcceptedAt(s, m + 1) THEN ~p /\ RevisionAt(s, m + 1) = n + 1 /\ n2 = n + 1
         ELSE n2 = n
  PROVE  NoHole(s, p, n2, t)
<1>1. m \in Nat
  BY DEF IsQueue
<1>2. \A i \in 1..m : /\ AcceptedAt(s, i) <=> AcceptedAt(q, i)
                      /\ RevisionAt(s, i) = RevisionAt(q, i)
                      /\ WillBeShown(s, p, i) <=> WillBeShown(q, p, i)
  BY DEF AcceptedAt, RevisionAt, WillBeShown
<1>3. ASSUME NEW i \in 1..m+1, NEW r \in Nat, Covered(q, r, i, t) PROVE Covered(s, r, i, t)
  BY <1>1, <1>2, <1>3 DEF Covered
<1>4. ASSUME NEW i \in 1..m, WillBeShown(s, p, i) PROVE Covered(s, RevisionAt(s, i), i, t)
  <2>1. WillBeShown(q, p, i) /\ AcceptedAt(q, i)
    BY <1>2, <1>4 DEF WillBeShown
  <2>2. Covered(q, RevisionAt(q, i), i, t) /\ RevisionAt(q, i) \in Nat
    BY <2>1 DEF NoHole, IsQueue
  <2>3. i \in 1..m+1
    BY <1>1
  <2> QED
    BY <1>2, <1>3, <2>2, <2>3
<1>5. ~p => Covered(s, n + 1, m + 1, t)
  <2>1. m + 1 \in 1..m+1 /\ n + 1 \in Nat
    BY <1>1
  <2> QED
    BY <1>3, <2>1 DEF NoHole, IsQueue
<1>6. WillBeShown(s, p, m + 1) => Covered(s, RevisionAt(s, m + 1), m + 1, t)
  BY <1>5 DEF WillBeShown
<1>7. ~p => Covered(s, n2 + 1, m + 2, t)
  <2>1. CASE AcceptedAt(s, m + 1)
    <3>1. RevisionAt(s, m + 1) = (n2 + 1) - 1 /\ m + 1 \in 1..(m + 2) - 1
      BY <1>1, <2>1
    <3> QED
      BY <2>1, <3>1 DEF Covered
  <2>2. CASE ~AcceptedAt(s, m + 1)
    <3>1. \A j \in 1..(m + 1) - 1 : j \in 1..(m + 2) - 1
      BY <1>1
    <3> QED
      BY <1>5, <2>2, <3>1 DEF Covered
  <2> QED
    BY <2>1, <2>2
<1>8. \A i \in 1..m+1 : i \in 1..m \/ i = m + 1
  BY <1>1
<1>9. (m + 1) + 1 = m + 2
  BY <1>1
<1> QED
  BY <1>4, <1>6, <1>7, <1>8, <1>9 DEF NoHole, IsQueue

(* One delivery less: an operation that was told, or one that failed when   *)
(* nothing behind it will be shown.                                         *)
LEMMA NoHoleRemoved ==
  ASSUME NEW q, NEW s, NEW m \in Nat, IsQueue(q, m + 1), IsQueue(s, m),
         NEW p, NEW n \in Nat, NEW t \in Nat, NEW u \in Nat, t <= u, NoHole(q, p, n, t),
         NEW d \in 1..m+1,
         \A i \in 1..m : s[i] = IF i < d THEN q[i] ELSE q[i + 1],
         AcceptedAt(q, d) =>
           \/ RevisionAt(q, d) <= u
           \/ p /\ \A i \in d+1..m+1 : ~WillBeShown(q, p, i)
  PROVE  NoHole(s, p, n, u)
<1> DEFINE old(i) == IF i < d THEN i ELSE i + 1
<1>1. \A i \in 1..m : /\ old(i) \in 1..m+1 /\ old(i) # d
                      /\ AcceptedAt(s, i) <=> AcceptedAt(q, old(i))
                      /\ RevisionAt(s, i) = RevisionAt(q, old(i))
                      /\ WillBeShown(s, p, i) <=> WillBeShown(q, p, old(i))
  BY DEF AcceptedAt, RevisionAt, WillBeShown
<1>2. ASSUME NEW i \in 1..m+1, NEW r \in Nat, Covered(q, r, old(i), t),
             p => i \in 1..m /\ WillBeShown(q, p, old(i))
      PROVE  Covered(s, r, i, u)
  <2>1. CASE r <= t + 1
    BY <2>1 DEF Covered
  <2>2. CASE \E j \in 1..old(i)-1 : AcceptedAt(q, j) /\ RevisionAt(q, j) = r - 1
    <3> PICK j \in 1..old(i)-1 : AcceptedAt(q, j) /\ RevisionAt(q, j) = r - 1
      BY <2>2
    <3>1. CASE j < d
      <4>1. j \in 1..m /\ old(j) = j /\ j \in 1..i-1
        BY <3>1
      <4> QED
        BY <1>1, <4>1 DEF Covered
    <3>2. CASE j > d
      <4>1. j - 1 \in 1..m /\ old(j - 1) = j /\ j - 1 \in 1..i-1
        BY <3>2
      <4> QED
        BY <1>1, <4>1 DEF Covered
    <3>3. CASE j = d
      <4>1. RevisionAt(q, d) <= u
        <5>1. ASSUME i \in 1..m, WillBeShown(q, p, old(i))
              PROVE  \E x \in d+1..m+1 : WillBeShown(q, p, x)
          <6>1. old(i) \in 1..m+1 /\ d \in 1..old(i)-1
            BY <1>1, <3>3, <5>1
          <6>2. old(i) \in d+1..m+1
            BY <6>1
          <6> QED
            BY <5>1, <6>2
        <5>2. p => \E x \in d+1..m+1 : WillBeShown(q, p, x)
          BY <1>2, <5>1
        <5> QED
          BY <3>3, <5>2
      <4> QED
        BY <3>3, <4>1 DEF Covered
    <3> QED
      BY <3>1, <3>2, <3>3
  <2> QED
    BY <1>2, <2>1, <2>2 DEF Covered
<1>3. ASSUME NEW i \in 1..m, WillBeShown(s, p, i) PROVE Covered(s, RevisionAt(s, i), i, u)
  <2>1. WillBeShown(q, p, old(i)) /\ AcceptedAt(q, old(i)) /\ old(i) \in 1..m+1
    BY <1>1, <1>3 DEF WillBeShown
  <2>2. Covered(q, RevisionAt(q, old(i)), old(i), t) /\ RevisionAt(q, old(i)) \in Nat
    BY <2>1 DEF NoHole, IsQueue
  <2>3. i \in 1..m+1
    OBVIOUS
  <2>4. Covered(s, RevisionAt(q, old(i)), i, u)
    BY <1>2, <2>1, <2>2, <2>3
  <2> QED
    BY <1>1, <2>4
<1>4. ~p => Covered(s, n + 1, m + 1, u)
  <2>1. m + 1 \in 1..m+1 /\ n + 1 \in Nat /\ old(m + 1) = (m + 1) + 1
    OBVIOUS
  <2> HIDE DEF old
  <2>2. ~p => Covered(q, n + 1, old(m + 1), t)
    BY <2>1 DEF NoHole, IsQueue
  <2> QED
    BY <1>2, <2>1, <2>2
<1> QED
  BY <1>3, <1>4 DEF NoHole, IsQueue
-----------------------------------------------------------------------------
(* The queue of the room.                                                   *)

QueueSound ==
  /\ IsQueue(deliveries, Len(deliveries))
  /\ \A i \in DOMAIN deliveries :
       /\ deliveries[i].state \in States
       /\ Pending(deliveries[i]) => AcceptedAt(deliveries, i)
       /\ AcceptedAt(deliveries, i) =>
            /\ RevisionAt(deliveries, i) \in 1..Len(sequencer.operationLog)
            /\ deliveries[i].state \in {"synced", "ready"}
                 => RevisionAt(deliveries, i) <= Len(file)

(* What the invariant says of the queue of deliveries.                      *)
LEMMA QueueFacts == IInv => QueueSound
<1> SUFFICES ASSUME IInv PROVE QueueSound
  OBVIOUS
<1>1. DeliveriesTyped
  BY TypeParts
<1>2. Len(deliveries) \in Nat /\ DOMAIN deliveries = 1..Len(deliveries)
  BY <1>1 DEF DeliveriesTyped
<1>3. ASSUME NEW i \in DOMAIN deliveries
      PROVE  DeliveryTyped(deliveries[i]) /\ DeliverySound(deliveries[i])
  <2>1. deliveries[i] \in ToSet(deliveries)
    BY DEF ToSet
  <2> QED
    BY <1>1, <2>1, TypeParts DEF DeliveriesTyped
<1>4. DOMAIN sequencer.operationLog = 1..Len(sequencer.operationLog)
      /\ Len(sequencer.operationLog) \in Nat
  BY LogFacts
<1>5. ASSUME NEW i \in DOMAIN deliveries
      PROVE  /\ deliveries[i].state \in States
             /\ Pending(deliveries[i]) => AcceptedAt(deliveries, i)
             /\ AcceptedAt(deliveries, i) =>
                  /\ RevisionAt(deliveries, i) \in 1..Len(sequencer.operationLog)
                  /\ deliveries[i].state \in {"synced", "ready"}
                       => RevisionAt(deliveries, i) <= Len(file)
  BY <1>3, <1>4 DEF DeliveryTyped, DeliverySound, AcceptedAt, RevisionAt
<1>6. IsQueue(deliveries, Len(deliveries))
  BY <1>2, <1>5 DEF IsQueue
<1> QED
  BY <1>5, <1>6 DEF QueueSound

(* And of the queue after a step.                                           *)
LEMMA QueueFactsNext == IInv' => QueueSound'
<1>1. (IInv => QueueSound)'
  BY QueueFacts, PTL
<1> QED
  BY <1>1

(* The step of deliveries that change their state only, and of what these   *)
(* are: new states, by place.                                               *)
MovedTo(states) ==
  /\ Len(deliveries') = Len(deliveries)
  /\ \A i \in DOMAIN deliveries :
       /\ deliveries'[i].status = deliveries[i].status
       /\ deliveries'[i].frontier = deliveries[i].frontier
       /\ deliveries'[i].state = states[i]

(* The end of a write moves the deliveries it was for.                      *)
LEMMA ResolvedQueue ==
  ASSUME IInv, IInv', NEW S, NEW t \in States, Resolve(S, t)
  PROVE  MovedTo([i \in DOMAIN deliveries |->
           IF deliveries[i].state = "appending" /\ RevisionAt(deliveries, i) \in S
           THEN t ELSE deliveries[i].state])
<1>1. /\ DOMAIN deliveries' = DOMAIN deliveries
      /\ IsQueue(deliveries, Len(deliveries)) /\ IsQueue(deliveries', Len(deliveries'))
  BY QueueFacts, QueueFactsNext DEF Resolve, QueueSound
<1>2. Len(deliveries') = Len(deliveries)
  BY <1>1 DEF IsQueue
<1>3. ASSUME NEW i \in DOMAIN deliveries
      PROVE  LET x == IF deliveries[i].state = "appending" /\ RevisionAt(deliveries, i) \in S
                      THEN t ELSE deliveries[i].state
             IN  Moved(deliveries'[i], deliveries[i], x)
  <2>1. DeliveryTyped(deliveries[i])
    BY TypeParts DEF DeliveriesTyped, ToSet
  <2>2. CASE deliveries[i].state = "appending" /\ RevisionAt(deliveries, i) \in S
    <3>1. deliveries'[i] = [deliveries[i] EXCEPT !.state = t]
      BY <2>2 DEF Resolve, RevisionAt
    <3> QED
      BY <2>1, <2>2, <3>1, MovedFacts
  <2>3. CASE ~(deliveries[i].state = "appending" /\ RevisionAt(deliveries, i) \in S)
    <3>1. deliveries'[i] = deliveries[i]
      BY <2>3 DEF Resolve, RevisionAt
    <3> QED
      BY <2>3, <3>1 DEF Moved
  <2> QED
    BY <2>2, <2>3
<1> QED
  BY <1>2, <1>3 DEF MovedTo, Moved

(* A continuation moves one delivery.                                       *)
LEMMA SettledQueue ==
  ASSUME IInv, IInv', NEW m \in DOMAIN deliveries, NEW t \in States, SetState(m, t)
  PROVE  MovedTo([i \in DOMAIN deliveries |-> IF i = m THEN t ELSE deliveries[i].state])
<1>1. /\ DOMAIN deliveries' = DOMAIN deliveries
      /\ IsQueue(deliveries, Len(deliveries)) /\ IsQueue(deliveries', Len(deliveries'))
  BY QueueFacts, QueueFactsNext DEF SetState, QueueSound
<1>2. Len(deliveries') = Len(deliveries)
  BY <1>1 DEF IsQueue
<1>3. DeliveryTyped(deliveries[m])
  BY TypeParts DEF DeliveriesTyped, ToSet
<1>4. deliveries'[m] = [deliveries[m] EXCEPT !.state = t]
      /\ \A i \in DOMAIN deliveries : i # m => deliveries'[i] = deliveries[i]
  BY DEF SetState
<1>5. Moved(deliveries'[m], deliveries[m], t)
  BY <1>3, <1>4, MovedFacts
<1>6. ASSUME NEW i \in DOMAIN deliveries
      PROVE  Moved(deliveries'[i], deliveries[i], IF i = m THEN t ELSE deliveries[i].state)
  BY <1>4, <1>5 DEF Moved
<1> QED
  BY <1>2, <1>6 DEF MovedTo, Moved

(* One delivery more, and one less.                                         *)
LEMMA AddedQueue ==
  ASSUME IInv, IInv', NEW d, deliveries' = Append(deliveries, d)
  PROVE  /\ Len(deliveries') = Len(deliveries) + 1
         /\ \A i \in 1..Len(deliveries) : deliveries'[i] = deliveries[i]
         /\ deliveries'[Len(deliveries) + 1] = d
<1>1. deliveries \in Seq(ToSet(deliveries) \cup {d})
  <2>1. deliveries \in Seq(ToSet(deliveries))
    BY TypeParts DEF DeliveriesTyped
  <2> QED
    BY <2>1
<1> QED
  BY <1>1, AppendProperties

(* A delivery that is dispatched leaves the queue; the others keep their    *)
(* order.                                                                   *)
LEMMA RemovedQueue ==
  ASSUME IInv, IInv', NEW m \in DOMAIN deliveries, deliveries' = RemoveAt(deliveries, m)
  PROVE  /\ Len(deliveries) = Len(deliveries') + 1
         /\ \A i \in 1..Len(deliveries') :
              deliveries'[i] = IF i < m THEN deliveries[i] ELSE deliveries[i + 1]
<1> DEFINE q == deliveries
           a == SubSeq(q, 1, m - 1)
           b == SubSeq(q, m + 1, Len(q))
<1>1. q \in Seq(ToSet(q)) /\ Len(q) \in Nat /\ m \in 1..Len(q)
  BY TypeParts DEF DeliveriesTyped
<1>2. /\ a \in Seq(ToSet(q)) /\ Len(a) = m - 1
      /\ \A i \in 1..m-1 : a[i] = q[i]
  BY <1>1, SubSeqProperties
<1>3. /\ b \in Seq(ToSet(q)) /\ Len(b) = Len(q) - m
      /\ \A i \in 1..Len(q)-m : b[i] = q[m + i]
  BY <1>1, SubSeqProperties
<1>4. deliveries' = a \o b
  BY DEF RemoveAt
<1> HIDE DEF a, b, q
<1>5. /\ Len(a \o b) = Len(q) - 1
      /\ \A i \in 1..Len(q)-1 : (a \o b)[i] = IF i <= m - 1 THEN a[i] ELSE b[i - (m - 1)]
  BY <1>1, <1>2, <1>3, ConcatProperties
<1>6. \A i \in 1..Len(q)-1 : (a \o b)[i] = IF i < m THEN q[i] ELSE q[i + 1]
  <2> TAKE i \in 1..Len(q)-1
  <2>1. CASE i < m
    BY <1>1, <1>2, <1>5, <2>1
  <2>2. CASE ~(i < m)
    <3>1. i - (m - 1) \in 1..Len(q)-m /\ m + (i - (m - 1)) = i + 1 /\ ~(i <= m - 1)
      BY <1>1, <2>2
    <3> QED
      BY <1>3, <1>5, <2>2, <3>1
  <2> QED
    BY <2>1, <2>2
<1> QED
  BY <1>1, <1>4, <1>5, <1>6 DEF q
-----------------------------------------------------------------------------
(* Steps.                                                                   *)

(* A step that leaves the queue and what it is measured against alone and   *)
(* gives a connection nothing but the frontier.                             *)
LEMMA GapFrame ==
  ASSUME IInv, GapInv, storeClosed => storeClosed',
         UNCHANGED <<deliveries, poisoned, sequencer, frontier, file, writing, queue, failed>>,
         \A k \in DOMAIN connections' :
           \/ k \in DOMAIN connections /\ connections'[k] = connections[k]
           \/ connections'[k] = frontier.revision
  PROVE  GapInv'
<1>1. DeliveriesInOrder'
  BY DEF GapInv, DeliveriesInOrder, AcceptedAt, RevisionAt
<1>2. frontier.revision \in Nat
  BY TypeParts
<1> QED
  BY <1>1, <1>2 DEF GapInv

(* The holes of the queue when deliveries move to other states.             *)
LEMMA QueueMoved ==
  ASSUME NEW m, NEW n \in Nat, NEW t \in Nat, NEW u \in Nat, t <= u,
         IsQueue(deliveries, m), IsQueue(deliveries', m), StillPoisoned(poisoned, poisoned'),
         \A i \in 1..m :
           /\ deliveries'[i].status = deliveries[i].status
           /\ deliveries'[i].frontier = deliveries[i].frontier
           /\ WillBeShown(deliveries', poisoned', i) => WillBeShown(deliveries, poisoned, i),
         NoHole(deliveries, poisoned, n, t)
  PROVE  NoHole(deliveries', poisoned', n, u)
  BY NoHoleMoved

(* A step that moves deliveries to other states.                            *)
LEMMA GapMoved ==
  ASSUME IInv, IInv', GapInv, DeliveriesInOrder', NEW states, MovedTo(states),
         StillPoisoned(poisoned, poisoned'), UNCHANGED <<sequencer, connections>>,
         frontier.revision <= frontier'.revision,
         \A i \in DOMAIN deliveries :
           WillBeShown(deliveries', poisoned', i) => WillBeShown(deliveries, poisoned, i)
  PROVE  GapInv'
<1> DEFINE m == Len(deliveries)
           n == Len(sequencer.operationLog)
<1>1. IsQueue(deliveries, m) /\ IsQueue(deliveries', m) /\ DOMAIN deliveries = 1..m
  BY QueueFacts, QueueFactsNext DEF QueueSound, MovedTo, IsQueue
<1>2. /\ frontier.revision \in Nat /\ frontier'.revision \in Nat /\ n \in Nat
  BY TypeParts, LogFacts DEF IInv, TypeOK
<1>3. ASSUME NEW t \in Nat, NEW u \in Nat, t <= u, NoHole(deliveries, poisoned, n, t)
      PROVE  NoHole(deliveries', poisoned', n, u)
  <2>1. \A i \in 1..m :
          /\ deliveries'[i].status = deliveries[i].status
          /\ deliveries'[i].frontier = deliveries[i].frontier
          /\ WillBeShown(deliveries', poisoned', i) => WillBeShown(deliveries, poisoned, i)
    BY <1>1 DEF MovedTo
  <2> HIDE DEF m, n
  <2> QED
    BY <1>1, <1>2, <1>3, <2>1, QueueMoved
<1>4. NoHole(deliveries', poisoned', n, frontier'.revision)
  BY <1>2, <1>3 DEF GapInv
<1>5. \A k \in DOMAIN connections :
        connections[k] \in Nat /\ NoHole(deliveries', poisoned', n, connections[k])
  <2>1. \A k \in DOMAIN connections :
          connections[k] \in Nat /\ NoHole(deliveries, poisoned, n, connections[k])
    BY DEF GapInv
  <2> HIDE DEF n
  <2> QED
    BY <1>3, <2>1
<1> QED
  BY <1>4, <1>5 DEF GapInv

(* A submit: a reply, an accepted operation at the end of the log, or a     *)
(* refusal by the poisoned room.                                            *)
LEMMA GapAdded ==
  ASSUME IInv, IInv', GapInv, DeliveriesInOrder', NEW d, deliveries' = Append(deliveries, d),
         UNCHANGED <<poisoned, connections, frontier>>,
         IF d.status = "accepted"
         THEN /\ ~poisoned
              /\ Len(sequencer'.operationLog) = Len(sequencer.operationLog) + 1
              /\ d.frontier.revision = Len(sequencer.operationLog) + 1
         ELSE Len(sequencer'.operationLog) = Len(sequencer.operationLog)
  PROVE  GapInv'
<1> DEFINE m == Len(deliveries)
           n == Len(sequencer.operationLog)
           n2 == Len(sequencer'.operationLog)
<1>1. /\ Len(deliveries') = m + 1
      /\ \A i \in 1..m : deliveries'[i] = deliveries[i]
      /\ deliveries'[m + 1] = d
  BY AddedQueue
<1>2. IsQueue(deliveries, m) /\ IsQueue(deliveries', m + 1)
  BY <1>1, QueueFacts, QueueFactsNext DEF QueueSound
<1>3. n \in Nat /\ n2 \in Nat
  BY LogFacts
<1>4. IF AcceptedAt(deliveries', m + 1)
      THEN ~poisoned /\ RevisionAt(deliveries', m + 1) = n + 1 /\ n2 = n + 1
      ELSE n2 = n
  BY <1>1 DEF AcceptedAt, RevisionAt
<1>5. ASSUME NEW t \in Nat, NoHole(deliveries, poisoned, n, t)
      PROVE  NoHole(deliveries', poisoned, n2, t)
  <2> HIDE DEF m, n, n2
  <2> QED
    BY <1>1, <1>2, <1>3, <1>4, <1>5, NoHoleAdded
<1>6. frontier.revision \in Nat /\ NoHole(deliveries, poisoned, n, frontier.revision)
      /\ \A k \in DOMAIN connections :
           connections[k] \in Nat /\ NoHole(deliveries, poisoned, n, connections[k])
  BY TypeParts DEF GapInv
<1>7. NoHole(deliveries', poisoned, n2, frontier.revision)
      /\ \A k \in DOMAIN connections :
           connections[k] \in Nat /\ NoHole(deliveries', poisoned, n2, connections[k])
  <2> HIDE DEF n, n2
  <2> QED
    BY <1>5, <1>6
<1> QED
  BY <1>7 DEF GapInv

(* The order of the queue after a submit.                                   *)
LEMMA OrderAdded ==
  ASSUME IInv, IInv', up, DeliveriesInOrder, NEW d, deliveries' = Append(deliveries, d),
         UNCHANGED <<poisoned, frontier, file, failed, storeClosed>>,
         d.status = "accepted" =>
           /\ d.frontier.revision = Len(sequencer.operationLog) + 1
           /\ d.state = IF storeClosed \/ failed THEN "broken" ELSE "appending",
         storeClosed \/ failed => UNCHANGED <<writing, queue>>
  PROVE  DeliveriesInOrder'
<1> DEFINE q == deliveries
           s == deliveries'
           m == Len(deliveries)
           log == sequencer.operationLog
<1>1. /\ Len(s) = m + 1 /\ s[m + 1] = d
      /\ \A i \in 1..m : s[i] = q[i]
  BY AddedQueue
<1>2. DOMAIN q = 1..m /\ DOMAIN s = 1..m+1 /\ m \in Nat
  BY <1>1, QueueFacts, QueueFactsNext DEF QueueSound, IsQueue
<1>3. \A i \in 1..m : AcceptedAt(q, i) => RevisionAt(q, i) \in 1..Len(log)
  BY <1>2, QueueFacts DEF QueueSound
<1>4. \A i \in 1..m : (AcceptedAt(s, i) <=> AcceptedAt(q, i)) /\ RevisionAt(s, i) = RevisionAt(q, i)
  BY <1>1 DEF AcceptedAt, RevisionAt
<1>5. AcceptedAt(s, m + 1) =>
        /\ RevisionAt(s, m + 1) = Len(log) + 1
        /\ s[m + 1].state = IF storeClosed \/ failed THEN "broken" ELSE "appending"
  BY <1>1 DEF AcceptedAt, RevisionAt
<1>6. /\ Len(log) \in Nat /\ DOMAIN log = 1..Len(log)
      /\ Len(file) \in Nat /\ Len(writing) \in Nat /\ Len(queue) \in Nat
      /\ Len(file) + Len(writing) + Len(queue) <= Len(log)
  <2>1. /\ Len(log) \in Nat /\ DOMAIN log = 1..Len(log)
        /\ Len(file) \in Nat /\ Len(writing) \in Nat /\ Len(queue) \in Nat
    BY LogFacts, BatchFacts
  <2>2. Len(file) > 0 => Len(file) \in DOMAIN log
    BY <2>1, BatchFacts
  <2>3. Len(writing) > 0 => Len(file) + Len(writing) \in DOMAIN log
    BY <2>1, BatchFacts
  <2>4. Len(queue) > 0 => Len(file) + Len(writing) + Len(queue) \in DOMAIN log
    BY <2>1, BatchFacts
  <2> QED
    BY <2>1, <2>2, <2>3, <2>4
<1>7. \A i, j \in DOMAIN s :
        i < j /\ AcceptedAt(s, i) /\ AcceptedAt(s, j) => RevisionAt(s, i) < RevisionAt(s, j)
  <2> TAKE i, j \in DOMAIN s
  <2> SUFFICES ASSUME i < j, AcceptedAt(s, i), AcceptedAt(s, j)
               PROVE  RevisionAt(s, i) < RevisionAt(s, j)
    OBVIOUS
  <2>1. i \in 1..m /\ (j \in 1..m \/ j = m + 1)
    BY <1>2
  <2>2. CASE j \in 1..m
    BY <1>2, <1>4, <2>1, <2>2 DEF DeliveriesInOrder
  <2>3. CASE j = m + 1
    BY <1>3, <1>4, <1>5, <1>6, <2>1, <2>3
  <2> QED
    BY <2>1, <2>2, <2>3
<1>8. ASSUME NEW i \in DOMAIN s, AcceptedAt(s, i)
      PROVE  /\ s[i].state \in {"appending", "broken"} => RevisionAt(s, i) > Len(file)
             /\ s[i].state = "broken" /\ ~failed =>
                  storeClosed /\ RevisionAt(s, i) > Len(file) + Len(writing') + Len(queue')
             /\ s[i].state = "failed" => poisoned
             /\ s[i].state = "ready" =>
                  /\ RevisionAt(s, i) <= frontier.revision
                  /\ \A j \in 1..i-1 : AcceptedAt(s, j) => s[j].state = "ready"
  <2>1. CASE i = m + 1
    BY <1>5, <1>6, <1>8, <2>1
  <2>2. CASE i \in 1..m
    <3>1. /\ AcceptedAt(q, i) /\ s[i] = q[i] /\ RevisionAt(s, i) = RevisionAt(q, i)
      BY <1>1, <1>4, <1>8, <2>2
    <3>2. \A j \in 1..i-1 : j \in 1..m
      BY <1>2, <2>2
    <3>3. s[i].state = "broken" /\ ~failed =>
            storeClosed /\ RevisionAt(s, i) > Len(file) + Len(writing') + Len(queue')
      BY <1>2, <2>2, <3>1 DEF DeliveriesInOrder
    <3> QED
      BY <1>1, <1>2, <1>4, <2>2, <3>1, <3>2, <3>3 DEF DeliveriesInOrder
  <2> QED
    BY <1>2, <2>1, <2>2
<1> QED
  BY <1>7, <1>8 DEF DeliveriesInOrder
(* A submit, whatever becomes of it.                                        *)
LEMMA SubmitGap ==
  ASSUME IInv, IInv', GapInv, NEW k, NEW o \in OpId, NEW n \in Nat, NEW b, NEW a,
         HandleSubmit(k, Envelope(o, n, b), a)
  PROVE  GapInv'
<1> DEFINE e == Envelope(o, n, b)
           v == Verdict(sequencer, e, a)
<1>1. up /\ UNCHANGED <<frontier, poisoned, connections, file>>
  BY DEF HandleSubmit, diskVars
<1>2. DeliveriesInOrder
  BY DEF GapInv
<1>3. ASSUME NEW d, deliveries' = Append(deliveries, d), d.status # "accepted",
             sequencer'.operationLog = sequencer.operationLog, UNCHANGED storeVars
      PROVE  GapInv'
  <2>1. UNCHANGED <<writing, queue, failed, storeClosed>>
    BY <1>3 DEF storeVars
  <2>2. DeliveriesInOrder'
    BY <1>1, <1>2, <1>3, <2>1, OrderAdded
  <2> QED
    BY <1>1, <1>3, <2>2, GapAdded
<1>4. CASE SubmitPoisoned(k, e)
  BY <1>3, <1>4, DeliveryFields DEF SubmitPoisoned
<1>5. CASE SubmitReplied(k, e, v)
  <2>1. sequencer'.operationLog = sequencer.operationLog
    BY <1>5, RepliedFacts DEF SubmitReplied
  <2>2. ReplyKind(v) # "accepted"
    BY <1>5 DEF SubmitReplied, ReplyKind
  <2> QED
    BY <1>3, <1>5, <2>1, <2>2, DeliveryFields DEF SubmitReplied
<1>6. CASE SubmitAccepted(k, e, v)
  <2> DEFINE log == sequencer.operationLog
             state == IF storeClosed \/ failed THEN "broken" ELSE "appending"
             d == Delivery(k, e, "accepted", state, Frontier(sequencer'))
  <2>1. v = "accepted" /\ sequencer' = Submitted(sequencer, e, "accepted") /\ ~poisoned
        /\ deliveries' = Append(deliveries, d)
    BY <1>6 DEF SubmitAccepted
  <2>2. sequencer'.currentRevision = Len(log) + 1
        /\ Len(sequencer'.operationLog) = Len(log) + 1
    <3>1. \E x \in Entries : sequencer'.operationLog = Append(log, x)
      BY <2>1, AcceptedFacts
    <3>2. sequencer'.currentRevision = Len(log) + 1
      BY <2>1, AcceptedFacts
    <3>3. log \in Seq(Entries)
      BY LogFacts
    <3> QED
      BY <3>1, <3>2, <3>3
  <2>3. d.status = "accepted" /\ d.frontier.revision = Len(log) + 1 /\ d.state = state
    BY <2>2, DeliveryFields DEF Frontier
  <2>4. UNCHANGED <<failed, storeClosed>>
        /\ (storeClosed \/ failed => UNCHANGED <<writing, queue>>)
    BY <1>6 DEF SubmitAccepted, AppendToStore, storeVars
  <2> HIDE DEF d
  <2>5. DeliveriesInOrder'
    BY <1>1, <1>2, <2>1, <2>3, <2>4, OrderAdded
  <2> QED
    BY <1>1, <2>1, <2>2, <2>3, <2>5, GapAdded
<1> QED
  BY <1>4, <1>5, <1>6 DEF HandleSubmit

(* The order of the queue after deliveries moved to other states.           *)
LEMMA OrderMoved ==
  ASSUME IInv, IInv', DeliveriesInOrder, NEW states, MovedTo(states),
         \A i \in DOMAIN deliveries : AcceptedAt(deliveries, i) =>
           LET r == RevisionAt(deliveries, i)
           IN  /\ states[i] \in {"appending", "broken"} => r > Len(file')
               /\ states[i] = "broken" /\ ~failed' =>
                    storeClosed' /\ r > Len(file') + Len(writing') + Len(queue')
               /\ states[i] = "failed" => poisoned'
               /\ states[i] = "ready" =>
                    /\ r <= frontier'.revision
                    /\ \A j \in 1..i-1 : AcceptedAt(deliveries, j) => states[j] = "ready"
  PROVE  DeliveriesInOrder'
<1>1. /\ DOMAIN deliveries = 1..Len(deliveries) /\ DOMAIN deliveries' = 1..Len(deliveries)
      /\ Len(deliveries) \in Nat
  BY QueueFacts, QueueFactsNext DEF QueueSound, MovedTo, IsQueue
<1>2. ASSUME NEW i \in DOMAIN deliveries
      PROVE  /\ AcceptedAt(deliveries', i) <=> AcceptedAt(deliveries, i)
             /\ RevisionAt(deliveries', i) = RevisionAt(deliveries, i)
             /\ deliveries'[i].state = states[i]
  BY DEF MovedTo, AcceptedAt, RevisionAt
<1>3. \A i, j \in DOMAIN deliveries :
        i < j /\ AcceptedAt(deliveries', i) /\ AcceptedAt(deliveries', j)
          => RevisionAt(deliveries', i) < RevisionAt(deliveries', j)
  BY <1>2 DEF DeliveriesInOrder
<1>4. ASSUME NEW i \in DOMAIN deliveries, NEW j \in 1..i-1 PROVE j \in DOMAIN deliveries
  BY <1>1
<1> QED
  BY <1>1, <1>2, <1>3, <1>4 DEF DeliveriesInOrder

(* The end of a write: the batch it stands for lies directly behind the     *)
(* file.                                                                    *)
LEMMA FlushSucceedsGap ==
  ASSUME IInv, IInv', GapInv, FlushSucceeds
  PROVE  GapInv'
<1> DEFINE S == Revisions(writing)
           states == [i \in DOMAIN deliveries |->
             IF deliveries[i].state = "appending" /\ RevisionAt(deliveries, i) \in S
             THEN "synced" ELSE deliveries[i].state]
<1>1. /\ up /\ ~failed /\ writing' = queue /\ queue' = <<>>
      /\ Resolve(S, "synced")
      /\ UNCHANGED <<up, sequencer, frontier, poisoned, failed, storeClosed, connections>>
  BY DEF FlushSucceeds
<1>2. /\ Len(file) \in Nat /\ Len(writing) \in Nat /\ Len(queue) \in Nat
      /\ DOMAIN writing = 1..Len(writing)
      /\ \A i \in 1..Len(writing) : writing[i].rev = Len(file) + i
      /\ file \in Seq(Entries) /\ writing \in Seq(Entries)
  BY BatchFacts
<1>3. Len(file') = Len(file) + Len(writing)
  <2>1. file' = file \o writing
    BY DEF FlushSucceeds, Lines, TailAfterOpen
  <2> QED
    BY <1>2, <2>1
<1>4. Len(queue') = 0 /\ Len(writing') = Len(queue)
  BY <1>1
<1>5. \A r \in Nat : r \in S <=> (r > Len(file) /\ r <= Len(file'))
  <2> TAKE r \in Nat
  <2>1. ASSUME r > Len(file), r <= Len(file') PROVE r \in S
    <3>1. r - Len(file) \in 1..Len(writing) /\ Len(file) + (r - Len(file)) = r
      BY <1>2, <1>3, <2>1
    <3>2. writing[r - Len(file)].rev = r
      BY <1>2, <3>1
    <3> QED
      BY <1>2, <3>1, <3>2 DEF Revisions
  <2>2. ASSUME r \in S PROVE r > Len(file) /\ r <= Len(file')
    BY <1>2, <1>3, <2>2 DEF Revisions
  <2> QED
    BY <2>1, <2>2
<1>6. MovedTo(states)
  BY <1>1, ResolvedQueue DEF States
<1>7. /\ DOMAIN deliveries = 1..Len(deliveries) /\ DOMAIN deliveries' = 1..Len(deliveries)
      /\ Len(deliveries) \in Nat
  BY <1>6, QueueFacts, QueueFactsNext DEF QueueSound, MovedTo, IsQueue
<1>8. ASSUME NEW i \in DOMAIN deliveries
      PROVE  /\ AcceptedAt(deliveries', i) <=> AcceptedAt(deliveries, i)
             /\ RevisionAt(deliveries', i) = RevisionAt(deliveries, i)
             /\ deliveries'[i].state = states[i]
             /\ AcceptedAt(deliveries, i) => RevisionAt(deliveries, i) \in Nat
  BY <1>6, QueueFacts DEF MovedTo, AcceptedAt, RevisionAt, QueueSound, IsQueue
<1>9. DeliveriesInOrder
  BY DEF GapInv
<1>10. ASSUME NEW i \in DOMAIN deliveries, AcceptedAt(deliveries, i)
       PROVE  LET r == RevisionAt(deliveries, i)
              IN  /\ states[i] \in {"appending", "broken"} => r > Len(file')
                  /\ states[i] = "broken" =>
                       storeClosed /\ r > Len(file') + Len(writing') + Len(queue')
                  /\ states[i] = "failed" => poisoned
                  /\ states[i] = "ready" =>
                       /\ r <= frontier.revision
                       /\ \A j \in 1..i-1 : AcceptedAt(deliveries, j) => states[j] = "ready"
  <2> DEFINE r == RevisionAt(deliveries, i)
  <2>1. r \in Nat
    BY <1>8, <1>10
  <2>2. states[i] = "appending" => deliveries[i].state = "appending" /\ r \notin S
    OBVIOUS
  <2>3. states[i] # "appending" /\ states[i] # "synced" => states[i] = deliveries[i].state
    OBVIOUS
  <2>4. states[i] = "broken" => storeClosed /\ r > Len(file') + Len(writing') + Len(queue')
    BY <1>1, <1>2, <1>3, <1>4, <1>9, <1>10, <2>1, <2>3 DEF DeliveriesInOrder
  <2>5. states[i] = "appending" => r > Len(file')
    BY <1>2, <1>3, <1>5, <1>9, <1>10, <2>1, <2>2 DEF DeliveriesInOrder
  <2>6. states[i] \in {"appending", "broken"} => r > Len(file')
    BY <1>2, <1>3, <1>4, <2>1, <2>4, <2>5
  <2>7. ASSUME states[i] = "ready", NEW j \in 1..i-1, AcceptedAt(deliveries, j)
        PROVE  states[j] = "ready"
    <3>1. j \in DOMAIN deliveries /\ deliveries[i].state = "ready"
      BY <1>7, <2>3, <2>7
    <3>2. deliveries[j].state = "ready"
      BY <1>9, <1>10, <2>7, <3>1 DEF DeliveriesInOrder
    <3> QED
      BY <3>1, <3>2
  <2>8. (states[i] = "failed" => poisoned) /\ (states[i] = "ready" => r <= frontier.revision)
    BY <1>9, <1>10, <2>3 DEF DeliveriesInOrder
  <2> QED
    BY <2>4, <2>6, <2>7, <2>8
<1> HIDE DEF states, S
<1>11. DeliveriesInOrder'
  BY <1>1, <1>6, <1>9, <1>10, OrderMoved
<1>12. \A i \in DOMAIN deliveries :
         WillBeShown(deliveries', poisoned', i) => WillBeShown(deliveries, poisoned, i)
  BY <1>1, <1>8 DEF WillBeShown, Pending, states
<1>13. frontier'.revision = frontier.revision /\ frontier.revision \in Nat
  BY <1>1, TypeParts
<1>14. frontier.revision <= frontier'.revision
  BY <1>13
<1>15. StillPoisoned(poisoned, poisoned')
  BY <1>1 DEF StillPoisoned
<1> QED
  BY <1>1, <1>6, <1>11, <1>12, <1>14, <1>15, GapMoved

(* The end of a write that failed: what waited for it lies behind the file. *)
LEMMA FlushFailsGap ==
  ASSUME IInv, IInv', GapInv, FlushFails
  PROVE  GapInv'
<1> DEFINE S == Revisions(writing) \cup Revisions(queue)
           states == [i \in DOMAIN deliveries |->
             IF deliveries[i].state = "appending" /\ RevisionAt(deliveries, i) \in S
             THEN "broken" ELSE deliveries[i].state]
<1>1. /\ failed' = TRUE /\ Resolve(S, "broken")
      /\ UNCHANGED <<up, sequencer, frontier, poisoned, storeClosed, connections, file>>
  BY DEF FlushFails, diskVars
<1>2. MovedTo(states)
  BY <1>1, ResolvedQueue DEF States
<1>3. DeliveriesInOrder
  BY DEF GapInv
<1>4. ASSUME NEW i \in DOMAIN deliveries, AcceptedAt(deliveries, i)
      PROVE  LET r == RevisionAt(deliveries, i)
             IN  /\ states[i] \in {"appending", "broken"} => r > Len(file)
                 /\ states[i] = "failed" => poisoned
                 /\ states[i] = "ready" =>
                      /\ r <= frontier.revision
                      /\ \A j \in 1..i-1 : AcceptedAt(deliveries, j) => states[j] = "ready"
  <2>1. states[i] \in {"appending", "broken"} => deliveries[i].state \in {"appending", "broken"}
    OBVIOUS
  <2>2. states[i] \notin {"appending", "broken"} => states[i] = deliveries[i].state
    OBVIOUS
  <2>3. ASSUME states[i] = "ready", NEW j \in 1..i-1, AcceptedAt(deliveries, j)
        PROVE  states[j] = "ready"
    <3>1. j \in DOMAIN deliveries /\ deliveries[i].state = "ready"
      BY <2>2, <2>3, QueueFacts DEF QueueSound, IsQueue
    <3>2. deliveries[j].state = "ready"
      BY <1>3, <1>4, <2>3, <3>1 DEF DeliveriesInOrder
    <3> QED
      BY <3>1, <3>2
  <2> QED
    BY <1>3, <1>4, <2>1, <2>2, <2>3 DEF DeliveriesInOrder
<1> HIDE DEF states, S
<1>5. DeliveriesInOrder'
  BY <1>1, <1>2, <1>3, <1>4, OrderMoved
<1>6. \A i \in DOMAIN deliveries :
        WillBeShown(deliveries', poisoned', i) => WillBeShown(deliveries, poisoned, i)
  BY <1>1, <1>2 DEF WillBeShown, Pending, AcceptedAt, MovedTo, states
<1>7. frontier'.revision = frontier.revision /\ frontier.revision \in Nat
  BY <1>1, TypeParts
<1>8. frontier.revision <= frontier'.revision
  BY <1>7
<1>9. StillPoisoned(poisoned, poisoned')
  BY <1>1 DEF StillPoisoned
<1> QED
  BY <1>1, <1>2, <1>5, <1>6, <1>8, <1>9, GapMoved

(* A continuation: the operation whose append succeeded becomes ready, with *)
(* none before it that is not, or the room is poisoned.                     *)
LEMMA SettleGap ==
  ASSUME IInv, IInv', GapInv, NEW m \in DOMAIN deliveries, Settle(m)
  PROVE  GapInv'
<1> DEFINE q == deliveries
<1>1. /\ q[m].state \in {"synced", "broken"}
      /\ \A j \in 1..m-1 : q[j].state \notin {"synced", "broken"}
      /\ SettleDurable(m) \/ SettleFailed(m)
      /\ UNCHANGED <<sequencer, connections, file, writing, queue, failed, storeClosed>>
  BY DEF Settle, NextSettled, storeVars, diskVars
<1>2. DeliveriesInOrder
  BY DEF GapInv
<1>3. /\ DOMAIN q = 1..Len(q) /\ Len(q) \in Nat
      /\ \A i \in DOMAIN q : /\ q[i].state \in States
                             /\ Pending(q[i]) => AcceptedAt(q, i)
                             /\ AcceptedAt(q, i) => RevisionAt(q, i) \in Nat
                             /\ AcceptedAt(q, i) /\ q[i].state \in {"synced", "ready"}
                                  => RevisionAt(q, i) <= Len(file)
  BY QueueFacts DEF QueueSound, IsQueue
<1>4. frontier.revision \in Nat /\ frontier'.revision \in Nat /\ Len(file) \in Nat
  BY TypeParts, BatchFacts DEF IInv, TypeOK
<1>5. AcceptedAt(q, m)
  BY <1>1, <1>3 DEF Pending
<1>6. ASSUME SettleDurable(m) PROVE GapInv'
  <2> DEFINE states == [i \in DOMAIN deliveries |-> IF i = m THEN "ready" ELSE deliveries[i].state]
  <2>1. /\ q[m].state = "synced" /\ ~poisoned /\ UNCHANGED poisoned
        /\ SetState(m, "ready") /\ frontier' = Advance(q[m].frontier)
    BY <1>6 DEF SettleDurable
  <2>2. MovedTo(states)
    BY <2>1, SettledQueue DEF States
  <2>3. frontier.revision <= frontier'.revision /\ RevisionAt(q, m) <= frontier'.revision
    BY <1>3, <1>4, <1>5, <2>1 DEF Advance, RevisionAt
  <2>4. ASSUME NEW j \in 1..m-1, AcceptedAt(q, j) PROVE q[j].state = "ready"
    <3>1. j \in DOMAIN q /\ j < m
      BY <1>3
    <3>2. q[j].state \notin {"synced", "broken"}
      BY <1>1, <2>4
    <3>3. q[j].state # "failed"
      BY <1>2, <2>1, <2>4, <3>1 DEF DeliveriesInOrder
    <3>4. q[j].state # "appending"
      <4>1. RevisionAt(q, j) < RevisionAt(q, m) /\ RevisionAt(q, m) <= Len(file)
        BY <1>2, <1>3, <1>5, <2>1, <2>4, <3>1 DEF DeliveriesInOrder
      <4>2. q[j].state = "appending" => RevisionAt(q, j) > Len(file)
        BY <1>2, <2>4, <3>1 DEF DeliveriesInOrder
      <4> QED
        BY <1>3, <1>4, <1>5, <2>4, <3>1, <4>1, <4>2
    <3> QED
      BY <1>3, <3>1, <3>2, <3>3, <3>4 DEF States
  <2>5. ASSUME NEW i \in DOMAIN deliveries, AcceptedAt(deliveries, i)
        PROVE  LET r == RevisionAt(deliveries, i)
               IN  /\ states[i] \in {"appending", "broken"} => r > Len(file)
                   /\ states[i] = "broken" /\ ~failed =>
                        storeClosed /\ r > Len(file) + Len(writing) + Len(queue)
                   /\ states[i] = "failed" => poisoned
                   /\ states[i] = "ready" =>
                        /\ r <= frontier'.revision
                        /\ \A j \in 1..i-1 : AcceptedAt(deliveries, j) => states[j] = "ready"
    <3>1. CASE i = m
      <4>1. \A j \in 1..m-1 : j \in DOMAIN q /\ j # m
        BY <1>3
      <4> QED
        BY <2>3, <2>4, <3>1, <4>1
    <3>2. CASE i # m
      <4>1. states[i] = q[i].state
        BY <3>2
      <4>2. q[i].state = "ready" => RevisionAt(q, i) <= frontier'.revision
        BY <1>2, <1>3, <1>4, <2>3, <2>5 DEF DeliveriesInOrder
      <4>3. ASSUME q[i].state = "ready", NEW j \in 1..i-1, AcceptedAt(q, j)
            PROVE  states[j] = "ready"
        <5>1. j \in DOMAIN q
          BY <1>3
        <5>2. q[j].state = "ready"
          BY <1>2, <2>5, <4>3 DEF DeliveriesInOrder
        <5> QED
          BY <5>1, <5>2
      <4> QED
        BY <1>2, <2>5, <4>1, <4>2, <4>3 DEF DeliveriesInOrder
    <3> QED
      BY <3>1, <3>2
  <2> HIDE DEF states
  <2>6. DeliveriesInOrder'
    BY <1>1, <1>2, <2>1, <2>2, <2>5, OrderMoved
  <2>7. \A i \in DOMAIN deliveries :
          WillBeShown(deliveries', poisoned', i) => WillBeShown(deliveries, poisoned, i)
    BY <1>5, <2>1, <2>2 DEF WillBeShown, Pending, AcceptedAt, MovedTo, states
  <2>8. StillPoisoned(poisoned, poisoned')
    BY <2>1 DEF StillPoisoned
  <2> QED
    BY <1>1, <2>2, <2>3, <2>6, <2>7, <2>8, GapMoved
<1>7. ASSUME SettleFailed(m) PROVE GapInv'
  <2> DEFINE states == [i \in DOMAIN deliveries |-> IF i = m THEN "failed" ELSE deliveries[i].state]
  <2>1. /\ SetState(m, "failed") /\ UNCHANGED frontier /\ poisoned'
    BY <1>1, <1>7 DEF SettleFailed
  <2>2. MovedTo(states)
    BY <2>1, SettledQueue DEF States
  <2>3. ASSUME NEW i \in DOMAIN deliveries, AcceptedAt(deliveries, i)
        PROVE  LET r == RevisionAt(deliveries, i)
               IN  /\ states[i] \in {"appending", "broken"} => r > Len(file)
                   /\ states[i] = "broken" /\ ~failed =>
                        storeClosed /\ r > Len(file) + Len(writing) + Len(queue)
                   /\ states[i] = "ready" =>
                        /\ r <= frontier.revision
                        /\ \A j \in 1..i-1 : AcceptedAt(deliveries, j) => states[j] = "ready"
    <3>1. CASE i = m
      BY <3>1
    <3>2. CASE i # m
      <4>1. states[i] = q[i].state
        BY <3>2
      <4>2. ASSUME q[i].state = "ready", NEW j \in 1..i-1, AcceptedAt(q, j)
            PROVE  states[j] = "ready"
        <5>1. j \in DOMAIN q
          BY <1>3
        <5>2. q[j].state = "ready"
          BY <1>2, <2>3, <4>2 DEF DeliveriesInOrder
        <5>3. j # m
          BY <1>1, <5>2
        <5> QED
          BY <5>1, <5>2, <5>3
      <4> QED
        BY <1>2, <2>3, <4>1, <4>2 DEF DeliveriesInOrder
    <3> QED
      BY <3>1, <3>2
  <2> HIDE DEF states
  <2>4. DeliveriesInOrder'
    BY <1>1, <1>2, <2>1, <2>2, <2>3, OrderMoved
  <2>5. \A i \in DOMAIN deliveries :
          WillBeShown(deliveries', poisoned', i) => WillBeShown(deliveries, poisoned, i)
    BY <2>1, <2>2 DEF WillBeShown, AcceptedAt, MovedTo, states
  <2>6. frontier.revision <= frontier'.revision
    BY <1>4, <2>1
  <2>7. StillPoisoned(poisoned, poisoned')
    BY <2>1 DEF StillPoisoned
  <2> QED
    BY <1>1, <2>2, <2>4, <2>5, <2>6, <2>7, GapMoved
<1> QED
  BY <1>1, <1>6, <1>7
(* What is dispatched as accepted has no accepted submit before it.         *)
LEMMA FirstOfItsKind ==
  ASSUME IInv, GapInv, NEW m \in DOMAIN deliveries, Deliverable(m),
         AcceptedAt(deliveries, m), deliveries[m].state = "ready"
  PROVE  \A j \in 1..m-1 : ~AcceptedAt(deliveries, j)
<1> DEFINE q == deliveries
<1> SUFFICES ASSUME NEW j \in 1..m-1, AcceptedAt(q, j) PROVE FALSE
  OBVIOUS
<1>1. /\ DOMAIN q = 1..Len(q) /\ Len(q) \in Nat
      /\ \A i \in DOMAIN q : Pending(q[i]) => AcceptedAt(q, i)
  BY QueueFacts DEF QueueSound, IsQueue
<1>2. \A i \in 1..m-1 : AcceptedAt(q, i) => q[i].state = "ready"
  BY DEF GapInv, DeliveriesInOrder
<1>3. \A i \in 1..j-1 : i \in DOMAIN q /\ i \in 1..m-1
  BY <1>1
<1>4. \A i \in 1..j-1 : ~Pending(q[i])
  BY <1>1, <1>2, <1>3 DEF Pending
<1>5. q[j].state = "ready" /\ ~Pending(q[j])
  BY <1>2 DEF Pending
<1>6. MayPass(j)
  BY <1>4, <1>5 DEF MayPass
<1> QED
  BY <1>6 DEF Deliverable

(* So it continues what every connection was told.                          *)
LEMMA NextForEverybody ==
  ASSUME IInv, GapInv, NEW m \in DOMAIN deliveries, Deliverable(m),
         AcceptedAt(deliveries, m), deliveries[m].state = "ready",
         NEW k \in DOMAIN connections
  PROVE  RevisionAt(deliveries, m) <= connections[k] + 1
<1>1. Covered(deliveries, RevisionAt(deliveries, m), m, connections[k])
  BY DEF GapInv, NoHole, WillBeShown
<1> QED
  BY <1>1, FirstOfItsKind DEF Covered

(* One delivery less leaves the others in order.                            *)
LEMMA OrderRemoved ==
  ASSUME IInv, IInv', DeliveriesInOrder, NEW m \in DOMAIN deliveries,
         deliveries' = RemoveAt(deliveries, m),
         UNCHANGED <<poisoned, frontier, file, writing, queue, failed, storeClosed>>
  PROVE  DeliveriesInOrder'
<1> DEFINE q == deliveries
           s == deliveries'
           old(i) == IF i < m THEN i ELSE i + 1
<1>1. /\ Len(q) = Len(s) + 1 /\ DOMAIN q = 1..Len(q) /\ DOMAIN s = 1..Len(s) /\ Len(s) \in Nat
      /\ \A i \in 1..Len(s) : s[i] = IF i < m THEN q[i] ELSE q[i + 1]
  BY RemovedQueue, QueueFacts, QueueFactsNext DEF QueueSound, IsQueue
<1>2. \A i \in 1..Len(s) : old(i) \in DOMAIN q /\ s[i] = q[old(i)]
  BY <1>1
<1>3. \A i \in 1..Len(s) : /\ AcceptedAt(s, i) <=> AcceptedAt(q, old(i))
                           /\ RevisionAt(s, i) = RevisionAt(q, old(i))
  BY <1>2 DEF AcceptedAt, RevisionAt
<1>4. \A i, j \in 1..Len(s) : i < j => old(i) < old(j)
  BY <1>1
<1>5. \A i \in 1..Len(s) : \A j \in 1..i-1 : j \in 1..Len(s) /\ old(j) \in 1..old(i)-1
  BY <1>1
<1> HIDE DEF old
<1>6. \A i, j \in DOMAIN s :
        i < j /\ AcceptedAt(s, i) /\ AcceptedAt(s, j) => RevisionAt(s, i) < RevisionAt(s, j)
  BY <1>1, <1>2, <1>3, <1>4 DEF DeliveriesInOrder
<1>7. \A i \in DOMAIN s : AcceptedAt(s, i) =>
        /\ s[i].state \in {"appending", "broken"} => RevisionAt(s, i) > Len(file)
        /\ s[i].state = "broken" /\ ~failed =>
             storeClosed /\ RevisionAt(s, i) > Len(file) + Len(writing) + Len(queue)
        /\ s[i].state = "failed" => poisoned
        /\ s[i].state = "ready" =>
             /\ RevisionAt(s, i) <= frontier.revision
             /\ \A j \in 1..i-1 : AcceptedAt(s, j) => s[j].state = "ready"
  BY <1>1, <1>2, <1>3, <1>5 DEF DeliveriesInOrder
<1> QED
  BY <1>6, <1>7 DEF DeliveriesInOrder

(* A delivery: an accepted operation was told to everybody, a failed submit *)
(* has nothing behind it that will be shown.                                *)
LEMMA DeliverGap ==
  ASSUME IInv, IInv', GapInv, NEW m \in DOMAIN deliveries, Deliver(m)
  PROVE  GapInv'
<1> DEFINE q == deliveries
           s == deliveries'
           n == Len(sequencer.operationLog)
           d == deliveries[m]
<1>1. /\ Deliverable(m) /\ s = RemoveAt(q, m)
      /\ \/ DispatchAccepted(d) \/ DispatchAck(d) \/ DispatchRejection(d) \/ DispatchFailure(d)
      /\ UNCHANGED <<sequencer, frontier, poisoned, file, writing, queue, failed, storeClosed>>
  BY DEF Deliver, storeVars, diskVars
<1>2. DeliveriesInOrder
  BY DEF GapInv
<1>3. DeliveriesInOrder'
  BY <1>1, <1>2, OrderRemoved
<1>4. /\ Len(s) \in Nat /\ IsQueue(q, Len(s) + 1) /\ IsQueue(s, Len(s)) /\ m \in 1..Len(s)+1
      /\ \A i \in 1..Len(s) : s[i] = IF i < m THEN q[i] ELSE q[i + 1]
  BY <1>1, RemovedQueue, QueueFacts, QueueFactsNext DEF QueueSound, IsQueue
<1>5. /\ n \in Nat /\ frontier.revision \in Nat
      /\ NoHole(q, poisoned, n, frontier.revision)
      /\ \A k \in DOMAIN connections :
           connections[k] \in Nat /\ NoHole(q, poisoned, n, connections[k])
  BY TypeParts, LogFacts DEF GapInv
<1>6. ASSUME NEW t \in Nat, NEW u \in Nat, t <= u, NoHole(q, poisoned, n, t),
             AcceptedAt(q, m) => \/ RevisionAt(q, m) <= u
                                 \/ poisoned /\ \A i \in m+1..Len(s)+1 : ~WillBeShown(q, poisoned, i)
      PROVE  NoHole(s, poisoned, n, u)
  <2> HIDE DEF q, s, n
  <2> QED
    BY <1>4, <1>5, <1>6, NoHoleRemoved
<1>7. CASE DispatchAccepted(d)
  <2> DEFINE r == RevisionAt(q, m)
  <2>1. AcceptedAt(q, m) /\ q[m].state = "ready"
    BY <1>7 DEF DispatchAccepted, AcceptedAt
  <2>2. r \in Nat /\ r <= frontier.revision
    BY <1>2, <2>1, QueueFacts DEF QueueSound, IsQueue, DeliveriesInOrder
  <2>3. DOMAIN connections' = DOMAIN connections
        /\ \A k \in DOMAIN connections :
             connections'[k] = IF r > connections[k] THEN r ELSE connections[k]
    BY <1>7 DEF DispatchAccepted, RevisionAt
  <2>4. NoHole(s, poisoned, n, frontier.revision)
    <3>1. frontier.revision <= frontier.revision
      BY <1>5
    <3> QED
      BY <1>5, <1>6, <2>2, <3>1
  <2>5. ASSUME NEW k \in DOMAIN connections
        PROVE  connections'[k] \in Nat /\ NoHole(s, poisoned, n, connections'[k])
    <3>1. /\ connections[k] \in Nat /\ connections'[k] \in Nat
          /\ connections[k] <= connections'[k] /\ r <= connections'[k]
      BY <1>5, <2>2, <2>3
    <3> QED
      BY <1>5, <1>6, <3>1
  <2> QED
    BY <1>1, <1>3, <2>3, <2>4, <2>5 DEF GapInv
<1>8. ASSUME AcceptedAt(q, m) =>
               poisoned /\ \A i \in m+1..Len(s)+1 : ~WillBeShown(q, poisoned, i),
             \A k \in DOMAIN connections' :
               k \in DOMAIN connections /\ connections'[k] = connections[k]
      PROVE  GapInv'
  <2>1. \A t \in Nat : NoHole(q, poisoned, n, t) => NoHole(s, poisoned, n, t)
    BY <1>6, <1>8
  <2>2. NoHole(s, poisoned, n, frontier.revision)
        /\ \A k \in DOMAIN connections' :
             connections'[k] \in Nat /\ NoHole(s, poisoned, n, connections'[k])
    BY <1>5, <1>8, <2>1
  <2> QED
    BY <1>1, <1>3, <2>2 DEF GapInv
<1>9. CASE DispatchAck(d) \/ DispatchRejection(d)
  <2>1. ~AcceptedAt(q, m) /\ connections' = connections
    BY <1>9 DEF DispatchAck, DispatchRejection, AcceptedAt
  <2> QED
    BY <1>8, <2>1
<1>10. CASE DispatchFailure(d)
  <2>1. q[m].state = "failed" /\ connections' = Without(d.from)
    BY <1>10 DEF DispatchFailure
  <2>2. \A k \in DOMAIN connections' :
          k \in DOMAIN connections /\ connections'[k] = connections[k]
    BY <2>1 DEF Without
  <2>3. AcceptedAt(q, m) => poisoned
    BY <1>2, <2>1 DEF DeliveriesInOrder
  <2>4. ASSUME AcceptedAt(q, m), NEW i \in m+1..Len(s)+1, WillBeShown(q, poisoned, i)
        PROVE  FALSE
    <3>1. AcceptedAt(q, i) /\ q[i].state = "ready"
      BY <2>3, <2>4 DEF WillBeShown
    <3>2. i \in DOMAIN q /\ m \in 1..i-1
      BY <1>4, <2>4 DEF IsQueue
    <3>3. q[m].state = "ready"
      BY <1>2, <2>4, <3>1, <3>2 DEF DeliveriesInOrder
    <3> QED
      BY <2>1, <3>3
  <2> QED
    BY <1>8, <2>2, <2>3, <2>4
<1> QED
  BY <1>1, <1>7, <1>9, <1>10

(* A process that starts has no connection and nothing to deliver, and the  *)
(* frontier is at the end of its log.                                       *)
LEMMA BootedGap ==
  ASSUME IInv', NEW s, Booted(s), s.currentRevision = Len(s.operationLog)
  PROVE  GapInv'
<1>1. /\ deliveries' = <<>> /\ connections' = <<>> /\ sequencer' = s
      /\ frontier'.revision = Len(s.operationLog)
  BY DEF Booted, Frontier
<1>2. Len(s.operationLog) \in Nat
  BY <1>1 DEF IInv, TypeOK
<1>3. DeliveriesInOrder'
  BY <1>1 DEF DeliveriesInOrder
<1>4. NoHole(deliveries', poisoned', Len(sequencer'.operationLog), frontier'.revision)
  BY <1>1, <1>2 DEF NoHole, Covered
<1> QED
  BY <1>1, <1>3, <1>4 DEF GapInv

(* GapInv holds at the start.                                               *)
LEMMA InitGap == Init => GapInv
<1> SUFFICES ASSUME Init PROVE GapInv
  OBVIOUS
<1>1. /\ deliveries = <<>> /\ connections = <<>> /\ Len(sequencer.operationLog) = 0
      /\ frontier.revision = 0
  BY DEF Init, Frontier, FreshState
<1>2. DeliveriesInOrder
  BY <1>1 DEF DeliveriesInOrder
<1>3. NoHole(deliveries, poisoned, Len(sequencer.operationLog), frontier.revision)
  BY <1>1 DEF NoHole, Covered
<1> QED
  BY <1>1, <1>2, <1>3 DEF GapInv

(* And every step keeps it, relative to IInv.                               *)
LEMMA NextGap ==
  ASSUME IInv, IInv', GapInv, [Next]_vars
  PROVE  GapInv'
<1>1. CASE Join
  <2>1. /\ UNCHANGED <<deliveries, poisoned, sequencer, frontier, file, writing, queue, failed,
                       storeClosed>>
        /\ connections' = Put(connections, joins', frontier.revision)
    BY <1>1 DEF Join, storeVars, diskVars
  <2> QED
    BY <2>1, GapFrame DEF Put
<1>2. CASE \E k \in DOMAIN connections : Catchup(k)
  <2>1. /\ UNCHANGED <<deliveries, poisoned, sequencer, frontier, file, writing, queue, failed,
                       storeClosed>>
        /\ \E k \in DOMAIN connections :
             connections' = [connections EXCEPT ![k] = frontier.revision]
    BY <1>2 DEF Catchup, storeVars, diskVars
  <2> QED
    BY <2>1, GapFrame
<1>3. CASE \E k \in DOMAIN connections : Disconnect(k)
  <2>1. /\ UNCHANGED <<deliveries, poisoned, sequencer, frontier, file, writing, queue, failed,
                       storeClosed>>
        /\ \E k \in DOMAIN connections : connections' = Without(k)
    BY <1>3 DEF Disconnect, storeVars, diskVars
  <2> QED
    BY <2>1, GapFrame DEF Without
<1>4. CASE \E k \in DOMAIN connections, o \in OpId, n \in 1..MaxSequence,
              b \in {0, sequencer.currentRevision + 1}, authorized \in BOOLEAN :
             Submit(k, Envelope(o, n, b), authorized)
  <2> PICK k \in DOMAIN connections, o \in OpId, n \in 1..MaxSequence,
           b \in {0, sequencer.currentRevision + 1}, authorized \in BOOLEAN :
             Submit(k, Envelope(o, n, b), authorized)
    BY <1>4
  <2>1. n \in Nat
    BY BoundsAssumption
  <2> QED
    BY <2>1, SubmitGap DEF Submit
<1>5. CASE \E o \in OpId : SubmitFromServer(o)
  <2> PICK o \in OpId : SubmitFromServer(o)
    BY <1>5
  <2>1. ExpectedSequence(sequencer, ServerClient) \in Nat
    BY LogFacts, ServerAssumption DEF ExpectedSequence
  <2> QED
    BY <2>1, SubmitGap DEF SubmitFromServer
<1>6. CASE FlushSucceeds
  BY <1>6, FlushSucceedsGap
<1>7. CASE FlushFails
  BY <1>7, FlushFailsGap
<1>8. CASE SnapshotEnds
  BY <1>8, GapFrame DEF SnapshotEnds, storeVars
<1>9. CASE \E i \in DOMAIN deliveries : Settle(i)
  BY <1>9, SettleGap
<1>10. CASE \E i \in DOMAIN deliveries : Deliver(i)
  BY <1>10, DeliverGap
<1>11. CASE Close
  BY <1>11, GapFrame DEF Close, storeVars, diskVars
<1>12. CASE CloseStore
  BY <1>12, GapFrame DEF CloseStore, diskVars
<1>13. CASE \E n \in 0..Len(writing), torn \in BOOLEAN : Crash(n, torn)
  <2>1. Booted(FreshState(InitialDocument))
    BY <1>13 DEF Crash
  <2>2. FreshState(InitialDocument).currentRevision = Len(FreshState(InitialDocument).operationLog)
    BY DEF FreshState
  <2> QED
    BY <2>1, <2>2, BootedGap
<1>14. CASE Recover
  <2> DEFINE s == Recovered(LatestSnapshot, file)
  <2>1. Booted(s)
    BY <1>14 DEF Recover
  <2>2. s.currentRevision = Len(s.operationLog)
    BY DEF Recovered
  <2> HIDE DEF s
  <2> QED
    BY <2>1, <2>2, BootedGap
<1>15. CASE UNCHANGED vars
  BY <1>15, GapFrame DEF vars, processVars, storeVars, diskVars
<1> QED
  BY <1>1, <1>2, <1>3, <1>4, <1>5, <1>6, <1>7, <1>8, <1>9, <1>10, <1>11, <1>12, <1>13, <1>14,
     <1>15 DEF Next

-----------------------------------------------------------------------------
(* Theorems.                                                                *)

(* The deliveries stay in order and without a hole.                         *)
THEOREM GapInvariance == Spec => []GapInv
<1>1. Init => GapInv
  BY InitGap
<1>2. IInv /\ IInv' /\ GapInv /\ [Next]_vars => GapInv'
  BY NextGap
<1>3. Spec => []IInv
  BY Invariance
<1> QED
  BY <1>1, <1>2, <1>3, PTL DEF Spec

(* Replies and failures overtake operations that wait for their append, and *)
(* appends fail, yet no connection is ever shown a revision while one       *)
(* before it is missing (server.ts:564-583): a step that shows an operation *)
(* shows the one right behind what a connection was told.                   *)
THEOREM NoGapShown == Spec => BroadcastHasNoGap
<1> DEFINE Gapless == Len(deliveries') < Len(deliveries) =>
             \A k \in DOMAIN connections \cap DOMAIN connections' :
               connections'[k] <= connections[k] + 1
<1>1. IInv /\ IInv' /\ GapInv /\ [Next]_vars => [Gapless]_vars
  <2> SUFFICES ASSUME IInv, IInv', GapInv, Next,
                      Len(deliveries') < Len(deliveries),
                      NEW k \in DOMAIN connections \cap DOMAIN connections'
               PROVE  connections'[k] <= connections[k] + 1
    OBVIOUS
  <2>1. IInv /\ IInv' /\ GapInv
    OBVIOUS
  <2>2. connections[k] \in Nat
    BY <2>1 DEF GapInv
  <2>3. CASE connections'[k] = connections[k]
    BY <2>2, <2>3
  <2>4. CASE \E i \in DOMAIN deliveries : Deliver(i)
    <3> PICK m \in DOMAIN deliveries : Deliver(m)
      BY <2>4
    <3> DEFINE d == deliveries[m]
    <3>1. CASE DispatchAccepted(d)
      <4>1. /\ AcceptedAt(deliveries, m) /\ deliveries[m].state = "ready"
            /\ connections'[k] = connections[k] \/ connections'[k] = RevisionAt(deliveries, m)
        BY <3>1 DEF DispatchAccepted, AcceptedAt, RevisionAt
      <4>2. RevisionAt(deliveries, m) <= connections[k] + 1
        BY <2>1, <4>1, NextForEverybody DEF Deliver
      <4> QED
        BY <2>3, <4>1, <4>2
    <3>2. CASE DispatchAck(d) \/ DispatchRejection(d)
      BY <2>3, <3>2 DEF DispatchAck, DispatchRejection
    <3>3. CASE DispatchFailure(d)
      BY <2>3, <3>3 DEF DispatchFailure, Without
    <3> QED
      BY <3>1, <3>2, <3>3 DEF Deliver
  <2>5. CASE \E n \in 0..Len(writing), torn \in BOOLEAN : Crash(n, torn)
    BY <2>5 DEF Crash, Booted
  <2>6. CASE Recover
    BY <2>6 DEF Recover, Booted
  <2>7. ASSUME ~\E i \in DOMAIN deliveries : Deliver(i),
               ~\E n \in 0..Len(writing), torn \in BOOLEAN : Crash(n, torn), ~Recover
        PROVE  Len(deliveries') >= Len(deliveries)
    <3>1. Len(deliveries) \in Nat
      BY <2>1, QueueFacts DEF QueueSound, IsQueue
    <3>2. CASE UNCHANGED deliveries
      BY <3>1, <3>2
    <3>3. ASSUME NEW d, deliveries' = Append(deliveries, d) PROVE Len(deliveries') >= Len(deliveries)
      BY <2>1, <3>1, <3>3, AddedQueue
    <3>4. ASSUME NEW c, NEW o, NEW n, NEW b, NEW a, HandleSubmit(c, Envelope(o, n, b), a)
          PROVE  Len(deliveries') >= Len(deliveries)
      BY <3>3, <3>4 DEF HandleSubmit, SubmitPoisoned, SubmitReplied, SubmitAccepted
    <3>5. CASE Join
      BY <3>2, <3>5 DEF Join
    <3>6. CASE \E j \in DOMAIN connections : Disconnect(j) \/ Catchup(j)
      BY <3>2, <3>6 DEF Disconnect, Catchup
    <3>7. CASE \E c \in DOMAIN connections, o \in OpId, n \in 1..MaxSequence,
                  b \in {0, sequencer.currentRevision + 1}, authorized \in BOOLEAN :
                 Submit(c, Envelope(o, n, b), authorized)
      BY <3>4, <3>7 DEF Submit
    <3>8. CASE \E o \in OpId : SubmitFromServer(o)
      BY <3>4, <3>8 DEF SubmitFromServer
    <3>9. CASE FlushSucceeds
      <4>1. Resolve(Revisions(writing), "synced")
        BY <3>9 DEF FlushSucceeds
      <4>2. Len(deliveries') = Len(deliveries)
        BY <2>1, <4>1, ResolvedQueue DEF MovedTo, States
      <4> QED
        BY <3>1, <4>2
    <3>10. CASE FlushFails
      <4>1. Resolve(Revisions(writing) \cup Revisions(queue), "broken")
        BY <3>10 DEF FlushFails
      <4>2. Len(deliveries') = Len(deliveries)
        BY <2>1, <4>1, ResolvedQueue DEF MovedTo, States
      <4> QED
        BY <3>1, <4>2
    <3>11. CASE \E i \in DOMAIN deliveries : Settle(i)
      <4>1. \E i \in DOMAIN deliveries, t \in States : SetState(i, t)
        BY <3>11 DEF Settle, SettleDurable, SettleFailed, States
      <4>2. Len(deliveries') = Len(deliveries)
        BY <2>1, <4>1, SettledQueue DEF MovedTo
      <4> QED
        BY <3>1, <4>2
    <3>12. CASE SnapshotEnds \/ Close \/ CloseStore
      BY <3>2, <3>12 DEF SnapshotEnds, Close, CloseStore
    <3> QED
      BY <2>7, <3>5, <3>6, <3>7, <3>8, <3>9, <3>10, <3>11, <3>12 DEF Next
  <2>8. IInv => Len(deliveries) \in Nat /\ Len(deliveries') \in Nat
    BY <2>1, QueueFacts, QueueFactsNext DEF QueueSound, IsQueue
  <2> QED
    BY <2>1, <2>4, <2>5, <2>6, <2>7, <2>8
<1> QED
  BY <1>1, Invariance, GapInvariance, PTL DEF BroadcastHasNoGap, Spec

-----------------------------------------------------------------------------
(* The ordered log: a submit that is accepted takes a place, the end of a   *)
(* write hardens the order, a join, a catch-up or a delivery tells of       *)
(* durable operations, a crash restarts the order with what reached the     *)
(* disk, and every other step, the recovery included, changes nothing that  *)
(* can be seen.                                                             *)

(* The operations of a log, place by place.                                 *)
LEMMA OpsOfFacts ==
  ASSUME NEW s \in Seq(Entries)
  PROVE  /\ OpsOf(s) \in Seq(OpId) /\ Len(OpsOf(s)) = Len(s) /\ Len(s) \in Nat
         /\ DOMAIN s = 1..Len(s) /\ DOMAIN OpsOf(s) = 1..Len(s)
         /\ \A i \in 1..Len(s) : OpsOf(s)[i] = s[i].op
<1>1. DOMAIN s = 1..Len(s) /\ Len(s) \in Nat /\ \A i \in 1..Len(s) : s[i] \in Entries
  OBVIOUS
<1>2. \A i \in 1..Len(s) : s[i].op \in OpId
  BY <1>1 DEF Entries
<1>3. OpsOf(s) = [i \in 1..Len(s) |-> s[i].op]
  BY <1>1 DEF OpsOf
<1>4. OpsOf(s) \in Seq(OpId)
  BY <1>1, <1>2, <1>3, SeqDef
<1> QED
  BY <1>1, <1>3, <1>4

(* One more entry is one more operation.                                    *)
LEMMA OpsOfAppend ==
  ASSUME NEW s \in Seq(Entries), NEW x \in Entries
  PROVE  OpsOf(Append(s, x)) = Append(OpsOf(s), x.op)
<1>1. Append(s, x) \in Seq(Entries) /\ x.op \in OpId
  BY DEF Entries
<1>2. /\ Len(Append(s, x)) = Len(s) + 1
      /\ Append(s, x)[Len(s) + 1] = x
      /\ \A i \in 1..Len(s) : Append(s, x)[i] = s[i]
  BY AppendProperties
<1> DEFINE a == OpsOf(Append(s, x))
           b == Append(OpsOf(s), x.op)
<1>3. /\ a \in Seq(OpId) /\ Len(a) = Len(s) + 1
      /\ \A i \in 1..Len(s) + 1 : a[i] = Append(s, x)[i].op
  BY <1>1, <1>2, OpsOfFacts
<1>4. /\ b \in Seq(OpId) /\ Len(b) = Len(s) + 1
      /\ b[Len(s) + 1] = x.op
      /\ \A i \in 1..Len(s) : b[i] = s[i].op
  BY <1>1, OpsOfFacts, AppendProperties
<1>5. \A i \in 1..Len(a) : a[i] = b[i]
  BY <1>2, <1>3, <1>4, OpsOfFacts
<1> HIDE DEF a, b
<1> QED
  BY <1>3, <1>4, <1>5, SeqEqual DEF a, b

(* Entries that are the first n of a log: their operations are the first n. *)
LEMMA OpsOfPrefix ==
  ASSUME NEW s \in Seq(Entries), NEW f \in Seq(Entries), Len(f) <= Len(s),
         \A i \in 1..Len(f) : f[i] = s[i]
  PROVE  OpsOf(f) = SubSeq(OpsOf(s), 1, Len(f))
<1> DEFINE a == OpsOf(f)
           b == SubSeq(OpsOf(s), 1, Len(f))
<1>1. /\ a \in Seq(OpId) /\ Len(a) = Len(f) /\ Len(f) \in Nat
      /\ \A i \in 1..Len(f) : a[i] = f[i].op
  BY OpsOfFacts
<1>2. /\ OpsOf(s) \in Seq(OpId) /\ Len(OpsOf(s)) = Len(s) /\ Len(s) \in Nat
      /\ \A i \in 1..Len(s) : OpsOf(s)[i] = s[i].op
  BY OpsOfFacts
<1>3. /\ b \in Seq(OpId) /\ Len(b) = Len(f)
      /\ \A i \in 1..Len(f) : b[i] = OpsOf(s)[i]
  BY <1>1, <1>2, SubSeqProperties
<1>4. \A i \in 1..Len(a) : a[i] = b[i]
  BY <1>1, <1>2, <1>3
<1> HIDE DEF a, b
<1> QED
  BY <1>1, <1>3, <1>4, SeqEqual DEF a, b

(* What the order, its durable part and the outside's knowledge are made of. *)
Order == OpsOf(IF up THEN sequencer.operationLog ELSE file)
Told == published \cup
        {<<a.op, a.rev>> : a \in {a \in acknowledged : a.status = "accepted"}}

(* While the process is up, the file is the beginning of the order.         *)
LEMMA DurablePlaces ==
  ASSUME IInv, up
  PROVE  /\ Order \in Seq(OpId) /\ Len(Order) = Len(sequencer.operationLog)
         /\ Len(file) \in Nat /\ Len(file) <= Len(Order)
         /\ DOMAIN file = 1..Len(file)
         /\ \A i \in 1..Len(file) : Order[i] = file[i].op
<1>1. sequencer.operationLog \in Seq(Entries) /\ Len(sequencer.operationLog) \in Nat
      /\ DOMAIN sequencer.operationLog = 1..Len(sequencer.operationLog)
  BY LogFacts
<1>2. /\ Len(file) \in Nat /\ DOMAIN file = 1..Len(file)
      /\ \A i \in 1..Len(file) :
           i \in DOMAIN sequencer.operationLog /\ file[i] = sequencer.operationLog[i]
  BY BatchFacts
<1>3. Len(file) <= Len(sequencer.operationLog)
  BY <1>1, <1>2
<1>4. Order = OpsOf(sequencer.operationLog)
  BY DEF Order
<1> QED
  BY <1>1, <1>2, <1>3, <1>4, OpsOfFacts

(* A step that leaves log, file and what was told alone cannot be seen.     *)
LEMMA Unseen ==
  ASSUME UNCHANGED <<up, file, published, acknowledged>>,
         sequencer'.operationLog = sequencer.operationLog
  PROVE  UNCHANGED Promise!vars
<1>1. OpsOf(IF up THEN sequencer.operationLog ELSE file)'
        = OpsOf(IF up THEN sequencer.operationLog ELSE file)
  BY DEF OpsOf
<1> QED
  BY <1>1 DEF Promise!vars

(* Telling of operations the file holds.                                    *)
LEMMA TellStep ==
  ASSUME IInv, up, UNCHANGED <<up, sequencer, file>>,
         published \subseteq published', acknowledged \subseteq acknowledged',
         AcceptedAckIsDurable', PublishedIsDurable',
         \A p \in published' \ published : p = <<p[1], p[2]>>
  PROVE  Promise!Tell
<1> DEFINE places == {<<Order[i], i>> : i \in 1..Len(file)}
<1>1. Told \subseteq Told'
  BY DEF Told
<1>2. \A p \in published' \ published : p \in places
  <2> SUFFICES ASSUME NEW p \in published' \ published PROVE p \in places
    OBVIOUS
  <2>1. p[2] \in DOMAIN file /\ file[p[2]].op = p[1]
    BY DEF PublishedIsDurable
  <2>2. p[2] \in 1..Len(file) /\ Order[p[2]] = p[1]
    BY <2>1, DurablePlaces
  <2>3. p = <<Order[p[2]], p[2]>>
    BY <2>2
  <2> QED
    BY <2>2, <2>3
<1>3. ASSUME NEW a \in acknowledged', a.status = "accepted"
      PROVE  <<a.op, a.rev>> \in places
  <2>1. a.rev \in DOMAIN file /\ file[a.rev].op = a.op
    BY <1>3 DEF AcceptedAckIsDurable
  <2>2. a.rev \in 1..Len(file) /\ Order[a.rev] = a.op
    BY <2>1, DurablePlaces
  <2> QED
    BY <2>2
<1>4. Told' \subseteq Told \cup places
  BY <1>2, <1>3 DEF Told
<1>5. Order' = Order
  BY DEF Order, OpsOf
<1> QED
  BY <1>1, <1>4, <1>5 DEF Promise!Tell, Promise!Places, Order, Told

(* A join or a catch-up shows the part of the log up to the frontier.       *)
LEMMA ShownStep ==
  ASSUME IInv, IInv', up, UNCHANGED <<up, sequencer, file, acknowledged>>,
         published' = published \cup EntriesUpTo(sequencer, frontier.revision)
  PROVE  Promise!Tell
<1>1. AcceptedAckIsDurable' /\ PublishedIsDurable'
  BY DEF IInv
<1>2. \A p \in published' \ published : p = <<p[1], p[2]>>
  BY DEF EntriesUpTo
<1> QED
  BY <1>1, <1>2, TellStep

(* A delivery tells its sender, and everybody of an accepted operation.     *)
LEMMA DispatchStep ==
  ASSUME IInv, IInv', NEW i \in DOMAIN deliveries, Deliver(i)
  PROVE  Promise!Tell
<1>1. AcceptedAckIsDurable' /\ PublishedIsDurable'
  BY DEF IInv
<1>2. up /\ UNCHANGED <<up, sequencer, file>>
  BY DEF Deliver, diskVars
<1> DEFINE d == deliveries[i]
<1>3. /\ published' = published \/ published' = published \cup {<<d.op, d.frontier.revision>>}
      /\ acknowledged' = acknowledged \/ acknowledged' = acknowledged \cup {AckOf(d)}
  BY DEF Deliver, DispatchAccepted, DispatchAck, DispatchRejection, DispatchFailure
<1>4. \A p \in published' \ published : p = <<p[1], p[2]>>
  BY <1>3
<1>5. published \subseteq published' /\ acknowledged \subseteq acknowledged'
  BY <1>3
<1> QED
  BY <1>1, <1>2, <1>4, <1>5, TellStep

-----------------------------------------------------------------------------
(* Steps.                                                                   *)

(* A submit that is accepted takes the next place, any other is not seen.   *)
LEMMA SubmitImplements ==
  ASSUME IInv, NEW k, NEW o \in OpId, NEW n \in Nat, NEW b, NEW a,
         HandleSubmit(k, Envelope(o, n, b), a)
  PROVE  Promise!Accept(o) \/ UNCHANGED Promise!vars
<1> DEFINE e == Envelope(o, n, b)
           v == Verdict(sequencer, e, a)
           log == sequencer.operationLog
<1>1. up /\ UNCHANGED <<up, file, published, acknowledged>>
  BY DEF HandleSubmit, diskVars, historyVars
<1>2. CASE sequencer'.operationLog = log
  BY <1>1, <1>2, Unseen
<1>3. CASE SubmitPoisoned(k, e)
  BY <1>2, <1>3 DEF SubmitPoisoned
<1>4. CASE SubmitReplied(k, e, v)
  BY <1>2, <1>4, RepliedFacts DEF SubmitReplied
<1>5. CASE SubmitAccepted(k, e, v)
  <2>1. v = "accepted" /\ sequencer' = Submitted(sequencer, e, "accepted")
    BY <1>5 DEF SubmitAccepted
  <2> DEFINE x == LogEntry(e, Len(log) + 1)
  <2>2. x \in Entries /\ sequencer'.operationLog = Append(log, x) /\ o \notin DOMAIN sequencer.ackCache
    BY <2>1, AcceptedFacts
  <2>3. x.op = o
    BY EnvelopeFacts DEF LogEntry
  <2>4. log \in Seq(Entries) /\ DOMAIN log = 1..Len(log)
    BY LogFacts
  <2> HIDE DEF x
  <2>5. OpsOf(sequencer'.operationLog) = Append(OpsOf(log), o)
    BY <2>2, <2>3, <2>4, OpsOfAppend
  <2>6. Order = OpsOf(log) /\ Order' = OpsOf(sequencer'.operationLog)
    BY <1>1 DEF Order, OpsOf
  <2>7. \A i \in DOMAIN Order : Order[i] # o
    <3>1. DOMAIN OpsOf(log) = 1..Len(log) /\ \A i \in 1..Len(log) : OpsOf(log)[i] = log[i].op
      BY <2>4, OpsOfFacts
    <3>2. \A i \in 1..Len(log) : log[i].op \in DOMAIN sequencer.ackCache
      BY LogFacts
    <3> QED
      BY <2>2, <2>6, <3>1, <3>2
  <2>8. Told' = Told /\ Len(file)' = Len(file)
    BY <1>1 DEF Told
  <2> QED
    BY <2>5, <2>6, <2>7, <2>8 DEF Promise!Accept, Order, Told
<1> QED
  BY <1>3, <1>4, <1>5 DEF HandleSubmit

(* The end of a group commit hardens the order up to the end of its batch.  *)
LEMMA FlushImplements ==
  ASSUME IInv, FlushSucceeds
  PROVE  Promise!Harden
<1>1. up /\ UNCHANGED <<up, sequencer, published, acknowledged>>
  BY DEF FlushSucceeds, historyVars
<1>2. /\ file' = file \o writing /\ writing \in Seq(Entries) /\ Len(writing) \in Nat
      /\ Len(writing) \in 0..Len(writing)
  BY BatchFacts DEF FlushSucceeds, Lines, TailAfterOpen
<1>3. SubSeq(writing, 1, Len(writing)) = writing
  BY <1>2
<1>4. file' = file \o SubSeq(writing, 1, Len(writing))
  BY <1>2, <1>3
<1>5. /\ Len(file') = Len(file) + Len(writing) /\ Len(file) \in Nat
      /\ \A i \in 1..Len(file') : i \in DOMAIN sequencer.operationLog
  BY <1>1, <1>2, <1>4, FileExtended, BatchFacts
<1>6. Len(file') \in Len(file)..Len(Order)
  <2>1. Len(file') = 0 \/ Len(file') \in DOMAIN sequencer.operationLog
    BY <1>2, <1>5
  <2> QED
    BY <1>1, <1>2, <1>5, <2>1, LogFacts, DurablePlaces
<1>7. Order' = Order /\ Told' = Told
  BY <1>1 DEF Order, Told, OpsOf
<1> QED
  BY <1>6, <1>7 DEF Promise!Harden, Order, Told

(* A crash takes the order back to what reached the disk.                   *)
LEMMA CrashImplements ==
  ASSUME IInv, NEW n \in 0..Len(writing), NEW torn \in BOOLEAN, Crash(n, torn)
  PROVE  \E m \in Len(file)..Len(Order) : Promise!Restart(m)
<1>1. up /\ ~up' /\ UNCHANGED <<published, acknowledged>>
  BY DEF Crash, historyVars
<1>2. file' = file \o SubSeq(writing, 1, n)
  BY DEF Crash, Lines, TailAfterOpen
<1> DEFINE log == sequencer.operationLog
           m == Len(file) + n
<1>3. /\ file' \in Seq(Entries) /\ Len(file') = m
      /\ \A i \in 1..Len(file') : i \in DOMAIN log /\ file'[i] = log[i]
      /\ Len(file) \in Nat /\ Len(writing) \in Nat /\ n \in Nat
  BY <1>1, <1>2, FileExtended, BatchFacts
<1>4. log \in Seq(Entries) /\ DOMAIN log = 1..Len(log) /\ Len(log) \in Nat
  BY LogFacts
<1>5. m <= Len(log) /\ m \in Nat
  <2>1. m = 0 \/ m \in DOMAIN log
    BY <1>3
  <2> QED
    BY <1>3, <1>4, <2>1
<1>6. OpsOf(file') = SubSeq(OpsOf(log), 1, m)
  BY <1>3, <1>4, <1>5, OpsOfPrefix
<1>7. Order = OpsOf(log) /\ Order' = OpsOf(file') /\ Len(Order) = Len(log)
  BY <1>1, <1>4, OpsOfFacts DEF Order, OpsOf
<1>8. Told' = Told
  BY <1>1 DEF Told
<1>9. m \in Len(file)..Len(Order)
  BY <1>3, <1>5, <1>7
<1>10. Promise!Restart(m)
  BY <1>3, <1>6, <1>7, <1>8 DEF Promise!Restart, Order, Told
<1> QED
  BY <1>9, <1>10

(* The recovery goes on with the operations of the file.                    *)
LEMMA RecoverUnseen ==
  ASSUME IInv, Recover
  PROVE  UNCHANGED Promise!vars
<1>1. ~up /\ up' /\ UNCHANGED <<file, published, acknowledged>>
  BY DEF Recover, diskVars, historyVars
<1>2. sequencer'.operationLog = file
  BY DEF Recover, Booted, Recovered
<1>3. OpsOf(IF up THEN sequencer.operationLog ELSE file)'
        = OpsOf(IF up THEN sequencer.operationLog ELSE file)
  BY <1>1, <1>2 DEF OpsOf
<1> QED
  BY <1>1, <1>3 DEF Promise!vars

(* Every step of the room is a step of the ordered log, or not seen.        *)
LEMMA StepImplements ==
  ASSUME IInv, IInv', [Next]_vars
  PROVE  [Promise!Next]_(Promise!vars)
<1>1. CASE Join
  <2>1. /\ up /\ published' = published \cup EntriesUpTo(sequencer, frontier.revision)
        /\ UNCHANGED <<up, sequencer, file, acknowledged>>
    BY <1>1 DEF Join, diskVars
  <2> QED
    BY <2>1, ShownStep DEF Promise!Next
<1>2. CASE \E k \in DOMAIN connections : Disconnect(k)
  <2>1. UNCHANGED <<up, sequencer, file, published, acknowledged>>
    BY <1>2 DEF Disconnect, diskVars, historyVars
  <2> QED
    BY <2>1, Unseen
<1>3. CASE \E k \in DOMAIN connections : Catchup(k)
  <2>1. /\ up /\ published' = published \cup EntriesUpTo(sequencer, frontier.revision)
        /\ UNCHANGED <<up, sequencer, file, acknowledged>>
    BY <1>3 DEF Catchup, diskVars
  <2> QED
    BY <2>1, ShownStep DEF Promise!Next
<1>4. CASE \E k \in DOMAIN connections, o \in OpId, n \in 1..MaxSequence,
              b \in {0, sequencer.currentRevision + 1}, authorized \in BOOLEAN :
             Submit(k, Envelope(o, n, b), authorized)
  <2> PICK k \in DOMAIN connections, o \in OpId, n \in 1..MaxSequence,
           b \in {0, sequencer.currentRevision + 1}, authorized \in BOOLEAN :
             Submit(k, Envelope(o, n, b), authorized)
    BY <1>4
  <2>1. n \in Nat
    BY BoundsAssumption
  <2>2. Promise!Accept(o) \/ UNCHANGED Promise!vars
    BY <2>1, SubmitImplements DEF Submit
  <2> QED
    BY <2>2 DEF Promise!Next
<1>5. CASE \E o \in OpId : SubmitFromServer(o)
  <2> PICK o \in OpId : SubmitFromServer(o)
    BY <1>5
  <2>1. ExpectedSequence(sequencer, ServerClient) \in Nat
    BY LogFacts, ServerAssumption DEF ExpectedSequence
  <2>2. Promise!Accept(o) \/ UNCHANGED Promise!vars
    BY <2>1, SubmitImplements DEF SubmitFromServer
  <2> QED
    BY <2>2 DEF Promise!Next
<1>6. CASE FlushSucceeds
  BY <1>6, FlushImplements DEF Promise!Next
<1>7. CASE FlushFails
  BY <1>7, Unseen DEF FlushFails, diskVars, historyVars
<1>8. CASE SnapshotEnds
  BY <1>8, Unseen DEF SnapshotEnds, historyVars
<1>9. CASE \E i \in DOMAIN deliveries : Settle(i)
  <2>1. UNCHANGED <<up, sequencer, file, published, acknowledged>>
    BY <1>9 DEF Settle, diskVars, historyVars
  <2> QED
    BY <2>1, Unseen
<1>10. CASE \E i \in DOMAIN deliveries : Deliver(i)
  BY <1>10, DispatchStep DEF Promise!Next
<1>11. CASE Close \/ CloseStore
  <2>1. UNCHANGED <<up, sequencer, file, published, acknowledged>>
    BY <1>11 DEF Close, CloseStore, diskVars, historyVars
  <2> QED
    BY <2>1, Unseen
<1>12. CASE \E n \in 0..Len(writing), torn \in BOOLEAN : Crash(n, torn)
  <2> PICK n \in 0..Len(writing), torn \in BOOLEAN : Crash(n, torn)
    BY <1>12
  <2> QED
    BY CrashImplements DEF Promise!Next, Order
<1>13. CASE Recover
  BY <1>13, RecoverUnseen
<1>14. CASE UNCHANGED vars
  BY <1>14, Unseen DEF vars, processVars, diskVars, historyVars
<1> QED
  BY <1>1, <1>2, <1>3, <1>4, <1>5, <1>6, <1>7, <1>8, <1>9, <1>10, <1>11, <1>12, <1>13, <1>14
     DEF Next

(* Every behaviour of the room is one of the ordered log: each accepted     *)
(* operation takes its place once (sequencer.ts), what a synced log holds   *)
(* is never taken back by a crash (oplog-store.ts:2-8), and no ACK,         *)
(* broadcast, bootstrap or catch-up tells of anything that is not durable   *)
(* (persistent-room.ts:2-14).                                               *)
THEOREM RoomImplementsOrderedLog == Spec => ImplementsOrderedLog
<1>1. Init => Promise!Init
  <2> SUFFICES ASSUME Init PROVE Promise!Init
    OBVIOUS
  <2>1. sequencer.operationLog = <<>> /\ file = <<>> /\ up = TRUE
        /\ published = {} /\ acknowledged = {}
    BY DEF Init, FreshState
  <2>2. OpsOf(IF up THEN sequencer.operationLog ELSE file) = <<>>
    BY <2>1 DEF OpsOf
  <2> QED
    BY <2>1, <2>2 DEF Promise!Init
<1>2. IInv /\ IInv' /\ [Next]_vars => [Promise!Next]_(Promise!vars)
  BY StepImplements
<1>3. Spec => []IInv
  BY Invariance
<1> QED
  BY <1>1, <1>2, <1>3, PTL DEF Spec, ImplementsOrderedLog, Promise!Spec

-----------------------------------------------------------------------------
(* Logs that share a beginning.                                             *)

(* b is a with more behind it.                                              *)
Extends(b, a) ==
  /\ a \in Seq(Entries) /\ b \in Seq(Entries)
  /\ Len(a) \in Nat /\ Len(b) \in Nat /\ Len(a) <= Len(b)
  /\ DOMAIN a = 1..Len(a) /\ DOMAIN b = 1..Len(b)
  /\ \A i \in 1..Len(a) : b[i] = a[i]

(* What both have they have in common.                                      *)
LEMMA ExtendsFacts ==
  ASSUME NEW a \in Seq(Entries), NEW b \in Seq(Entries),
         \A i \in DOMAIN a : i \in DOMAIN b /\ b[i] = a[i]
  PROVE  Extends(b, a)
<1>1. /\ Len(a) \in Nat /\ Len(b) \in Nat /\ DOMAIN a = 1..Len(a) /\ DOMAIN b = 1..Len(b)
  OBVIOUS
<1>2. Len(a) <= Len(b)
  <2>1. CASE Len(a) = 0
    BY <1>1, <2>1
  <2>2. CASE Len(a) # 0
    <3>1. Len(a) \in DOMAIN a
      BY <1>1, <2>2
    <3>2. Len(a) \in DOMAIN b
      BY <3>1
    <3> QED
      BY <1>1, <3>2
  <2> QED
    BY <2>1, <2>2
<1> QED
  BY <1>1, <1>2 DEF Extends

(* A document depends on the entries up to its revision only.               *)
LEMMA DocumentAtAgree ==
  ASSUME NEW a, NEW b, Extends(b, a), NEW n \in 0..Len(a)
  PROVE  DocumentAt(b, n) = DocumentAt(a, n)
<1>1. /\ a \in Seq(Entries) /\ b \in Seq(Entries)
      /\ Len(a) \in Nat /\ Len(b) \in Nat /\ Len(a) <= Len(b)
      /\ \A i \in 1..Len(a) : b[i] = a[i]
  BY DEF Extends
<1>2. SubSeq(b, 1, n) = SubSeq(a, 1, n)
  <2>1. /\ SubSeq(a, 1, n) \in Seq(Entries) /\ SubSeq(b, 1, n) \in Seq(Entries)
        /\ Len(SubSeq(a, 1, n)) = n /\ Len(SubSeq(b, 1, n)) = n
        /\ \A i \in 1..n : SubSeq(a, 1, n)[i] = a[i] /\ SubSeq(b, 1, n)[i] = b[i]
    BY <1>1, SubSeqProperties
  <2>2. \A i \in 1..n : a[i] = b[i]
    BY <1>1
  <2>3. \A i \in 1..n : SubSeq(b, 1, n)[i] = SubSeq(a, 1, n)[i]
    BY <2>1, <2>2, Zenon
  <2> QED
    BY <2>1, <2>3, SeqEqual
<1> QED
  BY <1>2 DEF DocumentAt

(* A shorter history is as sound.                                           *)
LEMMA HistoryCut ==
  ASSUME NEW a, NEW b, Extends(b, a), HistorySound(b)
  PROVE  HistorySound(a)
<1>1. \A n \in 0..Len(a) : n \in 0..Len(b)
  BY DEF Extends
<1> QED
  BY <1>1, DocumentAtAgree DEF HistorySound

(* ACKs stay good while the log grows.                                      *)
LEMMA AcksKept ==
  ASSUME NEW a, NEW b, Extends(b, a), NEW n \in 0..Len(a), NEW m \in 0..Len(b), n <= m,
         NEW acks, AcksSound(a, n, acks)
  PROVE  AcksSound(b, m, acks)
<1>1. Len(a) \in Nat /\ Len(b) \in Nat /\ DOMAIN a = 1..Len(a) /\ DOMAIN b = 1..Len(b)
      /\ Len(a) <= Len(b) /\ \A i \in 1..Len(a) : b[i] = a[i]
  BY DEF Extends
<1> SUFFICES ASSUME NEW o \in DOMAIN acks
             PROVE  /\ o \in OpId /\ acks[o] \in 0..m
                    /\ \/ acks[o] \in DOMAIN b /\ b[acks[o]].op = o
                       \/ IsEmptyChangeSet(DocumentAt(b, acks[o]), Content[o])
  BY DEF AcksSound
<1>2. /\ o \in OpId /\ acks[o] \in 0..n
      /\ \/ acks[o] \in DOMAIN a /\ a[acks[o]].op = o
         \/ IsEmptyChangeSet(DocumentAt(a, acks[o]), Content[o])
  BY DEF AcksSound
<1>3. acks[o] \in 0..Len(a) /\ acks[o] \in 0..m
  BY <1>1, <1>2
<1>4. DocumentAt(b, acks[o]) = DocumentAt(a, acks[o])
  BY <1>3, DocumentAtAgree
<1>5. acks[o] \in DOMAIN a => acks[o] \in DOMAIN b /\ b[acks[o]] = a[acks[o]]
  BY <1>1
<1> QED
  BY <1>2, <1>3, <1>4, <1>5

(* Snapshots stay faithful while the file grows.                            *)
LEMMA SnapshotKept ==
  ASSUME NEW a, NEW b, Extends(b, a), NEW s, s.revision \in 0..Len(a), SnapshotFaithful(a, s)
  PROVE  SnapshotFaithful(b, s)
<1>1. s.revision \in 0..Len(b) /\ s.revision <= s.revision
  BY DEF Extends
<1>2. AcksSound(b, s.revision, s.ackCache)
  BY <1>1, AcksKept DEF SnapshotFaithful
<1> QED
  BY <1>2, DocumentAtAgree DEF SnapshotFaithful

(* Captures stay sound while the log grows and the table with it.           *)
LEMMA CaptureKept ==
  ASSUME NEW s, NEW t, Extends(t.operationLog, s.operationLog),
         s.clientSequenceTable \in [Client -> Nat], t.clientSequenceTable \in [Client -> Nat],
         \A c \in Client : s.clientSequenceTable[c] <= t.clientSequenceTable[c],
         \A i \in Len(s.operationLog)+1..Len(t.operationLog) :
           LET e == t.operationLog[i]
           IN  e.client \in Client /\ e.seq \in Nat /\ s.clientSequenceTable[e.client] < e.seq,
         NEW f, f.sequences \in [Client -> Nat], CaptureSound(s, f)
  PROVE  CaptureSound(t, f)
<1> DEFINE old == s.operationLog
           new == t.operationLog
           before == s.clientSequenceTable
           after == t.clientSequenceTable
           q == f.sequences
           r == f.revision
<1>1. /\ Len(old) \in Nat /\ Len(new) \in Nat /\ Len(old) <= Len(new)
      /\ DOMAIN old = 1..Len(old) /\ DOMAIN new = 1..Len(new)
      /\ \A i \in 1..Len(old) : new[i] = old[i]
  BY DEF Extends
<1>2. /\ r \in 0..Len(old) /\ f.document = DocumentAt(old, r)
      /\ \A c \in Client : q[c] <= before[c]
      /\ \A i \in DOMAIN old :
           IF i <= r THEN old[i].seq <= q[old[i].client] ELSE q[old[i].client] < old[i].seq
  BY DEF CaptureSound
<1>3. DocumentAt(new, r) = DocumentAt(old, r)
  BY <1>2, DocumentAtAgree
<1>4. \A c \in Client : q[c] \in Nat /\ before[c] \in Nat /\ after[c] \in Nat /\ before[c] <= after[c]
  OBVIOUS
<1>5. \A i \in Len(old)+1..Len(new) :
        new[i].client \in Client /\ new[i].seq \in Nat /\ before[new[i].client] < new[i].seq
  OBVIOUS
<1> HIDE DEF old, new, before, after, q, r
<1>6. r \in 0..Len(new)
  BY <1>1, <1>2
<1>7. ASSUME NEW c \in Client PROVE q[c] <= after[c]
  <2> DEFINE x == q[c]
             y == before[c]
             z == after[c]
  <2>1. x \in Nat /\ y \in Nat /\ z \in Nat /\ x <= y /\ y <= z
    BY <1>2, <1>4
  <2> HIDE DEF x, y, z
  <2>2. x <= z
    BY <2>1
  <2> QED
    BY <2>2 DEF x, z
<1>8. ASSUME NEW i \in 1..Len(new)
      PROVE  IF i <= r THEN new[i].seq <= q[new[i].client] ELSE q[new[i].client] < new[i].seq
  <2>1. CASE i \in 1..Len(old)
    BY <1>1, <1>2, <2>1
  <2>2. CASE i \in Len(old)+1..Len(new)
    <3>1. new[i].client \in Client /\ new[i].seq \in Nat /\ before[new[i].client] < new[i].seq
      BY <1>5, <2>2
    <3>2. ~(i <= r)
      BY <1>1, <1>2, <2>2
    <3>3. q[new[i].client] < new[i].seq
      <4> DEFINE c == new[i].client
                 e == new[i].seq
      <4>1. q[c] \in Nat /\ before[c] \in Nat /\ e \in Nat /\ q[c] <= before[c] /\ before[c] < e
        BY <1>2, <1>4, <3>1
      <4> HIDE DEF c, e
      <4>2. q[c] < e
        BY <4>1
      <4> QED
        BY <4>2 DEF c, e
    <3> QED
      BY <3>2, <3>3
  <2> QED
    BY <1>1, <2>1, <2>2
<1> QED
  BY <1>1, <1>2, <1>3, <1>6, <1>7, <1>8 DEF CaptureSound, old, new, after, q, r

(* Nothing logged, nothing changed.                                         *)
LEMMA DocumentAtStart ==
  ASSUME NEW a \in Seq(Entries)
  PROVE  DocumentAt(a, 0) = InitialDocument
<1>1. SubSeq(a, 1, 0) = <<>>
  OBVIOUS
<1> QED
  BY <1>1, ReplayEmpty DEF DocumentAt

(* A sequencer that starts on an empty log.                                 *)
LEMMA FreshFaithful ==
  LET s == FreshState(InitialDocument)
  IN  /\ s.operationLog = <<>> /\ HistorySound(<<>>)
      /\ MemoryFaithful(s) /\ CaptureSound(s, Frontier(s))
<1> DEFINE s == FreshState(InitialDocument)
<1>1. <<>> \in Seq(Entries) /\ Len(<<>>) = 0 /\ DOMAIN <<>> = {}
  OBVIOUS
<1>2. DocumentAt(<<>>, 0) = InitialDocument
  BY <1>1, DocumentAtStart
<1>3. /\ s.operationLog = <<>> /\ s.document = InitialDocument /\ s.currentRevision = 0
      /\ s.ackCache = <<>> /\ s.clientSequenceTable = [c \in Client |-> 0]
  BY DEF FreshState
<1>4. HistorySound(<<>>)
  BY <1>1, <1>2, InitialAssumption DEF HistorySound
<1> HIDE DEF s
<1>5. MemoryFaithful(s)
  BY <1>1, <1>2, <1>3 DEF MemoryFaithful, AcksSound
<1>6. CaptureSound(s, Frontier(s))
  <2>1. /\ Frontier(s).revision = 0 /\ Frontier(s).document = InitialDocument
        /\ Frontier(s).sequences = [c \in Client |-> 0]
    BY <1>3 DEF Frontier
  <2> QED
    BY <1>1, <1>2, <1>3, <2>1 DEF CaptureSound
<1> QED
  BY <1>3, <1>4, <1>5, <1>6 DEF s

-----------------------------------------------------------------------------
(* The first start and the steps that change no document.                   *)

(* The first start.                                                         *)
LEMMA InitRestart == Init => RestartInv
<1> SUFFICES ASSUME Init PROVE RestartInv
  OBVIOUS
<1> DEFINE s == FreshState(InitialDocument)
<1>1. /\ up = TRUE /\ sequencer = s /\ frontier = Frontier(s)
      /\ deliveries = <<>> /\ snapshotWrite = NoSnapshot /\ file = <<>>
      /\ snapshots = {PersistedSnapshot(s)}
  BY DEF Init
<1>2. /\ s.operationLog = <<>> /\ HistorySound(<<>>)
      /\ MemoryFaithful(s) /\ CaptureSound(s, Frontier(s))
  BY FreshFaithful
<1>3. SnapshotFaithful(<<>>, PersistedSnapshot(s))
  <2>1. <<>> \in Seq(Entries) /\ DOMAIN <<>> = {}
    OBVIOUS
  <2>2. DocumentAt(<<>>, 0) = InitialDocument
    BY <2>1, DocumentAtStart
  <2>3. s.document = InitialDocument /\ s.currentRevision = 0 /\ s.ackCache = <<>>
    BY DEF FreshState
  <2> HIDE DEF s
  <2>4. /\ PersistedSnapshot(s).revision = 0 /\ PersistedSnapshot(s).currentRevision = 0
        /\ PersistedSnapshot(s).document = SerializeDocument(InitialDocument)
        /\ PersistedSnapshot(s).ackCache = <<>>
    BY <2>3 DEF PersistedSnapshot
  <2> QED
    BY <2>1, <2>2, <2>4 DEF SnapshotFaithful, AcksSound
<1>4. ToSet(deliveries) = {}
  BY <1>1 DEF ToSet
<1> HIDE DEF s
<1> QED
  BY <1>1, <1>2, <1>3, <1>4 DEF RestartInv

(* Log, frontier, file and snapshots untouched, and no capture new.         *)
LEMMA RestartFrame ==
  ASSUME RestartInv, UNCHANGED <<up, sequencer, frontier, file, snapshots, snapshotWrite>>,
         \A c \in ToSet(deliveries') : c.status = "accepted" =>
           \E d \in ToSet(deliveries) : d.status = "accepted" /\ d.frontier = c.frontier
  PROVE  RestartInv'
<1>1. \A c \in ToSet(deliveries') : c.status = "accepted" => CaptureSound(sequencer, c.frontier)
  BY DEF RestartInv
<1>2. /\ HistorySound(IF up THEN sequencer.operationLog ELSE file)
      /\ MemoryFaithful(sequencer) /\ CaptureSound(sequencer, frontier)
      /\ \A s \in snapshots : SnapshotFaithful(file, s)
      /\ snapshotWrite # NoSnapshot => SnapshotFaithful(file, snapshotWrite)
  BY DEF RestartInv
<1> QED
  BY <1>1, <1>2 DEF RestartInv, ToSet

-----------------------------------------------------------------------------
(* One submitOperation frame.                                               *)

(* What every submit leaves alone keeps its part.                           *)
LEMMA SubmitRestartAssembled ==
  ASSUME IInv, IInv', RestartInv, up, SubmitFrame,
         Extends(sequencer'.operationLog, sequencer.operationLog),
         \A c \in Client :
           sequencer.clientSequenceTable[c] <= sequencer'.clientSequenceTable[c],
         \A i \in Len(sequencer.operationLog)+1..Len(sequencer'.operationLog) :
           LET e == sequencer'.operationLog[i]
           IN  /\ e.client \in Client /\ e.seq \in Nat
               /\ sequencer.clientSequenceTable[e.client] < e.seq,
         HistorySound(sequencer'.operationLog), MemoryFaithful(sequencer'),
         \A c \in ToSet(deliveries') : c.status = "accepted" =>
           c \in ToSet(deliveries) \/ CaptureSound(sequencer', c.frontier)
  PROVE  RestartInv'
<1>1. /\ up' = up /\ frontier' = frontier /\ file' = file /\ snapshots' = snapshots
      /\ snapshotWrite' = snapshotWrite
  BY DEF SubmitFrame, diskVars, snapshotVars
<1>2. /\ sequencer.clientSequenceTable \in [Client -> Nat]
      /\ sequencer'.clientSequenceTable \in [Client -> Nat]
      /\ frontier.sequences \in [Client -> Nat]
  BY DEF IInv, TypeOK
<1>3. \A f : f.sequences \in [Client -> Nat] /\ CaptureSound(sequencer, f)
               => CaptureSound(sequencer', f)
  BY <1>2, CaptureKept
<1>4. CaptureSound(sequencer', frontier')
  BY <1>1, <1>2, <1>3 DEF RestartInv
<1>5. ASSUME NEW c \in ToSet(deliveries'), c.status = "accepted"
      PROVE  CaptureSound(sequencer', c.frontier)
  <2>1. CASE c \in ToSet(deliveries)
    <3>1. c.frontier.sequences \in [Client -> Nat]
      BY <1>5, <2>1 DEF IInv, DeliverySound
    <3>2. CaptureSound(sequencer, c.frontier)
      BY <1>5, <2>1 DEF RestartInv
    <3> QED
      BY <1>3, <3>1, <3>2
  <2> QED
    BY <1>5, <2>1
<1>6. /\ \A s \in snapshots : SnapshotFaithful(file, s)
      /\ snapshotWrite # NoSnapshot => SnapshotFaithful(file, snapshotWrite)
  BY DEF RestartInv
<1> QED
  BY <1>1, <1>4, <1>5, <1>6 DEF RestartInv, ToSet

(* A submit that is not accepted: at most one more ACK, of an operation     *)
(* that changes nothing.                                                    *)
LEMMA RepliedMemory ==
  ASSUME IInv, NEW o \in OpId, NEW n \in Nat, NEW b, NEW a,
         Verdict(sequencer, Envelope(o, n, b), a) # "accepted",
         sequencer' = Submitted(sequencer, Envelope(o, n, b),
                                Verdict(sequencer, Envelope(o, n, b), a))
  PROVE  /\ sequencer'.document = sequencer.document
         /\ \/ sequencer'.ackCache = sequencer.ackCache
            \/ /\ sequencer'.ackCache = Put(sequencer.ackCache, o, sequencer.currentRevision)
               /\ IsEmptyChangeSet(sequencer.document, Content[o])
<1> DEFINE e == Envelope(o, n, b)
           v == Verdict(sequencer, e, a)
<1>1. e.op = o /\ e.operation = Content[o]
  BY EnvelopeFacts
<1>2. DOMAIN sequencer = {"document", "operationLog", "currentRevision",
                            "ackCache", "clientSequenceTable"}
  BY DEF IInv, TypeOK
<1>3. v = "noop" => IsEmptyChangeSet(sequencer.document, e.operation)
  BY <1>1, VerdictMeaning, ContentAssumption
<1> HIDE DEF e
<1>4. /\ DOMAIN Consumed(sequencer, e) = DOMAIN sequencer
      /\ Consumed(sequencer, e).document = sequencer.document
      /\ Consumed(sequencer, e).ackCache = sequencer.ackCache
  BY <1>2 DEF Consumed
<1>5. CASE v \in {"duplicate", "client-sequence-violation"}
  <2>1. sequencer' = sequencer
    BY <1>5 DEF Submitted, e
  <2> QED
    BY <2>1
<1>6. CASE v = "noop"
  <2>1. sequencer' = Noop(sequencer, e)
    BY <1>6 DEF Submitted, e
  <2> QED
    BY <1>1, <1>2, <1>3, <1>4, <1>6, <2>1 DEF Noop
<1>7. CASE v \notin {"duplicate", "client-sequence-violation", "noop"}
  <2>1. sequencer' = Consumed(sequencer, e)
    BY <1>7 DEF Submitted, e
  <2> QED
    BY <1>4, <2>1
<1> QED
  BY <1>5, <1>6, <1>7

(* An accepted submit: valid on the current document, and applied to it.    *)
LEMMA AcceptedMemory ==
  ASSUME IInv, NEW o \in OpId, NEW n \in Nat, NEW b, NEW a,
         Verdict(sequencer, Envelope(o, n, b), a) = "accepted",
         sequencer' = Submitted(sequencer, Envelope(o, n, b), "accepted")
  PROVE  /\ Violations(sequencer.document, Content[o]) = {}
         /\ sequencer'.document =
              ApplyOperation(sequencer.document, Content[o], Len(sequencer.operationLog) + 1)
<1> DEFINE e == Envelope(o, n, b)
           next == sequencer.currentRevision + 1
<1>1. e.op = o /\ e.operation = Content[o]
  BY EnvelopeFacts
<1>2. /\ DOMAIN sequencer = {"document", "operationLog", "currentRevision",
                            "ackCache", "clientSequenceTable"}
      /\ next = Len(sequencer.operationLog) + 1
  BY DEF IInv, TypeOK, LogSound
<1>3. Violations(sequencer.document, e.operation) = {}
  BY <1>1, VerdictMeaning, ContentAssumption
<1>4. sequencer' = Accepted(sequencer, e)
  BY DEF Submitted
<1> HIDE DEF e
<1>5. /\ DOMAIN Consumed(sequencer, e) = DOMAIN sequencer
      /\ Consumed(sequencer, e).document = sequencer.document
  BY <1>2 DEF Consumed
<1>6. sequencer'.document = ApplyOperation(sequencer.document, e.operation, next)
  BY <1>2, <1>4, <1>5 DEF Accepted
<1> QED
  BY <1>1, <1>2, <1>3, <1>6

(* The document of the next revision.                                       *)
LEMMA NextDocument ==
  ASSUME NEW a, NEW b, Extends(b, a), Len(b) = Len(a) + 1, HistorySound(a),
         Violations(DocumentAt(a, Len(a)), b[Len(b)].operation) = {},
         IsOperation(b[Len(b)].operation), b[Len(b)].rev = Len(b)
  PROVE  /\ DocumentAt(b, Len(b)) =
              ApplyOperation(DocumentAt(a, Len(a)), b[Len(b)].operation, Len(b))
         /\ HistorySound(b)
<1> DEFINE n == Len(a)
           m == Len(b)
           op == b[m].operation
           d == DocumentAt(a, n)
<1>1. /\ b \in Seq(Entries) /\ n \in Nat /\ m = n + 1 /\ m \in 1..Len(b) /\ m - 1 = n
      /\ n \in 0..Len(a)
  BY DEF Extends
<1>2. DocumentAt(b, m) = ApplyOperation(DocumentAt(b, m - 1), op, m)
  BY <1>1, ReplayStep DEF DocumentAt
<1>3. DocumentAt(b, m) = ApplyOperation(d, op, m)
  BY <1>1, <1>2, DocumentAtAgree
<1>4. WellFormed(d) /\ d.revision = n /\ n <= m
  BY <1>1 DEF HistorySound
<1>5. WellFormed(ApplyOperation(d, op, m)) /\ ApplyOperation(d, op, m).revision = m
  <2>1. Violations(d, op) = {} /\ IsOperation(op) /\ m \in Nat
    BY <1>1
  <2> HIDE DEF d, op, m
  <2> QED
    BY <1>4, <2>1, ApplyWellFormed
<1> HIDE DEF d, op
<1>6. ASSUME NEW i \in 0..m PROVE WellFormed(DocumentAt(b, i)) /\ DocumentAt(b, i).revision = i
  <2>1. CASE i = m
    BY <1>3, <1>5, <2>1
  <2>2. CASE i \in 0..n
    BY <2>2, DocumentAtAgree DEF HistorySound
  <2> QED
    BY <1>1, <2>1, <2>2
<1> QED
  BY <1>3, <1>6 DEF HistorySound, d, op

(* An accepted submit gives the log one more sound revision, and captures   *)
(* it.                                                                      *)
LEMMA SubmitAcceptedRestart ==
  ASSUME IInv, IInv', RestartInv, SubmitFrame, up,
         NEW k, NEW o \in OpId, NEW n \in Nat, NEW b, NEW a,
         SubmitAccepted(k, Envelope(o, n, b), Verdict(sequencer, Envelope(o, n, b), a))
  PROVE  RestartInv'
<1> DEFINE log == sequencer.operationLog
           new == sequencer'.operationLog
           next == Len(log) + 1
           entry == LogEntry(Envelope(o, n, b), next)
           d == Delivery(k, Envelope(o, n, b), "accepted",
                  IF storeClosed \/ failed THEN "broken" ELSE "appending", Frontier(sequencer'))
<1>1. /\ sequencer' = Submitted(sequencer, Envelope(o, n, b), "accepted")
      /\ Verdict(sequencer, Envelope(o, n, b), a) = "accepted"
      /\ deliveries' = Append(deliveries, d)
  BY DEF SubmitAccepted
<1>2. /\ entry \in Entries
      /\ new = Append(log, entry)
      /\ sequencer'.currentRevision = next
      /\ n = sequencer.clientSequenceTable[Owner[o]] + 1
      /\ sequencer'.clientSequenceTable =
           [sequencer.clientSequenceTable EXCEPT ![Owner[o]] = n]
      /\ sequencer'.ackCache = Put(sequencer.ackCache, o, next)
  BY <1>1, AcceptedFacts
<1>3. /\ Violations(sequencer.document, Content[o]) = {}
      /\ sequencer'.document = ApplyOperation(sequencer.document, Content[o], next)
  BY <1>1, AcceptedMemory
<1>4. /\ entry.op = o /\ entry.client = Owner[o] /\ entry.seq = n /\ entry.rev = next
      /\ entry.operation = Content[o]
  BY EnvelopeFacts DEF LogEntry
<1>5. log \in Seq(Entries) /\ Len(log) \in Nat /\ DOMAIN log = 1..Len(log) /\ next \in Nat
  BY LogFacts
<1>6. d.frontier = Frontier(sequencer')
  BY DeliveryFields
<1> HIDE DEF d, entry
<1>7. /\ new \in Seq(Entries) /\ Len(new) = next /\ DOMAIN new = 1..next
      /\ \A i \in 1..Len(log) : new[i] = log[i]
      /\ new[next] = entry
  BY <1>2, <1>5, AppendProperties
<1> HIDE DEF log, new
<1>8. Extends(new, log)
  BY <1>5, <1>7 DEF Extends
<1>9. sequencer.document = DocumentAt(log, Len(log)) /\ AcksSound(log, Len(log), sequencer.ackCache)
      /\ HistorySound(log)
  BY DEF RestartInv, MemoryFaithful, log
<1>10. /\ DocumentAt(new, next) = sequencer'.document
       /\ HistorySound(new)
  BY <1>3, <1>4, <1>5, <1>7, <1>8, <1>9, NextDocument, ContentAssumption
<1>11. AcksSound(new, next, sequencer'.ackCache)
  <2>1. AcksSound(new, next, sequencer.ackCache)
    BY <1>5, <1>7, <1>8, <1>9, AcksKept
  <2>2. next \in 0..next /\ next \in DOMAIN new /\ new[next].op = o
    BY <1>4, <1>5, <1>7
  <2> QED
    BY <1>2, <2>1, <2>2 DEF AcksSound, Put
<1>12. MemoryFaithful(sequencer')
  BY <1>7, <1>10, <1>11 DEF MemoryFaithful, new
<1>13. CaptureSound(sequencer', Frontier(sequencer'))
  <2>1. /\ Frontier(sequencer').revision = next
        /\ Frontier(sequencer').document = sequencer'.document
        /\ Frontier(sequencer').sequences = sequencer'.clientSequenceTable
    BY <1>2 DEF Frontier
  <2>2. sequencer'.clientSequenceTable \in [Client -> Nat]
    BY DEF IInv, TypeOK
  <2>3. \A i \in DOMAIN new : new[i].seq <= sequencer'.clientSequenceTable[new[i].client]
    BY DEF IInv, LogSound, new
  <2>4. next \in 0..Len(new) /\ \A i \in DOMAIN new : i <= next
    BY <1>5, <1>7
  <2> QED
    BY <1>10, <2>1, <2>2, <2>3, <2>4 DEF CaptureSound, new
<1>14. \A c \in ToSet(deliveries') : c \in ToSet(deliveries) \/ c = d
  <2>1. deliveries \in Seq(ToSet(deliveries))
    BY DEF IInv, TypeOK
  <2> QED
    BY <1>1, <2>1, AppendElements
<1>15. /\ Owner[o] \in Client /\ sequencer.clientSequenceTable \in [Client -> Nat]
  BY OwnerAssumption DEF IInv, TypeOK
<1>16. \A c \in Client :
         sequencer.clientSequenceTable[c] <= sequencer'.clientSequenceTable[c]
  <2> DEFINE table == sequencer.clientSequenceTable
  <2>1. table \in [Client -> Nat] /\ n = table[Owner[o]] + 1
        /\ sequencer'.clientSequenceTable = [table EXCEPT ![Owner[o]] = n]
    BY <1>2, <1>15
  <2> HIDE DEF table
  <2> QED
    BY <1>15, <2>1 DEF table
<1>17. \A i \in Len(log)+1..Len(new) :
         LET e == new[i]
         IN  /\ e.client \in Client /\ e.seq \in Nat
             /\ sequencer.clientSequenceTable[e.client] < e.seq
  <2>1. \A i \in Len(log)+1..Len(new) : i = next
    BY <1>5, <1>7
  <2>2. /\ new[next].client = Owner[o] /\ new[next].seq = n
        /\ sequencer.clientSequenceTable[Owner[o]] < n
    BY <1>2, <1>4, <1>7, <1>15
  <2> QED
    BY <1>15, <2>1, <2>2
<1> QED
  BY <1>6, <1>8, <1>10, <1>12, <1>13, <1>14, <1>16, <1>17, SubmitRestartAssembled DEF log, new

(* A submit that logs nothing changes at most the ACKs and the numbers.     *)
LEMMA SubmitRepliedRestart ==
  ASSUME IInv, IInv', RestartInv, SubmitFrame, up,
         NEW k, NEW o \in OpId, NEW n \in Nat, NEW b, NEW a,
         SubmitReplied(k, Envelope(o, n, b), Verdict(sequencer, Envelope(o, n, b), a))
  PROVE  RestartInv'
<1> DEFINE v == Verdict(sequencer, Envelope(o, n, b), a)
           d == Delivery(k, Envelope(o, n, b), ReplyKind(v), "ready", NoCapture)
           log == sequencer.operationLog
           m == sequencer.currentRevision
<1>1. d.status = ReplyKind(v)
  BY DeliveryFields
<1>2. deliveries' = Append(deliveries, d)
  BY DEF SubmitReplied
<1>3. d.status # "accepted"
  BY <1>1 DEF SubmitReplied, ReplyKind, Rejection
<1>4. /\ sequencer'.operationLog = log
      /\ \A c \in Client :
           sequencer.clientSequenceTable[c] <= sequencer'.clientSequenceTable[c]
  BY RepliedFacts DEF SubmitReplied
<1>5. /\ sequencer'.document = sequencer.document
      /\ \/ sequencer'.ackCache = sequencer.ackCache
         \/ /\ sequencer'.ackCache = Put(sequencer.ackCache, o, m)
            /\ IsEmptyChangeSet(sequencer.document, Content[o])
  BY RepliedMemory DEF SubmitReplied
<1>6. /\ log \in Seq(Entries) /\ Len(log) \in Nat /\ m = Len(log) /\ DOMAIN log = 1..Len(log)
  BY DEF IInv, TypeOK, LogSound
<1>7. /\ sequencer.document = DocumentAt(log, m) /\ AcksSound(log, m, sequencer.ackCache)
      /\ HistorySound(log)
  BY <1>6 DEF RestartInv, MemoryFaithful
<1> HIDE DEF d, v, log, m
<1>8. Extends(log, log)
  BY <1>6 DEF Extends
<1>9. AcksSound(log, m, sequencer'.ackCache)
  <2>1. m \in 0..m
    BY <1>6
  <2> QED
    BY <1>5, <1>7, <2>1 DEF AcksSound, Put
<1>10. MemoryFaithful(sequencer')
  BY <1>4, <1>5, <1>6, <1>7, <1>9 DEF MemoryFaithful
<1>11. \A c \in ToSet(deliveries') : c \in ToSet(deliveries) \/ c = d
  <2>1. deliveries \in Seq(ToSet(deliveries))
    BY DEF IInv, TypeOK
  <2> QED
    BY <1>2, <2>1, AppendElements
<1>12. \A i \in Len(log)+1..Len(log) : FALSE
  BY <1>6
<1> QED
  BY <1>3, <1>4, <1>7, <1>8, <1>10, <1>11, <1>12, SubmitRestartAssembled DEF log

(* One submitOperation frame.                                               *)
LEMMA SubmitRestart ==
  ASSUME IInv, IInv', RestartInv, NEW k, NEW o \in OpId, NEW n \in Nat, NEW b, NEW a,
         HandleSubmit(k, Envelope(o, n, b), a)
  PROVE  RestartInv'
<1>1. SubmitFrame /\ up
  BY BoundsAssumption DEF HandleSubmit, SubmitFrame, IInv, TypeOK, SubmitPoisoned, SubmitReplied,
     SubmitAccepted, AppendToStore, storeVars
<1>2. CASE SubmitPoisoned(k, Envelope(o, n, b))
  <2> DEFINE d == Delivery(k, Envelope(o, n, b), "poisoned", "failed", NoCapture)
  <2>1. d.status # "accepted"
    BY DeliveryFields
  <2>2. deliveries' = Append(deliveries, d) /\ sequencer' = sequencer
    BY <1>2 DEF SubmitPoisoned
  <2> HIDE DEF d
  <2>3. deliveries \in Seq(ToSet(deliveries))
    BY DEF IInv, TypeOK
  <2>4. \A c \in ToSet(deliveries') : c \in ToSet(deliveries) \/ c = d
    BY <2>2, <2>3, AppendElements
  <2>5. UNCHANGED <<up, sequencer, frontier, file, snapshots, snapshotWrite>>
    BY <1>1, <2>2 DEF SubmitFrame, diskVars, snapshotVars
  <2> QED
    BY <2>1, <2>4, <2>5, RestartFrame
<1> QED
  BY <1>1, <1>2, SubmitRepliedRestart, SubmitAcceptedRestart DEF HandleSubmit

-----------------------------------------------------------------------------
(* Snapshots and the file.                                                  *)

(* A snapshot is started on a state that is wholly in the file, and then    *)
(* file and log are the same.                                               *)
LEMMA StartedFaithful ==
  ASSUME IInv, RestartInv, up, UNCHANGED <<sequencer, file>>, NEW revision, NEW since,
         NEW inProgress, revision <= Len(file), MaybeSnapshot(revision, since, inProgress)
  PROVE  snapshotWrite' # NoSnapshot => SnapshotFaithful(file', snapshotWrite')
<1> DEFINE log == sequencer.operationLog
           idle == \/ closing \/ inProgress \/ since < SnapshotInterval
                   \/ revision # sequencer.currentRevision
<1>1. CASE idle
  <2>1. snapshotWrite' = IF inProgress THEN snapshotWrite ELSE NoSnapshot
    BY <1>1 DEF MaybeSnapshot
  <2> QED
    BY <2>1 DEF RestartInv
<1>2. CASE ~idle
  <2> DEFINE w == PersistedSnapshot(sequencer)
             n == Len(log)
  <2>1. snapshotWrite' = w /\ revision = sequencer.currentRevision
    BY <1>2 DEF MaybeSnapshot
  <2>2. /\ sequencer.currentRevision = n /\ n \in Nat /\ log \in Seq(Entries)
        /\ DOMAIN log = 1..n
    BY LogFacts DEF IInv, LogSound
  <2>3. /\ file \in Seq(Entries) /\ Len(file) \in Nat /\ DOMAIN file = 1..Len(file)
        /\ \A i \in 1..Len(file) : i \in DOMAIN log /\ file[i] = log[i]
    BY BatchFacts
  <2>4. Extends(log, file)
    BY <2>2, <2>3, ExtendsFacts
  <2>5. Len(file) = n
    BY <2>1, <2>2, <2>4 DEF Extends
  <2>6. Extends(file, log)
    BY <2>2, <2>3, <2>5 DEF Extends
  <2>7. sequencer.document = DocumentAt(log, n) /\ AcksSound(log, n, sequencer.ackCache)
    BY DEF RestartInv, MemoryFaithful
  <2> HIDE DEF log, n
  <2>8. n \in 0..Len(log) /\ n \in 0..Len(file) /\ n <= n
    BY <2>2, <2>5 DEF n
  <2>9. DocumentAt(file, n) = DocumentAt(log, n) /\ AcksSound(file, n, sequencer.ackCache)
    BY <2>6, <2>7, <2>8, DocumentAtAgree, AcksKept
  <2>10. /\ w.revision = n /\ w.currentRevision = n /\ w.ackCache = sequencer.ackCache
         /\ w.document = SerializeDocument(sequencer.document)
    BY <2>2 DEF PersistedSnapshot
  <2> HIDE DEF w
  <2>11. SnapshotFaithful(file, w)
    BY <2>7, <2>9, <2>10 DEF SnapshotFaithful
  <2> QED
    BY <2>1, <2>11
<1> QED
  BY <1>1, <1>2

(* The end of a snapshot write leaves no snapshot but the old ones and the  *)
(* new one.                                                                 *)
LEMMA SnapshotEndsRestart == IInv /\ RestartInv /\ SnapshotEnds => RestartInv'
<1> SUFFICES ASSUME IInv, RestartInv, SnapshotEnds PROVE RestartInv'
  OBVIOUS
<1>1. /\ up /\ snapshotWrite # NoSnapshot
      /\ snapshots' \in AfterSave(snapshotWrite)
      /\ MaybeSnapshot(frontier.revision, opsSinceSnapshot, FALSE)
      /\ UNCHANGED <<up, sequencer, frontier, deliveries, file>>
  BY DEF SnapshotEnds
<1>2. snapshotWrite' # NoSnapshot => SnapshotFaithful(file', snapshotWrite')
  BY <1>1, TypeParts, StartedFaithful
<1>3. snapshots' \subseteq snapshots \cup {snapshotWrite}
  BY <1>1 DEF AfterSave, Pruned
<1> QED
  BY <1>1, <1>2, <1>3 DEF RestartInv, ToSet

(* What is in the file stays there, so snapshots stay faithful to it.       *)
LEMMA SnapshotsKept ==
  ASSUME IInv, RestartInv, file' \in Seq(Entries), FileKept
  PROVE  /\ \A s \in snapshots : SnapshotFaithful(file', s)
         /\ snapshotWrite # NoSnapshot => SnapshotFaithful(file', snapshotWrite)
<1>1. Extends(file', file)
  BY BatchFacts DEF FileKept, Extends
<1>2. /\ \A s \in snapshots : s.revision \in 0..Len(file) /\ SnapshotFaithful(file, s)
      /\ snapshotWrite # NoSnapshot =>
           snapshotWrite.revision \in 0..Len(file) /\ SnapshotFaithful(file, snapshotWrite)
  BY DEF IInv, RestartInv, SnapshotsSound, SnapshotSound
<1> QED
  BY <1>1, <1>2, SnapshotKept

(* A group commit, successful or not, adds no delivery.                     *)
LEMMA FlushRestart ==
  ASSUME IInv, RestartInv, FlushSucceeds \/ FlushFails
  PROVE  RestartInv'
<1>1. /\ up /\ UNCHANGED <<up, sequencer, frontier, snapshots, snapshotWrite>>
      /\ file' \in Seq(Entries) /\ FileKept
      /\ \E S : \E t \in States : Resolve(S, t)
  <2>1. CASE FlushSucceeds
    <3>1. file' = file \o SubSeq(writing, 1, Len(writing)) /\ Len(writing) \in 0..Len(writing)
      <4>1. file' = file \o writing
        BY <2>1 DEF FlushSucceeds, Lines, TailAfterOpen
      <4>2. writing \in Seq(Entries) /\ Len(writing) \in Nat
        BY BatchFacts
      <4>3. SubSeq(writing, 1, Len(writing)) = writing
        BY <4>2
      <4> QED
        BY <4>1, <4>2, <4>3
    <3>2. up
      BY <2>1 DEF FlushSucceeds
    <3>3. FileKept /\ file' \in Seq(Entries)
      BY <3>1, <3>2, FileExtended
    <3>4. "synced" \in States
      BY DEF States
    <3> QED
      BY <2>1, <3>3, <3>4 DEF FlushSucceeds, snapshotVars
  <2>2. CASE FlushFails
    <3>1. UNCHANGED file /\ file \in Seq(Entries)
      BY <2>2, BatchFacts DEF FlushFails, diskVars
    <3>2. FileKept
      BY <3>1, FileKeptIfUnchanged
    <3>3. "broken" \in States
      BY DEF States
    <3> QED
      BY <2>2, <3>1, <3>2, <3>3 DEF FlushFails, snapshotVars, diskVars
  <2> QED
    BY <2>1, <2>2
<1>2. PICK S : \E t \in States : Resolve(S, t)
  BY <1>1
<1>. PICK t \in States : Resolve(S, t)
  BY <1>2
<1>3. \A c \in ToSet(deliveries') :
        \/ c \in ToSet(deliveries)
        \/ \E d \in ToSet(deliveries) : Moved(c, d, t)
  BY ResolveFacts
<1>4. \A c \in ToSet(deliveries') : c.status = "accepted" =>
        \E d \in ToSet(deliveries) : d.status = "accepted" /\ d.frontier = c.frontier
  BY <1>3 DEF Moved
<1>5. \A c \in ToSet(deliveries') : c.status = "accepted" => CaptureSound(sequencer, c.frontier)
  BY <1>4 DEF RestartInv
<1>6. /\ \A s \in snapshots : SnapshotFaithful(file', s)
      /\ snapshotWrite # NoSnapshot => SnapshotFaithful(file', snapshotWrite)
  BY <1>1, SnapshotsKept
<1>7. /\ HistorySound(sequencer.operationLog) /\ MemoryFaithful(sequencer)
      /\ CaptureSound(sequencer, frontier)
  BY <1>1 DEF RestartInv
<1> QED
  BY <1>1, <1>5, <1>6, <1>7 DEF RestartInv, ToSet

(* A continuation moves the frontier to a capture, and may start a          *)
(* snapshot.                                                                *)
LEMMA SettleRestart ==
  ASSUME IInv, IInv', RestartInv, NEW i \in DOMAIN deliveries, Settle(i)
  PROVE  RestartInv'
<1> DEFINE d == deliveries[i]
<1>1. /\ up /\ d.state \in {"synced", "broken"}
      /\ UNCHANGED <<up, sequencer, file, snapshots>>
      /\ SettleDurable(i) \/ SettleFailed(i)
  BY DEF Settle, NextSettled, diskVars
<1>2. d \in ToSet(deliveries) /\ d.status = "accepted"
  BY <1>1, TypeParts DEF ToSet, DeliverySound, Pending
<1>3. CaptureSound(sequencer, d.frontier) /\ CaptureSound(sequencer, frontier)
  BY <1>2 DEF RestartInv
<1>4. PICK t \in States : SetState(i, t)
  <2>1. "ready" \in States /\ "failed" \in States
    BY DEF States
  <2> QED
    BY <1>1, <2>1 DEF SettleDurable, SettleFailed
<1>5. \A c \in ToSet(deliveries') : c \in ToSet(deliveries) \/ Moved(c, d, t)
  BY <1>4, SetStateFacts
<1>6. \A c \in ToSet(deliveries') : c.status = "accepted" => CaptureSound(sequencer, c.frontier)
  BY <1>3, <1>5 DEF RestartInv, Moved
<1>7. CaptureSound(sequencer, frontier')
  BY <1>1, <1>3 DEF SettleDurable, SettleFailed, Advance
<1>8. snapshotWrite' # NoSnapshot => SnapshotFaithful(file', snapshotWrite')
  <2>1. CASE SettleDurable(i)
    <3> DEFINE r == frontier'.revision
               m == opsSinceSnapshot + 1
               b == (snapshotWrite # NoSnapshot)
    <3>1. MaybeSnapshot(r, m, b) /\ UNCHANGED <<sequencer, file>>
      BY <1>1, <2>1 DEF SettleDurable
    <3>2. r <= Len(file)
      BY <1>1 DEF IInv
    <3> HIDE DEF r, m, b
    <3> QED
      BY <1>1, <3>1, <3>2, StartedFaithful
  <2>2. CASE SettleFailed(i)
    BY <1>1, <2>2 DEF SettleFailed, snapshotVars, RestartInv
  <2> QED
    BY <1>1, <2>1, <2>2
<1> HIDE DEF d
<1> QED
  BY <1>1, <1>6, <1>7, <1>8 DEF RestartInv, ToSet

(* A dispatch takes a delivery away.                                        *)
LEMMA DeliverRestart ==
  ASSUME IInv, RestartInv, NEW i \in DOMAIN deliveries, Deliver(i)
  PROVE  RestartInv'
<1>1. /\ deliveries' = RemoveAt(deliveries, i)
      /\ UNCHANGED <<up, sequencer, frontier, file, snapshots, snapshotWrite>>
  BY DEF Deliver, snapshotVars, diskVars
<1>2. ToSet(deliveries') \subseteq ToSet(deliveries)
  BY <1>1, TypeParts, RemoveAtElements DEF DeliveriesTyped
<1> QED
  BY <1>1, <1>2, RestartFrame

-----------------------------------------------------------------------------
(* Crash and restart.                                                       *)

(* The log is a history of the file, so the file's is sound.                *)
LEMMA FileHistory ==
  ASSUME IInv, RestartInv
  PROVE  HistorySound(file)
<1>1. CASE ~up
  BY <1>1 DEF RestartInv
<1>2. CASE up
  <2>1. /\ file \in Seq(Entries) /\ sequencer.operationLog \in Seq(Entries)
        /\ \A i \in DOMAIN file : i \in DOMAIN sequencer.operationLog
                                  /\ sequencer.operationLog[i] = file[i]
    BY <1>2 DEF IInv, TypeOK, PiecesOfLog
  <2>2. Extends(sequencer.operationLog, file)
    BY <2>1, ExtendsFacts
  <2>3. HistorySound(sequencer.operationLog)
    BY <1>2 DEF RestartInv
  <2> QED
    BY <2>2, <2>3, HistoryCut
<1> QED
  BY <1>1, <1>2

(* A crash cuts the history after some line of the batch being written.     *)
LEMMA CrashRestart ==
  ASSUME IInv, RestartInv, NEW n \in 0..Len(writing), NEW torn \in BOOLEAN, Crash(n, torn)
  PROVE  RestartInv'
<1> DEFINE s == FreshState(InitialDocument)
           log == sequencer.operationLog
<1>1. /\ up /\ up' = FALSE
      /\ file' = file \o SubSeq(writing, 1, n)
      /\ snapshots' \in IF snapshotWrite = NoSnapshot THEN {snapshots}
                        ELSE AfterSave(snapshotWrite)
      /\ Booted(s)
  BY DEF Crash, Lines, TailAfterOpen
<1>2. /\ FileKept /\ file' \in Seq(Entries)
      /\ \A i \in 1..Len(file') : i \in DOMAIN log /\ file'[i] = log[i]
  BY <1>1, FileExtended
<1>3. MemoryFaithful(s) /\ CaptureSound(s, Frontier(s))
  BY FreshFaithful
<1> HIDE DEF s
<1>4. /\ sequencer' = s /\ frontier' = Frontier(s)
      /\ deliveries' = <<>> /\ snapshotWrite' = NoSnapshot
  BY <1>1 DEF Booted
<1>5. HistorySound(file')
  <2>1. log \in Seq(Entries) /\ DOMAIN file' = 1..Len(file') /\ HistorySound(log)
    BY <1>1, <1>2, LogFacts DEF RestartInv, FileKept
  <2>2. Extends(log, file')
    BY <1>2, <2>1, ExtendsFacts
  <2> QED
    BY <2>1, <2>2, HistoryCut
<1>6. \A t \in snapshots' : SnapshotFaithful(file', t)
  <2>1. snapshotWrite # NoSnapshot => snapshots' \subseteq snapshots \cup {snapshotWrite}
    BY <1>1 DEF AfterSave, Pruned
  <2>2. snapshotWrite = NoSnapshot => snapshots' = snapshots
    BY <1>1
  <2> QED
    BY <1>2, <2>1, <2>2, SnapshotsKept
<1>7. ToSet(deliveries') = {}
  BY <1>4 DEF ToSet
<1> QED
  BY <1>1, <1>3, <1>4, <1>5, <1>6, <1>7 DEF RestartInv

(* What a restart knows: the document of the last line, the ACKs of all of  *)
(* them, and no number a client has not reached.                            *)
LEMMA RecoveredFaithful ==
  ASSUME IInv, RestartInv
  PROVE  LET r == Recovered(LatestSnapshot, file)
         IN  /\ r.operationLog = file
             /\ MemoryFaithful(r) /\ CaptureSound(r, Frontier(r))
<1> DEFINE l == LatestSnapshot
           k == l.revision
           m == Len(file)
           tail == SubSeq(file, k + 1, m)
           r == Recovered(l, file)
           acks == AcksAfter(l.ackCache, tail)
<1>1. file \in Seq(Entries) /\ m \in Nat /\ DOMAIN file = 1..m
  BY BatchFacts
<1>2. l \in snapshots
  BY DEF IInv, SnapshotsSound, LatestSnapshot
<1>3. SnapshotSound(l) /\ SnapshotFaithful(file, l)
  BY <1>2 DEF IInv, RestartInv, SnapshotsSound
<1> HIDE DEF l
<1>4. /\ r.document = Replay(DeserializeDocument(l.document), tail)
      /\ r.operationLog = file /\ r.currentRevision = m
      /\ r.ackCache = acks
      /\ r.clientSequenceTable = SequencesAfter(l.clientSequenceTable, tail)
  BY DEF Recovered
<1>5. k \in 0..m
  BY <1>3 DEF SnapshotSound
<1>6. HistorySound(file)
  BY FileHistory
<1>7. r.document = DocumentAt(file, m)
  <2>1. DeserializeDocument(l.document) = DocumentAt(file, k)
    BY <1>3, <1>5, <1>6, SnapshotRoundTrip DEF HistorySound, SnapshotFaithful
  <2>2. Replay(DocumentAt(file, k), tail) = Replay(InitialDocument, file)
    BY <1>1, <1>5, ReplayContinues DEF DocumentAt
  <2>3. SubSeq(file, 1, m) = file
    BY <1>1
  <2> QED
    BY <1>4, <2>1, <2>2, <2>3 DEF DocumentAt
<1>8. \A i \in 1..m : file[i].op \in OpId
  <2>1. \A i \in 1..m : file[i] \in Entries
    BY <1>1
  <2> QED
    BY <2>1 DEF Entries
<1>9. \A i \in 1..m : file[i].op \in DOMAIN acks /\ acks[file[i].op] = i
  BY <1>3, RecoveredAcks
<1>10. \A o \in DOMAIN acks : o \in DOMAIN l.ackCache \/ \E i \in 1..m : file[i].op = o
  <2>1. \A i \in DOMAIN tail : tail[i] = file[k + i] /\ k + i \in 1..m
    BY <1>5, TailFacts
  <2> QED
    BY <2>1, ZenonT(30) DEF AcksAfter
<1>11. \A o \in DOMAIN acks : (~ \E i \in 1..m : file[i].op = o) => acks[o] = l.ackCache[o]
  <2>1. \A i \in DOMAIN tail : tail[i] = file[k + i] /\ k + i \in 1..m
    BY <1>5, TailFacts
  <2> HIDE DEF tail
  <2> QED
    BY <2>1 DEF AcksAfter
<1> HIDE DEF acks, k, m, r, tail
<1>12. AcksSound(file, m, acks)
  <2> SUFFICES ASSUME NEW o \in DOMAIN acks
               PROVE  /\ o \in OpId /\ acks[o] \in 0..m
                      /\ \/ acks[o] \in DOMAIN file /\ file[acks[o]].op = o
                         \/ IsEmptyChangeSet(DocumentAt(file, acks[o]), Content[o])
    BY DEF AcksSound
  <2>1. CASE \E i \in 1..m : file[i].op = o
    <3>1. PICK i \in 1..m : file[i].op = o
      BY <2>1
    <3>2. acks[o] = i /\ o \in OpId
      BY <1>8, <1>9, <3>1
    <3> QED
      BY <1>1, <3>1, <3>2
  <2>2. CASE ~ \E i \in 1..m : file[i].op = o
    <3>1. o \in DOMAIN l.ackCache /\ acks[o] = l.ackCache[o]
      BY <1>10, <1>11, <2>2
    <3>2. /\ o \in OpId /\ acks[o] \in 0..k
          /\ \/ acks[o] \in DOMAIN file /\ file[acks[o]].op = o
             \/ IsEmptyChangeSet(DocumentAt(file, acks[o]), Content[o])
      BY <1>3, <3>1 DEF SnapshotFaithful, AcksSound, k
    <3> QED
      BY <1>1, <1>5, <3>2
  <2> QED
    BY <2>1, <2>2
<1>13. MemoryFaithful(r)
  BY <1>4, <1>7, <1>12 DEF MemoryFaithful, m
<1>14. CaptureSound(r, Frontier(r))
  <2>1. /\ r.clientSequenceTable \in [Client -> Nat]
        /\ \A i \in 1..m : file[i].seq <= r.clientSequenceTable[file[i].client]
    BY <1>3, <1>4, RecoveredSequences DEF tail, k, m
  <2>2. /\ Frontier(r).revision = m /\ Frontier(r).document = r.document
        /\ Frontier(r).sequences = r.clientSequenceTable
    BY <1>4 DEF Frontier
  <2>3. Len(file) = m /\ m \in 0..m /\ \A i \in 1..m : i <= m
    BY <1>1 DEF m
  <2> QED
    BY <1>1, <1>4, <1>7, <2>1, <2>2, <2>3 DEF CaptureSound
<1> QED
  BY <1>4, <1>13, <1>14 DEF r, l

(* A restart.                                                               *)
LEMMA RecoverRestart == IInv /\ RestartInv /\ Recover => RestartInv'
<1> SUFFICES ASSUME IInv, RestartInv, Recover PROVE RestartInv'
  OBVIOUS
<1> DEFINE r == Recovered(LatestSnapshot, file)
<1>1. up' = TRUE /\ Booted(r) /\ UNCHANGED <<file, snapshots>>
  BY DEF Recover, diskVars
<1>2. /\ r.operationLog = file
      /\ MemoryFaithful(r) /\ CaptureSound(r, Frontier(r))
  BY RecoveredFaithful
<1>3. HistorySound(file)
  BY FileHistory
<1> HIDE DEF r
<1>4. /\ sequencer' = r /\ frontier' = Frontier(r)
      /\ deliveries' = <<>> /\ snapshotWrite' = NoSnapshot
  BY <1>1 DEF Booted
<1>5. ToSet(deliveries') = {}
  BY <1>4 DEF ToSet
<1>6. \A s \in snapshots : SnapshotFaithful(file, s)
  BY DEF RestartInv
<1> QED
  BY <1>1, <1>2, <1>3, <1>4, <1>5, <1>6 DEF RestartInv

-----------------------------------------------------------------------------
(* Every step.                                                              *)

(* A step that leaves log, frontier, snapshots and deliveries alone.        *)
LEMMA QuietStep ==
  ASSUME RestartInv,
         UNCHANGED <<up, sequencer, frontier, file, snapshots, snapshotWrite, deliveries>>
  PROVE  RestartInv'
<1>1. \A c \in ToSet(deliveries') : c \in ToSet(deliveries)
  BY DEF ToSet
<1> QED
  BY <1>1, RestartFrame

(* RestartInv is inductive relative to IInv.                                *)
LEMMA NextRestart ==
  ASSUME IInv, IInv', RestartInv, [Next]_vars
  PROVE  RestartInv'
<1>1. CASE Join \/ (\E k \in DOMAIN connections : Disconnect(k) \/ Catchup(k))
  BY <1>1, QuietStep DEF Join, Disconnect, Catchup, snapshotVars, diskVars
<1>2. CASE \E k \in DOMAIN connections, o \in OpId, n \in 1..MaxSequence,
              b \in {0, sequencer.currentRevision + 1}, authorized \in BOOLEAN :
             Submit(k, Envelope(o, n, b), authorized)
  <2> PICK k \in DOMAIN connections, o \in OpId, n \in 1..MaxSequence,
           b \in {0, sequencer.currentRevision + 1}, authorized \in BOOLEAN :
             Submit(k, Envelope(o, n, b), authorized)
    BY <1>2
  <2>1. n \in Nat
    BY BoundsAssumption
  <2> QED
    BY <2>1, SubmitRestart DEF Submit
<1>3. CASE \E o \in OpId : SubmitFromServer(o)
  <2> PICK o \in OpId : SubmitFromServer(o)
    BY <1>3
  <2>1. ExpectedSequence(sequencer, ServerClient) \in Nat
    BY LogFacts, ServerAssumption DEF ExpectedSequence
  <2> QED
    BY <2>1, SubmitRestart DEF SubmitFromServer
<1>4. CASE FlushSucceeds \/ FlushFails
  BY <1>4, FlushRestart
<1>5. CASE SnapshotEnds
  BY <1>5, SnapshotEndsRestart
<1>6. CASE \E i \in DOMAIN deliveries : Settle(i)
  BY <1>6, SettleRestart
<1>7. CASE \E i \in DOMAIN deliveries : Deliver(i)
  BY <1>7, DeliverRestart
<1>8. CASE Close \/ CloseStore
  BY <1>8, QuietStep DEF Close, CloseStore, snapshotVars, diskVars
<1>9. CASE \E n \in 0..Len(writing), torn \in BOOLEAN : Crash(n, torn)
  BY <1>9, CrashRestart
<1>10. CASE Recover
  BY <1>10, RecoverRestart
<1>11. CASE UNCHANGED vars
  BY <1>11, QuietStep DEF vars, processVars, snapshotVars, diskVars
<1> QED
  BY <1>1, <1>2, <1>3, <1>4, <1>5, <1>6, <1>7, <1>8, <1>9, <1>10, <1>11 DEF Next

-----------------------------------------------------------------------------
(* What the invariant says of a restart and of the frontier.                *)

(* No file the room leaves behind is refused.                               *)
LEMMA NeverRefused ==
  ASSUME IInv, RestartInv
  PROVE  ~StartRefused
<1> DEFINE l == LatestSnapshot
           d == DocumentAt(file, l.revision)
<1>1. file \in Seq(Entries) /\ Len(file) \in Nat /\ DOMAIN file = 1..Len(file)
  BY BatchFacts
<1>2. \A i \in DOMAIN file : file[i].rev = i
  BY DEF IInv, FileSound
<1>3. ~LogUnreadable
  <2>1. \A i \in 1..Len(file) : file[i] # Garbled
    <3>1. Garbled.rev = -1
      BY DEF Garbled
    <3> QED
      BY <1>1, <1>2, <3>1
  <2> QED
    BY <1>1, <2>1 DEF LogUnreadable, ToSet
<1>4. l \in snapshots
  BY DEF IInv, SnapshotsSound, LatestSnapshot
<1>5. SnapshotSound(l) /\ SnapshotFaithful(file, l)
  BY <1>4 DEF IInv, RestartInv, SnapshotsSound
<1> HIDE DEF l
<1>6. l.revision \in 0..Len(file)
  BY <1>5 DEF SnapshotSound
<1>7. WellFormed(d) /\ d.revision = l.revision
  BY <1>6, FileHistory DEF HistorySound
<1>8. l.document = SerializeDocument(d) /\ l.currentRevision = l.revision
  BY <1>5 DEF SnapshotFaithful
<1> HIDE DEF d
<1>9. ~SnapshotRejected(l.document) /\ l.document.revision = l.revision
  BY <1>7, <1>8, SnapshotRoundTrip
<1>10. ~ l.revision > Len(file)
  BY <1>1, <1>6
<1>11. ~RecoveryRefused(l, file)
  BY <1>2, <1>8, <1>9, <1>10 DEF RecoveryRefused
<1> QED
  BY <1>3, <1>11 DEF StartRefused, l

(* The state a restart builds is that of the whole log.                     *)
LEMMA RestartTellsTheLog ==
  ASSUME IInv, RestartInv
  PROVE  RestartIsFaithful
<1> DEFINE r == Recovered(LatestSnapshot, file)
           m == Len(file)
           logged == {file[i].op : i \in DOMAIN file}
<1>1. file \in Seq(Entries) /\ m \in Nat /\ DOMAIN file = 1..m
  BY BatchFacts
<1>2. r.operationLog = file /\ MemoryFaithful(r) /\ CaptureSound(r, Frontier(r))
  BY RecoveredFaithful
<1>3. LatestSnapshot \in snapshots
  BY DEF IInv, SnapshotsSound, LatestSnapshot
<1>4. SnapshotSound(LatestSnapshot)
  BY <1>3 DEF IInv, SnapshotsSound
<1>5. /\ r.ackCache = AcksAfter(LatestSnapshot.ackCache,
                                SubSeq(file, LatestSnapshot.revision + 1, Len(file)))
      /\ r.clientSequenceTable = SequencesAfter(LatestSnapshot.clientSequenceTable,
                                SubSeq(file, LatestSnapshot.revision + 1, Len(file)))
  BY DEF Recovered
<1>6. /\ \A i \in 1..m : file[i].op \in DOMAIN r.ackCache /\ r.ackCache[file[i].op] = i
      /\ r.clientSequenceTable \in [Client -> Nat]
      /\ \A i \in 1..m : file[i].seq <= r.clientSequenceTable[file[i].client]
  BY <1>4, <1>5, RecoveredAcks, RecoveredSequences
<1> HIDE DEF r
<1>7. r.document = Replay(InitialDocument, file)
  <2>1. SubSeq(file, 1, m) = file
    BY <1>1
  <2> QED
    BY <1>2, <2>1 DEF MemoryFaithful, DocumentAt
<1>8. AcksSound(file, m, r.ackCache)
  BY <1>2 DEF MemoryFaithful
<1>9. ASSUME NEW i \in DOMAIN file
      PROVE  /\ file[i].op \in DOMAIN r.ackCache /\ r.ackCache[file[i].op] = i
             /\ r.clientSequenceTable[file[i].client] >= file[i].seq
  <2>1. file[i] \in Entries
    BY <1>1
  <2>2. file[i].client \in Client /\ file[i].seq \in Nat
    BY <2>1 DEF Entries
  <2>3. r.clientSequenceTable[file[i].client] \in Nat
    BY <1>6, <2>2
  <2>4. file[i].seq <= r.clientSequenceTable[file[i].client]
    BY <1>1, <1>6
  <2>5. file[i].op \in DOMAIN r.ackCache /\ r.ackCache[file[i].op] = i
    BY <1>1, <1>6
  <2> QED
    BY <2>2, <2>3, <2>4, <2>5
<1>10. ASSUME NEW o \in DOMAIN r.ackCache \ logged
       PROVE  /\ r.ackCache[o] \in 0..Len(file)
              /\ IsEmptyChangeSet(Replay(InitialDocument, SubSeq(file, 1, r.ackCache[o])),
                                  Content[o])
  <2>1. /\ r.ackCache[o] \in 0..m
        /\ \/ r.ackCache[o] \in DOMAIN file /\ file[r.ackCache[o]].op = o
           \/ IsEmptyChangeSet(DocumentAt(file, r.ackCache[o]), Content[o])
    BY <1>8 DEF AcksSound
  <2> QED
    BY <2>1 DEF DocumentAt
<1> QED
  BY <1>7, <1>9, <1>10, NeverRefused DEF RestartIsFaithful, r

(* The frontier's cut of log and ACKs is that of its revision.              *)
LEMMA FrontierTellsTheLog ==
  ASSUME IInv, RestartInv
  PROVE  FrontierIsFaithful
<1> DEFINE log == sequencer.operationLog
           acks == sequencer.ackCache
           n == frontier.revision
<1>1. /\ DOMAIN log = 1..Len(log) /\ Len(log) \in Nat
      /\ \A i \in 1..Len(log) :
           /\ log[i].client \in Client /\ log[i].seq \in Nat
           /\ log[i].rev = i
           /\ log[i].op \in DOMAIN acks
           /\ acks[log[i].op] = i
  BY LogFacts
<1>2. frontier.sequences \in [Client -> Nat] /\ n \in Nat
  BY TypeParts
<1>3. CaptureSound(sequencer, frontier)
  BY DEF RestartInv
<1>4. /\ DurableSnapshot.clientSequenceTable = frontier.sequences
      /\ DOMAIN DurableSnapshot.ackCache = {o \in DOMAIN acks : acks[o] <= n}
  BY DEF DurableSnapshot
<1>5. frontier.document = Replay(InitialDocument, SubSeq(log, 1, n))
  BY <1>3 DEF CaptureSound, DocumentAt
<1>6. ASSUME NEW i \in DOMAIN log
      PROVE  LET e == log[i]
                 s == DurableSnapshot
             IN  IF e.rev > n
                 THEN e.op \notin DOMAIN s.ackCache /\ s.clientSequenceTable[e.client] < e.seq
                 ELSE e.op \in DOMAIN s.ackCache /\ s.clientSequenceTable[e.client] >= e.seq
  <2>1. IF i <= n THEN log[i].seq <= frontier.sequences[log[i].client]
                  ELSE frontier.sequences[log[i].client] < log[i].seq
    BY <1>3 DEF CaptureSound
  <2>2. /\ log[i].client \in Client /\ log[i].seq \in Nat /\ log[i].rev = i
        /\ log[i].op \in DOMAIN acks /\ acks[log[i].op] = i /\ i \in Nat
    BY <1>1
  <2>3. frontier.sequences[log[i].client] \in Nat
    BY <1>2, <2>2
  <2>4. log[i].op \in DOMAIN DurableSnapshot.ackCache <=> i <= n
    BY <1>4, <2>2
  <2> HIDE DEF log, n, acks
  <2> QED
    BY <1>2, <1>4, <2>1, <2>2, <2>3, <2>4
<1> QED
  BY <1>5, <1>6 DEF FrontierIsFaithful

-----------------------------------------------------------------------------
(* What an ACK says of the file.                                            *)

(* It holds while the file keeps what it has.                               *)
LEMMA AckKept ==
  ASSUME IInv, FileKept, file' \in Seq(Entries), NEW a, AckHolds(a)
  PROVE  AckHolds(a)'
<1>1. /\ Len(file) \in Nat /\ Len(file') \in Nat /\ Len(file) <= Len(file')
      /\ DOMAIN file = 1..Len(file) /\ DOMAIN file' = 1..Len(file')
      /\ \A i \in 1..Len(file) : file'[i] = file[i]
  BY DEF FileKept
<1>2. CASE a.rev \in DOMAIN file /\ file[a.rev].op = a.op
  <2>1. a.rev \in DOMAIN file' /\ file'[a.rev] = file[a.rev]
    BY <1>1, <1>2
  <2> QED
    BY <1>2, <2>1 DEF AckHolds
<1>3. CASE /\ a.status # "accepted"
           /\ a.rev \in 0..Len(file)
           /\ IsEmptyChangeSet(DocumentAt(file, a.rev), Content[a.op])
  <2>1. Extends(file', file)
    BY <1>1, BatchFacts DEF Extends
  <2>2. DocumentAt(file', a.rev) = DocumentAt(file, a.rev)
    BY <1>3, <2>1, DocumentAtAgree
  <2>3. a.rev \in 0..Len(file')
    BY <1>1, <1>3
  <2> QED
    BY <1>3, <2>2, <2>3 DEF AckHolds, DocumentAt
<1> QED
  BY <1>2, <1>3 DEF AckHolds, DocumentAt

(* It holds of what the sequencer acknowledges at a revision of the file.   *)
LEMMA AckGiven ==
  ASSUME IInv, RestartInv, up, NEW d, d.status # "accepted",
         d.op \in DOMAIN sequencer.ackCache, AckOf(d).synced
  PROVE  AckHolds(AckOf(d))
<1> DEFINE log == sequencer.operationLog
           rev == sequencer.ackCache[d.op]
<1>1. /\ AckOf(d).op = d.op /\ AckOf(d).rev = rev /\ AckOf(d).status # "accepted"
      /\ rev <= Len(file)
  BY DEF AckOf
<1>2. /\ rev \in 0..Len(log)
      /\ \/ rev \in DOMAIN log /\ log[rev].op = d.op
         \/ IsEmptyChangeSet(DocumentAt(log, rev), Content[d.op])
  BY DEF RestartInv, MemoryFaithful, AcksSound
<1>3. /\ log \in Seq(Entries) /\ Len(log) \in Nat /\ DOMAIN log = 1..Len(log)
      /\ file \in Seq(Entries) /\ Len(file) \in Nat /\ DOMAIN file = 1..Len(file)
      /\ \A i \in DOMAIN file : i \in DOMAIN log /\ log[i] = file[i]
  BY LogFacts, BatchFacts
<1>4. Extends(log, file)
  BY <1>3, ExtendsFacts
<1> HIDE DEF log, rev
<1>5. rev \in 0..Len(file)
  BY <1>1, <1>2, <1>3
<1>6. CASE rev \in DOMAIN log /\ log[rev].op = d.op
  <2>1. rev \in DOMAIN file /\ file[rev].op = d.op
    BY <1>3, <1>5, <1>6
  <2> QED
    BY <1>1, <2>1 DEF AckHolds
<1>7. CASE IsEmptyChangeSet(DocumentAt(log, rev), Content[d.op])
  <2>1. IsEmptyChangeSet(DocumentAt(file, rev), Content[d.op])
    BY <1>4, <1>5, <1>7, DocumentAtAgree
  <2> QED
    BY <1>1, <1>5, <2>1 DEF AckHolds, DocumentAt
<1> QED
  BY <1>2, <1>6, <1>7

(* A step that gives no ACK, adds no delivery and forgets no operation id.  *)
LEMMA AckFrame ==
  ASSUME IInv, AckInv, FileKept, file' \in Seq(Entries), UNCHANGED acknowledged,
         \A c \in ToSet(deliveries') : KnownReply(c)'
  PROVE  AckInv'
  BY AckKept DEF AckInv

(* A submit that is answered from the cache or as a no-op is known.         *)
LEMMA SubmitAck ==
  ASSUME IInv, AckInv, NEW k, NEW o \in OpId, NEW n \in Nat, NEW b, NEW a,
         HandleSubmit(k, Envelope(o, n, b), a)
  PROVE  AckInv'
<1> DEFINE e == Envelope(o, n, b)
           v == Verdict(sequencer, e, a)
<1>1. UNCHANGED <<file, acknowledged>> /\ file \in Seq(Entries)
  BY BatchFacts DEF HandleSubmit, diskVars, historyVars
<1>2. FileKept
  BY <1>1, FileKeptIfUnchanged
<1>3. deliveries \in Seq(ToSet(deliveries)) /\ \A c \in ToSet(deliveries) : KnownReply(c)
  BY DEF IInv, TypeOK, AckInv
<1>4. ASSUME NEW d, deliveries' = Append(deliveries, d), KnownReply(d)',
             DOMAIN sequencer.ackCache \subseteq DOMAIN sequencer'.ackCache
      PROVE  AckInv'
  <2>1. ToSet(deliveries') = ToSet(deliveries) \cup {d}
    BY <1>3, <1>4, AppendElements
  <2>2. \A c \in ToSet(deliveries) : KnownReply(c)'
    BY <1>3, <1>4 DEF KnownReply
  <2> QED
    BY <1>1, <1>2, <1>4, <2>1, <2>2, AckFrame
<1>5. CASE SubmitPoisoned(k, e)
  <2> PICK d : d = Delivery(k, e, "poisoned", "failed", NoCapture)
    OBVIOUS
  <2>1. d.status = "poisoned" /\ deliveries' = Append(deliveries, d) /\ UNCHANGED sequencer
    BY <1>5, DeliveryFields DEF SubmitPoisoned
  <2> QED
    BY <1>4, <2>1 DEF KnownReply
<1>6. CASE SubmitReplied(k, e, v)
  <2> PICK d : d = Delivery(k, e, ReplyKind(v), "ready", NoCapture)
    OBVIOUS
  <2>1. /\ d.status = ReplyKind(v) /\ d.op = o /\ deliveries' = Append(deliveries, d)
        /\ v # "accepted" /\ sequencer' = Submitted(sequencer, e, v)
    BY <1>6, DeliveryFields DEF SubmitReplied
  <2>2. DOMAIN sequencer.ackCache \subseteq DOMAIN sequencer'.ackCache
    BY <2>1, RepliedFacts
  <2>3. v = "duplicate" => o \in DOMAIN sequencer.ackCache
    <3>1. e.op = o /\ IsOperation(e.operation)
      BY EnvelopeFacts, ContentAssumption
    <3>2. Violations(sequencer.document, e.operation) # {} =>
            PrimaryRejectCode(Violations(sequencer.document, e.operation)) \in RejectCodes
      BY <3>1, RejectedWithCode
    <3> HIDE DEF e
    <3> QED
      BY <3>1, <3>2 DEF Verdict, RejectCodes, Acked
  <2>4. v = "noop" => o \in DOMAIN sequencer'.ackCache
    <3> SUFFICES ASSUME v = "noop" PROVE o \in DOMAIN sequencer'.ackCache
      OBVIOUS
    <3>1. e.op = o
      BY EnvelopeFacts
    <3>2. "ackCache" \in DOMAIN Consumed(sequencer, e)
      BY DEF IInv, TypeOK, Consumed
    <3>3. sequencer' = Noop(sequencer, e)
      BY <2>1 DEF Submitted
    <3> HIDE DEF e
    <3>4. sequencer'.ackCache = Put(Consumed(sequencer, e).ackCache, e.op, sequencer.currentRevision)
      BY <3>2, <3>3 DEF Noop
    <3> QED
      BY <3>1, <3>4 DEF Put
  <2>5. d.status \in {"duplicate", "noop"} => d.status = v
    BY <2>1 DEF ReplyKind
  <2> HIDE DEF v, e
  <2>6. KnownReply(d)'
    BY <2>1, <2>2, <2>3, <2>4, <2>5 DEF KnownReply
  <2>7. deliveries' = Append(deliveries, d)
    BY <2>1
  <2> QED
    BY <1>4, <2>2, <2>6, <2>7
<1>7. CASE SubmitAccepted(k, e, v)
  <2> PICK d : d = Delivery(k, e, v, IF storeClosed \/ failed THEN "broken" ELSE "appending",
                            Frontier(sequencer'))
    OBVIOUS
  <2>1. /\ d.status = v /\ deliveries' = Append(deliveries, d)
        /\ v = "accepted" /\ sequencer' = Submitted(sequencer, e, "accepted")
    BY <1>7, DeliveryFields DEF SubmitAccepted
  <2>2. DOMAIN sequencer.ackCache \subseteq DOMAIN sequencer'.ackCache
    <3>1. sequencer'.ackCache = Put(sequencer.ackCache, o, Len(sequencer.operationLog) + 1)
      BY <2>1, AcceptedFacts
    <3> QED
      BY <3>1 DEF Put
  <2> HIDE DEF v, e
  <2>3. KnownReply(d)'
    BY <2>1 DEF KnownReply
  <2>4. deliveries' = Append(deliveries, d)
    BY <2>1
  <2> QED
    BY <1>4, <2>2, <2>3, <2>4
<1> QED
  BY <1>5, <1>6, <1>7 DEF HandleSubmit

(* A continuation, or the outcome of a write, changes the state of          *)
(* deliveries only.                                                         *)
LEMMA MovedAck ==
  ASSUME IInv, AckInv, FileKept, file' \in Seq(Entries), UNCHANGED <<sequencer, acknowledged>>,
         \A c \in ToSet(deliveries') :
           \/ c \in ToSet(deliveries)
           \/ \E d \in ToSet(deliveries) : c.op = d.op /\ c.status = d.status
  PROVE  AckInv'
<1>1. \A c \in ToSet(deliveries') : KnownReply(c)'
  BY DEF AckInv, KnownReply
<1> QED
  BY <1>1, AckFrame

(* What a write that ends, or a continuation, does to the ACKs.             *)
LEMMA SettledAck ==
  ASSUME IInv, AckInv,
         FlushSucceeds \/ FlushFails \/ \E i \in DOMAIN deliveries : Settle(i)
  PROVE  AckInv'
<1>1. "synced" \in States /\ "broken" \in States /\ "ready" \in States /\ "failed" \in States
  BY DEF States
<1>2. file \in Seq(Entries)
  BY BatchFacts
<1>3. CASE FlushSucceeds
  <2>1. up /\ UNCHANGED <<sequencer, acknowledged>> /\ Resolve(Revisions(writing), "synced")
    BY <1>3 DEF FlushSucceeds, historyVars
  <2>2. writing \in Seq(Entries) /\ file' = file \o writing
    BY <1>3, BatchFacts DEF FlushSucceeds, Lines, TailAfterOpen
  <2>3. FileKept /\ file' \in Seq(Entries)
    BY <1>2, <2>2, FileKeptIfExtended
  <2>4. \A c \in ToSet(deliveries') :
          \/ c \in ToSet(deliveries)
          \/ \E d \in ToSet(deliveries) : Moved(c, d, "synced")
    BY <1>1, <2>1, ResolveFacts
  <2> QED
    BY <2>1, <2>3, <2>4, MovedAck DEF Moved
<1>4. CASE FlushFails
  <2>1. /\ UNCHANGED <<file, sequencer, acknowledged>>
        /\ Resolve(Revisions(writing) \cup Revisions(queue), "broken")
    BY <1>4 DEF FlushFails, historyVars, diskVars
  <2>2. FileKept
    BY <1>2, <2>1, FileKeptIfUnchanged
  <2>3. \A c \in ToSet(deliveries') :
          \/ c \in ToSet(deliveries)
          \/ \E d \in ToSet(deliveries) : Moved(c, d, "broken")
    BY <1>1, <2>1, ResolveFacts
  <2> QED
    BY <1>2, <2>1, <2>2, <2>3, MovedAck DEF Moved
<1>5. ASSUME NEW i \in DOMAIN deliveries, Settle(i)
      PROVE  AckInv'
  <2>1. UNCHANGED <<file, sequencer, acknowledged>>
    BY <1>5 DEF Settle, historyVars, diskVars
  <2>2. FileKept
    BY <1>2, <2>1, FileKeptIfUnchanged
  <2>3. PICK t \in States : SetState(i, t)
    BY <1>1, <1>5 DEF Settle, SettleDurable, SettleFailed
  <2>4. \A c \in ToSet(deliveries') :
          c \in ToSet(deliveries) \/ Moved(c, deliveries[i], t)
    BY <2>3, SetStateFacts
  <2>5. deliveries[i] \in ToSet(deliveries)
    BY DEF ToSet
  <2> QED
    BY <1>2, <2>1, <2>2, <2>4, <2>5, MovedAck DEF Moved
<1> QED
  BY <1>3, <1>4, <1>5

(* A dispatch gives the ACK of what is known, in the log or of no effect.   *)
LEMMA DeliverAck ==
  ASSUME IInv, IInv', RestartInv, AckInv, NEW i \in DOMAIN deliveries, Deliver(i)
  PROVE  AckInv'
<1> DEFINE d == deliveries[i]
<1>1. /\ up /\ deliveries' = RemoveAt(deliveries, i) /\ UNCHANGED <<sequencer, file>>
      /\ acknowledged' \subseteq acknowledged \cup {AckOf(d)}
      /\ AckOf(d) \in acknowledged' \ acknowledged => d.status \in {"accepted", "duplicate", "noop"}
  BY DEF Deliver, diskVars, DispatchAccepted, DispatchAck, DispatchRejection, DispatchFailure
<1>2. file \in Seq(Entries)
  BY BatchFacts
<1>3. FileKept
  BY <1>1, <1>2, FileKeptIfUnchanged
<1>4. d \in ToSet(deliveries) /\ KnownReply(d)
  BY DEF ToSet, AckInv
<1>5. ToSet(deliveries') \subseteq ToSet(deliveries)
  BY <1>1, TypeParts, RemoveAtElements DEF DeliveriesTyped
<1>6. \A c \in ToSet(deliveries') : KnownReply(c)'
  BY <1>1, <1>5 DEF AckInv, KnownReply
<1> HIDE DEF d
<1>7. ASSUME NEW a \in acknowledged', a.synced
      PROVE  AckHolds(a)'
  <2>1. CASE a \in acknowledged
    BY <1>1, <1>2, <1>3, <1>7, <2>1, AckKept DEF AckInv
  <2>2. CASE a \notin acknowledged
    <3>1. a = AckOf(d) /\ d.status \in {"accepted", "duplicate", "noop"}
      BY <1>1, <1>7, <2>2
    <3>2. CASE d.status = "accepted"
      <4>1. a.status = "accepted"
        BY <3>1, <3>2 DEF AckOf
      <4>2. a.rev \in DOMAIN file' /\ file'[a.rev].op = a.op
        BY <1>7, <4>1 DEF IInv, AcceptedAckIsDurable
      <4> QED
        BY <4>2 DEF AckHolds
    <3>3. CASE d.status # "accepted"
      <4>1. d.op \in DOMAIN sequencer.ackCache
        BY <1>4, <3>1, <3>3 DEF KnownReply
      <4>2. AckHolds(a)
        BY <1>1, <1>7, <3>1, <3>3, <4>1, AckGiven
      <4> QED
        BY <1>1, <1>2, <1>3, <4>2, AckKept
    <3> QED
      BY <3>2, <3>3
  <2> QED
    BY <2>1, <2>2
<1> QED
  BY <1>6, <1>7 DEF AckInv

(* A crash and a restart empty the queue, and the file keeps what it has.   *)
LEMMA RebootAck ==
  ASSUME IInv, AckInv,
         Recover \/ \E n \in 0..Len(writing), torn \in BOOLEAN : Crash(n, torn)
  PROVE  AckInv'
<1>1. deliveries' = <<>> /\ UNCHANGED acknowledged
  BY DEF Recover, Crash, Booted, historyVars
<1>2. \A c \in ToSet(deliveries') : KnownReply(c)'
  BY <1>1 DEF ToSet
<1>3. FileKept /\ file' \in Seq(Entries)
  <2>1. CASE Recover
    BY <2>1, BatchFacts, FileKeptIfUnchanged DEF Recover, diskVars
  <2>2. ASSUME NEW n \in 0..Len(writing), NEW torn \in BOOLEAN, Crash(n, torn)
        PROVE  FileKept /\ file' \in Seq(Entries)
    <3>1. up /\ file' = file \o SubSeq(writing, 1, n)
      BY <2>2 DEF Crash, Lines, TailAfterOpen
    <3> QED
      BY <3>1, FileExtended
  <2> QED
    BY <2>1, <2>2
<1> QED
  BY <1>1, <1>2, <1>3, AckFrame

(* Every step.                                                              *)
LEMMA NextAck ==
  ASSUME IInv, IInv', RestartInv, AckInv, [Next]_vars
  PROVE  AckInv'
<1>1. CASE UNCHANGED <<file, sequencer, deliveries, acknowledged>>
  <2>1. FileKept /\ file' \in Seq(Entries)
    BY <1>1, BatchFacts, FileKeptIfUnchanged
  <2>2. \A c \in ToSet(deliveries') : c \in ToSet(deliveries)
    BY <1>1 DEF ToSet
  <2> QED
    BY <1>1, <2>1, <2>2, MovedAck
<1>2. CASE Join \/ (\E k \in DOMAIN connections : Disconnect(k) \/ Catchup(k))
  BY <1>1, <1>2 DEF Join, Disconnect, Catchup, diskVars, historyVars
<1>3. CASE \E k \in DOMAIN connections, o \in OpId, n \in 1..MaxSequence,
              b \in {0, sequencer.currentRevision + 1}, authorized \in BOOLEAN :
             Submit(k, Envelope(o, n, b), authorized)
  <2> PICK k \in DOMAIN connections, o \in OpId, n \in 1..MaxSequence,
           b \in {0, sequencer.currentRevision + 1}, authorized \in BOOLEAN :
             Submit(k, Envelope(o, n, b), authorized)
    BY <1>3
  <2>1. n \in Nat
    BY BoundsAssumption
  <2> QED
    BY <2>1, SubmitAck DEF Submit
<1>4. CASE \E o \in OpId : SubmitFromServer(o)
  <2> PICK o \in OpId : SubmitFromServer(o)
    BY <1>4
  <2>1. ExpectedSequence(sequencer, ServerClient) \in Nat
    BY LogFacts, ServerAssumption DEF ExpectedSequence
  <2> QED
    BY <2>1, SubmitAck DEF SubmitFromServer
<1>5. CASE FlushSucceeds \/ FlushFails \/ \E i \in DOMAIN deliveries : Settle(i)
  BY <1>5, SettledAck
<1>6. CASE \E i \in DOMAIN deliveries : Deliver(i)
  BY <1>6, DeliverAck
<1>7. CASE SnapshotEnds \/ Close \/ CloseStore
  BY <1>1, <1>7 DEF SnapshotEnds, Close, CloseStore, diskVars, historyVars
<1>8. CASE Recover \/ \E n \in 0..Len(writing), torn \in BOOLEAN : Crash(n, torn)
  BY <1>8, RebootAck
<1>9. CASE UNCHANGED vars
  BY <1>1, <1>9 DEF vars, processVars, diskVars, historyVars
<1> QED
  BY <1>2, <1>3, <1>4, <1>5, <1>6, <1>7, <1>8, <1>9 DEF Next

-----------------------------------------------------------------------------
(* Theorems.                                                                *)

(* Whatever memory, files and snapshots hold stays the state of a revision  *)
(* of one history (persistent-room.ts:33-65, 266-342).                      *)
THEOREM RestartInvariance == Spec => []RestartInv
<1>1. Init => RestartInv
  BY InitRestart
<1>2. IInv /\ IInv' /\ RestartInv /\ [Next]_vars => RestartInv'
  BY NextRestart
<1>3. Spec => []IInv
  BY Invariance
<1> QED
  BY <1>1, <1>2, <1>3, PTL DEF Spec

(* ACKs of a synced revision keep holding.                                  *)
THEOREM AckInvariance == Spec => []AckInv
<1>1. Init => AckInv
  BY DEF Init, AckInv, ToSet
<1>2. IInv /\ IInv' /\ RestartInv /\ AckInv /\ [Next]_vars => AckInv'
  BY NextAck
<1>3. Spec => []IInv
  BY Invariance
<1>4. Spec => []RestartInv
  BY RestartInvariance
<1> QED
  BY <1>1, <1>2, <1>3, <1>4, PTL DEF Spec

(* The whole invariant of the room.                                         *)
THEOREM RoomInvariance == Spec => []RoomInv
<1>1. IInv /\ GapInv /\ RestartInv /\ AckInv => RoomInv
  BY DEF RoomInv
<1> QED
  BY <1>1, Invariance, GapInvariance, RestartInvariance, AckInvariance, PTL

(* What is shown, the ACK of an accepted operation and the ACK of a retry   *)
(* or a no-op given at a synced revision are in the file, or changed        *)
(* nothing there, and stay so through every later failure, crash and        *)
(* restart; the ACK cache a restart rebuilds is no exception                *)
(* (persistent-room.ts:4-5, 265-289, sequencer.ts:102-105).                 *)
THEOREM TellAfterFsync == Spec => []OnlyTheFileIsTold
<1>1. AckInv /\ AcceptedAckIsDurable /\ PublishedIsDurable => OnlyTheFileIsTold
  BY DEF OnlyTheFileIsTold, AckInv
<1> QED
  BY <1>1, AckInvariance, AckAfterFsync, PublishAfterFsync, PTL

(* However many crashes, torn lines, failed writes and half-finished        *)
(* snapshots a room has seen, its files are never refused, a restart        *)
(* rebuilds the document, the ACKs and the sequence numbers of the whole    *)
(* log, and what readers of the durable state see is the history up to the  *)
(* frontier (persistent-room.ts:88-178, 349-367).                           *)
THEOREM RestartsFaithfully == Spec => []RecoveryIsFaithful
<1>1. IInv /\ RestartInv => RecoveryIsFaithful
  BY RestartTellsTheLog, FrontierTellsTheLog DEF RecoveryIsFaithful
<1> QED
  BY <1>1, Invariance, RestartInvariance, PTL
=============================================================================
